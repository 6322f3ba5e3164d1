--------------------------- MODULE MCMutationServer ---------------------------
(* MutationServer with one connection, and with two.                         *)
EXTENDS MutationServer

CONSTANTS c1, c2

OneConnection == {c1}
TwoConnections == {c1, c2}

\* Three mutation tests, and one beside every other kind of message.
MCScripts ==
  {<<"mutationTest", "mutationTest", "mutationTest">>,
   <<"mutationTest", "discover", "headerless">>,
   <<"configure", "mutationTest", "undecodable">>,
   <<"headerless", "mutationTest", "unknown">>,
   <<"notification", "mutationTest", "invalid">>}

OneTest == {<<"mutationTest">>}
=============================================================================
