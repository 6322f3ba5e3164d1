-------------------------- MODULE MCRunEventStream --------------------------
(* Two mutants behind a queue of one, and up to two heartbeats.            *)
EXTENDS RunEventStream

CONSTANTS f1, f2

MCFibers == {f1, f2}
=============================================================================
