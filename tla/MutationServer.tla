---------------------------- MODULE MutationServer ----------------------------
(***************************************************************************)
(* Serve.cell.ts: the Mutation Server Protocol over standard streams or      *)
(* sockets.  Each frame of a connection is handled by a fiber of its own; a  *)
(* mutation test runs the engine, whose events pass through a bounded queue  *)
(* to a fiber that writes them as progress notifications.                    *)
(*                                                                         *)
(* The engine is an actor of its own, as it is for withEngine: it offers     *)
(* events, and comes to an end or fails.  Fibers, streams and queues of the  *)
(* effect library are external.                                              *)
(***************************************************************************)
EXTENDS MspFraming, SequencesExt

CONSTANTS Connections,
          Scripts,        \* the messages a client may send, in order
          MaxEvents,      \* bound on the mutantTested events of a run
          Bound,          \* QUEUE_BOUND
          OutputBreaks    \* whether writing to a connection may fail

\* Requests and the answer each method gets, notifications (they have no id), and
\* messages that are no JSON-RPC requests or have no length in their header.
AllKinds == {"mutationTest", "discover", "configure", "unknown", "invalid",
             "notification", "undecodable", "headerless"}
Requests == AllKinds \ {"notification", "undecodable", "headerless"}
RunsEngine == {"mutationTest", "discover"}

ASSUME ServerAssumption ==
  /\ Scripts \subseteq Seq(AllKinds)
  /\ MaxEvents \in Nat /\ Bound \in Nat \ {0}
  /\ OutputBreaks \in BOOLEAN

VARIABLES
  sent,       \* history: the kinds of the messages of a connection, in order
  wire,       \* the tokens on their way
  buffer,     \* the Ref decoder
  ended,      \* whether the client has closed its side
  serving,    \* serveConnection: open, joining or closed
  busy,       \* the Ref of that name
  handlers,   \* the FiberSet of that name, in the order of the frames
  broken,     \* whether writes to the connection fail
  out         \* what was written to it

input == <<sent, wire, ended>>
vars == <<input, buffer, serving, busy, handlers, broken, out>>

Init ==
  /\ sent = [c \in Connections |-> <<>>]
  /\ wire = [c \in Connections |-> <<>>]
  /\ buffer = [c \in Connections |-> <<>>]
  /\ ended = [c \in Connections |-> FALSE]
  /\ serving = [c \in Connections |-> "open"]
  /\ busy = [c \in Connections |-> FALSE]
  /\ handlers = [c \in Connections |-> <<>>]
  /\ broken = [c \in Connections |-> FALSE]
  /\ out = [c \in Connections |-> <<>>]

-----------------------------------------------------------------------------
(* The client, and its bytes.                                              *)

\* The body of message i, which holds an empty line of its own.
Body(i) == <<Blank, Content(i)>>

Bytes(kind, i) ==
  IF kind = "headerless" THEN <<Blank>> ELSE FrameOf(Body(i))

Send(c) ==
  /\ ~ended[c]
  /\ \E kind \in AllKinds :
       /\ \E script \in Scripts : IsPrefix(Append(sent[c], kind), script)
       /\ sent' = [sent EXCEPT ![c] = Append(@, kind)]
       /\ wire' = [wire EXCEPT ![c] = @ \o Bytes(kind, Len(sent[c]) + 1)]
  /\ UNCHANGED <<ended, buffer, serving, busy, handlers, broken, out>>

Hangup(c) ==
  /\ ~ended[c]
  /\ ended' = [ended EXCEPT ![c] = TRUE]
  /\ UNCHANGED <<sent, wire, buffer, serving, busy, handlers, broken, out>>

\* Nobody reads the answers any more.
Break(c) ==
  /\ OutputBreaks /\ ~broken[c]
  /\ broken' = [broken EXCEPT ![c] = TRUE]
  /\ UNCHANGED <<input, buffer, serving, busy, handlers, out>>

\* The message a frame is the body of, or 0.
MessageOf(c, frame) ==
  LET same == {i \in DOMAIN sent[c] : frame = Body(i)}
  IN IF same = {} THEN 0 ELSE CHOOSE i \in same : TRUE

Fiber(message) ==
  [message |-> message, at |-> "frame", decision |-> "none", holds |-> FALSE,
   queue |-> 0, offered |-> 0, consumer |-> "alive", answer |-> "none"]

ParseError == [to |-> 0, what |-> "parseError"]

\* A chunk of n tokens has come: framing errors are answered, and each frame gets
\* a fiber.  When the answer cannot be written the connection is given up.
Read(c, n) ==
  /\ serving[c] = "open"
  /\ LET step == ReadFrames(buffer[c] \o SubSeq(wire[c], 1, n))
     IN /\ buffer' = [buffer EXCEPT ![c] = step.rest]
        /\ IF broken[c] /\ step.errors > 0
           THEN /\ serving' = [serving EXCEPT ![c] = "closed"]
                /\ UNCHANGED <<handlers, out>>
           ELSE /\ handlers' = [handlers EXCEPT ![c] =
                     @ \o [k \in DOMAIN step.frames |-> Fiber(MessageOf(c, step.frames[k]))]]
                /\ out' = [out EXCEPT ![c] = @ \o [e \in 1 .. step.errors |-> ParseError]]
                /\ UNCHANGED serving
  /\ wire' = [wire EXCEPT ![c] = SubSeq(@, n + 1, Len(@))]
  /\ UNCHANGED <<sent, ended, busy, broken>>

-----------------------------------------------------------------------------
(* The fiber k of a connection.                                            *)

At(c, k, place) ==
  /\ serving[c] # "closed"
  /\ handlers[c][k].at = place

KindOf(c, k) ==
  IF handlers[c][k].message = 0 THEN "undecodable" ELSE sent[c][handlers[c][k].message]

\* decideMspRequest, for a request that has an id.
Decision(kind, running) == IF running THEN "busy" ELSE kind

\* handleFrame and the first half of dispatchRequest: what is no request is
\* answered or ignored, the others are decided by the flag as it is now.
HandleFrame(c, k) ==
  /\ At(c, k, "frame")
  /\ handlers' = [handlers EXCEPT ![c][k] =
       CASE KindOf(c, k) = "undecodable" ->
              [@ EXCEPT !.at = "answering", !.answer = "parseError"]
         [] KindOf(c, k) = "notification" -> [@ EXCEPT !.at = "done"]
         [] OTHER ->
              [@ EXCEPT !.at = "decided", !.decision = Decision(KindOf(c, k), busy[c])]]
  /\ UNCHANGED <<input, buffer, serving, busy, broken, out>>

AnswerTo(decision) ==
  CASE decision = "busy" -> "busy"
    [] decision = "configure" -> "result"
    [] decision = "unknown" -> "methodNotFound"
    [] decision = "invalid" -> "invalidParams"

\* Faulty: the flag is set, and not looked at again.
ClaimBlindly(c, k) ==
  /\ At(c, k, "decided")
  /\ LET decision == handlers[c][k].decision
         starts == decision = "mutationTest"
     IN /\ handlers' = [handlers EXCEPT ![c][k] =
             IF decision \in RunsEngine
             THEN [@ EXCEPT !.at = "running", !.holds = starts]
             ELSE [@ EXCEPT !.at = "answering", !.answer = AnswerTo(decision)]]
        /\ busy' = [busy EXCEPT ![c] = @ \/ starts]
  /\ UNCHANGED <<input, buffer, serving, broken, out>>

\* The second half: a mutation test claims the flag, and only one does.
Claim(c, k) ==
  /\ At(c, k, "decided")
  /\ LET decision == handlers[c][k].decision
         starts == decision = "mutationTest"
     IN /\ handlers' = [handlers EXCEPT ![c][k] =
             IF starts /\ busy[c] THEN [@ EXCEPT !.at = "answering", !.answer = "busy"]
             ELSE IF decision \in RunsEngine
                  THEN [@ EXCEPT !.at = "running", !.holds = starts]
                  ELSE [@ EXCEPT !.at = "answering", !.answer = AnswerTo(decision)]]
        /\ busy' = [busy EXCEPT ![c] = @ \/ starts]
  /\ UNCHANGED <<input, buffer, serving, broken, out>>

\* The engine of a mutation test tells of a mutant, when the queue has room.
EngineOffers(c, k) ==
  /\ At(c, k, "running")
  /\ handlers[c][k].decision = "mutationTest"
  /\ handlers[c][k].offered < MaxEvents /\ handlers[c][k].queue < Bound
  /\ handlers' = [handlers EXCEPT ![c][k].queue = @ + 1, ![c][k].offered = @ + 1]
  /\ UNCHANGED <<input, buffer, serving, busy, broken, out>>

\* The stage ends or fails, and the queue of its events is ended.
EngineEnds(c, k) ==
  /\ At(c, k, "running")
  /\ \E answer \in {"result", "internalError"} :
       handlers' = [handlers EXCEPT ![c][k].at = "draining", ![c][k].answer = answer]
  /\ UNCHANGED <<input, buffer, serving, busy, broken, out>>

\* The consumer writes a progress notification; it dies when it cannot.
Notify(c, k) ==
  /\ serving[c] # "closed"
  /\ handlers[c][k].queue > 0 /\ handlers[c][k].consumer = "alive"
  /\ IF broken[c]
     THEN /\ handlers' = [handlers EXCEPT ![c][k].queue = @ - 1, ![c][k].consumer = "dead"]
          /\ UNCHANGED out
     ELSE /\ handlers' = [handlers EXCEPT ![c][k].queue = @ - 1]
          /\ out' = [out EXCEPT ![c] =
               Append(@, [to |-> handlers[c][k].message, what |-> "progress"])]
  /\ UNCHANGED <<input, buffer, serving, busy, broken>>

\* Faulty: nobody waits for the consumer.
DrainedAtOnce(c, k) ==
  /\ At(c, k, "draining")
  /\ handlers' = [handlers EXCEPT ![c][k].at = "answering"]
  /\ UNCHANGED <<input, buffer, serving, busy, broken, out>>

\* withEngine waits for the consumer, whatever became of it.
Drained(c, k) ==
  /\ At(c, k, "draining")
  /\ handlers[c][k].queue = 0 \/ handlers[c][k].consumer = "dead"
  /\ handlers' = [handlers EXCEPT ![c][k].at = "answering"]
  /\ UNCHANGED <<input, buffer, serving, busy, broken, out>>

\* The id an answer bears: a message that is no request has none.
IdOf(c, k) == IF KindOf(c, k) = "undecodable" THEN 0 ELSE handlers[c][k].message

\* respond and respondError.
Answer(c, k) ==
  /\ At(c, k, "answering")
  /\ handlers' = [handlers EXCEPT ![c][k].at = IF broken[c] THEN "failing" ELSE "releasing"]
  /\ out' = IF broken[c] THEN out
            ELSE [out EXCEPT ![c] =
                   Append(@, [to |-> IdOf(c, k), what |-> handlers[c][k].answer])]
  /\ UNCHANGED <<input, buffer, serving, busy, broken>>

\* releaseRun: only after the answer was written.
Release(c, k) ==
  /\ At(c, k, "releasing") \/ At(c, k, "failing")
  /\ handlers' = [handlers EXCEPT ![c][k].at = IF @ = "failing" THEN "failed" ELSE "done"]
  /\ busy' = IF handlers[c][k].holds THEN [busy EXCEPT ![c] = FALSE] ELSE busy
  /\ UNCHANGED <<input, buffer, serving, broken, out>>

HandlerStep(c, k) ==
  \/ HandleFrame(c, k) \/ Claim(c, k) \/ Drained(c, k) \/ Answer(c, k) \/ Release(c, k)

-----------------------------------------------------------------------------
(* The end of a connection.                                                *)

\* The client has hung up, and all it sent was read.
EndOfChunks(c) ==
  /\ serving[c] = "open" /\ ended[c] /\ wire[c] = <<>>
  /\ serving' = [serving EXCEPT ![c] = "joining"]
  /\ UNCHANGED <<input, buffer, busy, handlers, broken, out>>

\* FiberSet.join ends with the first fiber that fails, or when all are done; the
\* scope of the connection then interrupts the others.
Joined(c) ==
  /\ serving[c] = "joining"
  /\ \/ \E k \in DOMAIN handlers[c] : handlers[c][k].at = "failed"
     \/ \A k \in DOMAIN handlers[c] : handlers[c][k].at = "done"
  /\ serving' = [serving EXCEPT ![c] = "closed"]
  /\ UNCHANGED <<input, buffer, busy, handlers, broken, out>>

ReadSome(c) == \E n \in 1 .. Len(wire[c]) : Read(c, n)
Handle(c) == \E k \in DOMAIN handlers[c] : HandlerStep(c, k)
Engine(c) == \E k \in DOMAIN handlers[c] : EngineOffers(c, k) \/ EngineEnds(c, k)
RunEnds(c) ==
  \E k \in DOMAIN handlers[c] : handlers[c][k].consumer = "alive" /\ EngineEnds(c, k)
Progress(c) == \E k \in DOMAIN handlers[c] : Notify(c, k)

Next ==
  \E c \in Connections :
    \/ Send(c) \/ Hangup(c) \/ Break(c)
    \/ ReadSome(c) \/ EndOfChunks(c) \/ Joined(c)
    \/ Handle(c) \/ Engine(c) \/ Progress(c)

Spec == Init /\ [][Next]_vars

\* Bytes arrive, the scheduler runs a fiber that is ready, writes return, and the
\* engine ends a run whose events are taken.  Nothing here goes on for ever, so
\* that some step is taken is enough.
FairSpec ==
  /\ Spec
  /\ \A c \in Connections :
       WF_vars(ReadSome(c) \/ Handle(c) \/ RunEnds(c) \/ Progress(c))

-----------------------------------------------------------------------------
(* The properties.                                                         *)

Places == {"frame", "decided", "running", "draining", "answering", "releasing",
           "failing", "failed", "done"}
Answers == {"result", "internalError", "busy", "methodNotFound", "invalidParams", "parseError"}

Fibers ==
  [message : Nat, at : Places, decision : Requests \cup {"busy", "none"},
   holds : BOOLEAN, queue : 0 .. Bound, offered : 0 .. MaxEvents,
   consumer : {"alive", "dead"}, answer : Answers \cup {"none"}]

Lines == [to : Nat, what : Answers \cup {"progress"}]

\* Every variable stays in its type, the queue of every run within its bound.
TypeOK ==
  /\ sent \in [Connections -> Seq(AllKinds)]
  /\ wire \in [Connections -> Seq(Tokens)] /\ buffer \in [Connections -> Seq(Tokens)]
  /\ ended \in [Connections -> BOOLEAN] /\ broken \in [Connections -> BOOLEAN]
  /\ serving \in [Connections -> {"open", "joining", "closed"}]
  /\ busy \in [Connections -> BOOLEAN]
  /\ handlers \in [Connections -> Seq(Fibers)]
  /\ out \in [Connections -> Seq(Lines)]

\* The fibers of a connection that hold its flag.
Holders(c) ==
  {k \in DOMAIN handlers[c] : handlers[c][k].holds /\ handlers[c][k].at \notin {"done", "failed"}}

\* A connection has at most one mutation test, though requests are decided by a
\* flag that another may have claimed since (dispatchRequest); and it is told
\* that the server is busy only while there is one, however that one ends.
OneRun ==
  \A c \in Connections :
    /\ \A k, l \in Holders(c) : k = l
    /\ busy[c] <=> Holders(c) # {}

Written(c, i, whats) == {p \in DOMAIN out[c] : out[c][p].to = i /\ out[c][p].what \in whats}

\* All progress of a run is written before its answer (withEngine), and none is
\* left out, unless the connection broke.
ProgressBeforeAnswer ==
  \A c \in Connections : \A k \in DOMAIN handlers[c] :
    LET run == handlers[c][k]
        i == run.message
    IN i # 0 /\ KindOf(c, k) = "mutationTest" =>
         \A p \in Written(c, i, Answers) :
           /\ \A q \in Written(c, i, {"progress"}) : q < p
           /\ run.consumer = "alive" => Cardinality(Written(c, i, {"progress"})) = run.offered

AnswersOf(kind) ==
  CASE kind \in RunsEngine -> {"result", "internalError", "busy"}
    [] kind = "configure" -> {"result", "busy"}
    [] kind = "unknown" -> {"methodNotFound", "busy"}
    [] kind = "invalid" -> {"invalidParams", "busy"}
    [] OTHER -> {}

Malformed(c) == {i \in DOMAIN sent[c] : sent[c][i] \in {"undecodable", "headerless"}}

\* However its bytes are cut into chunks, a request gets one answer, of its
\* kind; what has no id gets none, and each malformed message at most one error.
AnswersRight ==
  \A c \in Connections :
    /\ \A i \in DOMAIN sent[c] :
         /\ Cardinality(Written(c, i, Answers)) <= 1
         /\ \A p \in Written(c, i, Answers) : out[c][p].what \in AnswersOf(sent[c][i])
    /\ Cardinality(Written(c, 0, Answers)) <= Cardinality(Malformed(c))

Pending(c) == {i \in DOMAIN sent[c] : sent[c][i] \in Requests /\ Written(c, i, Answers) = {}}

\* Every request is answered in the end, unless its connection breaks or closes
\* (a client sends finitely many, so there comes a time when none is pending).
EveryRequestAnswered ==
  \A c \in Connections : []<>(Pending(c) = {} \/ broken[c] \/ serving[c] = "closed")

\* What the head of Serve.cell.ts says: one run at a time, for the server.
OneRunPerServer ==
  \A c, d \in Connections :
    serving[c] # "closed" /\ serving[d] # "closed" /\ Holders(c) # {} /\ Holders(d) # {} => c = d
=============================================================================
