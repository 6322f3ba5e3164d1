--------------------------- MODULE ReporterStream ---------------------------
(***************************************************************************)
(* reporter-stream.service.ts: the engine offers the events of a run to its  *)
(* reporters over one bounded channel each.  A reporter that does not take   *)
(* its events for 30 seconds, or ends before the final report, is detached,  *)
(* and the run goes on without it; a reporter that fails on the final report *)
(* fails the run.                                                           *)
(*                                                                         *)
(* The PubSub of the effect library is external: it delivers an event to    *)
(* who has subscribed, drops it when nobody has, lets a publisher wait while *)
(* it is full and refuses whoever publishes or waits once it is shut down.   *)
(***************************************************************************)
EXTENDS Integers, Sequences, FiniteSets

CONSTANTS Attachments,  \* the reporters, in the order of their attachments
          Testers,      \* the mutants that are tested at the same time
          Engine,       \* the fiber that offers the final report
          ChannelBound, \* REPORTER_STREAM_QUEUE_BOUND
          Batch         \* events a reporter handles at once: 1, or for one in
                        \* a worker REPORTER_EVENT_BATCH_BOUND

Reporters == {Attachments[i] : i \in DOMAIN Attachments}
Offerers == Testers \cup {Engine}

\* A mutant's one event, mutantTested, bears the name of its fiber; that of the
\* engine is mutationTestReportReady.
Report == Engine

ASSUME StreamAssumption ==
  /\ Attachments \in Seq(Reporters)
  /\ \A i, j \in DOMAIN Attachments : Attachments[i] = Attachments[j] => i = j
  /\ Engine \notin Testers
  /\ "early" \notin Offerers
  /\ ChannelBound \in Nat \ {0}
  /\ Batch \in [Reporters -> Nat \ {0}]

VARIABLES
  phase,      \* the engine: mutants, settling, closed or stopped
  at,         \* the attachment an offerer delivers its event to
  step,       \* and where in deliverReporterEvent it stands
  channel,    \* the events in the channel of a reporter
  shut,       \* whether it is shut down
  state,      \* its ReporterChannelState
  consumer,   \* the fiber of the reporter
  holding,    \* the events it has taken and not handled
  exit,       \* how it ended
  settlement, \* what settleAttachment made of it
  failure     \* history: what the reporter failed on

engine == <<phase, at, step, settlement>>
reporter_vars == <<engine, channel, shut, state, consumer, holding, exit, failure>>

ReporterInit ==
  /\ phase = "mutants"
  /\ at = [f \in Offerers |-> 1]
  /\ step = [f \in Offerers |-> "check"]
  /\ channel = [r \in Reporters |-> <<>>]
  /\ shut = [r \in Reporters |-> FALSE]
  /\ state = [r \in Reporters |->
       [terminalSeen |-> FALSE, terminalOffered |-> FALSE, detached |-> FALSE]]
  /\ consumer = [r \in Reporters |-> "starting"]
  /\ holding = [r \in Reporters |-> {}]
  /\ exit = [r \in Reporters |-> "none"]
  /\ settlement = [r \in Reporters |-> "none"]
  /\ failure = [r \in Reporters |-> "none"]

-----------------------------------------------------------------------------
(* offerReporterEvent: to one attachment after the other.                  *)

Target(f) == Attachments[at[f]]
Delivering(f) == at[f] \in DOMAIN Attachments
Offered(f) == ~Delivering(f)

\* The engine offers the report when the mutants have settled.
MayOffer(f) ==
  /\ phase = "mutants"
  /\ Delivering(f)
  /\ f = Engine => \A g \in Testers : Offered(g)

Subscribed(r) == consumer[r] \in {"reading", "handling"}
Full(r) == Subscribed(r) /\ Len(channel[r]) >= ChannelBound

NextAttachment(f) ==
  /\ at' = [at EXCEPT ![f] = @ + 1]
  /\ step' = [step EXCEPT ![f] = "check"]

\* deliverReporterEvent passes over a detached reporter.
Check(f) ==
  /\ MayOffer(f) /\ step[f] = "check"
  /\ IF state[Target(f)].detached
     THEN NextAttachment(f)
     ELSE step' = [step EXCEPT ![f] = "publishing"] /\ UNCHANGED at
  /\ UNCHANGED <<phase, settlement, channel, shut, state, consumer, holding, exit, failure>>

Accept(f, r) ==
  /\ channel' = IF Subscribed(r) THEN [channel EXCEPT ![r] = Append(@, f)] ELSE channel
  /\ state' = [state EXCEPT ![r].terminalOffered = @ \/ f = Report]
  /\ NextAttachment(f)

\* publish answers at once, or waits for room: Accept, then noteTerminalOffered.
Publish(f) ==
  /\ MayOffer(f) /\ step[f] \in {"publishing", "waiting"}
  /\ ~shut[Target(f)] /\ ~Full(Target(f))
  /\ Accept(f, Target(f))
  /\ UNCHANGED <<phase, settlement, shut, consumer, holding, exit, failure>>

Wait(f) ==
  /\ MayOffer(f) /\ step[f] = "publishing"
  /\ ~shut[Target(f)] /\ Full(Target(f))
  /\ step' = [step EXCEPT ![f] = "waiting"]
  /\ UNCHANGED <<phase, at, settlement, channel, shut, state, consumer, holding, exit, failure>>

\* The channel was shut down first: warnEventDropped.
Refuse(f) ==
  /\ MayOffer(f) /\ step[f] \in {"publishing", "waiting"}
  /\ shut[Target(f)]
  /\ NextAttachment(f)
  /\ UNCHANGED <<phase, settlement, channel, shut, state, consumer, holding, exit, failure>>

\* Faulty: a reporter that is cut off is not marked.
DetachedUnmarked(r) == state

\* markDetachedEffect, up to the shutdown; without effect once the reporter has
\* taken the report.
Detached(r) == [state EXCEPT ![r].detached = @ \/ ~state[r].terminalSeen]

\* Faulty: nothing ends the wait for a full channel.
StallNever(f) == FALSE /\ UNCHANGED reporter_vars

\* REPORTER_STALL_TIMEOUT is over.
Stall(f) ==
  /\ MayOffer(f) /\ step[f] = "waiting"
  /\ ~shut[Target(f)]
  /\ state' = Detached(Target(f))
  /\ IF state[Target(f)].terminalSeen
     THEN NextAttachment(f)
     ELSE step' = [step EXCEPT ![f] = "detaching"] /\ UNCHANGED at
  /\ UNCHANGED <<phase, settlement, channel, shut, consumer, holding, exit, failure>>

ShutDown(f) ==
  /\ MayOffer(f) /\ step[f] = "detaching"
  /\ shut' = [shut EXCEPT ![Target(f)] = TRUE]
  /\ NextAttachment(f)
  /\ UNCHANGED <<phase, settlement, channel, state, consumer, holding, exit, failure>>

OfferStep(f) == Check(f) \/ Publish(f) \/ Wait(f) \/ Refuse(f) \/ Stall(f) \/ ShutDown(f)

-----------------------------------------------------------------------------
(* The consumer of an attachment, in its own fiber or behind a worker.      *)

\* fromPubSub subscribes when the reporter asks for its first event; one in a
\* worker does so when its init has been answered.
Subscribe(r) ==
  /\ consumer[r] = "starting"
  /\ consumer' = [consumer EXCEPT ![r] = IF shut[r] THEN "finishing" ELSE "reading"]
  /\ UNCHANGED <<engine, channel, shut, state, holding, exit, failure>>

\* reporterEvents; Stream.grouped hands a batch on when it is full or the last.
Take(r) ==
  LET event == Head(channel[r])
      batch == holding[r] \cup {event}
  IN /\ consumer[r] = "reading" /\ channel[r] # <<>>
     /\ channel' = [channel EXCEPT ![r] = Tail(@)]
     /\ holding' = [holding EXCEPT ![r] = batch]
     /\ state' = [state EXCEPT ![r].terminalSeen = @ \/ event = Report]
     /\ consumer' = [consumer EXCEPT ![r] =
          IF event = Report \/ Cardinality(batch) = Batch[r] THEN "handling" ELSE "reading"]
     /\ UNCHANGED <<engine, shut, exit, failure>>

\* takeUntil ends the stream after the report.
Handle(r) ==
  /\ consumer[r] = "handling"
  /\ holding' = [holding EXCEPT ![r] = {}]
  /\ consumer' = [consumer EXCEPT ![r] = IF Report \in holding[r] THEN "finishing" ELSE "reading"]
  /\ UNCHANGED <<engine, channel, shut, state, exit, failure>>

\* A shutdown ends it as well, and what waited in the channel is dropped.
EndOfEvents(r) ==
  /\ consumer[r] = "reading" /\ shut[r]
  /\ consumer' = [consumer EXCEPT ![r] = IF holding[r] = {} THEN "finishing" ELSE "handling"]
  /\ channel' = [channel EXCEPT ![r] = <<>>]
  /\ UNCHANGED <<engine, shut, state, holding, exit, failure>>

\* What it may have failed on: an event it is handling, or what it does after
\* the report, as closing its file.
FailedOn(r) ==
  CASE consumer[r] = "handling" -> holding[r]
    [] consumer[r] = "finishing" /\ state[r].terminalSeen -> {Report}
    [] OTHER -> {"early"}

\* It ends by itself, and markDetachedEffect sees to its channel.
End(r) ==
  /\ consumer[r] \in {"starting", "reading", "handling", "finishing"}
  /\ \/ exit' = [exit EXCEPT ![r] = "completed"] /\ UNCHANGED failure
     \/ \E event \in FailedOn(r) :
          /\ exit' = [exit EXCEPT ![r] = "failed"]
          /\ failure' = [failure EXCEPT ![r] = IF event = Report THEN "report" ELSE "early"]
  /\ state' = Detached(r)
  /\ consumer' = [consumer EXCEPT ![r] = IF state[r].terminalSeen THEN "ended" ELSE "detaching"]
  /\ UNCHANGED <<engine, channel, shut, holding>>

ConsumerShutDown(r) ==
  /\ consumer[r] = "detaching"
  /\ shut' = [shut EXCEPT ![r] = TRUE]
  /\ consumer' = [consumer EXCEPT ![r] = "ended"]
  /\ UNCHANGED <<engine, channel, state, holding, exit, failure>>

ConsumerStep(r) ==
  Subscribe(r) \/ Take(r) \/ Handle(r) \/ EndOfEvents(r) \/ End(r) \/ ConsumerShutDown(r)

-----------------------------------------------------------------------------
(* closeReporterStage.                                                     *)

\* shutdownUnreportedChannel, for each attachment.
CloseStage ==
  /\ phase = "mutants" /\ \A f \in Offerers : Offered(f)
  /\ phase' = "settling"
  /\ shut' = [r \in Reporters |-> shut[r] \/ ~state[r].terminalOffered]
  /\ UNCHANGED <<at, step, settlement, channel, state, consumer, holding, exit, failure>>

\* Faulty: no failure is told from another.
OutcomeOfAny(r) == IF exit[r] = "completed" THEN "completed" ELSE "detached"

\* Faulty: a failure counts as one on the report when the report was offered.
OutcomeOfOffered(r) ==
  CASE exit[r] = "completed" -> "completed"
    [] exit[r] = "failed" /\ state[r].terminalOffered -> "terminal-failed"
    [] OTHER -> "detached"

\* settleAttachment joins the fiber of the consumer; settleFailedAttachment
\* tells a failure on the report from an earlier one.
OutcomeOf(r) ==
  CASE exit[r] = "completed" -> "completed"
    [] exit[r] = "failed" /\ state[r].terminalSeen -> "terminal-failed"
    [] OTHER -> "detached"

Settle(r) ==
  /\ phase = "settling" /\ settlement[r] = "none"
  /\ consumer[r] = "ended"
  /\ settlement' = [settlement EXCEPT ![r] = OutcomeOf(r)]
  /\ UNCHANGED <<phase, at, step, channel, shut, state, consumer, holding, exit, failure>>

\* REPORTER_STALL_TIMEOUT is over.
SettleStalled(r) ==
  /\ phase = "settling" /\ settlement[r] = "none"
  /\ consumer[r] # "ended"
  /\ settlement' = [settlement EXCEPT ![r] = "stalled"]
  /\ UNCHANGED <<phase, at, step, channel, shut, state, consumer, holding, exit, failure>>

\* terminalDrainClass has its answer, and the run its verdict.
Closed ==
  /\ phase = "settling" /\ \A r \in Reporters : settlement[r] # "none"
  /\ phase' = "closed"
  /\ UNCHANGED <<at, step, settlement, channel, shut, state, consumer, holding, exit, failure>>

EngineStep == CloseStage \/ Closed \/ \E r \in Reporters : Settle(r) \/ SettleStalled(r)

\* The run fails or is interrupted before its report: its scope ends all.
Stop ==
  /\ phase = "mutants" /\ \E f \in Testers : ~Offered(f)
  /\ phase' = "stopped"
  /\ UNCHANGED <<at, step, settlement, channel, shut, state, consumer, holding, exit, failure>>

Ended == phase \in {"closed", "stopped"} /\ UNCHANGED reporter_vars

ReporterNext ==
  \/ \E f \in Offerers : OfferStep(f)
  \/ phase \in {"mutants", "settling"} /\ \E r \in Reporters : ConsumerStep(r)
  \/ EngineStep
  \/ Stop
  \/ Ended

ReporterSpec == ReporterInit /\ [][ReporterNext]_reporter_vars

\* The engine's fibers run and its timers fire; no reporter has to do anything.
FairReporterSpec ==
  /\ ReporterSpec
  /\ \A f \in Offerers : WF_reporter_vars(OfferStep(f))
  /\ WF_reporter_vars(EngineStep)

-----------------------------------------------------------------------------
(* The properties.                                                         *)

\* Every variable stays in its type.
ReporterTypeOK ==
  /\ phase \in {"mutants", "settling", "closed", "stopped"}
  /\ at \in [Offerers -> 1 .. Len(Attachments) + 1]
  /\ step \in [Offerers -> {"check", "publishing", "waiting", "detaching"}]
  /\ channel \in [Reporters -> Seq(Offerers)]
  /\ \A r \in Reporters : Len(channel[r]) <= ChannelBound
  /\ shut \in [Reporters -> BOOLEAN]
  /\ state \in [Reporters ->
       [terminalSeen : BOOLEAN, terminalOffered : BOOLEAN, detached : BOOLEAN]]
  /\ consumer \in [Reporters ->
       {"starting", "reading", "handling", "finishing", "detaching", "ended"}]
  /\ holding \in [Reporters -> SUBSET Offerers]
  /\ exit \in [Reporters -> {"none", "completed", "failed"}]
  /\ settlement \in [Reporters ->
       {"none", "completed", "detached", "terminal-failed", "stalled"}]
  /\ failure \in [Reporters -> {"none", "early", "report"}]

\* When the stage is closed the report has been offered to every reporter that
\* was not detached (offerToChannel, markDetachedEffect): no channel is shut
\* down under a reporter that still reads.
ReportOffered ==
  phase \in {"settling", "closed"} =>
    \A r \in Reporters : state[r].terminalOffered \/ state[r].detached

\* A reporter that failed on the report fails the run, unless the engine had
\* stopped waiting for it; only a reporter that ended well counts as completed
\* (settleAttachment).
FailureTold ==
  \A r \in Reporters :
    settlement[r] \notin {"none", "stalled"} =>
      /\ failure[r] = "report" => settlement[r] = "terminal-failed"
      /\ failure[r] = "none" <=> settlement[r] = "completed"

\* A reporter that handles its events one by one and fails on an early one does
\* not fail the run (settleFailedAttachment), whatever waits in its channel.
EarlyFailureForgiven ==
  \A r \in Reporters :
    Batch[r] = 1 /\ settlement[r] = "terminal-failed" => failure[r] = "report"

\* The same of every reporter.
EveryEarlyFailureForgiven ==
  \A r \in Reporters : settlement[r] = "terminal-failed" => failure[r] = "report"

\* No reporter can hold up a run: it closes its reporters, or it has been
\* stopped, even if they take nothing and never end.
RunGoesOn == <>(phase \in {"closed", "stopped"})
=============================================================================
