--------------------------- MODULE RunEventStream ---------------------------
(***************************************************************************)
(* run-event-stream.service.ts: the events of a run pass through one bounded *)
(* queue to a fiber that frames them and writes each as a line to the stream *)
(* file and, in machine mode, to stdout.  Nothing follows the first terminal *)
(* event.  conclude-run.cell.ts adds the terminal event that is missing,     *)
(* ends the queue and waits for the fiber.                                  *)
(*                                                                         *)
(* The queue of the effect library is external: an offer waits while it is  *)
(* full, and what was offered before it was ended is still taken.           *)
(***************************************************************************)
EXTENDS Integers, Sequences, SequencesExt

CONSTANTS Fibers,        \* the fibers of a run that offer an event: mutants
          Bound,         \* QUEUE_BOUND
          Ahead,         \* events that Stream.merge holds between queue and framing
          MaxTicks,      \* bound on the heartbeats of a run
          StdoutBreaks   \* whether writing to stdout may fail

\* The events beside those of the fibers, which bear their names.
Terminals == {"verdict", "nullVerdict", "error", "help"}
Events == Fibers \cup Terminals \cup {"stream", "tick"}

ASSUME EventStreamAssumption ==
  /\ Bound \in Nat \ {0} /\ Ahead \in Nat \ {0} /\ MaxTicks \in Nat
  /\ StdoutBreaks \in BOOLEAN
  /\ Fibers \cap (Terminals \cup {"stream", "tick", "none"}) = {}

VARIABLES
  machine,       \* the output mode
  stage,         \* where the command stands
  outcome,       \* how it came out: ok, help or failed
  answer,        \* the terminal event its conclusion adds, or none
  queue,         \* the bounded queue
  ended,         \* Queue.end was called
  terminalSeen,  \* of FramingState
  drain,         \* the drain fiber: none, running, ended or dead
  pulled,        \* what merge holds
  tick,          \* whether a heartbeat has passed its filter
  ticks,         \* how many have
  line,          \* the event being written, or none
  place,         \* and where to
  file,          \* the lines of the stream file
  fileFailed,    \* the Ref of that name, or the file was not opened
  stdout,        \* the lines of stdout
  offered,       \* history: what the queue accepted
  framed         \* history: what was framed

command == <<stage, outcome, answer>>
merged == <<pulled, tick, ticks>>
sinks == <<line, place, file, fileFailed, stdout>>
vars == <<machine, command, queue, ended, terminalSeen, drain, merged, sinks, offered, framed>>

Init ==
  /\ machine \in BOOLEAN
  /\ stage = "request" /\ outcome = "none" /\ answer = "none"
  /\ queue = <<>> /\ ended = FALSE
  /\ terminalSeen = FALSE
  /\ drain = "none"
  /\ pulled = <<>> /\ tick = FALSE /\ ticks = 0
  /\ line = "none" /\ place = "file"
  /\ file = <<>> /\ fileFailed = FALSE /\ stdout = <<>>
  /\ offered = <<>> /\ framed = <<>>

-----------------------------------------------------------------------------
(* The command and its run.                                                *)

\* Queue.offer, which waits for room.
Offer(e) ==
  /\ Len(queue) < Bound
  /\ queue' = Append(queue, e)
  /\ offered' = Append(offered, e)

\* startDrain and openHeader; the file may not be had.
OpenStream ==
  /\ drain' = "running"
  /\ fileFailed' \in BOOLEAN
  /\ IF machine THEN Offer("stream") ELSE UNCHANGED <<queue, offered>>

Open ==
  /\ stage = "request"
  /\ stage' = "running"
  /\ OpenStream
  /\ UNCHANGED <<machine, outcome, answer, ended, terminalSeen, merged, line, place, file,
                 stdout, framed>>

\* The command has come to an end of its own, by an error, or by an interrupt.
Answered(o) ==
  /\ stage' = "answered"
  /\ outcome' = o
  /\ UNCHANGED <<machine, answer, ended, terminalSeen, drain, merged, sinks, framed>>

\* It asks for help, or cannot be parsed.
NoRequest ==
  /\ stage = "request"
  /\ \E o \in {"help", "failed"} : Answered(o)
  /\ UNCHANGED <<queue, offered>>

FiberOffer(f) ==
  /\ stage = "running"
  /\ ~Contains(offered, f)
  /\ Offer(f)
  /\ UNCHANGED <<machine, command, ended, terminalSeen, drain, merged, sinks, framed>>

\* helpPayload: what a command printed is its help.
Succeed == \E o \in {"ok", "help"} : Answered(o)

\* A command that runs no mutant: one that has no verdict of its own.
NoRun ==
  /\ stage = "running" /\ \A f \in Fibers : ~Contains(offered, f)
  /\ Succeed
  /\ UNCHANGED <<queue, offered>>

\* reportNoSurvivors.
NoSurvivors ==
  /\ stage = "running" /\ \A f \in Fibers : ~Contains(offered, f)
  /\ Offer("nullVerdict")
  /\ Succeed

\* emitVerdict, once every mutant has settled.
EmitVerdict ==
  /\ stage = "running" /\ \A f \in Fibers : Contains(offered, f)
  /\ Offer("verdict")
  /\ stage' = "reporting"
  /\ UNCHANGED <<machine, outcome, answer, ended, terminalSeen, drain, merged, sinks, framed>>

\* writeReproducers and writeIncrementalReport.
WriteReports ==
  /\ stage = "reporting"
  /\ Succeed
  /\ UNCHANGED <<queue, offered>>

Fail ==
  /\ stage \in {"running", "reporting"}
  /\ Answered("failed")
  /\ UNCHANGED <<queue, offered>>

-----------------------------------------------------------------------------
(* concludeRunCell, which cannot be interrupted.                           *)

\* readConclusion opens the stream if the command has not.
Conclude ==
  /\ stage = "answered"
  /\ stage' = "concluding"
  /\ IF drain = "none" THEN OpenStream ELSE UNCHANGED <<drain, fileFailed, queue, offered>>
  /\ UNCHANGED <<machine, outcome, answer, ended, terminalSeen, merged, line, place, file,
                 stdout, framed>>

\* Faulty: events that are still queued count as an answer.
IsOpenQuiet == machine /\ ~terminalSeen /\ ~ended /\ queue = <<>>

\* isStreamOpen: whether the drain has framed a terminal event yet.
IsOpen == machine /\ ~terminalSeen /\ ~ended

\* emitMachineModeOutput, up to its offer.
ChooseAnswer ==
  /\ stage = "concluding"
  /\ stage' = "emitting"
  /\ answer' = CASE ~machine -> "none"
                 [] machine /\ outcome = "help" -> "help"
                 [] machine /\ outcome = "failed" -> "error"
                 [] machine /\ outcome \notin {"help", "failed"} ->
                      IF IsOpen THEN "nullVerdict" ELSE "none"
  /\ UNCHANGED <<machine, outcome, queue, ended, terminalSeen, drain, merged, sinks, offered, framed>>

Emit ==
  /\ stage = "emitting"
  /\ IF answer = "none" THEN UNCHANGED <<queue, offered>> ELSE Offer(answer)
  /\ stage' = "closing"
  /\ UNCHANGED <<machine, outcome, answer, ended, terminalSeen, drain, merged, sinks, framed>>

\* Faulty: the queue is shut down with what it holds.
CloseDropping ==
  /\ stage = "closing"
  /\ ended' = TRUE
  /\ queue' = <<>>
  /\ stage' = "joining"
  /\ UNCHANGED <<machine, outcome, answer, terminalSeen, drain, merged, sinks, offered, framed>>

\* Faulty: the queue is not ended.
CloseUnended ==
  /\ stage = "closing"
  /\ stage' = "joining"
  /\ UNCHANGED <<machine, outcome, answer, queue, ended, terminalSeen, drain, merged, sinks, offered, framed>>

\* closeAndDrainStream: it is marked as closed and its queue ended,
Close ==
  /\ stage = "closing"
  /\ ended' = TRUE
  /\ stage' = "joining"
  /\ UNCHANGED <<machine, outcome, answer, queue, terminalSeen, drain, merged, sinks, offered, framed>>

\* and the drain fiber joined.
Join ==
  /\ stage = "joining" /\ drain \in {"ended", "dead"}
  /\ stage' = "exited"
  /\ UNCHANGED <<machine, outcome, answer, queue, ended, terminalSeen, drain, merged, sinks, offered, framed>>

CommandStep ==
  \/ Open \/ NoRequest \/ NoRun \/ NoSurvivors \/ EmitVerdict \/ WriteReports \/ Fail
  \/ Conclude \/ ChooseAnswer \/ Emit \/ Close \/ Join

-----------------------------------------------------------------------------
(* The drain.                                                              *)

\* Stream.merge takes from the queue and from the heartbeats.
Pull ==
  /\ drain = "running"
  /\ queue # <<>> /\ Len(pulled) < Ahead
  /\ pulled' = Append(pulled, Head(queue))
  /\ queue' = Tail(queue)
  /\ UNCHANGED <<machine, command, ended, terminalSeen, drain, tick, ticks, sinks, offered, framed>>

\* tickEnabled, every TICK_INTERVAL_MS,
TickDue ==
  /\ drain = "running"
  /\ ~tick /\ ticks < MaxTicks
  /\ IsOpen
  /\ tick' = TRUE /\ ticks' = ticks + 1
  /\ UNCHANGED <<machine, command, queue, ended, terminalSeen, drain, pulled, sinks, offered, framed>>

\* and heartbeatTick after it, which does not ask again.
Tick ==
  /\ drain = "running"
  /\ tick /\ Len(pulled) < Ahead
  /\ tick' = FALSE
  /\ pulled' = Append(pulled, "tick")
  /\ UNCHANGED <<machine, command, queue, ended, terminalSeen, drain, ticks, sinks, offered, framed>>

\* Faulty: every event is framed.
FrameAll ==
  /\ drain = "running"
  /\ line = "none" /\ pulled # <<>>
  /\ pulled' = Tail(pulled)
  /\ terminalSeen' = (terminalSeen \/ Head(pulled) \in Terminals)
  /\ line' = Head(pulled) /\ place' = "file" /\ framed' = Append(framed, Head(pulled))
  /\ UNCHANGED <<machine, command, queue, ended, drain, tick, ticks, file, fileFailed, stdout, offered>>

\* frameRunEvent: after a terminal event the others are suppressed.
Frame ==
  /\ drain = "running"
  /\ line = "none" /\ pulled # <<>>
  /\ pulled' = Tail(pulled)
  /\ terminalSeen' = (terminalSeen \/ Head(pulled) \in Terminals)
  /\ IF terminalSeen
     THEN UNCHANGED <<line, place, framed>>
     ELSE line' = Head(pulled) /\ place' = "file" /\ framed' = Append(framed, Head(pulled))
  /\ UNCHANGED <<machine, command, queue, ended, drain, tick, ticks, file, fileFailed, stdout, offered>>

NextPlace == IF machine THEN place' = "stdout" /\ UNCHANGED line
                        ELSE line' = "none" /\ UNCHANGED place

\* Faulty: a failure to write is forgotten with its line.
WriteFileAgain ==
  /\ drain = "running"
  /\ line # "none" /\ place = "file"
  /\ file' \in {file, Append(file, line)}
  /\ NextPlace
  /\ UNCHANGED <<machine, command, queue, ended, terminalSeen, drain, merged, fileFailed, stdout, offered, framed>>

\* writeLineOf: once writing has failed, with or without the line in the file,
\* no more is written there.
WriteFile ==
  /\ drain = "running"
  /\ line # "none" /\ place = "file"
  /\ IF fileFailed
     THEN UNCHANGED <<file, fileFailed>>
     ELSE \/ file' = Append(file, line) /\ fileFailed' \in BOOLEAN
          \/ file' = file /\ fileFailed' = TRUE
  /\ NextPlace
  /\ UNCHANGED <<machine, command, queue, ended, terminalSeen, drain, merged, stdout, offered, framed>>

\* runToSink: a failure of stdout ends the fiber, and nobody takes from the
\* queue any more.
WriteStdout ==
  /\ drain = "running"
  /\ line # "none" /\ place = "stdout"
  /\ \/ stdout' = Append(stdout, line) /\ line' = "none" /\ UNCHANGED drain
     \/ StdoutBreaks /\ drain' = "dead" /\ UNCHANGED <<stdout, line>>
  /\ UNCHANGED <<machine, command, queue, ended, terminalSeen, merged, place, file, fileFailed,
                 offered, framed>>

\* The merged stream halts with the queue.
EndOfStream ==
  /\ drain = "running"
  /\ ended /\ queue = <<>> /\ pulled = <<>> /\ line = "none"
  /\ drain' = "ended"
  /\ UNCHANGED <<machine, command, queue, ended, terminalSeen, merged, sinks, offered, framed>>

DrainStep == Pull \/ TickDue \/ Tick \/ Frame \/ WriteFile \/ WriteStdout \/ EndOfStream

Exited == stage = "exited" /\ UNCHANGED vars

Next ==
  \/ CommandStep
  \/ \E f \in Fibers : FiberOffer(f)
  \/ DrainStep
  \/ Exited

Spec == Init /\ [][Next]_vars

\* The effect scheduler runs every fiber that is ready, and writes return.
FairSpec ==
  /\ Spec
  /\ WF_vars(CommandStep) /\ WF_vars(DrainStep)
  /\ \A f \in Fibers : WF_vars(FiberOffer(f))

-----------------------------------------------------------------------------
(* The properties.                                                         *)

ControlOK ==
  /\ machine \in BOOLEAN
  /\ stage \in {"request", "running", "reporting", "answered", "concluding", "emitting",
                "closing", "joining", "exited"}
  /\ outcome \in {"none", "ok", "help", "failed"}
  /\ answer \in Terminals \cup {"none"}
  /\ drain \in {"none", "running", "ended", "dead"}
  /\ place \in {"file", "stdout"}
  /\ ended \in BOOLEAN /\ terminalSeen \in BOOLEAN /\ tick \in BOOLEAN /\ fileFailed \in BOOLEAN

PipesOK ==
  /\ queue \in Seq(Events) /\ Len(queue) <= Bound
  /\ pulled \in Seq(Events) /\ Len(pulled) <= Ahead
  /\ ticks \in 0 .. MaxTicks

LinesOK ==
  /\ line \in Events \cup {"none"}
  /\ file \in Seq(Events) /\ stdout \in Seq(Events)
  /\ offered \in Seq(Events) /\ framed \in Seq(Events)

\* Every variable stays in its type, the queue and what merge holds within
\* their bounds.
TypeOK == ControlOK /\ PipesOK /\ LinesOK

\* A terminal event is the last line of what is written (frameRunEvent),
\* whatever is queued, merged or ticking behind it.
TerminalIsLast ==
  \A lines \in {file, stdout} : \A i \in DOMAIN lines :
    lines[i] \in Terminals => i = Len(lines)

\* The file holds the lines of the run up to where writing it failed
\* (writeLineOf): none is left out in between.
FileHasNoGap == IsPrefix(file, framed)

\* What a command that has exited has to say last: the verdict of its run, if
\* there was one, or how it came out.
LastWord ==
  IF Contains(offered, "verdict") THEN "verdict"
  ELSE IF outcome = "failed" THEN "error"
  ELSE IF outcome = "help" /\ ~Contains(offered, "nullVerdict") THEN "help"
  ELSE "nullVerdict"

\* A command in machine mode never exits without its last word on stdout, and
\* what its conclusion adds does not supplant the verdict (emitMachineModeOutput).
LastWordTold ==
  stage = "exited" /\ machine /\ drain = "ended" =>
    stdout # <<>> /\ Last(stdout) = LastWord

\* What is offered before the first terminal event.
Due ==
  {offered[i] : i \in {j \in DOMAIN offered :
                         \A k \in 1 .. j - 1 : offered[k] \notin Terminals}}

\* A command that exits has written every event it offered up to the terminal
\* one, though the drain lags behind (closeAndDrainStream).
AllWritten ==
  stage = "exited" /\ drain = "ended" =>
    /\ Due = ToSet(framed) \ {"tick"}
    /\ ~fileFailed => file = framed
    /\ machine => stdout = framed

\* A command exits, unless its stdout breaks, however small the queue is.
Exits == <>(stage = "exited" \/ drain = "dead")

\* It exits even then.
AlwaysExits == <>(stage = "exited")
=============================================================================
