------------------------ MODULE RunEventStreamProofs ------------------------
(***************************************************************************)
(* Proofs about RunEventStream, for any number of fibers and heartbeats and *)
(* every bound: what the two sinks hold follows from what has been framed,   *)
(* and how far the line in hand has come; what is framed from what was       *)
(* offered, and how far the drain has come.                                 *)
(*                                                                         *)
(* The second part is about the other way out of a run, the channels to its *)
(* reporters (ReporterStream): what is made of a reporter's failure, and     *)
(* that the report is offered to whoever still reads.                       *)
(***************************************************************************)
EXTENDS RunEventStream, ReporterStream, SequenceTheorems, FiniteSetTheorems, TLAPS

\* Whether the line in hand has still to go to the file.
ForFile == line # "none" /\ place = "file"

\* The file holds what was framed, but for the line in hand; once writing has
\* failed, some beginning of it.
FileFollows ==
  /\ Len(file) <= Len(framed)
  /\ \A i \in 1 .. Len(file) : file[i] = framed[i]
  /\ ~fileFailed => IF ForFile THEN framed = Append(file, line) ELSE file = framed

\* So does stdout, in machine mode.
StdoutFollows ==
  IF machine
  THEN IF line = "none" THEN stdout = framed ELSE framed = Append(stdout, line)
  ELSE stdout = <<>> /\ place = "file"

\* Nothing is framed behind a terminal event.
FramedEnds ==
  \A i \in 1 .. Len(framed) : framed[i] \in Terminals => i = Len(framed) /\ terminalSeen

\* Until the command has opened the stream there is nothing.
NotOpened ==
  /\ stage = "request" => drain = "none"
  /\ drain = "none" => file = <<>> /\ framed = <<>> /\ line = "none"

IInv == TypeOK /\ FileFollows /\ StdoutFollows /\ FramedEnds /\ NotOpened

-----------------------------------------------------------------------------
\* The stream is empty and unopened.
LEMMA InitIInv == Init => IInv
<1> SUFFICES ASSUME Init PROVE IInv
  OBVIOUS
<1>1. <<>> \in Seq(Events) /\ Len(<<>>) = 0
  OBVIOUS
<1>2. ControlOK
  BY DEF Init, ControlOK
<1>5. PipesOK /\ LinesOK
  BY <1>1, EventStreamAssumption DEF Init, PipesOK, LinesOK
<1>3. FileFollows /\ FramedEnds
  BY <1>1 DEF Init, FileFollows, ForFile, FramedEnds
<1>4. StdoutFollows /\ NotOpened
  BY DEF Init, StdoutFollows, NotOpened
<1> QED BY <1>2, <1>3, <1>4, <1>5 DEF IInv, TypeOK

\* The steps of the command and of the fibers of its run keep their types.
LEMMA CommandControl ==
  ASSUME ControlOK, CommandStep \/ \E f \in Fibers : FiberOffer(f) PROVE ControlOK'
<1>1. CASE Open \/ Conclude
  BY <1>1 DEF Open, Conclude, OpenStream, ControlOK, merged
<1>2. CASE NoRequest \/ NoRun \/ WriteReports \/ Fail \/ NoSurvivors
  BY <1>2 DEF NoRequest, NoRun, WriteReports, Fail, NoSurvivors, Succeed, Answered, ControlOK, merged, sinks
<1>3. CASE EmitVerdict \/ Emit \/ Close \/ Join
  BY <1>3 DEF EmitVerdict, Emit, Close, Join, ControlOK, merged, sinks
<1>4. CASE ChooseAnswer
  <2>1. answer' \in {"none", "help", "error", "nullVerdict"}
    <3>1. CASE ~machine
      BY <1>4, <3>1 DEF ChooseAnswer
    <3>2. CASE machine /\ outcome = "help"
      BY <1>4, <3>2 DEF ChooseAnswer
    <3>3. CASE machine /\ outcome = "failed"
      BY <1>4, <3>3 DEF ChooseAnswer
    <3>4. CASE machine /\ outcome \notin {"help", "failed"}
      <4>1. answer' \in {"nullVerdict", "none"}
        BY <1>4, <3>4 DEF ChooseAnswer
      <4> QED BY <4>1
    <3> QED BY <3>1, <3>2, <3>3, <3>4 DEF ControlOK
  <2> QED BY <1>4, <2>1 DEF ChooseAnswer, ControlOK, Terminals, merged, sinks
<1>5. CASE \E f \in Fibers : FiberOffer(f)
  BY <1>5 DEF FiberOffer, ControlOK, command, merged, sinks
<1> QED BY <1>1, <1>2, <1>3, <1>4, <1>5 DEF CommandStep

\* Whatever they offer fits into the queue.
LEMMA CommandPipes ==
  ASSUME TypeOK, CommandStep \/ \E f \in Fibers : FiberOffer(f)
  PROVE  PipesOK' /\ LinesOK'
<1>1. /\ UNCHANGED <<pulled, ticks, line, file, stdout, framed>>
      /\ (UNCHANGED <<queue, offered>>) \/ \E e \in Events : Offer(e)
  <2>1. CASE Open \/ Conclude
    BY <2>1 DEF Open, Conclude, OpenStream, merged, Events
  <2>2. CASE NoRequest \/ NoRun \/ WriteReports \/ Fail
    BY <2>2 DEF NoRequest, NoRun, WriteReports, Fail, Succeed, Answered, merged, sinks
  <2>3. CASE NoSurvivors \/ EmitVerdict
    BY <2>3 DEF NoSurvivors, EmitVerdict, Succeed, Answered, merged, sinks, Events, Terminals
  <2>4. CASE Emit
    BY <2>4 DEF Emit, merged, sinks, TypeOK, ControlOK, Events
  <2>5. CASE ChooseAnswer \/ Close \/ Join
    BY <2>5 DEF ChooseAnswer, Close, Join, merged, sinks
  <2>6. CASE \E f \in Fibers : FiberOffer(f)
    BY <2>6 DEF FiberOffer, merged, sinks, Events
  <2> QED BY <2>1, <2>2, <2>3, <2>4, <2>5, <2>6 DEF CommandStep
<1>2. CASE UNCHANGED <<queue, offered>>
  BY <1>1, <1>2 DEF TypeOK, PipesOK, LinesOK
<1>3. ASSUME NEW e \in Events, Offer(e) PROVE PipesOK' /\ LinesOK'
  <2>1. queue' \in Seq(Events) /\ Len(queue') <= Bound
    BY <1>3, EventStreamAssumption DEF Offer, TypeOK, PipesOK
  <2>2. offered' \in Seq(Events)
    BY <1>3 DEF Offer, TypeOK, LinesOK
  <2> QED BY <1>1, <2>1, <2>2 DEF TypeOK, PipesOK, LinesOK
<1> QED BY <1>1, <1>2, <1>3

\* The steps of the drain keep their types.
LEMMA DrainControl == ASSUME ControlOK, DrainStep PROVE ControlOK'
<1>1. CASE Pull \/ TickDue \/ Tick \/ EndOfStream
  BY <1>1 DEF Pull, TickDue, Tick, EndOfStream, ControlOK, command, sinks, merged
<1>2. CASE Frame
  <2>1. terminalSeen' \in BOOLEAN /\ place' \in {"file", "stdout"}
    BY <1>2 DEF Frame, ControlOK
  <2> QED BY <1>2, <2>1 DEF Frame, ControlOK, command
<1>3. CASE WriteFile
  <2>1. fileFailed' \in BOOLEAN /\ place' \in {"file", "stdout"}
    BY <1>3 DEF WriteFile, NextPlace, ControlOK
  <2> QED BY <1>3, <2>1 DEF WriteFile, ControlOK, command, merged
<1>4. CASE WriteStdout
  <2>1. drain' \in {"running", "dead"}
    BY <1>4 DEF WriteStdout
  <2> QED BY <1>4, <2>1 DEF WriteStdout, ControlOK, command, merged
<1> QED BY <1>1, <1>2, <1>3, <1>4 DEF DrainStep

\* What leaves the queue is merged, what is merged is framed, and what is framed
\* is written.
LEMMA DrainPipes == ASSUME TypeOK, DrainStep PROVE PipesOK' /\ LinesOK'
<1> USE EventStreamAssumption DEF TypeOK
<1>1. CASE Pull
  <2>1. /\ Head(queue) \in Events /\ Tail(queue) \in Seq(Events)
        /\ Len(Tail(queue)) = Len(queue) - 1 /\ Len(queue) \in Nat
    BY <1>1 DEF Pull, PipesOK
  <2>2. pulled' \in Seq(Events) /\ Len(pulled') <= Ahead
    BY <1>1, <2>1 DEF Pull, PipesOK
  <2>3. queue' \in Seq(Events) /\ Len(queue') <= Bound
    BY <1>1, <2>1 DEF Pull, PipesOK
  <2> QED BY <1>1, <2>2, <2>3 DEF Pull, PipesOK, LinesOK, sinks
<1>2. CASE TickDue
  BY <1>2 DEF TickDue, PipesOK, LinesOK, sinks
<1>3. CASE Tick
  <2>1. "tick" \in Events
    BY DEF Events
  <2>2. pulled' \in Seq(Events) /\ Len(pulled') <= Ahead
    BY <1>3, <2>1 DEF Tick, PipesOK
  <2> QED BY <1>3, <2>2 DEF Tick, PipesOK, LinesOK, sinks
<1>4. CASE Frame
  <2>1. /\ Head(pulled) \in Events /\ Tail(pulled) \in Seq(Events)
        /\ Len(Tail(pulled)) = Len(pulled) - 1 /\ Len(pulled) \in Nat
    BY <1>4 DEF Frame, PipesOK
  <2>2. line' \in Events \cup {"none"} /\ framed' \in Seq(Events)
    <3>1. CASE terminalSeen
      BY <1>4, <3>1 DEF Frame, LinesOK
    <3>2. CASE ~terminalSeen
      <4>1. line' = Head(pulled) /\ framed' = Append(framed, Head(pulled))
        BY <1>4, <3>2 DEF Frame
      <4>2. framed \in Seq(Events)
        BY DEF LinesOK
      <4>3. framed' \in Seq(Events)
        BY <4>1, <4>2, <2>1
      <4> QED BY <4>1, <4>3, <2>1
    <3> QED BY <3>1, <3>2
  <2>3. PipesOK'
    BY <1>4, <2>1 DEF Frame, PipesOK
  <2> QED BY <1>4, <2>2, <2>3 DEF Frame, LinesOK
<1>5. CASE WriteFile
  <2>1. file' = file \/ (file' = Append(file, line) /\ line # "none")
    BY <1>5 DEF WriteFile
  <2>2. file' \in Seq(Events)
    <3>1. file \in Seq(Events) /\ (line # "none" => line \in Events)
      BY DEF LinesOK
    <3>2. CASE file' = Append(file, line) /\ line \in Events
      BY <3>1, <3>2
    <3> QED BY <2>1, <3>1, <3>2
  <2>3. line' \in Events \cup {"none"}
    BY <1>5 DEF WriteFile, NextPlace, LinesOK
  <2> QED BY <1>5, <2>2, <2>3 DEF WriteFile, PipesOK, LinesOK, merged
<1>6. CASE WriteStdout
  <2>1. \/ stdout' = stdout /\ line' = line
        \/ stdout' = Append(stdout, line) /\ line # "none" /\ line' = "none"
    BY <1>6 DEF WriteStdout
  <2>2. stdout' \in Seq(Events) /\ line' \in Events \cup {"none"}
    <3>1. stdout \in Seq(Events) /\ line \in Events \cup {"none"}
      BY DEF LinesOK
    <3>2. CASE stdout' = Append(stdout, line) /\ line \in Events /\ line' = "none"
      <4>1. stdout' \in Seq(Events)
        BY <3>1, <3>2
      <4> QED BY <4>1, <3>2
    <3> QED BY <2>1, <3>1, <3>2
  <2> QED BY <1>6, <2>2 DEF WriteStdout, PipesOK, LinesOK, merged
<1>7. CASE EndOfStream
  BY <1>7 DEF EndOfStream, PipesOK, LinesOK, merged, sinks
<1> QED BY <1>1, <1>2, <1>3, <1>4, <1>5, <1>6, <1>7 DEF DrainStep

\* A step of the command leaves what was framed and written alone; it may find
\* the file closed to it when it opens the stream.
LEMMA CommandSinks ==
  ASSUME NotOpened, CommandStep \/ \E f \in Fibers : FiberOffer(f)
  PROVE  /\ UNCHANGED <<machine, terminalSeen, line, place, file, stdout, framed>>
         /\ drain' # "none" => (drain' = drain /\ fileFailed' = fileFailed) \/ drain = "none"
         /\ drain' = "none" => drain = "none" /\ fileFailed' = fileFailed
         /\ stage' # "request"
<1>1. CASE Open
  <2>1. UNCHANGED <<machine, terminalSeen, line, place, file, stdout, framed>>
    BY <1>1 DEF Open
  <2>2. drain = "none" /\ drain' = "running" /\ stage' = "running"
    BY <1>1 DEF Open, OpenStream, NotOpened
  <2> QED BY <2>1, <2>2
<1>2. CASE NoRequest \/ NoRun \/ WriteReports \/ Fail \/ NoSurvivors
  BY <1>2 DEF NoRequest, NoRun, WriteReports, Fail, NoSurvivors, Succeed, Answered, sinks
<1>3. CASE EmitVerdict \/ ChooseAnswer \/ Emit \/ Close \/ Join
  BY <1>3 DEF EmitVerdict, ChooseAnswer, Emit, Close, Join, sinks
<1>4. CASE Conclude
  BY <1>4 DEF Conclude, OpenStream, merged
<1>5. CASE \E f \in Fibers : FiberOffer(f)
  BY <1>5 DEF FiberOffer, command, sinks
<1> QED BY <1>1, <1>2, <1>3, <1>4, <1>5 DEF CommandStep

\* A step of the drain, as far as it concerns the sinks: it frames an event,
\* writes the line in hand to the file or to stdout, or does none of these.
LEMMA DrainSinks ==
  ASSUME IInv, DrainStep
  PROVE  FileFollows' /\ StdoutFollows' /\ FramedEnds' /\ NotOpened'
<1> USE DEF IInv
<1>0. drain = "running" /\ drain' # "none" /\ stage' = stage
  BY DEF DrainStep, Pull, TickDue, Tick, Frame, WriteFile, WriteStdout, EndOfStream, command
<1>1. NotOpened'
  BY <1>0 DEF NotOpened
<1>2. CASE Pull \/ TickDue \/ Tick \/ EndOfStream \/ (Frame /\ terminalSeen)
  <2>1. UNCHANGED <<machine, terminalSeen, sinks, framed>>
    BY <1>2 DEF Pull, TickDue, Tick, EndOfStream, Frame, TypeOK, ControlOK, sinks
  <2> QED BY <1>1, <2>1 DEF sinks, FileFollows, ForFile, StdoutFollows, FramedEnds
<1>3. CASE Frame /\ ~terminalSeen
  <2>1. PICK e \in Events :
          /\ e = Head(pulled) /\ line = "none"
          /\ terminalSeen' = (e \in Terminals)
          /\ line' = e /\ place' = "file" /\ framed' = Append(framed, e)
          /\ UNCHANGED <<machine, file, fileFailed, stdout>>
    <3>1. Head(pulled) \in Events
      BY <1>3 DEF Frame, TypeOK, PipesOK
    <3> QED BY <1>3, <3>1 DEF Frame, TypeOK, ControlOK
  <2>2. e # "none"
    BY EventStreamAssumption DEF Events, Terminals
  <2>3. /\ Len(framed') = Len(framed) + 1 /\ Len(framed) \in Nat /\ Len(file) \in Nat
        /\ \A i \in 1 .. Len(framed) : framed'[i] = framed[i]
        /\ framed'[Len(framed')] = e
    BY <2>1 DEF TypeOK, LinesOK
  <2>4. FileFollows'
    <3>1. Len(file') <= Len(framed') /\ \A i \in 1 .. Len(file') : file'[i] = framed'[i]
      BY <2>1, <2>3 DEF FileFollows
    <3>2. ~fileFailed' => ForFile' /\ framed' = Append(file', line')
      BY <2>1, <2>2 DEF FileFollows, ForFile
    <3> QED BY <3>1, <3>2 DEF FileFollows
  <2>5. StdoutFollows'
    BY <2>1, <2>2 DEF StdoutFollows
  <2>6. FramedEnds'
    <3>1. \A i \in 1 .. Len(framed) : framed[i] \notin Terminals
      BY <1>3 DEF FramedEnds
    <3>2. \A i \in 1 .. Len(framed') : framed'[i] \in Terminals => i = Len(framed')
      BY <2>3, <3>1
    <3> QED BY <2>1, <2>3, <3>2 DEF FramedEnds
  <2> QED BY <1>1, <2>4, <2>5, <2>6
<1>4. CASE WriteFile
  <2>1. /\ UNCHANGED <<machine, terminalSeen, stdout, framed>>
        /\ line # "none" /\ place = "file"
        /\ IF machine THEN place' = "stdout" /\ line' = line ELSE line' = "none" /\ place' = place
    BY <1>4 DEF WriteFile, NextPlace
  <2>2. ~ForFile'
    BY <2>1 DEF ForFile
  <2>3. FileFollows'
    <3>1. CASE UNCHANGED file /\ (fileFailed' \/ fileFailed)
      <4>1. fileFailed'
        BY <1>4, <3>1 DEF WriteFile
      <4> QED BY <3>1, <4>1, <2>1 DEF FileFollows
    <3>2. CASE file' = Append(file, line) /\ ~fileFailed
      <4>1. framed = file'
        BY <3>2, <2>1 DEF FileFollows, ForFile
      <4>2. Len(framed) \in Nat
        BY DEF TypeOK, LinesOK
      <4> QED BY <4>1, <4>2, <2>1, <2>2 DEF FileFollows
    <3> QED BY <1>4, <3>1, <3>2 DEF WriteFile
  <2>4. StdoutFollows' /\ FramedEnds'
    BY <2>1 DEF StdoutFollows, FramedEnds
  <2> QED BY <1>1, <2>3, <2>4
<1>5. CASE WriteStdout
  <2>1. /\ UNCHANGED <<machine, terminalSeen, place, file, fileFailed, framed>>
        /\ line # "none" /\ place = "stdout"
        /\ \/ stdout' = Append(stdout, line) /\ line' = "none"
           \/ stdout' = stdout /\ line' = line
    BY <1>5 DEF WriteStdout
  <2>2. FileFollows' /\ FramedEnds'
    BY <2>1 DEF FileFollows, ForFile, FramedEnds
  <2>3. StdoutFollows'
    BY <2>1 DEF StdoutFollows
  <2> QED BY <1>1, <2>2, <2>3
<1> QED BY <1>2, <1>3, <1>4, <1>5 DEF DrainStep

\* Every step keeps the invariant.
LEMMA NextIInv == IInv /\ [Next]_vars => IInv'
<1> SUFFICES ASSUME IInv, [Next]_vars PROVE IInv'
  OBVIOUS
<1> USE DEF IInv
<1>1. CASE CommandStep \/ \E f \in Fibers : FiberOffer(f)
  <2>1. TypeOK'
    BY <1>1, CommandControl, CommandPipes DEF TypeOK
  <2>2. StdoutFollows' /\ FramedEnds' /\ NotOpened'
    BY <1>1, CommandSinks DEF StdoutFollows, FramedEnds, NotOpened
  <2>3. FileFollows'
    <3>1. CASE fileFailed' = fileFailed
      BY <1>1, <3>1, CommandSinks DEF FileFollows, ForFile
    <3>2. CASE drain = "none"
      BY <1>1, <3>2, CommandSinks DEF FileFollows, ForFile, NotOpened
    <3> QED BY <1>1, <3>1, <3>2, CommandSinks
  <2> QED BY <2>1, <2>2, <2>3
<1>2. CASE DrainStep
  BY <1>2, DrainControl, DrainPipes, DrainSinks DEF TypeOK
<1>3. CASE Exited \/ UNCHANGED vars
  <2>1. UNCHANGED vars
    BY <1>3 DEF Exited
  <2> QED BY <2>1 DEF vars, command, merged, sinks, TypeOK, ControlOK, PipesOK, LinesOK,
                      FileFollows, ForFile, StdoutFollows, FramedEnds, NotOpened
<1> QED BY <1>1, <1>2, <1>3 DEF Next

\* The invariant holds in every state of the stream.
LEMMA Inductive == Spec => []IInv
BY InitIInv, NextIInv, PTL DEF Spec

-----------------------------------------------------------------------------
\* Every variable of the stream keeps its type and its bound.
THEOREM TypeCorrect == Spec => []TypeOK
<1>1. IInv => TypeOK
  BY DEF IInv
<1> QED BY <1>1, Inductive, PTL

\* The stream file never lacks a line that a later one follows, wherever writing
\* it failed (writeLineOf).
THEOREM NoGap == Spec => []FileHasNoGap
<1>1. IInv => FileHasNoGap
  <2> SUFFICES ASSUME IInv PROVE FileHasNoGap
    OBVIOUS
  <2>1. /\ file \in Seq(Events) /\ framed \in Seq(Events)
        /\ Len(file) \in Nat /\ Len(framed) \in Nat
        /\ Len(file) <= Len(framed) /\ \A i \in 1 .. Len(file) : file[i] = framed[i]
    BY DEF IInv, TypeOK, LinesOK, FileFollows
  <2>2. SubSeq(file, 1, Len(file)) = SubSeq(framed, 1, Len(file))
    BY <2>1, SubSeqProperties
  <2> QED BY <2>1, <2>2 DEF FileHasNoGap, IsPrefix
<1> QED BY <1>1, Inductive, PTL

\* Nothing is written behind a terminal event, whatever else the run, its
\* conclusion and the heartbeats put into the stream (frameRunEvent).
THEOREM TerminalLast == Spec => []TerminalIsLast
<1>1. IInv => TerminalIsLast
  <2> SUFFICES ASSUME IInv, NEW lines \in {file, stdout}, NEW i \in DOMAIN lines,
                      lines[i] \in Terminals
               PROVE  i = Len(lines)
    BY DEF TerminalIsLast
  <2>1. /\ file \in Seq(Events) /\ stdout \in Seq(Events) /\ framed \in Seq(Events)
    BY DEF IInv, TypeOK, LinesOK
  <2>2. lines \in Seq(Events) /\ i \in 1 .. Len(lines)
    BY <2>1
  <2>3. Len(lines) <= Len(framed) /\ lines[i] = framed[i]
    <3>1. CASE lines = file
      BY <3>1, <2>2 DEF IInv, FileFollows
    <3>2. CASE lines = stdout
      BY <3>2, <2>1, <2>2 DEF IInv, StdoutFollows
    <3> QED BY <3>1, <3>2
  <2>4. i = Len(framed)
    BY <2>1, <2>2, <2>3 DEF IInv, FramedEnds
  <2> QED BY <2>2, <2>3, <2>4, <2>1
<1> QED BY <1>1, Inductive, PTL

-----------------------------------------------------------------------------
(* What is framed, against what was offered.                               *)

\* How much of what was offered has left the queue.
Taken == Len(offered) - Len(queue)

\* The queue holds the rest of it.
QueueFollows ==
  /\ Len(queue) <= Len(offered)
  /\ \A i \in 1 .. Len(queue) : queue[i] = offered[Taken + i]

\* g counts the offered events up to each that is merged: heartbeats are none.
Counts(g) ==
  /\ g \in [0 .. Len(pulled) -> 0 .. Len(offered)]
  /\ g[Len(pulled)] = Taken
  /\ \A i \in 1 .. Len(pulled) :
       IF pulled[i] = "tick" THEN g[i] = g[i - 1]
       ELSE g[i] = g[i - 1] + 1 /\ pulled[i] = offered[g[i]]

FramedUpTo(k) == ToSet(framed) \ {"tick"} = {offered[i] : i \in 1 .. k}

Quiet(k) == \A i \in 1 .. k : offered[i] \notin Terminals

\* The first terminal event offered is e.
FirstIs(e) ==
  e \in Terminals /\ \E t \in 1 .. Len(offered) : offered[t] = e /\ Quiet(t - 1)

\* Until a terminal event is framed, what is framed and what is merged make up
\* what has left the queue;
MergeFollows ==
  ~terminalSeen => \E g : Counts(g) /\ FramedUpTo(g[0]) /\ Quiet(g[0])

\* then it is the events up to the first terminal one.
FramedStops ==
  terminalSeen =>
    \E t \in 1 .. Len(offered) :
      /\ offered[t] \in Terminals /\ Quiet(t - 1) /\ FramedUpTo(t)
      /\ framed # <<>> /\ Last(framed) = offered[t]

NoHeartbeat == \A i \in 1 .. Len(offered) : offered[i] # "tick"

\* The drain ends when nothing is left, and nothing is offered after that.
EndedEmpty ==
  /\ ended <=> stage \in {"joining", "exited"}
  /\ drain = "ended" => ended /\ queue = <<>> /\ pulled = <<>> /\ line = "none"

\* What the command and its conclusion have offered by way of a last word.
NoneYet == Quiet(Len(offered))
NullFirst == FirstIs("nullVerdict") /\ ~Contains(offered, "verdict") /\ outcome \in {"ok", "help"}

Told ==
  /\ stage \in {"request", "running"} => NoneYet
  /\ stage = "reporting" => FirstIs("verdict")
  /\ stage \in {"answered", "concluding", "emitting"} =>
       /\ NoneYet \/ FirstIs("verdict") \/ NullFirst
       /\ outcome \in {"ok", "help", "failed"}
  /\ stage = "emitting" /\ machine =>
       /\ outcome = "help" => answer = "help"
       /\ outcome = "failed" => answer = "error"
       /\ outcome = "ok" => answer = "nullVerdict" \/ (answer = "none" /\ ~NoneYet)
  /\ stage \in {"closing", "joining", "exited"} /\ machine => FirstIs(LastWord)

OInv == QueueFollows /\ MergeFollows /\ FramedStops /\ NoHeartbeat /\ EndedEmpty /\ Told

\* Nothing is offered, merged or framed at first.
LEMMA InitOInv == Init => OInv
<1> SUFFICES ASSUME Init PROVE OInv
  OBVIOUS
<1>1. /\ offered = <<>> /\ queue = <<>> /\ pulled = <<>> /\ framed = <<>> /\ ~terminalSeen
      /\ stage = "request" /\ ~ended /\ drain = "none"
      /\ Len(offered) = 0 /\ Len(queue) = 0 /\ Len(pulled) = 0 /\ DOMAIN framed = {}
  BY DEF Init
<1>2. QueueFollows /\ NoHeartbeat /\ EndedEmpty /\ FramedStops /\ Told
  BY <1>1 DEF QueueFollows, NoHeartbeat, EndedEmpty, FramedStops, Told, NoneYet, Quiet
<1>3. MergeFollows
  <2> DEFINE g == [i \in 0 .. 0 |-> 0]
  <2>1. Counts(g)
    BY <1>1 DEF Counts, Taken
  <2>2. FramedUpTo(g[0]) /\ Quiet(g[0])
    BY <1>1 DEF FramedUpTo, Quiet, ToSet
  <2> HIDE DEF g
  <2> QED BY <2>1, <2>2 DEF MergeFollows
<1> QED BY <1>2, <1>3 DEF OInv

\* One more element.
LEMMA AppendToSet ==
  ASSUME NEW s \in Seq(Events), NEW e \in Events PROVE ToSet(Append(s, e)) = ToSet(s) \cup {e}
<1>1. /\ Len(Append(s, e)) = Len(s) + 1 /\ Append(s, e)[Len(s) + 1] = e /\ Len(s) \in Nat
      /\ DOMAIN s = 1 .. Len(s) /\ DOMAIN Append(s, e) = 1 .. Len(s) + 1
      /\ \A i \in 1 .. Len(s) : Append(s, e)[i] = s[i]
  OBVIOUS
<1>2. ASSUME NEW x \in ToSet(Append(s, e)) PROVE x \in ToSet(s) \cup {e}
  <2>1. PICK i \in 1 .. Len(s) + 1 : x = Append(s, e)[i]
    BY <1>1, <1>2 DEF ToSet
  <2>2. CASE i \in 1 .. Len(s)
    BY <1>1, <2>1, <2>2 DEF ToSet
  <2>3. CASE i = Len(s) + 1
    BY <1>1, <2>1, <2>3
  <2> QED BY <1>1, <2>1, <2>2, <2>3
<1>3. ASSUME NEW x \in ToSet(s) PROVE x \in ToSet(Append(s, e))
  <2>1. PICK i \in 1 .. Len(s) : x = s[i]
    BY <1>1, <1>3 DEF ToSet
  <2>2. i \in 1 .. Len(s) + 1 /\ x = Append(s, e)[i]
    BY <1>1, <2>1
  <2> QED BY <1>1, <2>2 DEF ToSet
<1>4. e \in ToSet(Append(s, e))
  <2>1. Len(s) + 1 \in 1 .. Len(s) + 1
    BY <1>1
  <2> QED BY <1>1, <2>1 DEF ToSet
<1> QED BY <1>2, <1>3, <1>4

\* What was offered stays where it is when one more event is offered, at the end
\* of it and of the queue.
LEMMA OfferKeeps ==
  ASSUME TypeOK, QueueFollows, NEW e \in Events, Offer(e)
  PROVE  /\ Len(offered) \in Nat /\ Len(offered') = Len(offered) + 1 /\ Taken' = Taken
         /\ \A i \in 1 .. Len(offered) : offered'[i] = offered[i]
         /\ offered'[Len(offered')] = e
         /\ Taken \in 0 .. Len(offered)
         /\ QueueFollows'
<1>1. /\ offered \in Seq(Events) /\ queue \in Seq(Events)
      /\ offered' = Append(offered, e) /\ queue' = Append(queue, e)
  BY DEF Offer, TypeOK, PipesOK, LinesOK
<1>2. /\ Len(offered) \in Nat /\ Len(offered') = Len(offered) + 1
      /\ Len(queue) \in Nat /\ Len(queue') = Len(queue) + 1
      /\ \A i \in 1 .. Len(offered) : offered'[i] = offered[i]
      /\ offered'[Len(offered) + 1] = e
      /\ \A i \in 1 .. Len(queue) : queue'[i] = queue[i]
      /\ queue'[Len(queue) + 1] = e
  BY <1>1
<1>3. Taken' = Taken /\ Taken \in 0 .. Len(offered) /\ Taken + Len(queue) = Len(offered)
  BY <1>2 DEF Taken, QueueFollows
<1>4. QueueFollows'
  <2>1. Len(queue') <= Len(offered')
    BY <1>2 DEF QueueFollows
  <2>2. ASSUME NEW i \in 1 .. Len(queue') PROVE queue'[i] = offered'[Taken' + i]
    <3>1. CASE i \in 1 .. Len(queue)
      <4>1. queue[i] = offered[Taken + i] /\ Taken + i \in 1 .. Len(offered)
        BY <1>2, <1>3, <3>1 DEF QueueFollows
      <4> QED BY <1>2, <1>3, <3>1, <4>1
    <3>2. CASE i = Len(queue) + 1
      BY <1>2, <1>3, <3>2
    <3> QED BY <1>2, <3>1, <3>2
  <2> QED BY <2>1, <2>2 DEF QueueFollows
<1> QED BY <1>2, <1>3, <1>4

\* So what holds of the merged and the framed events goes on to hold.
LEMMA OfferMerged ==
  ASSUME IInv, OInv, NEW e \in Events \ {"tick"}, Offer(e),
         UNCHANGED <<terminalSeen, pulled, framed>>
  PROVE  /\ MergeFollows' /\ FramedStops' /\ NoHeartbeat'
         /\ \A k \in 0 .. Len(offered) : Quiet(k)' <=> Quiet(k)
         /\ \A x : FirstIs(x) => FirstIs(x)'
         /\ NoneYet /\ e \in Terminals => FirstIs(e)'
         /\ NoneYet /\ e \notin Terminals => NoneYet'
         /\ Contains(offered, "verdict")' <=> Contains(offered, "verdict") \/ e = "verdict"
         /\ Contains(offered, "nullVerdict")' <=>
              Contains(offered, "nullVerdict") \/ e = "nullVerdict"
<1> USE DEF IInv, OInv
<1>1. /\ Len(offered) \in Nat /\ Len(offered') = Len(offered) + 1 /\ Taken' = Taken
      /\ \A i \in 1 .. Len(offered) : offered'[i] = offered[i]
      /\ offered'[Len(offered')] = e
      /\ Taken \in 0 .. Len(offered)
  BY OfferKeeps
<1>2. \A k \in 0 .. Len(offered) : Quiet(k)' <=> Quiet(k)
  BY <1>1 DEF Quiet
<1>3. \A k \in 0 .. Len(offered) : FramedUpTo(k)' <=> FramedUpTo(k)
  <2> TAKE k \in 0 .. Len(offered)
  <2>1. \A i \in 1 .. k : offered'[i] = offered[i]
    BY <1>1
  <2>2. {offered'[i] : i \in 1 .. k} = {offered[i] : i \in 1 .. k}
    BY <2>1
  <2> QED BY <2>2 DEF FramedUpTo
<1>4. MergeFollows'
  <2> SUFFICES ASSUME ~terminalSeen PROVE \E g : Counts(g)' /\ FramedUpTo(g[0])' /\ Quiet(g[0])'
    BY DEF MergeFollows
  <2>1. PICK g : Counts(g) /\ FramedUpTo(g[0]) /\ Quiet(g[0])
    BY DEF MergeFollows
  <2>2. Len(pulled) \in Nat
    BY DEF TypeOK, PipesOK
  <2>3. \A i \in 0 .. Len(pulled) : g[i] \in 0 .. Len(offered)
    BY <2>1 DEF Counts
  <2>4. Counts(g)'
    <3>1. g \in [0 .. Len(pulled') -> 0 .. Len(offered')]
      <4>1. 0 .. Len(offered) \subseteq 0 .. Len(offered')
        BY <1>1
      <4> QED BY <2>1, <4>1 DEF Counts
    <3>2. g[Len(pulled')] = Taken'
      BY <1>1, <2>1 DEF Counts
    <3>3. ASSUME NEW i \in 1 .. Len(pulled')
          PROVE  IF pulled'[i] = "tick" THEN g[i] = g[i - 1]
                 ELSE g[i] = g[i - 1] + 1 /\ pulled'[i] = offered'[g[i]]
      <4>1. CASE pulled[i] = "tick"
        BY <2>1, <4>1 DEF Counts
      <4>2. CASE pulled[i] # "tick"
        <5>1. g[i] = g[i - 1] + 1 /\ pulled[i] = offered[g[i]]
          BY <2>1, <4>2 DEF Counts
        <5>2. g[i] \in 0 .. Len(offered) /\ g[i - 1] \in 0 .. Len(offered)
          BY <2>2, <2>3
        <5>3. g[i] \in 1 .. Len(offered)
          BY <5>1, <5>2, <1>1
        <5> QED BY <1>1, <4>2, <5>1, <5>3
      <4> QED BY <4>1, <4>2
    <3> QED BY <3>1, <3>2, <3>3 DEF Counts
  <2>5. g[0] \in 0 .. Len(offered)
    BY <2>2, <2>3
  <2> QED BY <1>2, <1>3, <2>1, <2>4, <2>5
<1>5. FramedStops'
  <2> SUFFICES ASSUME terminalSeen PROVE FramedStops'
    BY DEF FramedStops
  <2>1. PICK t \in 1 .. Len(offered) :
          /\ offered[t] \in Terminals /\ Quiet(t - 1) /\ FramedUpTo(t)
          /\ framed # <<>> /\ Last(framed) = offered[t]
    BY DEF FramedStops
  <2>2. t - 1 \in 0 .. Len(offered) /\ t \in 0 .. Len(offered) /\ t \in 1 .. Len(offered')
    BY <1>1
  <2>3. offered'[t] = offered[t] /\ Quiet(t - 1)' /\ FramedUpTo(t)'
    BY <1>1, <1>2, <1>3, <2>1, <2>2
  <2> QED BY <2>1, <2>2, <2>3 DEF FramedStops
<1>6. NoHeartbeat'
  BY <1>1 DEF NoHeartbeat
<1>7. \A x : FirstIs(x) => FirstIs(x)'
  <2> TAKE x
  <2> SUFFICES ASSUME FirstIs(x) PROVE FirstIs(x)'
    OBVIOUS
  <2>1. PICK t \in 1 .. Len(offered) : offered[t] = x /\ Quiet(t - 1)
    BY DEF FirstIs
  <2>2. t - 1 \in 0 .. Len(offered) /\ t \in 1 .. Len(offered')
    BY <1>1
  <2> QED BY <1>1, <1>2, <2>1, <2>2 DEF FirstIs
<1>8. NoneYet /\ e \in Terminals => FirstIs(e)'
  <2>1. Len(offered) \in 0 .. Len(offered) /\ Len(offered') - 1 = Len(offered)
        /\ Len(offered') \in 1 .. Len(offered')
    BY <1>1
  <2>2. NoneYet => \A i \in 1 .. Len(offered') - 1 : offered'[i] \notin Terminals
    BY <1>1, <2>1 DEF NoneYet, Quiet
  <2> QED BY <1>1, <2>1, <2>2 DEF FirstIs, Quiet
<1>9. NoneYet /\ e \notin Terminals => NoneYet'
  BY <1>1 DEF NoneYet, Quiet
<1>10. \A x : Contains(offered, x)' <=> Contains(offered, x) \/ e = x
  <2> TAKE x
  <2>1. ASSUME Contains(offered, x)' PROVE Contains(offered, x) \/ e = x
    <3>1. PICK i \in 1 .. Len(offered') : offered'[i] = x
      BY <2>1 DEF Contains
    <3> QED BY <1>1, <3>1 DEF Contains
  <2>2. ASSUME Contains(offered, x) \/ e = x PROVE Contains(offered, x)'
    <3>1. CASE Contains(offered, x)
      <4>1. PICK i \in 1 .. Len(offered) : offered[i] = x
        BY <3>1 DEF Contains
      <4> QED BY <1>1, <4>1 DEF Contains
    <3>2. CASE e = x
      BY <1>1, <3>2 DEF Contains
    <3> QED BY <2>2, <3>1, <3>2
  <2> QED BY <2>1, <2>2
<1> QED BY <1>2, <1>4, <1>5, <1>6, <1>7, <1>8, <1>9, <1>10

\* The steps of the command and of the fibers leave the rest alone.
LEMMA CommandRest ==
  ASSUME IInv, CommandStep \/ \E f \in Fibers : FiberOffer(f)
  PROVE  /\ UNCHANGED <<terminalSeen, pulled, framed, line, machine>>
         /\ (UNCHANGED <<queue, offered>>) \/ \E e \in Events \ {"tick"} : Offer(e)
<1> USE DEF IInv
<1>0. {"stream", "verdict", "nullVerdict"} \subseteq Events \ {"tick"}
  BY DEF Events, Terminals
<1>1. CASE Open \/ Conclude
  BY <1>0, <1>1 DEF Open, Conclude, OpenStream, merged
<1>2. CASE NoRequest \/ NoRun \/ WriteReports \/ Fail
  BY <1>2 DEF NoRequest, NoRun, WriteReports, Fail, Succeed, Answered, merged, sinks
<1>3. CASE NoSurvivors \/ EmitVerdict
  BY <1>0, <1>3 DEF NoSurvivors, EmitVerdict, Succeed, Answered, merged, sinks
<1>4. CASE Emit
  <2>1. answer # "none" => answer \in Events \ {"tick"}
    BY DEF TypeOK, ControlOK, Events, Terminals
  <2> QED BY <1>4, <2>1 DEF Emit, merged, sinks
<1>5. CASE ChooseAnswer \/ Close \/ Join
  BY <1>5 DEF ChooseAnswer, Close, Join, merged, sinks
<1>6. CASE \E f \in Fibers : FiberOffer(f)
  <2>1. PICK f \in Fibers : FiberOffer(f)
    BY <1>6
  <2>2. f \in Events \ {"tick"}
    BY EventStreamAssumption DEF Events
  <2> QED BY <2>1, <2>2 DEF FiberOffer, merged, sinks
<1> QED BY <1>1, <1>2, <1>3, <1>4, <1>5, <1>6 DEF CommandStep

LEMMA CommandMerged ==
  ASSUME IInv, OInv, CommandStep \/ \E f \in Fibers : FiberOffer(f)
  PROVE  QueueFollows' /\ MergeFollows' /\ FramedStops' /\ NoHeartbeat'
<1>1. UNCHANGED <<terminalSeen, pulled, framed>>
  BY CommandRest
<1>2. CASE UNCHANGED <<queue, offered>>
  BY <1>1, <1>2 DEF OInv, QueueFollows, MergeFollows, FramedStops, NoHeartbeat, Taken, Counts,
                    FramedUpTo, Quiet
<1>3. CASE \E e \in Events \ {"tick"} : Offer(e)
  BY <1>1, <1>3, OfferMerged, OfferKeeps DEF IInv, OInv
<1> QED BY <1>2, <1>3, CommandRest

\* Once the queue has ended nobody offers any more.
LEMMA CommandEnded ==
  ASSUME IInv, OInv, CommandStep \/ \E f \in Fibers : FiberOffer(f) PROVE EndedEmpty'
<1> USE DEF IInv, OInv
<1>1. UNCHANGED <<pulled, line>>
  BY CommandRest
<1>2. drain' = drain \/ drain' = "running"
  BY DEF CommandStep, Open, NoRequest, NoRun, NoSurvivors, EmitVerdict, WriteReports, Fail, Conclude,
         OpenStream, ChooseAnswer, Emit, Close, Join, FiberOffer, Succeed, Answered
<1>3. CASE Open \/ NoRequest \/ NoRun \/ NoSurvivors \/ EmitVerdict \/ WriteReports \/ Fail \/ Conclude
           \/ ChooseAnswer \/ Emit \/ \E f \in Fibers : FiberOffer(f)
  <2>1. ended' = ended /\ stage \notin {"joining", "exited"} /\ stage' \notin {"joining", "exited"}
    BY <1>3 DEF Open, NoRequest, NoRun, NoSurvivors, EmitVerdict, WriteReports, Fail, Conclude,
                ChooseAnswer, Emit, FiberOffer, Succeed, Answered, command
  <2> QED BY <1>2, <2>1 DEF EndedEmpty
<1>4. CASE Close \/ Join
  <2>1. /\ ended' /\ stage' \in {"joining", "exited"} /\ UNCHANGED <<queue, drain>>
    BY <1>4 DEF Close, Join, EndedEmpty
  <2> QED BY <1>1, <2>1 DEF EndedEmpty
<1> QED BY <1>3, <1>4 DEF CommandStep

\* While nothing is offered the last words stay as they are.
LEMMA NothingOffered ==
  ASSUME UNCHANGED offered
  PROVE  /\ NoneYet' <=> NoneYet
         /\ \A x : FirstIs(x)' <=> FirstIs(x)
         /\ \A x : Contains(offered, x)' <=> Contains(offered, x)
<1>1. offered' = offered
  OBVIOUS
<1>2. NoneYet' <=> NoneYet
  BY <1>1 DEF NoneYet, Quiet
<1>3. \A x : FirstIs(x)' <=> FirstIs(x)
  BY <1>1 DEF FirstIs, Quiet
<1>4. \A x : Contains(offered, x)' <=> Contains(offered, x)
  BY <1>1 DEF Contains
<1> QED BY <1>2, <1>3, <1>4

\* Where no terminal event was offered, no verdict was.
LEMMA NoneOfThem ==
  ASSUME NoneYet PROVE ~Contains(offered, "verdict") /\ ~Contains(offered, "nullVerdict")
BY DEF NoneYet, Quiet, Contains, Terminals

\* The run and its request.
LEMMA RunTold ==
  ASSUME IInv, OInv,
         \/ Open \/ NoRequest \/ NoRun \/ NoSurvivors \/ EmitVerdict \/ WriteReports \/ Fail
         \/ \E f \in Fibers : FiberOffer(f)
  PROVE  Told'
<1> USE DEF IInv, OInv
<1>0. UNCHANGED <<terminalSeen, pulled, framed>>
  BY CommandRest DEF CommandStep
<1>1. CASE Open
  <2>1. stage' = "running" /\ NoneYet
    BY <1>1 DEF Open, Told
  <2>2. CASE machine
    <3>1. Offer("stream") /\ "stream" \in Events \ {"tick"} /\ "stream" \notin Terminals
      BY <1>1, <2>2 DEF Open, OpenStream, Events, Terminals
    <3>2. NoneYet'
      BY <1>0, <2>1, <3>1, OfferMerged
    <3> QED BY <2>1, <3>2 DEF Told
  <2>3. CASE ~machine
    <3>1. UNCHANGED offered
      BY <1>1, <2>3 DEF Open, OpenStream
    <3>2. NoneYet'
      BY <2>1, <3>1, NothingOffered
    <3> QED BY <2>1, <3>2 DEF Told
  <2> QED BY <2>2, <2>3
<1>2. CASE NoRequest \/ NoRun \/ WriteReports \/ Fail
  <2>1. /\ stage' = "answered" /\ outcome' \in {"ok", "help", "failed"} /\ UNCHANGED offered
        /\ stage \in {"request", "running", "reporting"}
    BY <1>2 DEF NoRequest, NoRun, WriteReports, Fail, Succeed, Answered
  <2>2. NoneYet \/ FirstIs("verdict")
    BY <2>1 DEF Told
  <2>3. NoneYet' \/ FirstIs("verdict")'
    BY <2>1, <2>2, NothingOffered
  <2> QED BY <2>1, <2>3 DEF Told
<1>3. CASE NoSurvivors
  <2>1. /\ stage' = "answered" /\ outcome' \in {"ok", "help"} /\ NoneYet /\ Offer("nullVerdict")
    BY <1>3 DEF NoSurvivors, Succeed, Answered, Told
  <2>2. "nullVerdict" \in Events \ {"tick"} /\ "nullVerdict" \in Terminals
    BY DEF Events, Terminals
  <2>3. FirstIs("nullVerdict")' /\ ~Contains(offered, "verdict")'
    BY <1>0, <2>1, <2>2, OfferMerged, NoneOfThem
  <2> QED BY <2>1, <2>3 DEF Told, NullFirst
<1>4. CASE EmitVerdict
  <2>1. stage' = "reporting" /\ NoneYet /\ Offer("verdict")
    BY <1>4 DEF EmitVerdict, Told
  <2>2. "verdict" \in Events \ {"tick"} /\ "verdict" \in Terminals
    BY DEF Events, Terminals
  <2>3. FirstIs("verdict")'
    BY <1>0, <2>1, <2>2, OfferMerged
  <2> QED BY <2>1, <2>3 DEF Told
<1>5. CASE \E f \in Fibers : FiberOffer(f)
  <2>1. PICK f \in Fibers : FiberOffer(f)
    BY <1>5
  <2>2. f \in Events \ {"tick"} /\ f \notin Terminals
    BY EventStreamAssumption DEF Events
  <2>3. stage' = "running" /\ NoneYet /\ Offer(f)
    BY <2>1 DEF FiberOffer, command, Told
  <2>4. NoneYet'
    BY <1>0, <2>2, <2>3, OfferMerged
  <2> QED BY <2>3, <2>4 DEF Told
<1> QED BY <1>1, <1>2, <1>3, <1>4, <1>5

\* The conclusion has the last word unless it was said before.
LEMMA ConclusionTold ==
  ASSUME IInv, OInv, Conclude \/ ChooseAnswer \/ Emit \/ Close \/ Join
  PROVE  Told'
<1> USE DEF IInv, OInv
<1>0. UNCHANGED <<terminalSeen, pulled, framed, machine>>
  BY CommandRest DEF CommandStep
<1>1. CASE Conclude
  <2>1. /\ stage' = "concluding" /\ stage = "answered" /\ outcome' = outcome
    BY <1>1 DEF Conclude
  <2>2. (NoneYet \/ FirstIs("verdict") \/ NullFirst) /\ outcome \in {"ok", "help", "failed"}
    BY <2>1 DEF Told
  <2>3. CASE UNCHANGED offered
    <3>1. NoneYet' \/ FirstIs("verdict")' \/ NullFirst'
      BY <2>1, <2>2, <2>3, NothingOffered DEF NullFirst
    <3> QED BY <2>1, <2>2, <3>1 DEF Told
  <2>4. CASE Offer("stream")
    <3>1. "stream" \in Events \ {"tick"} /\ "stream" \notin Terminals
      BY DEF Events, Terminals
    <3>2. /\ NoneYet => NoneYet'
          /\ \A x : FirstIs(x) => FirstIs(x)'
          /\ Contains(offered, "verdict")' <=> Contains(offered, "verdict")
      BY <1>0, <2>4, <3>1, OfferMerged
    <3>3. NoneYet' \/ FirstIs("verdict")' \/ NullFirst'
      BY <2>1, <2>2, <3>2 DEF NullFirst
    <3> QED BY <2>1, <2>2, <3>3 DEF Told
  <2> QED BY <1>1, <2>3, <2>4 DEF Conclude, OpenStream
<1>2. CASE ChooseAnswer
  <2>1. /\ stage' = "emitting" /\ stage = "concluding" /\ outcome' = outcome /\ UNCHANGED offered
    BY <1>2 DEF ChooseAnswer
  <2>2. (NoneYet \/ FirstIs("verdict") \/ NullFirst) /\ outcome \in {"ok", "help", "failed"}
    BY <2>1 DEF Told
  <2>3. NoneYet' \/ FirstIs("verdict")' \/ NullFirst'
    BY <2>1, <2>2, NothingOffered DEF NullFirst
  <2>4. ASSUME machine, outcome = "ok" PROVE answer' = "nullVerdict" \/ (answer' = "none" /\ ~NoneYet)
    <3>1. answer' = IF IsOpen THEN "nullVerdict" ELSE "none"
      BY <1>2, <2>4 DEF ChooseAnswer
    <3>2. ~IsOpen => terminalSeen
      BY <2>1, <2>4 DEF IsOpen, EndedEmpty
    <3>3. terminalSeen => ~NoneYet
      <4>1. ASSUME terminalSeen PROVE ~NoneYet
        <5>1. PICK t \in 1 .. Len(offered) : offered[t] \in Terminals
          BY <4>1 DEF FramedStops
        <5> QED BY <5>1 DEF NoneYet, Quiet
      <4> QED BY <4>1
    <3> QED BY <3>1, <3>2, <3>3
  <2>5. machine => /\ outcome = "help" => answer' = "help"
                   /\ outcome = "failed" => answer' = "error"
    BY <1>2 DEF ChooseAnswer
  <2>6. NoneYet' <=> NoneYet
    BY <2>1, NothingOffered
  <2> QED BY <1>0, <2>1, <2>2, <2>3, <2>4, <2>5, <2>6 DEF Told
<1>3. CASE Emit
  <2>1. /\ stage' = "closing" /\ stage = "emitting" /\ outcome' = outcome
        /\ IF answer = "none" THEN UNCHANGED offered ELSE Offer(answer)
    BY <1>3 DEF Emit
  <2>2. (NoneYet \/ FirstIs("verdict") \/ NullFirst) /\ outcome \in {"ok", "help", "failed"}
    BY <2>1 DEF Told
  <2> SUFFICES ASSUME machine PROVE FirstIs(LastWord)'
    BY <1>0, <2>1 DEF Told
  <2>3. /\ outcome = "help" => answer = "help"
        /\ outcome = "failed" => answer = "error"
        /\ outcome = "ok" => answer = "nullVerdict" \/ (answer = "none" /\ ~NoneYet)
    BY <2>1 DEF Told
  <2>4. CASE answer = "none"
    <3>1. UNCHANGED offered /\ outcome = "ok"
      BY <2>1, <2>2, <2>3, <2>4
    <3>2. CASE FirstIs("verdict")
      <4>1. FirstIs("verdict")' /\ Contains(offered, "verdict")'
        <5>1. Contains(offered, "verdict")
          BY <3>2 DEF FirstIs, Contains
        <5> QED BY <3>1, <3>2, <5>1, NothingOffered
      <4> QED BY <4>1 DEF LastWord
    <3>3. CASE NullFirst
      <4>1. FirstIs("nullVerdict")' /\ ~Contains(offered, "verdict")'
        BY <3>1, <3>3, NothingOffered DEF NullFirst
      <4> QED BY <2>1, <3>1, <4>1 DEF LastWord
    <3> QED BY <2>2, <2>3, <2>4, <3>1, <3>2, <3>3
  <2>5. CASE answer # "none"
    <3>0. PICK a : a = answer
      OBVIOUS
    <3>1. answer \in Events \ {"tick"} /\ answer \in Terminals /\ Offer(answer)
      BY <2>1, <2>5 DEF TypeOK, ControlOK, Events, Terminals
    <3>2. a \in {"help", "error", "nullVerdict"} /\ a \in Events \ {"tick"} /\ a \in Terminals /\ Offer(a)
      BY <2>2, <2>3, <2>5, <3>0, <3>1
    <3>3. /\ \A x : FirstIs(x) => FirstIs(x)'
          /\ NoneYet => FirstIs(a)'
          /\ Contains(offered, "verdict")' <=> Contains(offered, "verdict")
          /\ Contains(offered, "nullVerdict")' <=>
               Contains(offered, "nullVerdict") \/ a = "nullVerdict"
      BY <1>0, <3>2, OfferMerged
    <3>4. CASE FirstIs("verdict")
      <4>1. FirstIs("verdict")' /\ Contains(offered, "verdict")'
        BY <3>3, <3>4 DEF FirstIs, Contains
      <4> QED BY <4>1 DEF LastWord
    <3>5. CASE NullFirst
      <4>1. FirstIs("nullVerdict")' /\ ~Contains(offered, "verdict")' /\ Contains(offered, "nullVerdict")'
        BY <3>3, <3>5 DEF NullFirst, FirstIs, Contains
      <4>2. outcome' \in {"ok", "help"}
        BY <2>1, <3>5 DEF NullFirst
      <4> QED BY <4>1, <4>2 DEF LastWord
    <3>6. CASE NoneYet
      <4>1. FirstIs(a)' /\ ~Contains(offered, "verdict")'
        BY <3>3, <3>6, NoneOfThem
      <4>2. a # "nullVerdict" => ~Contains(offered, "nullVerdict")'
        BY <3>3, <3>6, NoneOfThem
      <4>3. LastWord' = a
        BY <3>0, <2>1, <2>2, <2>3, <2>5, <4>1, <4>2 DEF LastWord
      <4> QED BY <4>1, <4>3 DEF FirstIs
    <3> QED BY <2>2, <3>4, <3>5, <3>6
  <2> QED BY <2>4, <2>5
<1>4. CASE Close \/ Join
  <2>1. /\ stage \in {"closing", "joining"} /\ stage' \in {"joining", "exited"}
        /\ UNCHANGED <<offered, outcome>>
    BY <1>4 DEF Close, Join
  <2>2. LastWord' = LastWord
    BY <2>1 DEF LastWord, Contains
  <2>3. machine => FirstIs(LastWord)
    BY <2>1 DEF Told
  <2>4. machine => FirstIs(LastWord)'
    BY <2>1, <2>2, <2>3 DEF FirstIs, Quiet
  <2> QED BY <1>0, <2>1, <2>4 DEF Told
<1> QED BY <1>1, <1>2, <1>3, <1>4

\* The merge takes the next event of what was offered.
LEMMA PullMerged ==
  ASSUME IInv, OInv, Pull PROVE QueueFollows' /\ MergeFollows' /\ FramedStops'
<1> USE DEF IInv, OInv
<1>1. /\ queue \in Seq(Events) /\ pulled \in Seq(Events) /\ offered \in Seq(Events)
      /\ queue # <<>> /\ pulled' = Append(pulled, Head(queue)) /\ queue' = Tail(queue)
      /\ UNCHANGED <<terminalSeen, offered, framed>>
  BY DEF Pull, TypeOK, PipesOK, LinesOK, sinks
<1>2. /\ Len(queue) \in Nat \ {0} /\ Len(queue') = Len(queue) - 1 /\ Len(offered) \in Nat
      /\ \A i \in 1 .. Len(queue') : queue'[i] = queue[i + 1]
      /\ Head(queue) = queue[1]
      /\ Len(pulled) \in Nat /\ Len(pulled') = Len(pulled) + 1
      /\ \A i \in 1 .. Len(pulled) : pulled'[i] = pulled[i]
      /\ pulled'[Len(pulled) + 1] = Head(queue)
  BY <1>1
<1>3. Taken' = Taken + 1 /\ Taken \in 0 .. Len(offered) - 1 /\ Taken + Len(queue) = Len(offered)
  BY <1>1, <1>2 DEF Taken, QueueFollows
<1>4. QueueFollows'
  <2>1. ASSUME NEW i \in 1 .. Len(queue') PROVE queue'[i] = offered'[Taken' + i]
    <3>1. i + 1 \in 1 .. Len(queue) /\ Taken + (i + 1) = Taken' + i
      BY <1>2, <1>3
    <3> QED BY <1>1, <1>2, <3>1 DEF QueueFollows
  <2> QED BY <1>1, <1>2, <2>1 DEF QueueFollows
<1>5. MergeFollows'
  <2> SUFFICES ASSUME ~terminalSeen PROVE \E g : Counts(g)' /\ FramedUpTo(g[0])' /\ Quiet(g[0])'
    BY <1>1 DEF MergeFollows
  <2>1. PICK g : Counts(g) /\ FramedUpTo(g[0]) /\ Quiet(g[0])
    BY DEF MergeFollows
  <2> DEFINE h == [i \in 0 .. Len(pulled) + 1 |-> IF i = Len(pulled) + 1 THEN Taken + 1 ELSE g[i]]
  <2>2. PICK f : f = h
    OBVIOUS
  <2>3. /\ f \in [0 .. Len(pulled') -> 0 .. Len(offered')]
        /\ f[Len(pulled) + 1] = Taken + 1
        /\ \A i \in 0 .. Len(pulled) : f[i] = g[i]
    BY <1>1, <1>2, <1>3, <2>1, <2>2 DEF Counts
  <2> HIDE DEF h
  <2>4. Head(queue) = offered[Taken + 1] /\ Head(queue) # "tick"
    <3>1. 1 \in 1 .. Len(queue) /\ Taken + 1 \in 1 .. Len(offered)
      BY <1>2, <1>3
    <3> QED BY <1>2, <3>1 DEF QueueFollows, NoHeartbeat
  <2>5. Counts(f)'
    <3>1. ASSUME NEW i \in 1 .. Len(pulled')
          PROVE  IF pulled'[i] = "tick" THEN f[i] = f[i - 1]
                 ELSE f[i] = f[i - 1] + 1 /\ pulled'[i] = offered'[f[i]]
      <4>1. CASE i \in 1 .. Len(pulled)
        <5>1. i \in 0 .. Len(pulled) /\ i - 1 \in 0 .. Len(pulled) /\ pulled'[i] = pulled[i]
          BY <1>2, <4>1
        <5>2. f[i] = g[i] /\ f[i - 1] = g[i - 1]
          BY <2>3, <5>1
        <5> QED BY <1>1, <2>1, <4>1, <5>1, <5>2 DEF Counts
      <4>2. CASE i = Len(pulled) + 1
        <5>1. f[i - 1] = Taken
          BY <1>2, <2>1, <2>3, <4>2 DEF Counts
        <5> QED BY <1>1, <1>2, <2>3, <2>4, <4>2, <5>1
      <4> QED BY <1>2, <4>1, <4>2
    <3>2. f[Len(pulled')] = Taken'
      BY <1>2, <1>3, <2>3
    <3> QED BY <2>3, <3>1, <3>2 DEF Counts
  <2>6. f[0] = g[0]
    BY <1>2, <2>3
  <2>7. FramedUpTo(f[0])' /\ Quiet(f[0])'
    BY <1>1, <2>1, <2>6 DEF FramedUpTo, Quiet
  <2> QED BY <2>5, <2>7
<1>6. FramedStops'
  BY <1>1 DEF FramedStops, FramedUpTo, Quiet
<1> QED BY <1>4, <1>5, <1>6

\* A heartbeat counts for nothing.
LEMMA TickMerged ==
  ASSUME IInv, OInv, Tick PROVE QueueFollows' /\ MergeFollows' /\ FramedStops'
<1> USE DEF IInv, OInv
<1>1. /\ pulled \in Seq(Events) /\ offered \in Seq(Events)
      /\ pulled' = Append(pulled, "tick")
      /\ UNCHANGED <<terminalSeen, queue, offered, framed>>
  BY DEF Tick, TypeOK, PipesOK, LinesOK, sinks
<1>2. /\ Len(pulled) \in Nat /\ Len(pulled') = Len(pulled) + 1
      /\ \A i \in 1 .. Len(pulled) : pulled'[i] = pulled[i]
      /\ pulled'[Len(pulled) + 1] = "tick"
  BY <1>1
<1>3. Taken' = Taken
  BY <1>1 DEF Taken
<1>4. QueueFollows' /\ FramedStops'
  BY <1>1, <1>3 DEF QueueFollows, FramedStops, FramedUpTo, Quiet
<1>5. MergeFollows'
  <2> SUFFICES ASSUME ~terminalSeen PROVE \E g : Counts(g)' /\ FramedUpTo(g[0])' /\ Quiet(g[0])'
    BY <1>1 DEF MergeFollows
  <2>1. PICK g : Counts(g) /\ FramedUpTo(g[0]) /\ Quiet(g[0])
    BY DEF MergeFollows
  <2>2. PICK f : f = [i \in 0 .. Len(pulled) + 1 |-> IF i = Len(pulled) + 1 THEN Taken ELSE g[i]]
    OBVIOUS
  <2>3. Taken \in 0 .. Len(offered)
    BY <1>2, <2>1 DEF Counts
  <2>4. /\ f \in [0 .. Len(pulled') -> 0 .. Len(offered')]
        /\ f[Len(pulled) + 1] = Taken
        /\ \A i \in 0 .. Len(pulled) : f[i] = g[i]
    BY <1>1, <1>2, <2>1, <2>2, <2>3 DEF Counts
  <2>5. Counts(f)'
    <3>1. ASSUME NEW i \in 1 .. Len(pulled')
          PROVE  IF pulled'[i] = "tick" THEN f[i] = f[i - 1]
                 ELSE f[i] = f[i - 1] + 1 /\ pulled'[i] = offered'[f[i]]
      <4>1. CASE i \in 1 .. Len(pulled)
        <5>1. i \in 0 .. Len(pulled) /\ i - 1 \in 0 .. Len(pulled) /\ pulled'[i] = pulled[i]
          BY <1>2, <4>1
        <5>2. f[i] = g[i] /\ f[i - 1] = g[i - 1]
          BY <2>4, <5>1
        <5> QED BY <1>1, <2>1, <4>1, <5>1, <5>2 DEF Counts
      <4>2. CASE i = Len(pulled) + 1
        <5>1. f[i - 1] = Taken
          BY <1>2, <2>1, <2>4, <4>2 DEF Counts
        <5> QED BY <1>2, <2>4, <4>2, <5>1
      <4> QED BY <1>2, <4>1, <4>2
    <3>2. f[Len(pulled')] = Taken'
      BY <1>2, <1>3, <2>4
    <3> QED BY <2>4, <3>1, <3>2 DEF Counts
  <2>6. f[0] = g[0]
    BY <1>2, <2>4
  <2>7. FramedUpTo(f[0])' /\ Quiet(f[0])'
    BY <1>1, <2>1, <2>6 DEF FramedUpTo, Quiet
  <2> QED BY <2>5, <2>7
<1> QED BY <1>4, <1>5

\* What is framed is the next event that was offered, or a heartbeat.
LEMMA FrameMerged ==
  ASSUME IInv, OInv, Frame PROVE QueueFollows' /\ MergeFollows' /\ FramedStops'
<1> USE DEF IInv, OInv
<1>1. /\ pulled \in Seq(Events) /\ offered \in Seq(Events) /\ framed \in Seq(Events)
      /\ pulled # <<>> /\ pulled' = Tail(pulled)
      /\ terminalSeen' = (terminalSeen \/ Head(pulled) \in Terminals)
      /\ UNCHANGED <<queue, offered>>
  BY DEF Frame, TypeOK, PipesOK, LinesOK
<1>2. QueueFollows'
  BY <1>1 DEF QueueFollows, Taken
<1>3. CASE terminalSeen
  <2>1. framed' = framed /\ terminalSeen'
    BY <1>1, <1>3 DEF Frame
  <2>2. FramedStops'
    BY <1>1, <1>3, <2>1 DEF FramedStops, FramedUpTo, Quiet
  <2> QED BY <1>2, <2>1, <2>2 DEF MergeFollows
<1>4. CASE ~terminalSeen
  <2>1. PICK e \in Events : e = Head(pulled) /\ e = pulled[1]
    BY <1>1
  <2>2. framed' = Append(framed, e) /\ (terminalSeen' <=> e \in Terminals)
    BY <1>1, <1>4, <2>1 DEF Frame
  <2>3. ToSet(framed') = ToSet(framed) \cup {e}
    BY <1>1, <2>2, AppendToSet
  <2>4. framed' # <<>> /\ Last(framed') = e
    BY <1>1, <2>2 DEF Last
  <2>5. /\ Len(pulled) \in Nat \ {0} /\ Len(pulled') = Len(pulled) - 1 /\ Len(offered) \in Nat
        /\ \A i \in 1 .. Len(pulled') : pulled'[i] = pulled[i + 1]
    BY <1>1
  <2>6. PICK g : Counts(g) /\ FramedUpTo(g[0]) /\ Quiet(g[0])
    BY <1>4 DEF MergeFollows
  <2>7. \A i \in 0 .. Len(pulled) : g[i] \in 0 .. Len(offered)
    BY <2>6 DEF Counts
  <2>8. /\ g[0] \in 0 .. Len(offered) /\ g[1] \in 0 .. Len(offered)
        /\ IF e = "tick" THEN g[1] = g[0] ELSE g[1] = g[0] + 1 /\ e = offered[g[1]]
    <3>1. 0 \in 0 .. Len(pulled) /\ 1 \in 0 .. Len(pulled) /\ 1 \in 1 .. Len(pulled)
      BY <2>5
    <3> QED BY <2>1, <2>6, <2>7, <3>1 DEF Counts
  <2>9. FramedUpTo(g[1])'
    <3>1. {offered[i] : i \in 1 .. g[1]} = {offered[i] : i \in 1 .. g[0]} \cup ({e} \ {"tick"})
      <4>1. CASE e = "tick"
        BY <2>8, <4>1
      <4>2. CASE e # "tick"
        <5>1. 1 .. g[1] = 1 .. g[0] \cup {g[1]}
          BY <2>8, <4>2
        <5> QED BY <2>8, <4>2, <5>1
      <4> QED BY <4>1, <4>2
    <3>2. ToSet(framed') \ {"tick"} = (ToSet(framed) \ {"tick"}) \cup ({e} \ {"tick"})
      BY <2>3
    <3> QED BY <1>1, <2>6, <3>1, <3>2 DEF FramedUpTo
  <2>10. CASE e \in Terminals
    <3>1. e # "tick"
      BY <2>10 DEF Terminals
    <3>2. /\ g[1] \in 1 .. Len(offered') /\ offered'[g[1]] = e /\ g[1] - 1 = g[0]
      BY <1>1, <2>8, <3>1, SMTT(20)
    <3>3. Quiet(g[1] - 1)'
      BY <1>1, <2>6, <3>2 DEF Quiet
    <3>4. FramedStops'
      BY <2>4, <2>9, <2>10, <3>2, <3>3 DEF FramedStops
    <3> QED BY <1>2, <2>2, <2>10, <3>4 DEF MergeFollows
  <2>11. CASE e \notin Terminals
    <3>1. PICK f : f = [i \in 0 .. Len(pulled) - 1 |-> g[i + 1]]
      OBVIOUS
    <3>2. /\ f \in [0 .. Len(pulled') -> 0 .. Len(offered')]
          /\ \A i \in 0 .. Len(pulled') : f[i] = g[i + 1]
      BY <1>1, <2>5, <2>7, <3>1
    <3>3. Counts(f)'
      <4>1. f[Len(pulled')] = Taken'
        BY <1>1, <2>5, <2>6, <3>2 DEF Counts, Taken
      <4>2. ASSUME NEW i \in 1 .. Len(pulled')
            PROVE  IF pulled'[i] = "tick" THEN f[i] = f[i - 1]
                   ELSE f[i] = f[i - 1] + 1 /\ pulled'[i] = offered'[f[i]]
        <5>1. /\ i + 1 \in 1 .. Len(pulled) /\ pulled'[i] = pulled[i + 1]
              /\ i \in 0 .. Len(pulled') /\ i - 1 \in 0 .. Len(pulled')
              /\ (i - 1) + 1 = (i + 1) - 1
          BY <2>5
        <5>2. f[i] = g[i + 1] /\ f[i - 1] = g[(i + 1) - 1]
          BY <3>2, <5>1
        <5> QED BY <1>1, <2>6, <5>1, <5>2 DEF Counts
      <4> QED BY <3>2, <4>1, <4>2 DEF Counts
    <3>4. f[0] = g[1]
      BY <2>5, <3>2
    <3>5. Quiet(f[0])'
      <4>1. ASSUME NEW i \in 1 .. g[1] PROVE offered[i] \notin Terminals
        <5>1. CASE i \in 1 .. g[0]
          BY <2>6, <5>1 DEF Quiet
        <5>2. CASE i = g[1] /\ e # "tick"
          BY <2>8, <2>11, <5>2
        <5> QED BY <2>8, <5>1, <5>2
      <4> QED BY <1>1, <3>4, <4>1 DEF Quiet
    <3>6. FramedUpTo(f[0])'
      BY <2>9, <3>4 DEF FramedUpTo
    <3> QED BY <1>2, <2>2, <2>11, <3>3, <3>5, <3>6 DEF MergeFollows, FramedStops
  <2> QED BY <2>10, <2>11
<1> QED BY <1>3, <1>4

\* The steps of the drain keep the whole.
LEMMA DrainKeeps == ASSUME IInv, OInv, DrainStep PROVE OInv'
<1> USE DEF IInv, OInv
<1>1. UNCHANGED <<machine, stage, outcome, answer, ended, offered>>
  BY DEF DrainStep, Pull, TickDue, Tick, Frame, WriteFile, WriteStdout, EndOfStream, command
<1>2. NoHeartbeat' /\ Told'
  <2>1. Contains(offered, "verdict")' = Contains(offered, "verdict")
        /\ Contains(offered, "nullVerdict")' = Contains(offered, "nullVerdict")
    BY <1>1 DEF Contains
  <2>2. LastWord' = LastWord
    BY <1>1, <2>1 DEF LastWord
  <2>3. NoHeartbeat'
    BY <1>1 DEF NoHeartbeat
  <2>4. \A x : FirstIs(x)' <=> FirstIs(x)
    BY <1>1 DEF FirstIs, Quiet
  <2>5. FirstIs(LastWord)' <=> FirstIs(LastWord)
    BY <1>1, <2>2 DEF FirstIs, Quiet
  <2>6. (NoneYet' <=> NoneYet) /\ (NullFirst' <=> NullFirst)
    BY <1>1, <2>1, <2>4 DEF NoneYet, Quiet, NullFirst
  <2> QED BY <1>1, <2>3, <2>4, <2>5, <2>6 DEF Told
<1>3. EndedEmpty'
  <2>1. drain = "running"
    BY DEF DrainStep, Pull, TickDue, Tick, Frame, WriteFile, WriteStdout, EndOfStream
  <2>2. drain' = "ended" => EndOfStream
    BY <2>1 DEF DrainStep, Pull, TickDue, Tick, Frame, WriteFile, WriteStdout
  <2>3. EndOfStream => ended' /\ queue' = <<>> /\ pulled' = <<>> /\ line' = "none"
    BY DEF EndOfStream, merged, sinks
  <2> QED BY <1>1, <2>2, <2>3 DEF EndedEmpty
<1>4. CASE TickDue \/ WriteFile \/ WriteStdout \/ EndOfStream
  <2>1. UNCHANGED <<queue, pulled, framed, terminalSeen, offered>>
    BY <1>4 DEF TickDue, WriteFile, WriteStdout, EndOfStream, merged, sinks
  <2>2. QueueFollows' /\ FramedStops'
    BY <2>1 DEF QueueFollows, FramedStops, Taken, FramedUpTo, Quiet
  <2>3. MergeFollows'
    BY <2>1 DEF MergeFollows, Counts, Taken, FramedUpTo, Quiet
  <2> QED BY <1>2, <1>3, <2>2, <2>3
<1>5. CASE Pull
  BY <1>2, <1>3, <1>5, PullMerged
<1>6. CASE Tick
  BY <1>2, <1>3, <1>6, TickMerged
<1>7. CASE Frame
  BY <1>2, <1>3, <1>7, FrameMerged
<1> QED BY <1>4, <1>5, <1>6, <1>7 DEF DrainStep

\* Every step keeps it.
LEMMA NextOInv == IInv /\ OInv /\ [Next]_vars => OInv'
<1> SUFFICES ASSUME IInv, OInv, [Next]_vars PROVE OInv'
  OBVIOUS
<1>1. CASE CommandStep \/ \E f \in Fibers : FiberOffer(f)
  <2>1. Told'
    BY <1>1, RunTold, ConclusionTold DEF CommandStep
  <2> QED BY <1>1, <2>1, CommandMerged, CommandEnded DEF OInv
<1>2. CASE DrainStep
  BY <1>2, DrainKeeps
<1>3. CASE Exited \/ UNCHANGED vars
  <2>1. UNCHANGED vars
    BY <1>3 DEF Exited
  <2>2. UNCHANGED <<machine, stage, outcome, answer, queue, ended, terminalSeen, drain, pulled,
                    line, offered, framed>>
    BY <2>1 DEF vars, command, merged, sinks
  <2>3. QueueFollows' /\ FramedStops' /\ NoHeartbeat' /\ EndedEmpty'
    BY <2>2 DEF OInv, QueueFollows, FramedStops, NoHeartbeat, EndedEmpty, Taken, FramedUpTo, Quiet
  <2>6. MergeFollows'
    BY <2>2 DEF OInv, MergeFollows, Taken, Counts, FramedUpTo, Quiet
  <2>4. LastWord' = LastWord
    BY <2>2 DEF LastWord, Contains
  <2>5. Told'
    BY <2>2, <2>4 DEF OInv, Told, NoneYet, NullFirst, FirstIs, Quiet, Contains
  <2> QED BY <2>3, <2>5, <2>6 DEF OInv
<1> QED BY <1>1, <1>2, <1>3 DEF Next

LEMMA InductiveOffered == Spec => []OInv
BY InitOInv, NextOInv, Inductive, PTL DEF Spec

\* When the drain has ended, what was framed is what was offered, up to and with
\* the first terminal event.
LEMMA AtTheEnd ==
  ASSUME IInv, OInv, drain = "ended"
  PROVE  \/ ~terminalSeen /\ NoneYet /\ FramedUpTo(Len(offered))
         \/ terminalSeen /\ \E t \in 1 .. Len(offered) :
              /\ offered[t] \in Terminals /\ Quiet(t - 1) /\ FramedUpTo(t)
              /\ framed # <<>> /\ Last(framed) = offered[t]
<1> USE DEF IInv, OInv
<1>1. CASE terminalSeen
  BY <1>1 DEF FramedStops
<1>2. CASE ~terminalSeen
  <2>1. PICK g : Counts(g) /\ FramedUpTo(g[0]) /\ Quiet(g[0])
    BY <1>2 DEF MergeFollows
  <2>2. queue = <<>> /\ pulled = <<>> /\ Len(queue) = 0 /\ Len(pulled) = 0
    BY DEF EndedEmpty
  <2>3. Len(offered) \in Nat
    BY DEF TypeOK, LinesOK
  <2>4. g[0] = Len(offered)
    BY <2>1, <2>2, <2>3 DEF Counts, Taken
  <2> QED BY <1>2, <2>1, <2>4 DEF NoneYet
<1> QED BY <1>1, <1>2

\* A command in machine mode that exits has written its last word to stdout, and
\* it is the verdict if its run had one (emitMachineModeOutput), however far the
\* drain lagged behind the conclusion when that asked.
THEOREM LastWordIsTold == Spec => []LastWordTold
<1>1. ASSUME IInv, OInv PROVE LastWordTold
  <2> SUFFICES ASSUME stage = "exited", machine, drain = "ended"
               PROVE  stdout # <<>> /\ Last(stdout) = LastWord
    BY DEF LastWordTold
  <2>1. stdout = framed /\ Len(offered) \in Nat
    BY <1>1 DEF IInv, OInv, StdoutFollows, EndedEmpty, TypeOK, LinesOK
  <2>2. PICK t \in 1 .. Len(offered) : offered[t] = LastWord /\ LastWord \in Terminals /\ Quiet(t - 1)
    BY <1>1 DEF OInv, Told, FirstIs
  <2>3. ~NoneYet
    BY <2>2 DEF NoneYet, Quiet
  <2>4. PICK u \in 1 .. Len(offered) :
          /\ offered[u] \in Terminals /\ Quiet(u - 1)
          /\ framed # <<>> /\ Last(framed) = offered[u]
    BY <1>1, <2>3, AtTheEnd
  <2>5. t = u
    <3>1. ~(t < u) /\ ~(u < t)
      BY <2>1, <2>2, <2>4 DEF Quiet
    <3> QED BY <2>1, <3>1
  <2> QED BY <2>1, <2>2, <2>4, <2>5
<1> QED BY <1>1, Inductive, InductiveOffered, PTL

\* A command that exits has written every event it offered up to the terminal
\* one (closeAndDrainStream).
THEOREM AllIsWritten == Spec => []AllWritten
<1>1. ASSUME IInv, OInv PROVE AllWritten
  <2> SUFFICES ASSUME stage = "exited", drain = "ended"
               PROVE  /\ Due = ToSet(framed) \ {"tick"}
                      /\ ~fileFailed => file = framed
                      /\ machine => stdout = framed
    BY DEF AllWritten
  <2>1. line = "none"
    BY <1>1 DEF OInv, EndedEmpty
  <2>2. (~fileFailed => file = framed) /\ (machine => stdout = framed)
    BY <1>1, <2>1 DEF IInv, FileFollows, ForFile, StdoutFollows
  <2>3. offered \in Seq(Events) /\ Len(offered) \in Nat /\ DOMAIN offered = 1 .. Len(offered)
    BY <1>1 DEF IInv, TypeOK, LinesOK
  <2> DEFINE open == {j \in DOMAIN offered : \A k \in 1 .. j - 1 : offered[k] \notin Terminals}
  <2>4. CASE NoneYet /\ FramedUpTo(Len(offered))
    <3>1. open = 1 .. Len(offered)
      BY <2>3, <2>4 DEF NoneYet, Quiet
    <3> QED BY <2>2, <2>4, <3>1 DEF Due, FramedUpTo
  <2>5. ASSUME NEW t \in 1 .. Len(offered), offered[t] \in Terminals, Quiet(t - 1), FramedUpTo(t)
        PROVE  Due = ToSet(framed) \ {"tick"}
    <3>1. open = 1 .. t
      <4>1. ASSUME NEW j \in open PROVE j \in 1 .. t
        <5>1. ~(t < j)
          BY <2>3, <2>5
        <5> QED BY <2>3, <5>1
      <4>2. ASSUME NEW j \in 1 .. t PROVE j \in open
        BY <2>3, <2>5 DEF Quiet
      <4> QED BY <4>1, <4>2
    <3> QED BY <2>5, <3>1 DEF Due, FramedUpTo
  <2> QED BY <1>1, <2>2, <2>4, <2>5, AtTheEnd
<1> QED BY <1>1, Inductive, InductiveOffered, PTL

-----------------------------------------------------------------------------
(* The channels to the reporters, for any number of reporters and fibers,    *)
(* every bound and every batch.                                            *)

\* What a reporter has seen follows from where it stands.
ConsumerRight(r) ==
  /\ consumer[r] \in {"starting", "reading"} => ~state[r].terminalSeen /\ Report \notin holding[r]
  /\ consumer[r] = "starting" => holding[r] = {}
  /\ consumer[r] = "handling" => (state[r].terminalSeen <=> Report \in holding[r])
  /\ Batch[r] = 1 =>
       /\ consumer[r] = "reading" => holding[r] = {}
       /\ consumer[r] = "handling" => \E event \in Offerers : holding[r] = {event}

\* What it ended with is told from whether it has seen the report.
ExitRight(r) ==
  /\ exit[r] # "none" <=> consumer[r] \in {"detaching", "ended"}
  /\ failure[r] # "none" <=> exit[r] = "failed"
  /\ failure[r] = "report" => state[r].terminalSeen
  /\ Batch[r] = 1 /\ failure[r] = "early" => ~state[r].terminalSeen
  /\ settlement[r] \notin {"none", "stalled"} => consumer[r] = "ended" /\ settlement[r] = OutcomeOf(r)

\* No channel is shut down, and no report seen, but for a reason.
ChannelRight(r) ==
  /\ phase = "mutants" /\ shut[r] => state[r].detached
  /\ consumer[r] = "detaching" => state[r].detached
  /\ state[r].terminalSeen => state[r].terminalOffered
  /\ \A i \in 1 .. Len(channel[r]) : channel[r][i] = Report => state[r].terminalOffered

OffererRight(f) == step[f] = "detaching" => Delivering(f) /\ state[Target(f)].detached

\* The engine's fiber has left behind only reporters it has served.
EngineRight ==
  /\ phase \in {"settling", "closed"} => Offered(Engine)
  /\ \A i \in DOMAIN Attachments :
       i < at[Engine] => state[Attachments[i]].terminalOffered \/ state[Attachments[i]].detached

ReporterInv ==
  /\ ReporterTypeOK /\ EngineRight
  /\ \A r \in Reporters : ConsumerRight(r) /\ ExitRight(r) /\ ChannelRight(r)
  /\ \A f \in Offerers : OffererRight(f)

States == [terminalSeen : BOOLEAN, terminalOffered : BOOLEAN, detached : BOOLEAN]

-----------------------------------------------------------------------------
(* The types.                                                              *)

LEMMA Domains ==
  /\ \A i \in DOMAIN Attachments : Attachments[i] \in Reporters
  /\ \A r \in Reporters : \E i \in DOMAIN Attachments : r = Attachments[i]
  /\ DOMAIN Attachments = 1 .. Len(Attachments) /\ Len(Attachments) \in Nat
BY StreamAssumption DEF Reporters

LEMMA InitReporterType == ReporterInit => ReporterTypeOK
<1> SUFFICES ASSUME ReporterInit PROVE ReporterTypeOK
  OBVIOUS
<1>1. /\ at \in [Offerers -> 1 .. Len(Attachments) + 1]
      /\ step \in [Offerers -> {"check", "publishing", "waiting", "detaching"}]
  BY Domains DEF ReporterInit
<1>2. /\ channel \in [Reporters -> Seq(Offerers)]
      /\ \A r \in Reporters : Len(channel[r]) <= ChannelBound
  BY StreamAssumption DEF ReporterInit
<1> QED BY <1>1, <1>2 DEF ReporterInit, ReporterTypeOK

LEMMA FieldTypes ==
  ASSUME ReporterTypeOK, NEW r \in Reporters, NEW b \in BOOLEAN
  PROVE  /\ [state EXCEPT ![r].terminalSeen = @ \/ b] \in [Reporters -> States]
         /\ [state EXCEPT ![r].terminalOffered = @ \/ b] \in [Reporters -> States]
         /\ [state EXCEPT ![r].detached = @ \/ b] \in [Reporters -> States]
<1>1. state[r] \in States
  BY DEF ReporterTypeOK, States
<1>2. /\ [state[r] EXCEPT !.terminalSeen = @ \/ b] \in States
      /\ [state[r] EXCEPT !.terminalOffered = @ \/ b] \in States
      /\ [state[r] EXCEPT !.detached = @ \/ b] \in States
  BY <1>1 DEF States
<1> QED BY <1>2 DEF ReporterTypeOK, States

LEMMA DetachedType == ASSUME ReporterTypeOK, NEW r \in Reporters PROVE Detached(r) \in [Reporters -> States]
<1> DEFINE b == ~state[r].terminalSeen
<1>1. b \in BOOLEAN
  OBVIOUS
<1>2. [state EXCEPT ![r].detached = @ \/ b] \in [Reporters -> States]
  BY <1>1, FieldTypes
<1> QED BY <1>2 DEF Detached

LEMMA OfferType == ASSUME ReporterTypeOK, NEW f \in Offerers, OfferStep(f) PROVE ReporterTypeOK'
<1>1. PICK r \in Reporters : r = Target(f) /\ Delivering(f) /\ phase = "mutants"
  BY Domains DEF OfferStep, Check, Publish, Wait, Refuse, Stall, ShutDown, MayOffer, Delivering,
     Target
<1>2. at[f] + 1 \in 1 .. Len(Attachments) + 1
  BY <1>1, Domains DEF ReporterTypeOK, Delivering
<1>3. ASSUME NextAttachment(f)
      PROVE  /\ at' \in [Offerers -> 1 .. Len(Attachments) + 1]
             /\ step' \in [Offerers -> {"check", "publishing", "waiting", "detaching"}]
  BY <1>2, <1>3 DEF NextAttachment, ReporterTypeOK
<1>4. CASE Check(f) \/ Wait(f) \/ Refuse(f)
  <2>1. /\ at' \in [Offerers -> 1 .. Len(Attachments) + 1]
        /\ step' \in [Offerers -> {"check", "publishing", "waiting", "detaching"}]
    <3>1. CASE NextAttachment(f)
      BY <1>3, <3>1
    <3>2. CASE Check(f) /\ ~NextAttachment(f)
      BY <3>2 DEF Check, ReporterTypeOK
    <3>3. CASE Wait(f)
      BY <3>3 DEF Wait, ReporterTypeOK
    <3> QED BY <1>4, <3>1, <3>2, <3>3 DEF Refuse
  <2> QED BY <1>4, <2>1 DEF Check, Wait, Refuse, ReporterTypeOK
<1>5. CASE Publish(f)
  <2>1. /\ channel' = IF Subscribed(r) THEN [channel EXCEPT ![r] = Append(@, f)] ELSE channel
        /\ state' = [state EXCEPT ![r].terminalOffered = @ \/ f = Report]
        /\ NextAttachment(f) /\ ~Full(r)
    BY <1>1, <1>5 DEF Publish, Accept
  <2>2. channel' \in [Reporters -> Seq(Offerers)] /\ \A v \in Reporters : Len(channel'[v]) <= ChannelBound
    <3>1. CASE Subscribed(r)
      <4>1. Len(channel[r]) \in Nat /\ Len(channel[r]) < ChannelBound
        BY <2>1, <3>1, StreamAssumption DEF Full, ReporterTypeOK
      <4>2. channel[r] \in Seq(Offerers)
        BY DEF ReporterTypeOK
      <4>3. Append(channel[r], f) \in Seq(Offerers) /\ Len(Append(channel[r], f)) <= ChannelBound
        BY <4>1, <4>2, StreamAssumption
      <4> QED BY <2>1, <3>1, <4>3 DEF ReporterTypeOK
    <3>2. CASE ~Subscribed(r)
      BY <2>1, <3>2 DEF ReporterTypeOK
    <3> QED BY <3>1, <3>2
  <2>3. state' \in [Reporters -> States]
    <3>1. (f = Report) \in BOOLEAN
      OBVIOUS
    <3> QED BY <2>1, <3>1, FieldTypes
  <2> QED BY <1>3, <1>5, <2>1, <2>2, <2>3 DEF Publish, ReporterTypeOK, States
<1>6. CASE Stall(f)
  <2>1. state' \in [Reporters -> States]
    BY <1>1, <1>6, DetachedType DEF Stall
  <2>2. /\ at' \in [Offerers -> 1 .. Len(Attachments) + 1]
        /\ step' \in [Offerers -> {"check", "publishing", "waiting", "detaching"}]
    BY <1>3, <1>6 DEF Stall, ReporterTypeOK
  <2> QED BY <1>6, <2>1, <2>2 DEF Stall, ReporterTypeOK, States
<1>7. CASE ShutDown(f)
  <2>1. shut' \in [Reporters -> BOOLEAN]
    BY <1>7 DEF ShutDown, ReporterTypeOK
  <2> QED BY <1>3, <1>7, <2>1 DEF ShutDown, ReporterTypeOK
<1> QED BY <1>4, <1>5, <1>6, <1>7 DEF OfferStep

LEMMA ConsumerType == ASSUME ReporterTypeOK, NEW r \in Reporters, ConsumerStep(r) PROVE ReporterTypeOK'
<1>1. CASE Subscribe(r)
  BY <1>1 DEF Subscribe, engine, ReporterTypeOK
<1>2. CASE Take(r)
  <2>1. /\ Head(channel[r]) \in Offerers /\ Tail(channel[r]) \in Seq(Offerers)
        /\ Len(Tail(channel[r])) <= ChannelBound
    <3>1. channel[r] \in Seq(Offerers) /\ channel[r] # <<>> /\ Len(channel[r]) <= ChannelBound
      BY <1>2 DEF Take, ReporterTypeOK
    <3>2. Len(channel[r]) \in Nat /\ Len(Tail(channel[r])) = Len(channel[r]) - 1
      BY <3>1
    <3> QED BY <3>1, <3>2, StreamAssumption
  <2>2. /\ channel' \in [Reporters -> Seq(Offerers)]
        /\ \A v \in Reporters : Len(channel'[v]) <= ChannelBound
    BY <1>2, <2>1 DEF Take, ReporterTypeOK
  <2>3. state' \in [Reporters -> States]
    <3>1. (Head(channel[r]) = Report) \in BOOLEAN
      OBVIOUS
    <3> QED BY <1>2, <3>1, FieldTypes DEF Take
  <2>4. holding' \in [Reporters -> SUBSET Offerers]
    BY <1>2, <2>1 DEF Take, ReporterTypeOK
  <2> QED BY <1>2, <2>2, <2>3, <2>4 DEF Take, engine, ReporterTypeOK, States
<1>3. CASE Handle(r)
  BY <1>3 DEF Handle, engine, ReporterTypeOK
<1>4. CASE EndOfEvents(r)
  <2>1. /\ channel' \in [Reporters -> Seq(Offerers)]
        /\ \A v \in Reporters : Len(channel'[v]) <= ChannelBound
    BY <1>4, StreamAssumption DEF EndOfEvents, ReporterTypeOK
  <2> QED BY <1>4, <2>1 DEF EndOfEvents, engine, ReporterTypeOK
<1>5. CASE End(r)
  <2>1. state' \in [Reporters -> States]
    BY <1>5, DetachedType DEF End
  <2>2. /\ exit' \in [Reporters -> {"none", "completed", "failed"}]
        /\ failure' \in [Reporters -> {"none", "early", "report"}]
    BY <1>5 DEF End, ReporterTypeOK
  <2> QED BY <1>5, <2>1, <2>2 DEF End, engine, ReporterTypeOK, States
<1>6. CASE ConsumerShutDown(r)
  BY <1>6 DEF ConsumerShutDown, engine, ReporterTypeOK
<1> QED BY <1>1, <1>2, <1>3, <1>4, <1>5, <1>6 DEF ConsumerStep

LEMMA EngineType == ASSUME ReporterTypeOK, EngineStep \/ Stop PROVE ReporterTypeOK'
<1>1. CASE CloseStage
  BY <1>1 DEF CloseStage, ReporterTypeOK
<1>2. ASSUME NEW r \in Reporters, Settle(r) \/ SettleStalled(r) PROVE ReporterTypeOK'
  <2>1. OutcomeOf(r) \in {"completed", "detached", "terminal-failed"}
    BY DEF OutcomeOf
  <2>2. settlement' \in [Reporters ->
          {"none", "completed", "detached", "terminal-failed", "stalled"}]
    BY <1>2, <2>1 DEF Settle, SettleStalled, ReporterTypeOK
  <2> QED BY <1>2, <2>2 DEF Settle, SettleStalled, ReporterTypeOK
<1>3. CASE Closed \/ Stop
  BY <1>3 DEF Closed, Stop, ReporterTypeOK
<1> QED BY <1>1, <1>2, <1>3 DEF EngineStep

-----------------------------------------------------------------------------
(* The invariant.                                                          *)

LEMMA InitReporterInv == ReporterInit => ReporterInv
<1> SUFFICES ASSUME ReporterInit PROVE ReporterInv
  OBVIOUS
<1>1. EngineRight
  BY Domains DEF ReporterInit, EngineRight, Offerers
<1>2. ASSUME NEW r \in Reporters PROVE ConsumerRight(r) /\ ExitRight(r) /\ ChannelRight(r)
  BY <1>2 DEF ReporterInit, ConsumerRight, ExitRight, ChannelRight
<1>3. ASSUME NEW f \in Offerers PROVE OffererRight(f)
  BY <1>3 DEF ReporterInit, OffererRight
<1> QED BY <1>1, <1>2, <1>3, InitReporterType DEF ReporterInv

\* An offerer gives its event to a reporter, or passes over one that is cut off;
\* what it does to a reporter's state is never taken back.
LEMMA OfferEffect ==
  ASSUME ReporterInv, NEW f \in Offerers, OfferStep(f)
  PROVE  /\ phase = "mutants"
         /\ UNCHANGED <<phase, settlement, consumer, holding, exit, failure>>
         /\ \A r \in Reporters :
              /\ state'[r].terminalSeen = state[r].terminalSeen
              /\ state[r].terminalOffered => state'[r].terminalOffered
              /\ state[r].detached => state'[r].detached
              /\ shut'[r] => shut[r] \/ state'[r].detached
              /\ \/ channel'[r] = channel[r]
                 \/ /\ channel'[r] = Append(channel[r], f)
                    /\ f = Report => state'[r].terminalOffered
         /\ \A g \in Offerers : g # f => at'[g] = at[g] /\ step'[g] = step[g]
         /\ step'[f] = "detaching" => at'[f] = at[f] /\ Delivering(f) /\ state'[Target(f)].detached
         /\ \/ at'[f] = at[f]
            \/ /\ at'[f] = at[f] + 1
               /\ f = Engine => state'[Target(f)].terminalOffered \/ state'[Target(f)].detached
<1>1. phase = "mutants" /\ UNCHANGED <<phase, settlement, consumer, holding, exit, failure>>
      /\ Delivering(f)
  BY DEF OfferStep, Check, Publish, Accept, Wait, Refuse, Stall, ShutDown, MayOffer
<1>2. PICK t \in Reporters : t = Target(f)
  BY <1>1, Domains DEF Delivering, Target
<1>3. /\ state \in [Reporters -> States] /\ shut \in [Reporters -> BOOLEAN]
      /\ channel \in [Reporters -> Seq(Offerers)]
      /\ f \in DOMAIN at /\ f \in DOMAIN step
  BY DEF ReporterInv, ReporterTypeOK, States
<1>4. \A r \in Reporters : state[r] \in States
  BY <1>3
<1>5. ChannelRight(t) /\ OffererRight(f)
  BY DEF ReporterInv
<1>6. NextAttachment(f) =>
        /\ at'[f] = at[f] + 1 /\ step'[f] # "detaching"
        /\ \A g \in Offerers : g # f => at'[g] = at[g] /\ step'[g] = step[g]
  BY <1>3 DEF NextAttachment, ReporterInv, ReporterTypeOK
<1>7. CASE Check(f)
  <2>1. UNCHANGED <<state, shut, channel>>
    BY <1>7 DEF Check
  <2>2. CASE state[t].detached
    BY <1>1, <1>2, <1>6, <1>7, <2>1, <2>2 DEF Check
  <2>3. CASE ~state[t].detached
    <3>1. UNCHANGED at /\ step'[f] # "detaching" /\ \A g \in Offerers : g # f => step'[g] = step[g]
      BY <1>2, <1>3, <1>7, <2>3 DEF Check, ReporterInv, ReporterTypeOK
    <3> QED BY <1>1, <2>1, <3>1
  <2> QED BY <2>2, <2>3
<1>8. CASE Publish(f)
  <2>1. /\ channel' = IF Subscribed(t) THEN [channel EXCEPT ![t] = Append(@, f)] ELSE channel
        /\ state' = [state EXCEPT ![t].terminalOffered = @ \/ f = Report]
        /\ NextAttachment(f) /\ UNCHANGED shut
    BY <1>2, <1>8 DEF Publish, Accept
  <2>2. /\ \A r \in Reporters : r # t => state'[r] = state[r] /\ channel'[r] = channel[r]
        /\ channel'[t] = channel[t] \/ channel'[t] = Append(channel[t], f)
        /\ state'[t].terminalSeen = state[t].terminalSeen
        /\ state'[t].detached = state[t].detached
        /\ state'[t].terminalOffered = (state[t].terminalOffered \/ f = Report)
    BY <1>3, <1>4, <2>1 DEF States
  <2> QED BY <1>1, <1>2, <1>6, <2>1, <2>2 DEF Report
<1>9. CASE Wait(f)
  <2>1. UNCHANGED <<at, state, shut, channel>> /\ step'[f] # "detaching"
        /\ \A g \in Offerers : g # f => step'[g] = step[g]
    BY <1>9 DEF Wait, ReporterInv, ReporterTypeOK
  <2> QED BY <1>1, <2>1
<1>10. CASE Refuse(f)
  <2>1. UNCHANGED <<state, shut, channel>> /\ NextAttachment(f) /\ shut[t]
    BY <1>2, <1>10 DEF Refuse
  <2>2. state[t].detached
    BY <1>1, <1>5, <2>1 DEF ChannelRight
  <2> QED BY <1>1, <1>2, <1>6, <2>1, <2>2
<1>11. CASE Stall(f)
  <2>1. /\ UNCHANGED <<shut, channel>>
        /\ \A r \in Reporters : r # t => state'[r] = state[r]
        /\ state'[t].terminalSeen = state[t].terminalSeen
        /\ state'[t].terminalOffered = state[t].terminalOffered
        /\ state'[t].detached = (state[t].detached \/ ~state[t].terminalSeen)
    BY <1>2, <1>3, <1>4, <1>11 DEF Stall, Detached, States
  <2>2. CASE state[t].terminalSeen
    <3>1. NextAttachment(f) /\ state[t].terminalOffered
      BY <1>2, <1>5, <1>11, <2>2 DEF Stall, ChannelRight
    <3> QED BY <1>1, <1>2, <1>6, <2>1, <3>1
  <2>3. CASE ~state[t].terminalSeen
    <3>1. UNCHANGED at /\ \A g \in Offerers : g # f => step'[g] = step[g]
      BY <1>2, <1>3, <1>11, <2>3 DEF Stall, ReporterInv, ReporterTypeOK
    <3> QED BY <1>1, <1>2, <2>1, <2>3, <3>1
  <2> QED BY <2>2, <2>3
<1>12. CASE ShutDown(f)
  <2>1. /\ UNCHANGED <<state, channel>> /\ NextAttachment(f) /\ state[t].detached
        /\ \A r \in Reporters : r # t => shut'[r] = shut[r]
    BY <1>2, <1>3, <1>5, <1>12 DEF ShutDown, OffererRight
  <2> QED BY <1>1, <1>2, <1>6, <2>1
<1> QED BY <1>7, <1>8, <1>9, <1>10, <1>11, <1>12 DEF OfferStep

LEMMA OfferReporterInv ==
  ASSUME ReporterInv, NEW f \in Offerers, OfferStep(f)
  PROVE  /\ EngineRight'
         /\ \A r \in Reporters : ConsumerRight(r)' /\ ExitRight(r)' /\ ChannelRight(r)'
         /\ \A g \in Offerers : OffererRight(g)'
<1>1. ASSUME NEW r \in Reporters PROVE ConsumerRight(r)' /\ ExitRight(r)'
  <2>1. state'[r].terminalSeen = state[r].terminalSeen
        /\ UNCHANGED <<consumer, holding, exit, failure, settlement>>
    BY OfferEffect
  <2> QED BY <2>1 DEF ReporterInv, ConsumerRight, ExitRight, OutcomeOf
<1>2. ASSUME NEW r \in Reporters PROVE ChannelRight(r)'
  <2>1. ChannelRight(r) /\ channel[r] \in Seq(Offerers)
    BY DEF ReporterInv, ReporterTypeOK
  <2>2. /\ phase = "mutants" /\ UNCHANGED <<phase, consumer>>
        /\ state'[r].terminalSeen = state[r].terminalSeen
        /\ state[r].terminalOffered => state'[r].terminalOffered
        /\ state[r].detached => state'[r].detached
        /\ shut'[r] => shut[r] \/ state'[r].detached
        /\ \/ channel'[r] = channel[r]
           \/ /\ channel'[r] = Append(channel[r], f)
              /\ f = Report => state'[r].terminalOffered
    BY OfferEffect
  <2>3. \A i \in 1 .. Len(channel'[r]) : channel'[r][i] = Report => state'[r].terminalOffered
    <3>1. CASE channel'[r] = channel[r]
      BY <2>1, <2>2, <3>1 DEF ChannelRight
    <3>2. CASE channel'[r] = Append(channel[r], f)
      <4>1. \A i \in 1 .. Len(channel'[r]) : channel'[r][i] = f \/
              (i \in 1 .. Len(channel[r]) /\ channel'[r][i] = channel[r][i])
        BY <2>1, <3>2
      <4>2. CASE f = Report
        <5>1. state'[r].terminalOffered \/ channel'[r] = channel[r]
          BY <2>2, <4>2
        <5> QED BY <5>1, <3>1
      <4>3. CASE f # Report
        BY <2>1, <2>2, <4>1, <4>3 DEF ChannelRight
      <4> QED BY <4>2, <4>3
    <3> QED BY <2>2, <3>1, <3>2
  <2> QED BY <2>1, <2>2, <2>3 DEF ChannelRight
<1>3. ASSUME NEW g \in Offerers PROVE OffererRight(g)'
  <2>1. CASE g = f
    BY <2>1, OfferEffect DEF OffererRight, Delivering, Target
  <2>2. CASE g # f
    <3>1. at'[g] = at[g] /\ step'[g] = step[g] /\ OffererRight(g)
      BY <2>2, OfferEffect DEF ReporterInv
    <3>2. step[g] = "detaching" => Target(g) \in Reporters
      BY <3>1, Domains DEF OffererRight, Delivering, Target
    <3>3. \A r \in Reporters : state[r].detached => state'[r].detached
      BY OfferEffect
    <3> QED BY <3>1, <3>2, <3>3 DEF OffererRight, Delivering, Target
  <2> QED BY <2>1, <2>2
<1>4. EngineRight'
  <2>1. phase' \notin {"settling", "closed"}
    BY OfferEffect
  <2>2. ASSUME NEW i \in DOMAIN Attachments, i < at'[Engine]
        PROVE  state'[Attachments[i]].terminalOffered \/ state'[Attachments[i]].detached
    <3>1. Attachments[i] \in Reporters
      BY Domains
    <3>2. CASE i < at[Engine]
      <4>1. state[Attachments[i]].terminalOffered \/ state[Attachments[i]].detached
        BY <3>2 DEF ReporterInv, EngineRight
      <4> QED BY <3>1, <4>1, OfferEffect
    <3>3. CASE ~(i < at[Engine])
      <4>1. f = Engine /\ at'[Engine] = at[Engine] + 1
        BY <2>2, <3>3, OfferEffect DEF Offerers
      <4>2. i = at[Engine]
        <5>1. at[Engine] \in Nat /\ i \in Nat
          BY Domains DEF ReporterInv, ReporterTypeOK, Offerers
        <5> QED BY <2>2, <3>3, <4>1, <5>1
      <4>3. at'[f] # at[f]
        BY <2>2, <3>3, <4>1
      <4> QED BY <4>1, <4>2, <4>3, OfferEffect DEF Target
    <3> QED BY <3>2, <3>3
  <2> QED BY <2>1, <2>2 DEF EngineRight
<1> QED BY <1>1, <1>2, <1>3, <1>4

\* A step of a consumer leaves the other reporters alone, and nothing that has
\* been offered or detached is taken back.
LEMMA ConsumerEffect ==
  ASSUME ReporterInv, NEW r \in Reporters, ConsumerStep(r)
  PROVE  /\ UNCHANGED <<phase, at, step, settlement>>
         /\ \A v \in Reporters :
              /\ state'[v].terminalOffered = state[v].terminalOffered
              /\ state[v].detached => state'[v].detached
         /\ \A v \in Reporters : v # r =>
              /\ state'[v] = state[v] /\ consumer'[v] = consumer[v] /\ holding'[v] = holding[v]
              /\ channel'[v] = channel[v] /\ shut'[v] = shut[v] /\ exit'[v] = exit[v]
              /\ failure'[v] = failure[v]
<1>1. /\ state \in [Reporters -> States] /\ \A v \in Reporters : state[v] \in States
  BY DEF ReporterInv, ReporterTypeOK, States
<1>2. CASE Subscribe(r) \/ Handle(r) \/ EndOfEvents(r) \/ ConsumerShutDown(r)
  BY <1>2 DEF Subscribe, Handle, EndOfEvents, ConsumerShutDown, engine, ReporterInv, ReporterTypeOK
<1>3. CASE Take(r)
  <2>1. /\ \A v \in Reporters : v # r => state'[v] = state[v]
        /\ state'[r].terminalOffered = state[r].terminalOffered
        /\ state'[r].detached = state[r].detached
    BY <1>1, <1>3 DEF Take, States
  <2> QED BY <1>3, <2>1 DEF Take, engine, ReporterInv, ReporterTypeOK
<1>4. CASE End(r)
  <2>1. /\ \A v \in Reporters : v # r => state'[v] = state[v]
        /\ state'[r].terminalOffered = state[r].terminalOffered
        /\ state'[r].detached = (state[r].detached \/ ~state[r].terminalSeen)
    BY <1>1, <1>4 DEF End, Detached, States
  <2>2. UNCHANGED <<phase, at, step, settlement, channel, shut, holding>>
    BY <1>4 DEF End, engine
  <2>3. \A v \in Reporters : v # r =>
          consumer'[v] = consumer[v] /\ exit'[v] = exit[v] /\ failure'[v] = failure[v]
    BY <1>4 DEF End, ReporterInv, ReporterTypeOK
  <2> QED BY <2>1, <2>2, <2>3
<1> QED BY <1>2, <1>3, <1>4 DEF ConsumerStep

LEMMA TakeReporterInv ==
  ASSUME ReporterInv, NEW r \in Reporters, Take(r)
  PROVE  ConsumerRight(r)' /\ ExitRight(r)' /\ ChannelRight(r)'
<1>1. PICK event \in Offerers : event = Head(channel[r])
  <2>1. channel[r] \in Seq(Offerers) /\ channel[r] # <<>>
    BY DEF Take, ReporterInv, ReporterTypeOK
  <2> QED BY <2>1
<1>2. /\ consumer[r] = "reading" /\ channel[r] # <<>> /\ channel[r] \in Seq(Offerers)
      /\ ConsumerRight(r) /\ ExitRight(r) /\ ChannelRight(r)
      /\ state[r] \in States
  BY DEF Take, ReporterInv, ReporterTypeOK, States
<1>3. /\ channel'[r] = Tail(channel[r]) /\ holding'[r] = holding[r] \cup {event}
      /\ state'[r].terminalSeen = (state[r].terminalSeen \/ event = Report)
      /\ state'[r].terminalOffered = state[r].terminalOffered
      /\ state'[r].detached = state[r].detached
      /\ consumer'[r] = IF event = Report \/ Cardinality(holding[r] \cup {event}) = Batch[r]
                        THEN "handling" ELSE "reading"
      /\ UNCHANGED <<phase, shut, exit, failure, settlement>>
  BY <1>1, <1>2 DEF Take, engine, ReporterInv, ReporterTypeOK, States
<1>4. ~state[r].terminalSeen /\ Report \notin holding[r]
  BY <1>2 DEF ConsumerRight
<1>5. ConsumerRight(r)'
  <2>1. ASSUME Batch[r] = 1
        PROVE  consumer'[r] = "handling" /\ holding'[r] = {event}
    <3>1. holding[r] = {}
      BY <1>2, <2>1 DEF ConsumerRight
    <3>2. holding[r] \cup {event} = {event} /\ Cardinality({event}) = 1
      BY <3>1, FS_Singleton
    <3> QED BY <1>3, <2>1, <3>2
  <2> QED BY <1>3, <1>4, <2>1 DEF ConsumerRight
<1>6. ExitRight(r)'
  BY <1>2, <1>3 DEF ExitRight
<1>7. ChannelRight(r)'
  <2>1. /\ Len(channel[r]) \in Nat /\ Len(channel[r]) > 0 /\ event = channel[r][1]
        /\ Len(Tail(channel[r])) = Len(channel[r]) - 1
        /\ \A i \in 1 .. Len(Tail(channel[r])) : Tail(channel[r])[i] = channel[r][i + 1]
    BY <1>1, <1>2
  <2>2. event = Report => state[r].terminalOffered
    <3>1. 1 \in 1 .. Len(channel[r])
      BY <2>1
    <3>2. channel[r][1] = Report => state[r].terminalOffered
      BY <1>2, <3>1 DEF ChannelRight
    <3> QED BY <2>1, <3>2
  <2>3. \A i \in 1 .. Len(channel'[r]) : channel'[r][i] = Report => state'[r].terminalOffered
    BY <1>2, <1>3, <2>1 DEF ChannelRight
  <2> QED BY <1>2, <1>3, <2>2, <2>3 DEF ChannelRight
<1> QED BY <1>5, <1>6, <1>7

LEMMA EndReporterInv ==
  ASSUME ReporterInv, NEW r \in Reporters, End(r)
  PROVE  ConsumerRight(r)' /\ ExitRight(r)' /\ ChannelRight(r)'
<1>1. /\ consumer[r] \in {"starting", "reading", "handling", "finishing"}
      /\ ConsumerRight(r) /\ ExitRight(r) /\ ChannelRight(r) /\ state[r] \in States
  BY DEF End, ReporterInv, ReporterTypeOK, States
<1>2. /\ state'[r].terminalSeen = state[r].terminalSeen
      /\ state'[r].terminalOffered = state[r].terminalOffered
      /\ state'[r].detached = (state[r].detached \/ ~state[r].terminalSeen)
      /\ consumer'[r] = IF state[r].terminalSeen THEN "ended" ELSE "detaching"
      /\ UNCHANGED <<phase, shut, channel, holding, settlement>>
  BY <1>1 DEF End, Detached, engine, ReporterInv, ReporterTypeOK, States
<1>3. \/ exit'[r] = "completed" /\ failure'[r] = failure[r]
      \/ /\ exit'[r] = "failed"
         /\ \E event \in FailedOn(r) : failure'[r] = IF event = Report THEN "report" ELSE "early"
  BY DEF End, ReporterInv, ReporterTypeOK
<1>4. ConsumerRight(r)' /\ ChannelRight(r)'
  BY <1>1, <1>2 DEF ConsumerRight, ChannelRight
<1>5. ExitRight(r)'
  <2>1. exit[r] = "none" /\ failure[r] = "none"
    BY <1>1 DEF ExitRight
  <2>2. settlement'[r] \in {"none", "stalled"}
    BY <1>1, <1>2 DEF ExitRight
  <2>3. CASE exit'[r] = "completed" /\ failure'[r] = failure[r]
    BY <1>2, <2>1, <2>2, <2>3 DEF ExitRight
  <2>4. ASSUME NEW event \in FailedOn(r), exit'[r] = "failed",
               failure'[r] = IF event = Report THEN "report" ELSE "early"
        PROVE  ExitRight(r)'
    <3>1. event = Report => state[r].terminalSeen
      <4>1. CASE consumer[r] = "handling"
        BY <1>1, <2>4, <4>1 DEF FailedOn, ConsumerRight
      <4>2. CASE consumer[r] # "handling" /\ ~state[r].terminalSeen
        <5>1. FailedOn(r) = {"early"}
          BY <4>2 DEF FailedOn
        <5> QED BY <2>4, <5>1, StreamAssumption DEF Report, Offerers
      <4> QED BY <4>1, <4>2
    <3>2. Batch[r] = 1 /\ event # Report => ~state[r].terminalSeen
      <4>1. CASE consumer[r] = "handling"
        BY <1>1, <2>4, <4>1 DEF FailedOn, ConsumerRight
      <4>2. CASE consumer[r] = "finishing" /\ state[r].terminalSeen
        BY <2>4, <4>2 DEF FailedOn
      <4>3. CASE consumer[r] \in {"starting", "reading"}
        BY <1>1, <4>3 DEF ConsumerRight
      <4> QED BY <1>1, <4>1, <4>2, <4>3
    <3> QED BY <1>2, <2>2, <2>4, <3>1, <3>2 DEF ExitRight
  <2> QED BY <1>3, <2>3, <2>4
<1> QED BY <1>4, <1>5

LEMMA ConsumerReporterInv ==
  ASSUME ReporterInv, NEW r \in Reporters, phase \in {"mutants", "settling"}, ConsumerStep(r)
  PROVE  /\ EngineRight'
         /\ \A v \in Reporters : ConsumerRight(v)' /\ ExitRight(v)' /\ ChannelRight(v)'
         /\ \A f \in Offerers : OffererRight(f)'
<1>1. ASSUME NEW v \in Reporters, v # r PROVE ConsumerRight(v)' /\ ExitRight(v)' /\ ChannelRight(v)'
  <2>1. /\ UNCHANGED <<phase, settlement>>
        /\ state'[v] = state[v] /\ consumer'[v] = consumer[v] /\ holding'[v] = holding[v]
        /\ channel'[v] = channel[v] /\ shut'[v] = shut[v] /\ exit'[v] = exit[v]
        /\ failure'[v] = failure[v]
    BY <1>1, ConsumerEffect
  <2> QED BY <2>1 DEF ReporterInv, ConsumerRight, ExitRight, ChannelRight, OutcomeOf
<1>2. ConsumerRight(r)' /\ ExitRight(r)' /\ ChannelRight(r)'
  <2>1. ConsumerRight(r) /\ ExitRight(r) /\ ChannelRight(r) /\ channel[r] \in Seq(Offerers)
    BY DEF ReporterInv, ReporterTypeOK
  <2>2. CASE Subscribe(r)
    <3>1. /\ consumer[r] = "starting" /\ consumer'[r] \in {"reading", "finishing"}
          /\ UNCHANGED <<phase, settlement, channel, shut, state, holding, exit, failure>>
      BY <2>2 DEF Subscribe, engine, ReporterInv, ReporterTypeOK
    <3> QED BY <2>1, <3>1 DEF ConsumerRight, ExitRight, ChannelRight
  <2>3. CASE Handle(r)
    <3>1. /\ consumer[r] = "handling" /\ holding'[r] = {}
          /\ consumer'[r] = IF Report \in holding[r] THEN "finishing" ELSE "reading"
          /\ UNCHANGED <<phase, settlement, channel, shut, state, exit, failure>>
      BY <2>3 DEF Handle, engine, ReporterInv, ReporterTypeOK
    <3> QED BY <2>1, <3>1 DEF ConsumerRight, ExitRight, ChannelRight
  <2>4. CASE EndOfEvents(r)
    <3>1. /\ consumer[r] = "reading" /\ channel'[r] = <<>>
          /\ consumer'[r] = IF holding[r] = {} THEN "finishing" ELSE "handling"
          /\ UNCHANGED <<phase, settlement, shut, state, holding, exit, failure>>
      BY <2>4 DEF EndOfEvents, engine, ReporterInv, ReporterTypeOK
    <3> QED BY <2>1, <3>1 DEF ConsumerRight, ExitRight, ChannelRight
  <2>5. CASE ConsumerShutDown(r)
    <3>1. /\ consumer[r] = "detaching" /\ consumer'[r] = "ended"
          /\ UNCHANGED <<phase, settlement, channel, state, holding, exit, failure>>
      BY <2>5 DEF ConsumerShutDown, engine, ReporterInv, ReporterTypeOK
    <3> QED BY <2>1, <3>1 DEF ConsumerRight, ExitRight, ChannelRight, OutcomeOf
  <2> QED BY <2>2, <2>3, <2>4, <2>5, TakeReporterInv, EndReporterInv DEF ConsumerStep
<1>3. ASSUME NEW f \in Offerers PROVE OffererRight(f)'
  <2>1. step[f] = "detaching" => Target(f) \in Reporters
    BY Domains DEF ReporterInv, OffererRight, Delivering, Target
  <2> QED BY <2>1, ConsumerEffect DEF ReporterInv, OffererRight, Delivering, Target
<1>4. EngineRight'
  <2>1. \A i \in DOMAIN Attachments : Attachments[i] \in Reporters
    BY Domains
  <2> QED BY <2>1, ConsumerEffect DEF ReporterInv, EngineRight, Offered, Delivering
<1> QED BY <1>1, <1>2, <1>3, <1>4

LEMMA EngineReporterInv ==
  ASSUME ReporterInv, EngineStep \/ Stop
  PROVE  /\ EngineRight'
         /\ \A v \in Reporters : ConsumerRight(v)' /\ ExitRight(v)' /\ ChannelRight(v)'
         /\ \A f \in Offerers : OffererRight(f)'
<1>1. UNCHANGED <<at, step, channel, state, consumer, holding, exit, failure>>
  BY DEF EngineStep, CloseStage, Settle, SettleStalled, Closed, Stop
<1>2. \A f \in Offerers : OffererRight(f)'
  BY <1>1 DEF ReporterInv, OffererRight, Delivering, Target
<1>3. EngineRight'
  <2>1. phase' \in {"settling", "closed"} => Offered(Engine)
    BY DEF EngineStep, CloseStage, Settle, SettleStalled, Closed, Stop, Offerers, ReporterInv, EngineRight
  <2> QED BY <1>1, <2>1 DEF ReporterInv, EngineRight, Offered, Delivering
<1>4. ASSUME NEW r \in Reporters PROVE ConsumerRight(r)'
  BY <1>1 DEF ReporterInv, ConsumerRight
<1>5. ASSUME NEW r \in Reporters PROVE ChannelRight(r)'
  <2>1. phase' = "mutants" => phase = "mutants" /\ shut' = shut
    BY DEF EngineStep, CloseStage, Settle, SettleStalled, Closed, Stop
  <2> QED BY <1>1, <2>1 DEF ReporterInv, ChannelRight
<1>6. ASSUME NEW r \in Reporters PROVE ExitRight(r)'
  <2>1. \/ settlement'[r] = settlement[r] \/ settlement'[r] = "stalled"
        \/ settlement'[r] = OutcomeOf(r) /\ consumer[r] = "ended"
    BY DEF EngineStep, CloseStage, Settle, SettleStalled, Closed, Stop, ReporterInv, ReporterTypeOK
  <2> QED BY <1>1, <2>1 DEF ReporterInv, ExitRight, OutcomeOf
<1> QED BY <1>2, <1>3, <1>4, <1>5, <1>6

LEMMA NextReporterInv == ReporterInv /\ [ReporterNext]_reporter_vars => ReporterInv'
<1> SUFFICES ASSUME ReporterInv, [ReporterNext]_reporter_vars PROVE ReporterInv'
  OBVIOUS
<1>1. CASE UNCHANGED reporter_vars
  <2>1. UNCHANGED <<phase, at, step, settlement, channel, shut, state, consumer, holding, exit, failure>>
    BY <1>1 DEF reporter_vars, engine
  <2>2. ReporterTypeOK' /\ EngineRight'
    BY <2>1 DEF ReporterInv, ReporterTypeOK, EngineRight, Offered, Delivering
  <2>3. \A r \in Reporters : ConsumerRight(r)' /\ ExitRight(r)' /\ ChannelRight(r)'
    BY <2>1 DEF ReporterInv, ConsumerRight, ExitRight, ChannelRight, OutcomeOf
  <2>4. \A f \in Offerers : OffererRight(f)'
    BY <2>1 DEF ReporterInv, OffererRight, Delivering, Target
  <2> QED BY <2>2, <2>3, <2>4 DEF ReporterInv
<1>2. ASSUME NEW f \in Offerers, OfferStep(f) PROVE ReporterInv'
  BY <1>2, OfferType, OfferReporterInv DEF ReporterInv
<1>3. ASSUME NEW r \in Reporters, phase \in {"mutants", "settling"}, ConsumerStep(r) PROVE ReporterInv'
  BY <1>3, ConsumerType, ConsumerReporterInv DEF ReporterInv
<1>4. CASE EngineStep \/ Stop
  BY <1>4, EngineType, EngineReporterInv DEF ReporterInv
<1> QED BY <1>1, <1>2, <1>3, <1>4 DEF ReporterNext, Ended

LEMMA ReportersInductive == ReporterSpec => []ReporterInv
BY InitReporterInv, NextReporterInv, PTL DEF ReporterSpec

-----------------------------------------------------------------------------
(* The theorems.                                                           *)

\* Every variable keeps its type, and every channel its bound.
THEOREM ReporterTypeCorrect == ReporterSpec => []ReporterTypeOK
<1>1. ReporterInv => ReporterTypeOK
  BY DEF ReporterInv
<1> QED BY <1>1, ReportersInductive, PTL

\* The report is offered to every reporter that was not detached before the stage
\* settles (offerToChannel, markDetachedEffect).
THEOREM ReportGoesOut == ReporterSpec => []ReportOffered
<1>1. ReporterInv => ReportOffered
  <2> SUFFICES ASSUME ReporterInv, phase \in {"settling", "closed"}, NEW r \in Reporters
               PROVE  state[r].terminalOffered \/ state[r].detached
    BY DEF ReportOffered
  <2>1. PICK i \in DOMAIN Attachments : r = Attachments[i]
    BY Domains
  <2>2. at[Engine] \notin DOMAIN Attachments /\ at[Engine] \in 1 .. Len(Attachments) + 1
    BY DEF ReporterInv, EngineRight, Offered, Delivering, ReporterTypeOK, Offerers
  <2>3. i < at[Engine]
    BY <2>2, Domains
  <2> QED BY <2>1, <2>3 DEF ReporterInv, EngineRight
<1> QED BY <1>1, ReportersInductive, PTL

\* A failure on the report is told as one, and only a reporter that ended well
\* counts as completed (settleAttachment).
THEOREM FailuresTold == ReporterSpec => []FailureTold
<1>1. ReporterInv => FailureTold
  <2> SUFFICES ASSUME ReporterInv, NEW r \in Reporters, settlement[r] \notin {"none", "stalled"}
               PROVE  /\ failure[r] = "report" => settlement[r] = "terminal-failed"
                      /\ failure[r] = "none" <=> settlement[r] = "completed"
    BY DEF FailureTold
  <2>1. ExitRight(r) /\ exit[r] \in {"none", "completed", "failed"}
    BY DEF ReporterInv, ReporterTypeOK
  <2>2. settlement[r] = OutcomeOf(r) /\ exit[r] \in {"completed", "failed"}
    BY <2>1 DEF ExitRight
  <2>3. CASE exit[r] = "completed"
    BY <2>1, <2>2, <2>3 DEF ExitRight, OutcomeOf
  <2>4. CASE exit[r] = "failed"
    BY <2>1, <2>2, <2>4 DEF ExitRight, OutcomeOf
  <2> QED BY <2>2, <2>3, <2>4
<1> QED BY <1>1, ReportersInductive, PTL

\* A reporter that handles its events one by one is forgiven an early failure
\* (settleFailedAttachment), whatever waits in its channel.
THEOREM EarlyFailures == ReporterSpec => []EarlyFailureForgiven
<1>1. ReporterInv => EarlyFailureForgiven
  <2> SUFFICES ASSUME ReporterInv, NEW r \in Reporters, Batch[r] = 1, settlement[r] = "terminal-failed"
               PROVE  failure[r] = "report"
    BY DEF EarlyFailureForgiven
  <2>1. ExitRight(r) /\ failure[r] \in {"none", "early", "report"}
    BY DEF ReporterInv, ReporterTypeOK
  <2>2. OutcomeOf(r) = "terminal-failed"
    BY <2>1 DEF ExitRight
  <2>3. exit[r] = "failed" /\ state[r].terminalSeen
    BY <2>2 DEF OutcomeOf
  <2> QED BY <2>1, <2>3 DEF ExitRight
<1> QED BY <1>1, ReportersInductive, PTL
=============================================================================
