------------------------------ MODULE MspFraming ------------------------------
(***************************************************************************)
(* msp-framing.schema.ts: messages travel as a header that declares the     *)
(* length of the body, an empty line, and the body.  Bytes arrive in chunks *)
(* that heed none of these limits; readFrames returns the bodies that are   *)
(* complete, and keeps the rest for the next chunk.                         *)
(*                                                                         *)
(* A token stands for a run of bytes: the declaration of a length, the      *)
(* empty line, or content.                                                  *)
(***************************************************************************)
EXTENDS Integers, Sequences, FiniteSets

\* The empty line, and what declares a body of n tokens.
Blank == [token |-> "blank", value |-> 0]
Declares(n) == [token |-> "length", value |-> n]
Content(v) == [token |-> "content", value |-> v]

Tokens == [token : {"blank", "length", "content"}, value : Nat]

FrameOf(body) == <<Declares(Len(body)), Blank>> \o body

\* The first of some positions, or 0.
FirstOf(positions) ==
  IF positions = {} THEN 0 ELSE CHOOSE i \in positions : \A j \in positions : i <= j

HeaderEnd(bytes) == FirstOf({i \in DOMAIN bytes : bytes[i] = Blank})

\* Where the header declares a length, wherever it stands in it.
DeclaredAt(bytes) == FirstOf({i \in 1 .. HeaderEnd(bytes) : bytes[i].token = "length"})

Keeping(bytes) == [rest |-> bytes, frames |-> <<>>, errors |-> 0]

\* Faulty: the body is taken from where the header ends, empty line and all.
BodyAtHeader(bytes) ==
  LET size == bytes[DeclaredAt(bytes)].value
      start == HeaderEnd(bytes) - 1
  IN IF Len(bytes) - start < size
     THEN [complete |-> FALSE, body |-> <<>>, rest |-> bytes]
     ELSE [complete |-> TRUE, body |-> SubSeq(bytes, start + 1, start + size),
           rest |-> SubSeq(bytes, start + size + 1, Len(bytes))]

\* Faulty: a body waits for what comes after it.
BodyAtLate(bytes) ==
  LET size == bytes[DeclaredAt(bytes)].value
      start == HeaderEnd(bytes)
  IN IF Len(bytes) - start <= size
     THEN [complete |-> FALSE, body |-> <<>>, rest |-> bytes]
     ELSE [complete |-> TRUE, body |-> SubSeq(bytes, start + 1, start + size),
           rest |-> SubSeq(bytes, start + size + 1, Len(bytes))]

\* bodyActionOf: the body behind the header, once all of it is there.
BodyAt(bytes) ==
  LET size == bytes[DeclaredAt(bytes)].value
      start == HeaderEnd(bytes)
  IN IF Len(bytes) - start < size
     THEN [complete |-> FALSE, body |-> <<>>, rest |-> bytes]
     ELSE [complete |-> TRUE, body |-> SubSeq(bytes, start + 1, start + size),
           rest |-> SubSeq(bytes, start + size + 1, Len(bytes))]

FramingState == [rest : Seq(Tokens), frames : Seq(Seq(Tokens)), errors : Nat]

\* readStep: the next frame is taken from what is left, or an error noted for a
\* header that declares no length; a frame that is not complete stays.
ReadStep(state) ==
  LET bytes == state.rest
      frame == BodyAt(bytes)
  IN IF HeaderEnd(bytes) = 0 THEN state
     ELSE IF DeclaredAt(bytes) = 0
          THEN [state EXCEPT !.rest = SubSeq(bytes, HeaderEnd(bytes) + 1, Len(bytes)),
                             !.errors = @ + 1]
          ELSE IF frame.complete
               THEN [state EXCEPT !.rest = frame.rest, !.frames = Append(@, frame.body)]
               ELSE state

\* The states of the reading, each step of which takes bytes away or changes nothing.
Reading(bytes) ==
  LET step == [state \in FramingState |-> ReadStep(state)]
      read[n \in 0 .. Len(bytes)] == IF n = 0 THEN Keeping(bytes) ELSE step[read[n - 1]]
  IN read

\* readFrames: every complete frame of the bytes, one error for each header that
\* declares no length, and the rest.
ReadFrames(bytes) == Reading(bytes)[Len(bytes)]
=============================================================================
