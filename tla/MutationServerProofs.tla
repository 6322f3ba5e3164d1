------------------------- MODULE MutationServerProofs -------------------------
(***************************************************************************)
(* Proofs about MutationServer, for every set of connections, every script,  *)
(* bound and number of events, whatever breaks and however the bytes of a     *)
(* connection are cut into chunks.  The argument about the answers rests on   *)
(* the framing: the bytes not handled yet begin where a message begins.      *)
(***************************************************************************)
EXTENDS MutationServer, FiniteSetTheorems, SequenceTheorems, WellFoundedInduction, TLAPS

-----------------------------------------------------------------------------
(* The framing.  s is the sequence of the kinds of the messages sent.       *)

Size(kind) == IF kind = "headerless" THEN 1 ELSE 4

\* at[i] is the number of tokens of the first i messages.
Limits(s, at) ==
  /\ at \in [0 .. Len(s) -> Nat]
  /\ \A i \in 1 .. Len(s) : at[i] = at[i - 1] + Size(s[i])
  /\ \A i, j \in 0 .. Len(s) : i <= j => at[i] <= at[j]

\* The tokens are those of the messages after message n.
Unread(s, at, n, bytes) ==
  /\ bytes \in Seq(Tokens)
  /\ Len(bytes) = at[Len(s)] - at[n]
  /\ \A i \in n + 1 .. Len(s) : \A q \in 1 .. Size(s[i]) :
       bytes[at[i - 1] - at[n] + q] = Bytes(s[i], i)[q]

\* The frames are the bodies of messages after from up to n, in their order.
Bodies(s, from, n, frames, message) ==
  /\ message \in [1 .. Len(frames) -> from + 1 .. n]
  /\ \A k, l \in 1 .. Len(frames) : k < l => message[k] < message[l]
  /\ \A k \in 1 .. Len(frames) :
       frames[k] = Body(message[k]) /\ s[message[k]] # "headerless"

\* Every error is about a message of its own among them, that has no header.
Headerless(s, from, n, errors, message) ==
  /\ message \in [1 .. errors -> from + 1 .. n]
  /\ \A k, l \in 1 .. errors : message[k] = message[l] => k = l
  /\ \A k \in 1 .. errors : s[message[k]] = "headerless"

\* What a reading has come to that began after message from, more being on its way.
ReadTo(s, at, from, more, state, n, bodies, headerless) ==
  /\ n \in from .. Len(s)
  /\ Unread(s, at, n, state.rest \o more)
  /\ Bodies(s, from, n, state.frames, bodies)
  /\ Headerless(s, from, n, state.errors, headerless)

ReadOK(s, at, from, more, state) ==
  /\ state \in FramingState
  /\ \E n, bodies, headerless : ReadTo(s, at, from, more, state, n, bodies, headerless)

\* A set of numbers that is not empty has a least element.
LEMMA LeastNumber ==
  ASSUME NEW S \in SUBSET Nat, S # {}
  PROVE  \E i \in S : \A j \in S : i <= j
<1>1. PICK i \in S : \A j \in S : <<j, i>> \notin OpToRel(<, Nat)
  BY NatLessThanWellFounded, WFMin
<1>2. \A j \in S : ~(j < i)
  BY <1>1 DEF OpToRel
<1> QED BY <1>2

\* The first of some positions is the one no other is before.
LEMMA FirstIs ==
  ASSUME NEW S \in SUBSET Nat, NEW i \in S, \A j \in S : i <= j
  PROVE  FirstOf(S) = i
<1>1. \A k \in S : (\A j \in S : k <= j) => k = i
  OBVIOUS
<1> QED BY <1>1 DEF FirstOf

\* less is what is behind the first z elements of all.
Behind(less, all, z) ==
  Len(less) = Len(all) - z /\ \A q \in 1 .. Len(less) : less[q] = all[z + q]

\* Parts of a sequence and what is put together of them.
LEMMA Cut ==
  ASSUME NEW T, NEW bytes \in Seq(T), NEW i \in 0 .. Len(bytes)
  PROVE  /\ SubSeq(bytes, i + 1, Len(bytes)) \in Seq(T)
         /\ Len(SubSeq(bytes, i + 1, Len(bytes))) = Len(bytes) - i
         /\ \A q \in 1 .. Len(bytes) - i : SubSeq(bytes, i + 1, Len(bytes))[q] = bytes[i + q]
OBVIOUS

\* Two sequences of one kind put together.
LEMMA Together ==
  ASSUME NEW T, NEW a \in Seq(T), NEW b \in Seq(T)
  PROVE  /\ a \o b \in Seq(T)
         /\ Len(a \o b) = Len(a) + Len(b)
         /\ \A q \in 1 .. Len(a) + Len(b) : (a \o b)[q] = IF q <= Len(a) THEN a[q] ELSE b[q - Len(a)]
OBVIOUS

\* The tokens of a message.
LEMMA MessageTokens ==
  ASSUME NEW i \in Nat
  PROVE  /\ Bytes("headerless", i) = <<Blank>>
         /\ \A kind \in AllKinds \ {"headerless"} :
              Bytes(kind, i) = <<Declares(2), Blank, Blank, Content(i)>>
         /\ \A kind \in AllKinds :
              Bytes(kind, i) \in Seq(Tokens) /\ Len(Bytes(kind, i)) = Size(kind)
         /\ Body(i) = <<Blank, Content(i)>> /\ Body(i) \in Seq(Tokens)
<1>1. Blank \in Tokens /\ Declares(2) \in Tokens /\ Content(i) \in Tokens
  BY DEF Blank, Declares, Content, Tokens
<1>2. ASSUME NEW a \in Tokens, NEW b \in Tokens, NEW c \in Tokens, NEW d \in Tokens
      PROVE  <<a, b>> \o <<c, d>> = <<a, b, c, d>>
  <2> DEFINE u == <<a, b>> \o <<c, d>>
  <2>1. u \in Seq(Tokens) /\ Len(u) = 4 /\ \A j \in 1 .. 4 : u[j] = <<a, b, c, d>>[j]
    BY Together
  <2>2. <<a, b, c, d>> \in Seq(Tokens) /\ Len(<<a, b, c, d>>) = 4
    OBVIOUS
  <2> HIDE DEF u
  <2>3. u = <<a, b, c, d>>
    BY <2>1, <2>2, SeqEqual
  <2> QED BY <2>3 DEF u
<1>3. Len(Body(i)) = 2
  BY DEF Body
<1>4. \A kind \in AllKinds \ {"headerless"} :
        Bytes(kind, i) = <<Declares(2), Blank, Blank, Content(i)>>
  BY <1>1, <1>2, <1>3 DEF Bytes, FrameOf, Body
<1>5. Bytes("headerless", i) = <<Blank>>
  BY DEF Bytes
<1>6. ASSUME NEW kind \in AllKinds
      PROVE  Bytes(kind, i) \in Seq(Tokens) /\ Len(Bytes(kind, i)) = Size(kind)
  <2>1. CASE kind = "headerless"
    <3>1. \A t \in Tokens : <<t>> \in Seq(Tokens) /\ Len(<<t>>) = 1
      OBVIOUS
    <3> QED BY <1>1, <1>5, <2>1, <3>1 DEF Size
  <2>2. CASE kind # "headerless"
    <3>1. Bytes(kind, i) = <<Declares(2), Blank, Blank, Content(i)>>
      BY <1>4, <2>2
    <3> QED BY <1>1, <2>2, <3>1 DEF Size
  <2> QED BY <2>1, <2>2
<1>7. Body(i) = <<Blank, Content(i)>> /\ Body(i) \in Seq(Tokens)
  BY <1>1 DEF Body
<1> QED BY <1>4, <1>5, <1>6, <1>7

\* The next message is there when bytes are, and begins with the first of them.
LEMMA NextMessage ==
  ASSUME NEW s \in Seq(AllKinds), NEW at, Limits(s, at), NEW n \in 0 .. Len(s),
         NEW bytes, Unread(s, at, n, bytes), bytes # <<>>
  PROVE  /\ n < Len(s) /\ s[n + 1] \in AllKinds /\ at[n + 1] = at[n] + Size(s[n + 1])
         /\ \A q \in 1 .. Size(s[n + 1]) : bytes[q] = Bytes(s[n + 1], n + 1)[q]
<1>1. Len(s) \in Nat /\ at[n] \in Nat
  BY DEF Limits
<1>2. n # Len(s)
  <2>1. Len(bytes) # 0
    BY EmptySeq DEF Unread
  <2> QED BY <1>1, <2>1 DEF Unread
<1>3. n + 1 \in n + 1 .. Len(s) /\ n + 1 \in 1 .. Len(s) /\ n + 1 - 1 = n
  BY <1>1, <1>2
<1>4. at[n + 1] = at[n] + Size(s[n + 1])
  BY <1>3 DEF Limits
<1>5. \A q \in 1 .. Size(s[n + 1]) : bytes[at[n + 1 - 1] - at[n] + q] = Bytes(s[n + 1], n + 1)[q]
  BY <1>3 DEF Unread
<1>6. \A q \in Nat : at[n] - at[n] + q = q
  BY <1>1
<1>7. \A q \in 1 .. Size(s[n + 1]) : q \in Nat
  BY DEF Size
<1>8. \A q \in 1 .. Size(s[n + 1]) : bytes[q] = Bytes(s[n + 1], n + 1)[q]
  BY <1>3, <1>5, <1>6, <1>7
<1> QED BY <1>1, <1>2, <1>3, <1>4, <1>8

\* What a message without a header, and one with a header, look like.
LEMMA HeaderlessSeen ==
  ASSUME NEW bytes \in Seq(Tokens), bytes # <<>>, bytes[1] = Blank
  PROVE  HeaderEnd(bytes) = 1 /\ DeclaredAt(bytes) = 0
<1>1. 1 \in DOMAIN bytes /\ DOMAIN bytes \subseteq Nat \ {0}
  OBVIOUS
<1>2. HeaderEnd(bytes) = 1
  BY <1>1, FirstIs DEF HeaderEnd
<1>3. {i \in 1 .. HeaderEnd(bytes) : bytes[i].token = "length"} = {}
  BY <1>2 DEF Blank
<1> QED BY <1>2, <1>3 DEF DeclaredAt, FirstOf

\* What a reader sees of a header: nothing before its end has come, then its length.
LEMMA HeaderSeen ==
  ASSUME NEW bytes \in Seq(Tokens), bytes # <<>>, bytes[1] = Declares(2),
         2 \in DOMAIN bytes => bytes[2] = Blank
  PROVE  IF 2 \in DOMAIN bytes THEN HeaderEnd(bytes) = 2 /\ DeclaredAt(bytes) = 1
         ELSE HeaderEnd(bytes) = 0
<1>1. /\ 1 \in DOMAIN bytes /\ DOMAIN bytes \subseteq Nat \ {0}
      /\ 2 \notin DOMAIN bytes => DOMAIN bytes = {1}
  <2>1. PICK n \in Nat \ {0} : DOMAIN bytes = 1 .. n
    <3>1. Len(bytes) \in Nat /\ DOMAIN bytes = 1 .. Len(bytes) /\ Len(bytes) # 0
      OBVIOUS
    <3> QED BY <3>1
  <2>2. \A m \in Nat \ {0} : /\ 1 \in 1 .. m /\ 1 .. m \subseteq Nat \ {0}
                           /\ 2 \notin 1 .. m => 1 .. m = {1}
    OBVIOUS
  <2> QED BY <2>1, <2>2
<1>2. bytes[1] # Blank
  BY DEF Declares, Blank
<1>3. CASE 2 \notin DOMAIN bytes
  BY <1>1, <1>2, <1>3 DEF HeaderEnd, FirstOf
<1>4. CASE 2 \in DOMAIN bytes
  <2>1. HeaderEnd(bytes) = 2
    <3>1. 2 \in {i \in DOMAIN bytes : bytes[i] = Blank}
      BY <1>4
    <3>2. \A j \in {i \in DOMAIN bytes : bytes[i] = Blank} : j \in Nat /\ 2 <= j
      BY <1>1, <1>2
    <3> QED BY <3>1, <3>2, FirstIs DEF HeaderEnd
  <2>2. 1 \in {i \in 1 .. HeaderEnd(bytes) : bytes[i].token = "length"}
    BY <2>1 DEF Declares
  <2>3. \A j \in {i \in 1 .. HeaderEnd(bytes) : bytes[i].token = "length"} : j \in Nat /\ 1 <= j
    BY <2>1
  <2>4. DeclaredAt(bytes) = 1
    BY <2>2, <2>3, FirstIs DEF DeclaredAt
  <2> QED BY <1>4, <2>1, <2>4
<1> QED BY <1>3, <1>4

\* Where a token is when the bytes before it are taken away.
LEMMA Offsets ==
  ASSUME NEW a \in Nat, NEW z \in Nat, NEW lo \in Nat, NEW top \in Nat, NEW size \in Nat,
         NEW q \in 1 .. size, a + z <= lo, lo + size <= top
  PROVE  lo - (a + z) + q \in 1 .. top - (a + z) /\ z + (lo - (a + z) + q) = lo - a + q
OBVIOUS

\* A token of what is left of two pieces is one of the first or of the second.
LEMMA Splits ==
  ASSUME NEW m \in Nat, NEW z \in 0 .. m, NEW n \in Nat, NEW q \in 1 .. m - z + n
  PROVE  /\ z + q \in 1 .. m + n
         /\ q <= m - z => z + q <= m /\ q \in 1 .. m - z
         /\ ~(q <= m - z) => ~(z + q <= m) /\ z + q - m = q - (m - z)
OBVIOUS

\* The first bytes are left out, whatever comes after.
LEMMA BehindTogether ==
  ASSUME NEW rest \in Seq(Tokens), NEW more \in Seq(Tokens), NEW z \in 0 .. Len(rest),
         NEW part \in Seq(Tokens), Behind(part, rest, z)
  PROVE  part \o more \in Seq(Tokens) /\ Behind(part \o more, rest \o more, z)
<1>1. PICK m \in Nat, n \in Nat : m = Len(rest) /\ n = Len(more)
  OBVIOUS
<1>2. Len(part) = m - z
  BY <1>1 DEF Behind
<1>3. PICK k \in Nat : k = m - z
  <2>1. m - z \in Nat
    BY <1>1
  <2> QED BY <2>1, Zenon
<1>4. Len(part) = k /\ \A q \in 1 .. k : part[q] = rest[z + q]
  BY <1>2, <1>3, Zenon DEF Behind
<1>5. /\ part \o more \in Seq(Tokens) /\ Len(part \o more) = k + n
      /\ \A q \in 1 .. k + n : (part \o more)[q] = IF q <= k THEN part[q] ELSE more[q - k]
  BY <1>1, <1>4, Together
<1>6. /\ Len(rest \o more) = m + n
      /\ \A q \in 1 .. m + n : (rest \o more)[q] = IF q <= m THEN rest[q] ELSE more[q - m]
  BY <1>1, Together
<1>7. ASSUME NEW q \in 1 .. k + n PROVE (part \o more)[q] = (rest \o more)[z + q]
  <2>1. /\ z + q \in 1 .. m + n
        /\ q <= k => z + q <= m /\ q \in 1 .. k
        /\ ~(q <= k) => ~(z + q <= m) /\ z + q - m = q - k
    BY <1>1, <1>3, Splits
  <2>2. CASE q <= k
    BY <1>4, <1>5, <1>6, <2>1, <2>2
  <2>3. CASE ~(q <= k)
    <3>1. (part \o more)[q] = more[q - k]
      BY <1>5, <2>3, Zenon
    <3>2. PICK p \in 1 .. m + n : p = z + q
      BY <2>1, Zenon
    <3>3. ~(p <= m) /\ p - m = q - k
      BY <2>1, <2>3, <3>2
    <3>4. (rest \o more)[p] = more[p - m]
      BY <1>6, <3>3, Zenon
    <3> QED BY <3>1, <3>2, <3>3, <3>4, Zenon
  <2> QED BY <2>2, <2>3
<1>8. k + n = m + n - z
  BY <1>1, <1>3
<1>9. Len(part \o more) = Len(rest \o more) - z
  <2>1. Len(part \o more) = k + n /\ Len(rest \o more) = m + n
    BY <1>5, <1>6, Zenon
  <2>2. PICK a, b : a = Len(part \o more) /\ b = Len(rest \o more)
    OBVIOUS
  <2>3. a = k + n /\ b = m + n
    BY <2>1, <2>2, Zenon
  <2>4. a = b - z
    BY <1>8, <2>3
  <2> QED BY <2>2, <2>4, Zenon
<1> QED BY <1>5, <1>7, <1>9, Zenon DEF Behind

\* The bytes behind the next message are those of the messages after it.
LEMMA Advance ==
  ASSUME NEW s \in Seq(AllKinds), NEW at, Limits(s, at), NEW n \in 0 .. Len(s), n < Len(s),
         NEW bytes, Unread(s, at, n, bytes),
         NEW less \in Seq(Tokens), Behind(less, bytes, Size(s[n + 1]))
  PROVE  Unread(s, at, n + 1, less)
<1> DEFINE z == Size(s[n + 1])
<1>1. PICK N \in Nat : N = Len(s)
  OBVIOUS
<1>2. /\ z \in Nat /\ n + 1 \in 0 .. N
      /\ at \in [0 .. N -> Nat] /\ at[n + 1] = at[n] + z
  <2>1. n + 1 \in 1 .. N /\ n + 1 - 1 = n
    BY <1>1
  <2> QED BY <1>1, <2>1 DEF Limits, Size
<1>3. Len(bytes) = at[N] - at[n]
  BY <1>1 DEF Unread
<1> HIDE DEF z
<1>4. Len(less) = at[N] - at[n + 1]
  BY <1>2, <1>3 DEF z, Behind
<1>5. ASSUME NEW i \in n + 1 + 1 .. N, NEW q \in 1 .. Size(s[i])
      PROVE  less[at[i - 1] - at[n + 1] + q] = Bytes(s[i], i)[q]
  <2>1. i \in 1 .. N /\ i \in 0 .. N /\ i - 1 \in 0 .. N /\ n + 1 <= i - 1 /\ i \in n + 1 .. N
        /\ q \in Nat /\ Size(s[i]) \in Nat /\ q <= Size(s[i]) /\ 1 <= q
    BY <1>1 DEF Size
  <2>2. at[i] = at[i - 1] + Size(s[i]) /\ at[n + 1] <= at[i - 1] /\ at[i] <= at[N]
    <3>1. at[i] = at[i - 1] + Size(s[i])
      BY <1>1, <2>1 DEF Limits
    <3>2. \A j, k \in 0 .. N : j <= k => at[j] <= at[k]
      BY <1>1 DEF Limits
    <3>3. at[n + 1] <= at[i - 1]
      BY <1>2, <2>1, <3>2, Zenon
    <3>4. i <= N /\ N \in 0 .. N
      BY <2>1
    <3>5. at[i] <= at[N]
      BY <2>1, <3>2, <3>4, Zenon
    <3> QED BY <3>1, <3>3, <3>5
  <2>3. PICK a \in Nat, lo \in Nat, top \in Nat, size \in Nat :
          at[n] = a /\ at[i - 1] = lo /\ at[N] = top /\ Size(s[i]) = size
    <3>1. n \in 0 .. N /\ N \in 0 .. N
      BY <1>1
    <3>2. \A j \in 0 .. N : at[j] \in Nat
      BY <1>2
    <3>3. at[n] \in Nat /\ at[i - 1] \in Nat /\ at[N] \in Nat
      BY <2>1, <3>1, <3>2, Zenon
    <3> QED BY <2>1, <3>3, Zenon
  <2>4. at[n + 1] = a + z /\ a + z <= lo /\ lo + size <= top /\ q \in 1 .. size
    BY <1>2, <2>1, <2>2, <2>3
  <2>5. lo - (a + z) + q \in 1 .. top - (a + z) /\ z + (lo - (a + z) + q) = lo - a + q
    BY <1>2, <2>4, Offsets
  <2>6. less[lo - (a + z) + q] = bytes[z + (lo - (a + z) + q)]
    BY <1>4, <2>3, <2>4, <2>5 DEF z, Behind
  <2>7. bytes[at[i - 1] - at[n] + q] = Bytes(s[i], i)[q]
    BY <1>1, <2>1 DEF Unread
  <2> QED BY <2>3, <2>4, <2>5, <2>6, <2>7
<1> QED BY <1>1, <1>4, <1>5 DEF Unread

\* What a step does with the next message: nothing, or it takes all of it.
LEMMA StepTakes ==
  ASSUME NEW s \in Seq(AllKinds), NEW at, Limits(s, at), NEW n \in 0 .. Len(s),
         NEW more \in Seq(Tokens), NEW state \in FramingState, Unread(s, at, n, state.rest \o more),
         ReadStep(state) # state
  PROVE  /\ n < Len(s) /\ Size(s[n + 1]) \in 0 .. Len(state.rest)
         /\ s[n + 1] = "headerless" =>
              ReadStep(state) =
                [rest |-> SubSeq(state.rest, Size(s[n + 1]) + 1, Len(state.rest)),
                 frames |-> state.frames, errors |-> state.errors + 1]
         /\ s[n + 1] # "headerless" =>
              ReadStep(state) =
                [rest |-> SubSeq(state.rest, Size(s[n + 1]) + 1, Len(state.rest)),
                 frames |-> Append(state.frames, Body(n + 1)), errors |-> state.errors]
<1> DEFINE rest == state.rest
<1>0. PICK all : all = rest \o more
  OBVIOUS
<1>1. rest \in Seq(Tokens)
  BY DEF FramingState
<1>2. rest # <<>>
  <2>1. DOMAIN <<>> = {} /\ {i \in {} : <<>>[i] = Blank} = {}
    OBVIOUS
  <2>2. HeaderEnd(<<>>) = 0
    BY <2>1 DEF HeaderEnd, FirstOf
  <2> QED BY <2>2 DEF ReadStep
<1>3. /\ 1 \in DOMAIN rest /\ rest[1] = all[1]
      /\ \A q \in 1 .. 4 : q \in DOMAIN rest => rest[q] = all[q]
      /\ all # <<>> /\ Len(rest) \in Nat /\ DOMAIN rest = 1 .. Len(rest)
  BY <1>0, <1>1, <1>2, Together
<1>4. /\ n < Len(s) /\ s[n + 1] \in AllKinds
      /\ \A q \in 1 .. Size(s[n + 1]) : all[q] = Bytes(s[n + 1], n + 1)[q]
  <2>1. Unread(s, at, n, all)
    BY <1>0
  <2> QED BY <1>3, <2>1, NextMessage
<1>5. n + 1 \in Nat
  OBVIOUS
<1>6. CASE s[n + 1] = "headerless"
  <2>1. rest[1] = Blank /\ Size(s[n + 1]) = 1
    <3>1. Size(s[n + 1]) = 1
      BY <1>6 DEF Size
    <3>2. Bytes(s[n + 1], n + 1) = <<Blank>> /\ <<Blank>>[1] = Blank
      BY <1>5, <1>6, MessageTokens
    <3>3. all[1] = Bytes(s[n + 1], n + 1)[1]
      BY <1>4, <3>1
    <3> QED BY <1>3, <3>1, <3>2, <3>3
  <2>2. HeaderEnd(rest) = 1 /\ DeclaredAt(rest) = 0
    BY <1>1, <1>2, <2>1, HeaderlessSeen
  <2>3. ReadStep(state) =
          [rest |-> SubSeq(rest, 1 + 1, Len(rest)), frames |-> state.frames,
           errors |-> state.errors + 1]
    BY <2>2 DEF ReadStep, FramingState
  <2>4. 1 \in 0 .. Len(rest)
    BY <1>3
  <2> QED BY <1>4, <1>6, <2>1, <2>3, <2>4
<1>7. CASE s[n + 1] # "headerless"
  <2>1. Size(s[n + 1]) = 4 /\ Bytes(s[n + 1], n + 1) = <<Declares(2), Blank, Blank, Content(n + 1)>>
    BY <1>4, <1>5, <1>7, MessageTokens DEF Size
  <2>2. /\ rest[1] = Declares(2)
        /\ 2 \in DOMAIN rest => rest[2] = Blank
        /\ 3 \in DOMAIN rest => rest[3] = Blank
        /\ 4 \in DOMAIN rest => rest[4] = Content(n + 1)
    BY <1>3, <1>4, <2>1
  <2>3. 2 \in DOMAIN rest /\ HeaderEnd(rest) = 2 /\ DeclaredAt(rest) = 1
    <3>1. HeaderEnd(rest) # 0
      BY DEF ReadStep
    <3> QED BY <1>1, <1>2, <2>2, <3>1, HeaderSeen
  <2>4. rest[DeclaredAt(rest)].value = 2
    BY <2>2, <2>3 DEF Declares
  <2>5. BodyAt(rest) =
          IF Len(rest) - 2 < 2
          THEN [complete |-> FALSE, body |-> <<>>, rest |-> rest]
          ELSE [complete |-> TRUE, body |-> SubSeq(rest, 2 + 1, 2 + 2),
                rest |-> SubSeq(rest, 2 + 2 + 1, Len(rest))]
    BY <2>3, <2>4 DEF BodyAt
  <2>6. ~(Len(rest) - 2 < 2)
    BY <2>3, <2>5 DEF ReadStep
  <2>7. BodyAt(rest) = [complete |-> TRUE, body |-> SubSeq(rest, 3, 4),
                        rest |-> SubSeq(rest, 4 + 1, Len(rest))]
    BY <2>5, <2>6
  <2>8. 3 \in DOMAIN rest /\ 4 \in DOMAIN rest /\ 4 \in 0 .. Len(rest)
    BY <1>3, <2>6
  <2>9. SubSeq(rest, 3, 4) = Body(n + 1)
    <3>1. /\ SubSeq(rest, 3, 4) \in Seq(Tokens) /\ Len(SubSeq(rest, 3, 4)) = 2
          /\ \A j \in 1 .. 2 : SubSeq(rest, 3, 4)[j] = rest[3 + j - 1]
      <4>1. \A j \in 3 .. 4 : rest[j] \in Tokens
        BY <1>1, <2>8
      <4> QED BY <4>1, SubSeqProperties
    <3>2. SubSeq(rest, 3, 4)[1] = Blank /\ SubSeq(rest, 3, 4)[2] = Content(n + 1)
      BY <2>2, <2>8, <3>1
    <3>3. Body(n + 1) = <<Blank, Content(n + 1)>> /\ Body(n + 1) \in Seq(Tokens)
      BY <1>5, MessageTokens
    <3>4. Len(Body(n + 1)) = 2 /\ Body(n + 1)[1] = Blank /\ Body(n + 1)[2] = Content(n + 1)
      BY <3>3
    <3>5. \A j \in 1 .. 2 : j = 1 \/ j = 2
      OBVIOUS
    <3> QED BY <3>1, <3>2, <3>3, <3>4, <3>5, SeqEqual
  <2>10. ReadStep(state) =
           [rest |-> SubSeq(rest, 4 + 1, Len(rest)), frames |-> Append(state.frames, Body(n + 1)),
            errors |-> state.errors]
    <3>1. HeaderEnd(rest) # 0 /\ DeclaredAt(rest) # 0
      BY <2>3
    <3>2. /\ BodyAt(rest).complete /\ BodyAt(rest).body = Body(n + 1)
          /\ BodyAt(rest).rest = SubSeq(rest, 4 + 1, Len(rest))
      BY <2>7, <2>9
    <3>3. ReadStep(state) = [state EXCEPT !.rest = SubSeq(rest, 4 + 1, Len(rest)),
                                          !.frames = Append(@, Body(n + 1))]
      BY <3>1, <3>2, Zenon DEF ReadStep
    <3> QED BY <3>3 DEF FramingState
  <2> QED BY <1>4, <1>7, <2>1, <2>8, <2>10
<1> QED BY <1>6, <1>7

\* A step keeps to the messages.
LEMMA StepReads ==
  ASSUME NEW s \in Seq(AllKinds), NEW at, Limits(s, at), NEW from \in 0 .. Len(s),
         NEW more \in Seq(Tokens), NEW state, ReadOK(s, at, from, more, state)
  PROVE  ReadOK(s, at, from, more, ReadStep(state))
<1>1. state \in FramingState
  BY DEF ReadOK
<1>2. PICK n, bodies, headerless : ReadTo(s, at, from, more, state, n, bodies, headerless)
  BY DEF ReadOK
<1>3. CASE ReadStep(state) = state
  BY <1>3
<1>4. CASE ReadStep(state) # state
  <2> DEFINE z == Size(s[n + 1])
             less == SubSeq(state.rest, z + 1, Len(state.rest))
  <2>1. n \in from .. Len(s) /\ n \in 0 .. Len(s) /\ Unread(s, at, n, state.rest \o more)
    BY <1>2 DEF ReadTo
  <2>2. /\ n < Len(s) /\ z \in 0 .. Len(state.rest)
        /\ s[n + 1] = "headerless" =>
             ReadStep(state) = [rest |-> less, frames |-> state.frames, errors |-> state.errors + 1]
        /\ s[n + 1] # "headerless" =>
             ReadStep(state) = [rest |-> less, frames |-> Append(state.frames, Body(n + 1)),
                                errors |-> state.errors]
    BY <1>1, <1>4, <2>1, StepTakes
  <2>3. state.rest \in Seq(Tokens)
    BY <1>1 DEF FramingState
  <2>4. PICK all, shorter : all = state.rest \o more /\ shorter = less \o more
    OBVIOUS
  <2>5. less \in Seq(Tokens) /\ Behind(less, state.rest, z)
    BY <2>2, <2>3, Cut DEF Behind
  <2> HIDE DEF less, z
  <2>6. shorter \in Seq(Tokens) /\ Behind(shorter, all, z)
    BY <2>2, <2>3, <2>4, <2>5, BehindTogether, Zenon
  <2> USE DEF less, z
  <2>7. Unread(s, at, n, all)
    BY <2>1, <2>4
  <2>8. Unread(s, at, n + 1, shorter)
    BY <2>1, <2>2, <2>6, <2>7, Advance
  <2>9. n + 1 \in from .. Len(s) /\ n + 1 \in Nat /\ n + 1 \in from + 1 .. n + 1
        /\ from + 1 .. n \subseteq from + 1 .. n + 1 /\ \A i \in from + 1 .. n : i < n + 1 /\ i # n + 1
    BY <2>1, <2>2
  <2> HIDE DEF less, z
  <2>10. CASE s[n + 1] = "headerless"
    <3> DEFINE now == [k \in 1 .. state.errors + 1 |-> IF k = state.errors + 1 THEN n + 1 ELSE headerless[k]]
    <3>1. ReadStep(state) = [rest |-> less, frames |-> state.frames, errors |-> state.errors + 1]
      BY <2>2, <2>10 DEF less
    <3>2. ReadStep(state) \in FramingState /\ state.errors \in Nat
      BY <1>1, <2>5, <3>1 DEF FramingState
    <3>3. Bodies(s, from, n + 1, state.frames, bodies)
      BY <1>2, <2>9 DEF ReadTo, Bodies
    <3>4. Headerless(s, from, n + 1, state.errors + 1, now)
      <4>1. /\ headerless \in [1 .. state.errors -> from + 1 .. n]
            /\ \A k, l \in 1 .. state.errors : headerless[k] = headerless[l] => k = l
            /\ \A k \in 1 .. state.errors : s[headerless[k]] = "headerless"
        BY <1>2 DEF ReadTo, Headerless
      <4>2. \A k \in 1 .. state.errors + 1 : k = state.errors + 1 \/ k \in 1 .. state.errors
        BY <3>2
      <4> QED BY <2>9, <2>10, <4>1, <4>2 DEF Headerless
    <3>5. ReadTo(s, at, from, more, ReadStep(state), n + 1, bodies, now)
      <4>1. /\ ReadStep(state).rest = less /\ ReadStep(state).frames = state.frames
            /\ ReadStep(state).errors = state.errors + 1
        BY <3>1
      <4> HIDE DEF now
      <4> QED BY <2>4, <2>8, <2>9, <3>3, <3>4, <4>1, Zenon DEF ReadTo, less
    <3> QED BY <3>2, <3>5 DEF ReadOK
  <2>11. CASE s[n + 1] # "headerless"
    <3> DEFINE now == [k \in 1 .. Len(state.frames) + 1 |->
                         IF k = Len(state.frames) + 1 THEN n + 1 ELSE bodies[k]]
               frames == Append(state.frames, Body(n + 1))
    <3>1. ReadStep(state) = [rest |-> less, frames |-> frames, errors |-> state.errors]
      BY <2>2, <2>11 DEF less
    <3>2. Body(n + 1) \in Seq(Tokens)
      BY <2>9, MessageTokens
    <3>3. state.frames \in Seq(Seq(Tokens)) /\ frames \in Seq(Seq(Tokens))
      BY <1>1, <3>2 DEF FramingState
    <3>4. PICK m \in Nat : m = Len(state.frames)
      BY <3>3
    <3>5. /\ Len(frames) = m + 1 /\ frames[m + 1] = Body(n + 1)
          /\ \A k \in 1 .. m : frames[k] = state.frames[k]
      BY <3>2, <3>3, <3>4
    <3> HIDE DEF frames
    <3>6. ReadStep(state) \in FramingState
      BY <1>1, <2>5, <3>1, <3>3 DEF FramingState
    <3>7. Bodies(s, from, n + 1, frames, now)
      <4>1. /\ bodies \in [1 .. m -> from + 1 .. n]
            /\ \A k, l \in 1 .. m : k < l => bodies[k] < bodies[l]
            /\ \A k \in 1 .. m : state.frames[k] = Body(bodies[k]) /\ s[bodies[k]] # "headerless"
        BY <1>2, <3>4 DEF ReadTo, Bodies
      <4>2. /\ now \in [1 .. m + 1 -> from + 1 .. n + 1] /\ now[m + 1] = n + 1
            /\ \A k \in 1 .. m : now[k] = bodies[k]
        BY <2>9, <3>4, <4>1
      <4> HIDE DEF now
      <4>3. \A k, l \in 1 .. m + 1 :
              /\ k = m + 1 \/ k \in 1 .. m
              /\ k < l => k \in 1 .. m /\ (l = m + 1 \/ l \in 1 .. m)
        OBVIOUS
      <4>4. ASSUME NEW k \in 1 .. m + 1, NEW l \in 1 .. m + 1, k < l PROVE now[k] < now[l]
        <5>1. k \in 1 .. m /\ now[k] = bodies[k] /\ bodies[k] \in from + 1 .. n
          BY <4>1, <4>2, <4>3, <4>4
        <5>2. CASE l = m + 1
          BY <2>9, <4>2, <5>1, <5>2
        <5>3. CASE l \in 1 .. m
          BY <4>1, <4>2, <4>4, <5>1, <5>3
        <5> QED BY <4>3, <4>4, <5>2, <5>3
      <4>5. \A k \in 1 .. m + 1 : frames[k] = Body(now[k]) /\ s[now[k]] # "headerless"
        BY <2>11, <3>5, <4>1, <4>2, <4>3
      <4> QED BY <3>5, <4>2, <4>4, <4>5 DEF Bodies
    <3>8. Headerless(s, from, n + 1, state.errors, headerless)
      BY <1>2, <2>9 DEF ReadTo, Headerless
    <3>9. ReadTo(s, at, from, more, ReadStep(state), n + 1, now, headerless)
      <4>1. /\ ReadStep(state).rest = less /\ ReadStep(state).frames = frames
            /\ ReadStep(state).errors = state.errors
        BY <3>1
      <4> HIDE DEF now
      <4> QED BY <2>4, <2>8, <2>9, <3>7, <3>8, <4>1, Zenon DEF ReadTo, less
    <3> QED BY <3>6, <3>9 DEF ReadOK
  <2> QED BY <2>10, <2>11
<1> QED BY <1>3, <1>4

\* What Reading repeats.
Steps == [state \in FramingState |-> ReadStep(state)]

\* Reading is what it is defined to be.
LEMMA ReadingSteps ==
  ASSUME NEW bytes \in Seq(Tokens)
  PROVE  Reading(bytes) = [n \in 0 .. Len(bytes) |->
                             IF n = 0 THEN Keeping(bytes) ELSE Steps[Reading(bytes)[n - 1]]]
<1> DEFINE Reads(g, last) ==
             g = [n \in 0 .. last |-> IF n = 0 THEN Keeping(bytes) ELSE Steps[g[n - 1]]]
           Without == {last \in Nat : ~\E g : Reads(g, last)}
<1>1. Without = {}
  <2> SUFFICES ASSUME Without # {} PROVE FALSE
    OBVIOUS
  <2>1. PICK last \in Without : \A other \in Without : last <= other
    BY LeastNumber
  <2>2. last # 0
    <3>1. Reads([n \in 0 .. 0 |-> Keeping(bytes)], 0)
      OBVIOUS
    <3> QED BY <3>1
  <2>3. last - 1 \in Nat /\ ~(last <= last - 1)
    BY <2>2
  <2>4. last - 1 \notin Without
    BY <2>1, <2>3
  <2>5. PICK g : Reads(g, last - 1)
    BY <2>3, <2>4
  <2>6. Reads([n \in 0 .. last |-> IF n = last THEN Steps[g[last - 1]] ELSE g[n]], last)
    BY <2>2, <2>5
  <2> QED BY <2>6
<1>2. Len(bytes) \in Nat
  OBVIOUS
<1>3. PICK g : Reads(g, Len(bytes))
  BY <1>1, <1>2
<1> HIDE DEF Without
<1>4. Reading(bytes) = CHOOSE h : Reads(h, Len(bytes))
  BY DEF Reading, Steps
<1> QED BY <1>3, <1>4

\* What is read of bytes that begin where a message begins: the bodies of the
\* messages that follow, in their order, and errors about those without a header;
\* what is left begins where a message begins.
LEMMA FramesRead ==
  ASSUME NEW s \in Seq(AllKinds), NEW at, Limits(s, at), NEW from \in 0 .. Len(s),
         NEW bytes \in Seq(Tokens), NEW more \in Seq(Tokens), Unread(s, at, from, bytes \o more)
  PROVE  ReadOK(s, at, from, more, ReadFrames(bytes))
<1> DEFINE Wrong == {n \in 0 .. Len(bytes) : ~ReadOK(s, at, from, more, Reading(bytes)[n])}
<1>1. Len(bytes) \in Nat
  OBVIOUS
<1>2. ReadOK(s, at, from, more, Keeping(bytes))
  <2>1. Keeping(bytes) \in FramingState
    BY DEF Keeping, FramingState
  <2>2. Bodies(s, from, from, <<>>, <<>>) /\ Headerless(s, from, from, 0, <<>>)
    BY DEF Bodies, Headerless
  <2>3. from \in from .. Len(s)
    OBVIOUS
  <2>4. ReadTo(s, at, from, more, Keeping(bytes), from, <<>>, <<>>)
    BY <2>2, <2>3 DEF ReadTo, Keeping
  <2> QED BY <2>1, <2>4 DEF ReadOK
<1>3. Wrong = {}
  <2> SUFFICES ASSUME Wrong # {} PROVE FALSE
    OBVIOUS
  <2>1. PICK n \in Wrong : \A m \in Wrong : n <= m
    <3>1. Wrong \in SUBSET Nat
      BY <1>1
    <3> HIDE DEF Wrong
    <3> QED BY <3>1, LeastNumber
  <2>2. Reading(bytes)[n] = IF n = 0 THEN Keeping(bytes) ELSE Steps[Reading(bytes)[n - 1]]
    BY ReadingSteps
  <2>3. n # 0
    BY <1>2, <2>2
  <2>4. n - 1 \in 0 .. Len(bytes) /\ ~(n <= n - 1)
    BY <1>1, <2>3
  <2>5. ReadOK(s, at, from, more, Reading(bytes)[n - 1])
    BY <2>1, <2>4
  <2>6. Reading(bytes)[n] = ReadStep(Reading(bytes)[n - 1])
    BY <2>2, <2>3, <2>5 DEF ReadOK, Steps
  <2>7. ReadOK(s, at, from, more, Reading(bytes)[n])
    BY <2>5, <2>6, StepReads
  <2> QED BY <2>1, <2>7
<1>4. Len(bytes) \in 0 .. Len(bytes)
  BY <1>1
<1> QED BY <1>3, <1>4 DEF ReadFrames

-----------------------------------------------------------------------------
(* The invariant, of the messages s, the fibers hs, the output o and the    *)
(* bytes u of one connection.                                              *)

Over == {"answering", "releasing", "failing", "failed", "done"}

\* A fiber is about a message that has a header, and is where its kind may be.
FiberOK(s, f) ==
  /\ f.message \in 1 .. Len(s) /\ s[f.message] # "headerless"
  /\ f.at \in {"frame", "decided"} => f.holds = FALSE /\ f.queue = 0 /\ f.offered = 0
  /\ f.at = "decided" => s[f.message] \in Requests /\ f.decision \in {"busy", s[f.message]}
  /\ f.at = "running" => s[f.message] \in RunsEngine /\ f.decision = s[f.message]
  /\ f.at = "draining" => s[f.message] \in RunsEngine /\ f.answer \in {"result", "internalError"}
  /\ f.at = "answering" => IF s[f.message] = "undecodable" THEN f.answer = "parseError"
                           ELSE f.answer \in AnswersOf(s[f.message])
  /\ f.at \in Over => f.queue = 0 \/ f.consumer = "dead"

\* The fibers are in the order of their messages, so each message has one at most.
InOrder(hs) == \A k, l \in DOMAIN hs : k < l => hs[k].message < hs[l].message

IsRead(hs, i) == \E k \in DOMAIN hs : hs[k].message = i
AnsweredBy(hs, i) ==
  \E k \in DOMAIN hs : hs[k].message = i /\ hs[k].at \in {"releasing", "done"}

Entries(o, i, whats) == {p \in DOMAIN o : o[p].to = i /\ o[p].what \in whats}

\* What is written to a message was written by its fiber, the answer as the last.
WrittenOK(s, hs, o) ==
  \A p \in DOMAIN o : o[p].to # 0 =>
    /\ IsRead(hs, o[p].to)
    /\ o[p].what \in Answers =>
         /\ AnsweredBy(hs, o[p].to) /\ o[p].what \in AnswersOf(s[o[p].to])
         /\ \A q \in DOMAIN o : o[q].to = o[p].to => q <= p

\* What was offered is written or waits, as long as the consumer lives.
Accounted(hs, o) ==
  \A k \in DOMAIN hs : hs[k].consumer = "alive" =>
    Cardinality(Entries(o, hs[k].message, {"progress"})) + hs[k].queue = hs[k].offered

\* Every error without an id is about a malformed message of its own.
ErrorsOf(s, hs, o, n, about) ==
  /\ about \in [Entries(o, 0, Answers) -> 1 .. n]
  /\ \A p, q \in Entries(o, 0, Answers) : about[p] = about[q] => p = q
  /\ \A p \in Entries(o, 0, Answers) :
       \/ s[about[p]] = "headerless"
       \/ s[about[p]] = "undecodable" /\ AnsweredBy(hs, about[p])

\* The first n messages are read, and the bytes begin where the next one does.
ReadSoFar(s, hs, o, u, at, n, about) ==
  /\ Limits(s, at) /\ n \in 0 .. Len(s) /\ Unread(s, at, n, u)
  /\ \A k \in DOMAIN hs : hs[k].message <= n
  /\ ErrorsOf(s, hs, o, n, about)

ConnectionOK(s, hs, o, u) ==
  /\ \A k \in DOMAIN hs : FiberOK(s, hs[k])
  /\ InOrder(hs) /\ WrittenOK(s, hs, o) /\ Accounted(hs, o)
  /\ \E at, n, about : ReadSoFar(s, hs, o, u, at, n, about)

HoldersIn(hs) == {k \in DOMAIN hs : hs[k].holds /\ hs[k].at \notin {"done", "failed"}}

\* The flag is set exactly while one fiber holds it.
Flag(hs, flag) ==
  /\ \A k, l \in HoldersIn(hs) : k = l
  /\ flag <=> HoldersIn(hs) # {}

IInv ==
  /\ TypeOK
  /\ \A c \in Connections :
       /\ Flag(handlers[c], busy[c])
       /\ ConnectionOK(sent[c], handlers[c], out[c], buffer[c] \o wire[c])

\* The lines written about a message can be counted.
LEMMA EntriesFinite ==
  ASSUME NEW o \in Seq(Lines), NEW i, NEW whats
  PROVE  IsFiniteSet(Entries(o, i, whats)) /\ Cardinality(Entries(o, i, whats)) \in Nat
<1>1. Len(o) \in Nat /\ Entries(o, i, whats) \subseteq 1 .. Len(o)
  BY DEF Entries
<1>2. IsFiniteSet(1 .. Len(o))
  BY <1>1, FS_Interval
<1> QED BY <1>1, <1>2, FS_Subset, FS_CardinalityType

\* A handler counts in natural numbers.
LEMMA FiberNumbers ==
  ASSUME NEW f \in Fibers
  PROVE  f.message \in Nat /\ f.queue \in Nat /\ f.offered \in Nat
<1>1. 0 .. Bound \subseteq Nat /\ 0 .. MaxEvents \subseteq Nat
  BY ServerAssumption
<1> QED BY <1>1 DEF Fibers

\* One fiber moves, of one message.
LEMMA FiberMoved ==
  ASSUME NEW hs \in Seq(Fibers), NEW k \in DOMAIN hs, NEW f \in Fibers
  PROVE  /\ [hs EXCEPT ![k] = f] \in Seq(Fibers) /\ DOMAIN [hs EXCEPT ![k] = f] = DOMAIN hs
         /\ [hs EXCEPT ![k] = f][k] = f
         /\ \A j \in DOMAIN hs \ {k} : [hs EXCEPT ![k] = f][j] = hs[j]
OBVIOUS

\* A fiber becomes another, keeps its message and its answer, and loses no event.
Moves(s, g, f) ==
  /\ FiberOK(s, f) /\ f.message = g.message
  /\ g.at \in {"releasing", "done"} => f.at \in {"releasing", "done"}
  /\ f.consumer = "alive" => g.consumer = "alive" /\ f.offered + g.queue = g.offered + f.queue

\* What is written so far stays right when a fiber moves on and writes nothing.
LEMMA FiberMoves ==
  ASSUME NEW s, NEW hs \in Seq(Fibers), NEW o \in Seq(Lines), NEW u, ConnectionOK(s, hs, o, u),
         NEW k \in DOMAIN hs, NEW f \in Fibers, Moves(s, hs[k], f)
  PROVE  ConnectionOK(s, [hs EXCEPT ![k] = f], o, u)
<1>0. /\ FiberOK(s, f) /\ f.message = hs[k].message
      /\ hs[k].at \in {"releasing", "done"} => f.at \in {"releasing", "done"}
      /\ f.consumer = "alive" =>
           hs[k].consumer = "alive" /\ f.offered + hs[k].queue = hs[k].offered + f.queue
  BY DEF Moves
<1>1. PICK now : now = [hs EXCEPT ![k] = f]
  OBVIOUS
<1>2. /\ DOMAIN now = DOMAIN hs /\ now[k] = f /\ \A j \in DOMAIN hs \ {k} : now[j] = hs[j]
  BY <1>1, FiberMoved
<1>3. /\ \A j \in DOMAIN hs : now[j].message = hs[j].message
      /\ \A j \in DOMAIN hs : hs[j].at \in {"releasing", "done"} => now[j].at \in {"releasing", "done"}
  BY <1>0, <1>2
<1>4. \A i : (IsRead(hs, i) => IsRead(now, i)) /\ (AnsweredBy(hs, i) => AnsweredBy(now, i))
  BY <1>2, <1>3 DEF IsRead, AnsweredBy
<1>5. \A j \in DOMAIN now : FiberOK(s, now[j])
  BY <1>0, <1>2 DEF ConnectionOK
<1>6. InOrder(now)
  BY <1>2, <1>3 DEF ConnectionOK, InOrder
<1>7. WrittenOK(s, now, o)
  BY <1>4 DEF ConnectionOK, WrittenOK
<1>8. Accounted(now, o)
  <2> SUFFICES ASSUME NEW j \in DOMAIN now, now[j].consumer = "alive"
               PROVE  Cardinality(Entries(o, now[j].message, {"progress"})) + now[j].queue = now[j].offered
    BY DEF Accounted
  <2>1. CASE j # k
    BY <1>2, <2>1 DEF ConnectionOK, Accounted
  <2>2. CASE j = k
    <3>1. hs[k] \in Fibers
      OBVIOUS
    <3>2. PICK m \in Nat, q \in Nat, offered \in Nat, queue \in Nat, most \in Nat :
            /\ m = Cardinality(Entries(o, hs[k].message, {"progress"}))
            /\ q = hs[k].queue /\ offered = hs[k].offered /\ queue = f.queue /\ most = f.offered
      BY <3>1, EntriesFinite, FiberNumbers, Zenon
    <3>3. m + q = offered /\ most + q = offered + queue
      BY <1>0, <1>2, <2>2, <3>2, Zenon DEF ConnectionOK, Accounted
    <3>4. m + queue = most
      BY <3>3
    <3> QED BY <1>0, <1>2, <2>2, <3>2, <3>4, Zenon
  <2> QED BY <2>1, <2>2
<1>9. ASSUME NEW at, NEW n, NEW about, ReadSoFar(s, hs, o, u, at, n, about)
      PROVE  ReadSoFar(s, now, o, u, at, n, about)
  BY <1>2, <1>3, <1>4, <1>9 DEF ReadSoFar, ErrorsOf
<1> QED BY <1>1, <1>5, <1>6, <1>7, <1>8, <1>9 DEF ConnectionOK

\* A message has one fiber, and its answer is not written before that one says so.
LEMMA OneFiber ==
  ASSUME NEW hs \in Seq(Fibers), InOrder(hs), NEW k \in DOMAIN hs
  PROVE  /\ \A j \in DOMAIN hs : hs[j].message = hs[k].message => j = k
         /\ hs[k].at \notin {"releasing", "done"} => ~AnsweredBy(hs, hs[k].message)
<1>1. \A j \in DOMAIN hs : j \in Nat /\ hs[j].message \in Nat
  BY FiberNumbers
<1>2. ASSUME NEW j \in DOMAIN hs, hs[j].message = hs[k].message PROVE j = k
  <2>1. ~(j < k) /\ ~(k < j)
    BY <1>1, <1>2 DEF InOrder
  <2> QED BY <1>1, <2>1
<1> QED BY <1>2 DEF AnsweredBy

\* A line more.
LEMMA LineMore ==
  ASSUME NEW o \in Seq(Lines), NEW e \in Lines
  PROVE  /\ Append(o, e) \in Seq(Lines) /\ Len(o) + 1 \in DOMAIN Append(o, e)
         /\ Append(o, e)[Len(o) + 1] = e /\ Len(o) + 1 \notin DOMAIN o
         /\ \A p \in DOMAIN Append(o, e) : p \in DOMAIN o \/ p = Len(o) + 1
         /\ \A p \in DOMAIN o : p \in DOMAIN Append(o, e) /\ Append(o, e)[p] = o[p] /\ p < Len(o) + 1
OBVIOUS

\* A line written changes the lines about its own message only.
LEMMA EntriesMore ==
  ASSUME NEW o \in Seq(Lines), NEW e \in Lines
  PROVE  \A i, whats :
           /\ ~(e.to = i /\ e.what \in whats) => Entries(Append(o, e), i, whats) = Entries(o, i, whats)
           /\ e.to = i /\ e.what \in whats =>
                Entries(Append(o, e), i, whats) = Entries(o, i, whats) \cup {Len(o) + 1}
<1>1. PICK now, last : now = Append(o, e) /\ last = Len(o) + 1
  OBVIOUS
<1>2. /\ last \in DOMAIN now /\ now[last] = e /\ last \notin DOMAIN o
      /\ \A p \in DOMAIN now : p \in DOMAIN o \/ p = last
      /\ \A p \in DOMAIN o : p \in DOMAIN now /\ now[p] = o[p]
  BY <1>1, LineMore
<1>3. ASSUME NEW i, NEW whats, ~(e.to = i /\ e.what \in whats)
      PROVE  Entries(now, i, whats) = Entries(o, i, whats)
  BY <1>2, <1>3 DEF Entries
<1>4. ASSUME NEW i, NEW whats, e.to = i /\ e.what \in whats
      PROVE  Entries(now, i, whats) = Entries(o, i, whats) \cup {last}
  BY <1>2, <1>4 DEF Entries
<1> QED BY <1>1, <1>3, <1>4

\* What may answer a message of a kind.
LEMMA AnswersAreAnswers ==
  ASSUME NEW kind \in AllKinds
  PROVE  AnswersOf(kind) \subseteq Answers /\ "progress" \notin Answers /\ "parseError" \in Answers
BY DEF AnswersOf, Answers, AllKinds, RunsEngine

\* What is written stays right when a line is added that the lines to its message allow.
LEMMA LineWritten ==
  ASSUME NEW s, NEW hs \in Seq(Fibers), NEW o \in Seq(Lines), WrittenOK(s, hs, o), NEW e \in Lines,
         e.to # 0 => IsRead(hs, e.to) /\ \A p \in DOMAIN o : o[p].to = e.to => o[p].what \notin Answers,
         e.to # 0 /\ e.what \in Answers => AnsweredBy(hs, e.to) /\ e.what \in AnswersOf(s[e.to])
  PROVE  WrittenOK(s, hs, Append(o, e))
<1>1. PICK now, last : now = Append(o, e) /\ last = Len(o) + 1 /\ last \in Nat
  <2>1. Len(o) + 1 \in Nat
    OBVIOUS
  <2> QED BY <2>1, Zenon
<1>2. /\ last \in DOMAIN now /\ now[last] = e /\ last \notin DOMAIN o
      /\ \A p \in DOMAIN now : p \in DOMAIN o \/ p = last
      /\ \A p \in DOMAIN o : p \in DOMAIN now /\ now[p] = o[p] /\ p <= last
  BY <1>1, LineMore
<1>3. ASSUME NEW p \in DOMAIN now, now[p].to # 0
      PROVE  /\ IsRead(hs, now[p].to)
             /\ now[p].what \in Answers =>
                  /\ AnsweredBy(hs, now[p].to) /\ now[p].what \in AnswersOf(s[now[p].to])
                  /\ \A q \in DOMAIN now : now[q].to = now[p].to => q <= p
  <2>1. CASE p = last
    <3>1. last <= last
      BY <1>1
    <3> QED BY <1>2, <1>3, <2>1, <3>1
  <2>2. CASE p # last
    <3>1. p \in DOMAIN o /\ now[p] = o[p]
      BY <1>2, <2>2
    <3>2. now[p].what \in Answers => e.to # now[p].to
      BY <1>3, <3>1
    <3> QED BY <1>2, <1>3, <3>1, <3>2 DEF WrittenOK
  <2> QED BY <2>1, <2>2
<1>4. WrittenOK(s, hs, now)
  BY <1>3 DEF WrittenOK
<1> QED BY <1>1, <1>4

\* A progress notification.
LEMMA ProgressWritten ==
  ASSUME NEW s \in Seq(AllKinds), NEW hs \in Seq(Fibers), NEW o \in Seq(Lines), NEW u,
         ConnectionOK(s, hs, o, u), NEW k \in DOMAIN hs, hs[k].queue > 0, hs[k].consumer = "alive"
  PROVE  /\ [hs EXCEPT ![k].queue = @ - 1] \in Seq(Fibers)
         /\ Append(o, [to |-> hs[k].message, what |-> "progress"]) \in Seq(Lines)
         /\ ConnectionOK(s, [hs EXCEPT ![k].queue = @ - 1],
                         Append(o, [to |-> hs[k].message, what |-> "progress"]), u)
<1>1. PICK f : f = [hs[k] EXCEPT !.queue = @ - 1]
  OBVIOUS
<1>2. PICK now : now = [hs EXCEPT ![k] = f]
  OBVIOUS
<1>3. PICK e : e = [to |-> hs[k].message, what |-> "progress"]
  OBVIOUS
<1>4. PICK o2 : o2 = Append(o, e)
  OBVIOUS
<1>5. now = [hs EXCEPT ![k].queue = @ - 1]
  BY <1>1, <1>2
<1>6. hs[k] \in Fibers /\ hs[k].message \in Nat /\ hs[k].queue \in Nat /\ hs[k].offered \in Nat
  BY FiberNumbers
<1>7. /\ f \in Fibers /\ f.message = hs[k].message /\ f.at = hs[k].at /\ f.offered = hs[k].offered
      /\ f.queue = hs[k].queue - 1 /\ f.consumer = "alive"
      /\ f.holds = hs[k].holds /\ f.decision = hs[k].decision /\ f.answer = hs[k].answer
  <2>1. PICK less : less = hs[k].queue - 1
    OBVIOUS
  <2>2. less \in 0 .. Bound
    <3>1. hs[k].queue \in 0 .. Bound
      BY <1>6 DEF Fibers
    <3>2. \A q \in 0 .. Bound : q > 0 => q - 1 \in 0 .. Bound
      BY ServerAssumption
    <3> QED BY <2>1, <3>1, <3>2
  <2>3. f = [hs[k] EXCEPT !.queue = less]
    BY <1>1, <2>1, Zenon
  <2> QED BY <1>6, <2>1, <2>2, <2>3 DEF Fibers
<1>8. FiberOK(s, hs[k]) /\ InOrder(hs) /\ WrittenOK(s, hs, o) /\ Accounted(hs, o)
  BY DEF ConnectionOK
<1>9. /\ now \in Seq(Fibers) /\ DOMAIN now = DOMAIN hs /\ now[k] = f
      /\ \A j \in DOMAIN hs \ {k} : now[j] = hs[j]
  BY <1>2, <1>7, FiberMoved
<1>10. /\ \A j \in DOMAIN hs : now[j].message = hs[j].message
       /\ \A j \in DOMAIN hs : now[j].at = hs[j].at
  BY <1>7, <1>9
<1>11. \A i : (IsRead(hs, i) <=> IsRead(now, i)) /\ (AnsweredBy(hs, i) <=> AnsweredBy(now, i))
  BY <1>9, <1>10 DEF IsRead, AnsweredBy
<1>12. hs[k].at \notin {"frame", "decided", "answering", "releasing", "failing", "failed", "done"}
  BY <1>6, <1>8 DEF FiberOK, Over
<1>13. e \in Lines /\ e.to = hs[k].message /\ e.what = "progress" /\ e.to # 0
  BY <1>3, <1>6, <1>8 DEF Lines, FiberOK
<1>14. \A j \in DOMAIN now : FiberOK(s, now[j])
  <2>1. FiberOK(s, f)
    BY <1>7, <1>8, <1>12 DEF FiberOK, Over
  <2> QED BY <1>9, <2>1 DEF ConnectionOK
<1>15. InOrder(now)
  BY <1>8, <1>9, <1>10 DEF InOrder
<1>16. WrittenOK(s, now, o2)
  <2>1. ~AnsweredBy(hs, e.to) /\ IsRead(hs, e.to)
    BY <1>8, <1>12, <1>13, OneFiber DEF IsRead
  <2>2. \A p \in DOMAIN o : o[p].to = e.to => o[p].what \notin Answers
    BY <1>8, <1>13, <2>1 DEF WrittenOK
  <2>3. "progress" \notin Answers
    BY DEF Answers
  <2>4. WrittenOK(s, now, o)
    BY <1>8, <1>11 DEF WrittenOK
  <2> QED BY <1>4, <1>9, <1>11, <1>13, <2>1, <2>2, <2>3, <2>4, LineWritten
<1>17. Accounted(now, o2)
  <2> SUFFICES ASSUME NEW j \in DOMAIN now, now[j].consumer = "alive"
               PROVE  Cardinality(Entries(o2, now[j].message, {"progress"})) + now[j].queue = now[j].offered
    BY DEF Accounted
  <2>1. CASE j # k
    <3>1. now[j] = hs[j] /\ hs[j].message # e.to
      BY <1>8, <1>9, <1>13, <2>1, OneFiber
    <3>2. Entries(o2, now[j].message, {"progress"}) = Entries(o, hs[j].message, {"progress"})
      BY <1>4, <1>13, <3>1, EntriesMore
    <3> QED BY <1>8, <1>9, <3>1, <3>2 DEF Accounted
  <2>2. CASE j = k
    <3>1. PICK E, last : E = Entries(o, hs[k].message, {"progress"}) /\ last = Len(o) + 1
      OBVIOUS
    <3>2. Entries(o2, now[j].message, {"progress"}) = E \cup {last} /\ last \notin E
      <4>1. last \notin DOMAIN o
        BY <3>1, LineMore, <1>13
      <4>2. last \notin E
        BY <3>1, <4>1 DEF Entries
      <4>3. Entries(o2, e.to, {"progress"}) = Entries(o, e.to, {"progress"}) \cup {Len(o) + 1}
        <5>1. e.what \in {"progress"}
          BY <1>13
        <5>2. \A i, whats : e.to = i /\ e.what \in whats =>
                Entries(Append(o, e), i, whats) = Entries(o, i, whats) \cup {Len(o) + 1}
          BY <1>13, EntriesMore, SMTT(20)
        <5> QED BY <1>4, <5>1, <5>2, Zenon
      <4> QED BY <1>7, <1>9, <1>13, <2>2, <3>1, <4>2, <4>3
    <3>3. IsFiniteSet(E) /\ Cardinality(E) \in Nat
      BY <3>1, EntriesFinite
    <3>4. Cardinality(E \cup {last}) = Cardinality(E) + 1
      BY <3>2, <3>3, FS_AddElement
    <3>5. Cardinality(E) + hs[k].queue = hs[k].offered
      BY <1>8, <3>1 DEF Accounted
    <3>6. PICK m \in Nat : m = Cardinality(E)
      BY <3>3
    <3>7. m + 1 + now[j].queue = now[j].offered
      <4>1. PICK q \in Nat, offered \in Nat : q = hs[k].queue /\ offered = hs[k].offered
        BY <1>6
      <4>2. m + q = offered
        BY <3>5, <3>6, <4>1, Zenon
      <4>3. now[j].queue = q - 1 /\ now[j].offered = offered
        BY <1>7, <1>9, <2>2, <4>1, Zenon
      <4>4. m + 1 + (q - 1) = offered
        BY <4>2
      <4> QED BY <4>3, <4>4, Zenon
    <3> QED BY <3>2, <3>4, <3>6, <3>7, Zenon
  <2> QED BY <2>1, <2>2
<1>18. ASSUME NEW at, NEW n, NEW about, ReadSoFar(s, hs, o, u, at, n, about)
       PROVE  ReadSoFar(s, now, o2, u, at, n, about)
  <2>1. Entries(o2, 0, Answers) = Entries(o, 0, Answers)
    BY <1>4, <1>13, EntriesMore
  <2>2. ErrorsOf(s, now, o2, n, about)
    BY <1>11, <1>18, <2>1 DEF ReadSoFar, ErrorsOf
  <2>3. \A j \in DOMAIN now : now[j].message <= n
    BY <1>9, <1>10, <1>18 DEF ReadSoFar
  <2> QED BY <1>18, <2>2, <2>3 DEF ReadSoFar
<1>19. o2 \in Seq(Lines)
  BY <1>4, <1>13, LineMore
<1>20. ConnectionOK(s, now, o2, u)
  BY <1>14, <1>15, <1>16, <1>17, <1>18 DEF ConnectionOK
<1> QED BY <1>3, <1>4, <1>5, <1>9, <1>19, <1>20

\* An answer, with the id of the message unless that is no request.
AnswerLine(s, f) ==
  [to |-> IF s[f.message] = "undecodable" THEN 0 ELSE f.message, what |-> f.answer]

\* Writing the answer of a handler keeps what is right about its connection.
LEMMA AnswerWritten ==
  ASSUME NEW s \in Seq(AllKinds), NEW hs \in Seq(Fibers), NEW o \in Seq(Lines), NEW u,
         ConnectionOK(s, hs, o, u), NEW k \in DOMAIN hs, hs[k].at = "answering"
  PROVE  /\ [hs EXCEPT ![k].at = "releasing"] \in Seq(Fibers)
         /\ Append(o, AnswerLine(s, hs[k])) \in Seq(Lines)
         /\ ConnectionOK(s, [hs EXCEPT ![k].at = "releasing"], Append(o, AnswerLine(s, hs[k])), u)
<1>1. PICK f : f = [hs[k] EXCEPT !.at = "releasing"]
  OBVIOUS
<1>2. PICK now : now = [hs EXCEPT ![k] = f]
  OBVIOUS
<1>3. PICK i, kind : i = hs[k].message /\ kind = s[i]
  OBVIOUS
<1>0. PICK e : e = AnswerLine(s, hs[k])
  OBVIOUS
<1>4. PICK o2 : o2 = Append(o, e)
  OBVIOUS
<1>5. now = [hs EXCEPT ![k].at = "releasing"]
  BY <1>1, <1>2
<1>6. FiberOK(s, hs[k]) /\ InOrder(hs) /\ WrittenOK(s, hs, o) /\ Accounted(hs, o)
  BY DEF ConnectionOK
<1>7. hs[k] \in Fibers /\ i \in Nat \ {0} /\ i \in 1 .. Len(s) /\ kind \in AllKinds
  BY <1>3, <1>6 DEF FiberOK
<1>8. /\ f \in Fibers /\ f.message = i /\ f.at = "releasing" /\ f.queue = hs[k].queue
      /\ f.offered = hs[k].offered /\ f.consumer = hs[k].consumer
  BY <1>1, <1>3, <1>7 DEF Fibers, Places
<1>9. /\ now \in Seq(Fibers) /\ DOMAIN now = DOMAIN hs /\ now[k] = f
      /\ \A j \in DOMAIN hs \ {k} : now[j] = hs[j]
  BY <1>2, <1>8, FiberMoved
<1>10. /\ \A j \in DOMAIN hs : now[j].message = hs[j].message
       /\ \A j \in DOMAIN hs : hs[j].at \in {"releasing", "done"} => now[j].at \in {"releasing", "done"}
  BY <1>3, <1>8, <1>9
<1>11. \A m : (IsRead(hs, m) => IsRead(now, m)) /\ (AnsweredBy(hs, m) => AnsweredBy(now, m))
  BY <1>9, <1>10 DEF IsRead, AnsweredBy
<1>12. /\ kind = "undecodable" => e = [to |-> 0, what |-> "parseError"]
       /\ kind # "undecodable" => e = [to |-> i, what |-> hs[k].answer] /\ hs[k].answer \in AnswersOf(kind)
  BY <1>0, <1>3, <1>6 DEF FiberOK, AnswerLine
<1>13. e \in Lines /\ e.what \in Answers /\ e.what # "progress"
  <2>1. AnswersOf(kind) \subseteq Answers /\ "progress" \notin Answers /\ "parseError" \in Answers
    BY <1>7, AnswersAreAnswers
  <2> QED BY <1>7, <1>12, <2>1 DEF Lines
<1>22. \A m, whats : e.to = m /\ e.what \in whats =>
         Entries(Append(o, e), m, whats) = Entries(o, m, whats) \cup {Len(o) + 1}
  <2>1. e \in Lines
    BY <1>13
  <2> QED BY <2>1, EntriesMore
<1>14. AnsweredBy(now, i) /\ IsRead(now, i) /\ ~AnsweredBy(hs, i)
  <2>1. ~AnsweredBy(hs, i)
    BY <1>3, <1>6, OneFiber
  <2> QED BY <1>8, <1>9, <2>1 DEF AnsweredBy, IsRead
<1>15. \A j \in DOMAIN now : FiberOK(s, now[j])
  <2>1. FiberOK(s, f)
    BY <1>3, <1>6, <1>8 DEF FiberOK, Over
  <2> QED BY <1>9, <2>1 DEF ConnectionOK
<1>16. InOrder(now)
  BY <1>6, <1>9, <1>10 DEF InOrder
<1>17. WrittenOK(s, now, o2)
  <2>1. \A p \in DOMAIN o : o[p].to = i => o[p].what \notin Answers
    BY <1>6, <1>7, <1>14 DEF WrittenOK
  <2>2. WrittenOK(s, now, o)
    BY <1>6, <1>11 DEF WrittenOK
  <2>3. e.to # 0 => e.to = i /\ kind # "undecodable" /\ e.what \in AnswersOf(s[i])
    BY <1>3, <1>12
  <2> QED BY <1>4, <1>9, <1>13, <1>14, <2>1, <2>2, <2>3, LineWritten
<1>18. Accounted(now, o2)
  <2> SUFFICES ASSUME NEW j \in DOMAIN now, now[j].consumer = "alive"
               PROVE  Cardinality(Entries(o2, now[j].message, {"progress"})) + now[j].queue = now[j].offered
    BY DEF Accounted
  <2>1. e.what \notin {"progress"}
    BY <1>13
  <2>2. Entries(o2, now[j].message, {"progress"}) = Entries(o, hs[j].message, {"progress"})
    BY <1>4, <1>9, <1>10, <1>13, <2>1, EntriesMore
  <2>3. now[j].queue = hs[j].queue /\ now[j].offered = hs[j].offered /\ hs[j].consumer = "alive"
    BY <1>8, <1>9
  <2> QED BY <1>6, <1>9, <2>2, <2>3 DEF Accounted
<1>19. ASSUME NEW at, NEW n, NEW about, ReadSoFar(s, hs, o, u, at, n, about)
       PROVE  \E about2 : ReadSoFar(s, now, o2, u, at, n, about2)
  <2> DEFINE E == Entries(o, 0, Answers)
             last == Len(o) + 1
             about2 == [p \in E \cup {last} |-> IF p = last THEN i ELSE about[p]]
  <2>1. \A j \in DOMAIN now : now[j].message <= n
    BY <1>9, <1>10, <1>19 DEF ReadSoFar
  <2>2. /\ about \in [E -> 1 .. n] /\ \A p, q \in E : about[p] = about[q] => p = q
        /\ \A p \in E : \/ s[about[p]] = "headerless"
                        \/ s[about[p]] = "undecodable" /\ AnsweredBy(hs, about[p])
    BY <1>19 DEF ReadSoFar, ErrorsOf
  <2>3. CASE kind # "undecodable"
    <3>1. Entries(o2, 0, Answers) = E
      BY <1>4, <1>7, <1>12, <1>13, <2>3, EntriesMore
    <3> HIDE DEF E, last
    <3>2. ErrorsOf(s, now, o2, n, about)
      BY <1>11, <2>2, <3>1 DEF ErrorsOf
    <3> QED BY <1>19, <2>1, <3>2 DEF ReadSoFar
  <2>4. CASE kind = "undecodable"
    <3>1. Entries(o2, 0, Answers) = E \cup {last} /\ last \notin E
      <4>1. e.to = 0
        BY <1>12, <2>4
      <4>2. last \notin DOMAIN o
        BY <1>13, LineMore
      <4>3. last \notin E
        BY <4>2 DEF Entries
      <4> QED BY <1>4, <1>13, <1>22, <4>1, <4>3, Zenon
    <3>2. n \in Nat /\ i \in 1 .. n
      BY <1>3, <1>7, <1>19 DEF ReadSoFar
    <3> HIDE DEF E, last
    <3>3. \A p \in E : about[p] # i
      BY <1>3, <1>14, <2>2, <2>4
    <3>4. /\ about2 \in [E \cup {last} -> 1 .. n] /\ about2[last] = i
          /\ \A p \in E : about2[p] = about[p]
      BY <2>2, <3>1, <3>2
    <3> HIDE DEF about2
    <3>5. \A p, q \in E \cup {last} : about2[p] = about2[q] => p = q
      BY <2>2, <3>3, <3>4
    <3>6. \A p \in E \cup {last} : \/ s[about2[p]] = "headerless"
                                   \/ s[about2[p]] = "undecodable" /\ AnsweredBy(now, about2[p])
      BY <1>3, <1>11, <1>14, <2>2, <2>4, <3>4
    <3>7. ErrorsOf(s, now, o2, n, about2)
      BY <3>1, <3>4, <3>5, <3>6 DEF ErrorsOf
    <3> QED BY <1>19, <2>1, <3>7 DEF ReadSoFar
  <2> QED BY <2>3, <2>4
<1>20. o2 \in Seq(Lines)
  BY <1>4, <1>13, LineMore
<1>21. ConnectionOK(s, now, o2, u)
  BY <1>15, <1>16, <1>17, <1>18, <1>19 DEF ConnectionOK
<1> QED BY <1>0, <1>4, <1>5, <1>9, <1>20, <1>21

\* It does not matter which pieces of a stream are put together first.
LEMMA TokensTogether ==
  \A x, y, z \in Seq(Tokens) : (x \o y) \o z = x \o (y \o z)
BY ConcatAssociative

\* A chunk moves from the bytes on their way behind those buffered.
LEMMA Chunk ==
  ASSUME NEW buffered \in Seq(Tokens), NEW coming \in Seq(Tokens), NEW n \in 1 .. Len(coming)
  PROVE  /\ buffered \o SubSeq(coming, 1, n) \in Seq(Tokens)
         /\ SubSeq(coming, n + 1, Len(coming)) \in Seq(Tokens)
         /\ (buffered \o SubSeq(coming, 1, n)) \o SubSeq(coming, n + 1, Len(coming)) =
              buffered \o coming
<1>1. PICK l \in Nat : l = Len(coming)
  OBVIOUS
<1>2. PICK a, b : a = SubSeq(coming, 1, n) /\ b = SubSeq(coming, n + 1, l)
  OBVIOUS
<1>3. \A i \in 1 .. l : coming[i] \in Tokens
  BY <1>1
<1>4. a \in Seq(Tokens) /\ b \in Seq(Tokens)
  <2>1. n \in 1 .. l /\ n \in Int /\ n + 1 \in Int /\ l \in Int /\ 1 \in Int
    BY <1>1
  <2>2. (\A i \in 1 .. n : coming[i] \in Tokens) /\ (\A i \in n + 1 .. l : coming[i] \in Tokens)
    BY <1>3, <2>1
  <2>3. SubSeq(coming, 1, n) \in Seq(Tokens)
    BY <2>1, <2>2, SubSeqProperties
  <2>4. SubSeq(coming, n + 1, l) \in Seq(Tokens)
    BY <2>1, <2>2, SubSeqProperties
  <2> QED BY <1>2, <2>3, <2>4
<1>5. a \o b = coming
  <2>1. 1 \in 1 .. Len(coming) + 1 /\ n \in 1 - 1 .. Len(coming) /\ Len(coming) \in n .. Len(coming)
    OBVIOUS
  <2>2. SubSeq(coming, 1, n) \o SubSeq(coming, n + 1, Len(coming)) = SubSeq(coming, 1, Len(coming))
    BY <2>1, ConcatAdjacentSubSeq, Zenon
  <2>3. SubSeq(coming, 1, Len(coming)) = coming
    BY SubSeqFull
  <2> QED BY <1>1, <1>2, <2>2, <2>3, Zenon
<1>6. (buffered \o a) \o b = buffered \o (a \o b)
  BY <1>4, TokensTogether, Zenon
<1>7. buffered \o a \in Seq(Tokens)
  BY <1>4
<1> QED BY <1>1, <1>2, <1>4, <1>5, <1>6, <1>7, Zenon

\* The message of a frame is the one it is the body of.
MessageIn(s, frame) ==
  LET same == {i \in DOMAIN s : frame = Body(i)}
  IN IF same = {} THEN 0 ELSE CHOOSE i \in same : TRUE

\* The body of a frame tells the message it is of.
LEMMA MessageOfBody ==
  ASSUME NEW s \in Seq(AllKinds), NEW i \in 1 .. Len(s)
  PROVE  MessageIn(s, Body(i)) = i
<1>1. i \in DOMAIN s
  OBVIOUS
<1>2. \A j : Body(i) = Body(j) => i = j
  BY DEF Body, Content
<1>3. {j \in DOMAIN s : Body(i) = Body(j)} = {i}
  BY <1>1, <1>2
<1> QED BY <1>3 DEF MessageIn

\* New fibers, of messages after those that have one.
LEMMA Started ==
  ASSUME NEW s \in Seq(AllKinds), NEW hs \in Seq(Fibers), NEW o \in Seq(Lines), NEW u,
         ConnectionOK(s, hs, o, u), NEW n \in Nat, \A k \in DOMAIN hs : hs[k].message <= n,
         NEW new \in Seq(Fibers), InOrder(new), \A k \in DOMAIN new : FiberOK(s, new[k]),
         \A k \in DOMAIN new : new[k].message > n /\ new[k].queue = 0 /\ new[k].offered = 0
  PROVE  /\ hs \o new \in Seq(Fibers)
         /\ \A k \in DOMAIN (hs \o new) : FiberOK(s, (hs \o new)[k])
         /\ InOrder(hs \o new) /\ WrittenOK(s, hs \o new, o) /\ Accounted(hs \o new, o)
         /\ \A i : AnsweredBy(hs, i) => AnsweredBy(hs \o new, i)
<1>1. PICK a \in Nat, b \in Nat : a = Len(hs) /\ b = Len(new)
  OBVIOUS
<1>2. PICK now : now = hs \o new
  OBVIOUS
<1>3. /\ now \in Seq(Fibers) /\ DOMAIN now = 1 .. a + b /\ DOMAIN hs = 1 .. a /\ DOMAIN new = 1 .. b
      /\ \A k \in 1 .. a + b : now[k] = IF k <= a THEN hs[k] ELSE new[k - a]
  BY <1>1, <1>2, ConcatProperties
<1>4. \A k \in 1 .. a : k \in 1 .. a + b /\ now[k] = hs[k]
  BY <1>3
<1>5. \A k \in 1 .. a + b : k \in 1 .. a \/ (k > a /\ k - a \in 1 .. b /\ now[k] = new[k - a])
  BY <1>3
<1>6. \A k \in 1 .. a + b : FiberOK(s, now[k])
  BY <1>3, <1>4, <1>5 DEF ConnectionOK
<1>7. InOrder(now)
  <2> SUFFICES ASSUME NEW k \in 1 .. a + b, NEW l \in 1 .. a + b, k < l
               PROVE  now[k].message < now[l].message
    BY <1>3 DEF InOrder
  <2>1. CASE l \in 1 .. a
    <3>1. k \in 1 .. a
      BY <2>1
    <3> QED BY <1>3, <1>4, <2>1, <3>1 DEF ConnectionOK, InOrder
  <2>2. CASE l > a /\ k \in 1 .. a
    <3>1. now[k].message <= n /\ now[k].message \in Nat
      BY <1>3, <1>4, <2>2, FiberNumbers
    <3>2. now[l].message > n /\ now[l].message \in Nat
      <4>1. l - a \in DOMAIN new /\ now[l] = new[l - a]
        BY <1>3, <1>5, <2>2
      <4>2. new[l - a].message > n /\ new[l - a].message \in Nat
        BY <4>1, FiberNumbers
      <4> QED BY <4>1, <4>2
    <3> QED BY <3>1, <3>2
  <2>3. CASE l > a /\ k > a
    <3>1. /\ l - a \in DOMAIN new /\ now[l] = new[l - a] /\ k - a \in DOMAIN new /\ now[k] = new[k - a]
          /\ k - a < l - a
      BY <1>3, <1>5, <2>3
    <3> QED BY <3>1 DEF InOrder
  <2> QED BY <2>1, <2>2, <2>3
<1>8. \A i : (IsRead(hs, i) => IsRead(now, i)) /\ (AnsweredBy(hs, i) => AnsweredBy(now, i))
  BY <1>3, <1>4 DEF IsRead, AnsweredBy
<1>9. WrittenOK(s, now, o)
  BY <1>8 DEF ConnectionOK, WrittenOK
<1>10. Accounted(now, o)
  <2> SUFFICES ASSUME NEW k \in 1 .. a + b, now[k].consumer = "alive"
               PROVE  Cardinality(Entries(o, now[k].message, {"progress"})) + now[k].queue = now[k].offered
    BY <1>3 DEF Accounted
  <2>1. CASE k \in 1 .. a
    BY <1>3, <1>4, <2>1 DEF ConnectionOK, Accounted
  <2>2. CASE k \notin 1 .. a
    <3>1. k - a \in DOMAIN new /\ now[k] = new[k - a]
      BY <1>3, <1>5, <2>2
    <3>2. now[k].message > n /\ now[k].queue = 0 /\ now[k].offered = 0 /\ now[k].message \in Nat
      BY <3>1, FiberNumbers
    <3>3. ~IsRead(hs, now[k].message)
      BY <3>2, FiberNumbers DEF IsRead
    <3>4. Entries(o, now[k].message, {"progress"}) = {}
      <4>1. now[k].message # 0
        BY <3>2
      <4> QED BY <3>3, <4>1 DEF Entries, ConnectionOK, WrittenOK
    <3>5. Cardinality(Entries(o, now[k].message, {"progress"})) = 0
      BY <3>4, FS_EmptySet, Zenon
    <3>6. 0 + 0 = 0
      OBVIOUS
    <3> QED BY <3>2, <3>5, <3>6, Zenon
  <2> QED BY <2>1, <2>2
<1> QED BY <1>2, <1>3, <1>6, <1>7, <1>8, <1>9, <1>10

\* Errors without an id are added.
ErrorLines(errors) == [e \in 1 .. errors |-> ParseError]

\* Errors of framing are written behind what has been written.
LEMMA ErrorsMore ==
  ASSUME NEW o \in Seq(Lines), NEW errors \in Nat
  PROVE  /\ o \o ErrorLines(errors) \in Seq(Lines)
         /\ \A p \in DOMAIN o :
              p \in DOMAIN (o \o ErrorLines(errors)) /\ (o \o ErrorLines(errors))[p] = o[p]
         /\ \A p \in DOMAIN (o \o ErrorLines(errors)) :
              \/ p \in DOMAIN o
              \/ /\ p - Len(o) \in 1 .. errors /\ p \in Nat
                 /\ (o \o ErrorLines(errors))[p] = ParseError
<1>1. PICK new : new = ErrorLines(errors)
  OBVIOUS
<1>2. ParseError \in Lines
  BY DEF ParseError, Lines, Answers
<1>3. new \in Seq(Lines) /\ Len(new) = errors /\ \A e \in 1 .. errors : new[e] = ParseError
  BY <1>1, <1>2 DEF ErrorLines
<1>4. PICK o2 : o2 = o \o new
  OBVIOUS
<1>5. PICK l \in Nat : l = Len(o)
  OBVIOUS
<1>6. /\ o2 \in Seq(Lines) /\ Len(o2) = l + errors
      /\ \A p \in 1 .. l + errors : o2[p] = IF p <= l THEN o[p] ELSE new[p - l]
  BY <1>3, <1>4, <1>5, ConcatProperties, ZenonT(60)
<1>7. DOMAIN o = 1 .. l /\ DOMAIN o2 = 1 .. l + errors
  BY <1>5, <1>6
<1>8. \A p \in 1 .. l : p \in 1 .. l + errors /\ o2[p] = o[p]
  BY <1>6
<1>9. \A p \in 1 .. l + errors : p \in 1 .. l \/ (p - l \in 1 .. errors /\ o2[p] = ParseError /\ p \in Nat)
  BY <1>3, <1>6
<1> QED BY <1>1, <1>4, <1>5, <1>6, <1>7, <1>8, <1>9, Zenon

\* A function on 1 .. m is a sequence.
LEMMA FunctionsAreSeqs ==
  ASSUME NEW S, NEW m \in Nat, NEW f \in [1 .. m -> S]
  PROVE  f \in Seq(S)
OBVIOUS

\* A handler starts at its frame, with nothing.
LEMMA FiberNew ==
  ASSUME NEW i
  PROVE  /\ Fiber(i).message = i /\ Fiber(i).at = "frame" /\ Fiber(i).holds = FALSE
         /\ Fiber(i).queue = 0 /\ Fiber(i).offered = 0
BY DEF Fiber

\* A new handler is one.
LEMMA FiberIsFiber ==
  ASSUME NEW i \in Nat
  PROVE  Fiber(i) \in Fibers
<1>1. 0 \in 0 .. Bound /\ 0 \in 0 .. MaxEvents
  BY ServerAssumption
<1> QED BY <1>1 DEF Fiber, Fibers, Places

NewFibers(s, frames) == [k \in DOMAIN frames |-> Fiber(MessageIn(s, frames[k]))]

\* What is read can be handled, or given up with the connection.
Handled(s, hs, o, more, step) ==
  /\ step \in FramingState /\ ConnectionOK(s, hs, o, step.rest \o more)
  /\ hs \o NewFibers(s, step.frames) \in Seq(Fibers) /\ o \o ErrorLines(step.errors) \in Seq(Lines)
  /\ NewFibers(s, step.frames) \in Seq(Fibers)
  /\ \A k \in DOMAIN NewFibers(s, step.frames) : NewFibers(s, step.frames)[k].holds = FALSE
  /\ ConnectionOK(s, hs \o NewFibers(s, step.frames), o \o ErrorLines(step.errors), step.rest \o more)

\* The frames of a chunk get their fibers, and its errors are written.
LEMMA FramesHandled ==
  ASSUME NEW s \in Seq(AllKinds), NEW hs \in Seq(Fibers), NEW o \in Seq(Lines),
         NEW bytes \in Seq(Tokens), NEW more \in Seq(Tokens), ConnectionOK(s, hs, o, bytes \o more),
         NEW step, step = ReadFrames(bytes)
  PROVE  Handled(s, hs, o, more, step)
<1>0. PICK new : new = NewFibers(s, step.frames)
  OBVIOUS
<1>1. PICK at, n, about : ReadSoFar(s, hs, o, bytes \o more, at, n, about)
  BY DEF ConnectionOK
<1>2. /\ Limits(s, at) /\ n \in 0 .. Len(s) /\ Unread(s, at, n, bytes \o more)
      /\ \A k \in DOMAIN hs : hs[k].message <= n
      /\ about \in [Entries(o, 0, Answers) -> 1 .. n]
      /\ \A p, q \in Entries(o, 0, Answers) : about[p] = about[q] => p = q
      /\ \A p \in Entries(o, 0, Answers) :
           \/ s[about[p]] = "headerless"
           \/ s[about[p]] = "undecodable" /\ AnsweredBy(hs, about[p])
  BY <1>1 DEF ReadSoFar, ErrorsOf
<1>3. ReadOK(s, at, n, more, step)
  BY <1>2, FramesRead
<1>4. step \in FramingState /\ step.errors \in Nat /\ step.frames \in Seq(Seq(Tokens))
  BY <1>3 DEF ReadOK, FramingState
<1>5. PICK next, bodies, headerless : ReadTo(s, at, n, more, step, next, bodies, headerless)
  BY <1>3 DEF ReadOK
<1>6. PICK many \in Nat : many = Len(step.frames) /\ DOMAIN step.frames = 1 .. many
  BY <1>4
<1>7. /\ next \in n .. Len(s) /\ Unread(s, at, next, step.rest \o more)
      /\ bodies \in [1 .. many -> n + 1 .. next]
      /\ \A k, l \in 1 .. many : k < l => bodies[k] < bodies[l]
      /\ \A k \in 1 .. many : step.frames[k] = Body(bodies[k]) /\ s[bodies[k]] # "headerless"
  BY <1>5, <1>6 DEF ReadTo, Bodies
<1>8. Headerless(s, n, next, step.errors, headerless)
  BY <1>5 DEF ReadTo
<1>9. /\ n \in Nat /\ next \in Nat /\ next \in 0 .. Len(s) /\ n <= next
      /\ \A i \in n + 1 .. next : i \in 1 .. Len(s) /\ i \in Nat /\ i > n /\ i <= next /\ i \in 1 .. next
      /\ \A i \in 1 .. n : i \in 1 .. next /\ i \notin n + 1 .. next
  BY <1>2, <1>7
<1>10. ConnectionOK(s, hs, o, step.rest \o more)
  <2>1. \A k \in DOMAIN hs : hs[k].message <= next
    BY <1>2, <1>9, FiberNumbers
  <2>2. about \in [Entries(o, 0, Answers) -> 1 .. next]
    BY <1>2, <1>9
  <2>3. ErrorsOf(s, hs, o, next, about)
    BY <1>2, <2>2 DEF ErrorsOf
  <2>4. ReadSoFar(s, hs, o, step.rest \o more, at, next, about)
    BY <1>2, <1>7, <1>9, <2>1, <2>3, Zenon DEF ReadSoFar
  <2> QED BY <2>4 DEF ConnectionOK
<1>11. \A k \in 1 .. many : new[k] = Fiber(bodies[k])
  <2> SUFFICES ASSUME NEW k \in 1 .. many PROVE new[k] = Fiber(bodies[k])
    OBVIOUS
  <2>1. new[k] = Fiber(MessageIn(s, step.frames[k])) /\ step.frames[k] = Body(bodies[k])
    BY <1>0, <1>6, <1>7 DEF NewFibers
  <2>2. bodies[k] \in 1 .. Len(s)
    BY <1>7, <1>9
  <2>3. MessageIn(s, Body(bodies[k])) = bodies[k]
    BY <2>2, MessageOfBody
  <2> QED BY <2>1, <2>3
<1>12. DOMAIN new = 1 .. many /\ new \in Seq(Fibers)
  <2>1. \A k \in 1 .. many : new[k] \in Fibers
    BY <1>7, <1>9, <1>11, FiberIsFiber
  <2>2. DOMAIN new = 1 .. many /\ new = [k \in 1 .. many |-> new[k]]
    BY <1>0, <1>6 DEF NewFibers
  <2>3. new \in [1 .. many -> Fibers]
    BY <2>1, <2>2
  <2> QED BY <2>2, <2>3, FunctionsAreSeqs
<1>13. \A k \in 1 .. many :
         /\ new[k].message = bodies[k] /\ new[k].message > n /\ new[k].message <= next
         /\ new[k].at = "frame" /\ new[k].holds = FALSE /\ new[k].queue = 0 /\ new[k].offered = 0
  <2> SUFFICES ASSUME NEW k \in 1 .. many
               PROVE  /\ new[k].message = bodies[k] /\ new[k].message > n /\ new[k].message <= next
                      /\ new[k].at = "frame" /\ new[k].holds = FALSE
                      /\ new[k].queue = 0 /\ new[k].offered = 0
    OBVIOUS
  <2>1. bodies[k] > n /\ bodies[k] <= next
    BY <1>7, <1>9
  <2>2. new[k] = Fiber(bodies[k])
    BY <1>11
  <2> QED BY <2>1, <2>2, FiberNew, Zenon
<1>14. \A k \in DOMAIN new : FiberOK(s, new[k])
  BY <1>7, <1>9, <1>12, <1>13, SMTT(20) DEF FiberOK, Over
<1>15. InOrder(new)
  BY <1>7, <1>12, <1>13 DEF InOrder
<1>16. PICK now : now = hs \o new
  OBVIOUS
<1>17. /\ now \in Seq(Fibers) /\ \A k \in DOMAIN now : FiberOK(s, now[k])
       /\ InOrder(now) /\ WrittenOK(s, now, o) /\ Accounted(now, o)
       /\ \A i : AnsweredBy(hs, i) => AnsweredBy(now, i)
  <2>1. \A k \in DOMAIN new : new[k].message > n /\ new[k].queue = 0 /\ new[k].offered = 0
    BY <1>12, <1>13
  <2> QED BY <1>2, <1>9, <1>12, <1>14, <1>15, <1>16, <2>1, Started
<1>18. \A k \in DOMAIN now : now[k].message <= next /\ now[k].message # 0
  <2>1. \A k \in DOMAIN hs : hs[k].message <= next
    BY <1>2, <1>9, FiberNumbers
  <2>2. \A k \in DOMAIN now : (k \in DOMAIN hs /\ now[k] = hs[k]) \/ (k - Len(hs) \in DOMAIN new /\ now[k] = new[k - Len(hs)])
    BY <1>12, <1>16, ConcatProperties
  <2>3. \A k \in DOMAIN now : now[k].message # 0
    BY <1>17 DEF FiberOK
  <2> QED BY <1>12, <1>13, <2>1, <2>2, <2>3
<1>26. PICK o2 : o2 = o \o ErrorLines(step.errors)
  OBVIOUS
<1>19. /\ o2 \in Seq(Lines)
       /\ \A p \in DOMAIN o : p \in DOMAIN o2 /\ o2[p] = o[p]
       /\ \A p \in DOMAIN o2 :
            \/ p \in DOMAIN o
            \/ p - Len(o) \in 1 .. step.errors /\ o2[p] = ParseError /\ p \in Nat
  BY <1>4, <1>26, ErrorsMore, ZenonT(40)
<1>20. \A p \in DOMAIN o2 : o2[p].to # 0 => p \in DOMAIN o
  BY <1>19 DEF ParseError
<1>21. \A i, whats : i # 0 => Entries(o2, i, whats) = Entries(o, i, whats)
  BY <1>19, <1>20 DEF Entries
<1>22. WrittenOK(s, now, o2)
  BY <1>17, <1>19, <1>20 DEF WrittenOK
<1>23. Accounted(now, o2)
  BY <1>17, <1>18, <1>21 DEF Accounted
<1>24. \E about2 : ErrorsOf(s, now, o2, next, about2)
  <2> DEFINE E == Entries(o, 0, Answers)
             E2 == Entries(o2, 0, Answers)
             about2 == [p \in E2 |-> IF p \in DOMAIN o THEN about[p] ELSE headerless[p - Len(o)]]
  <2>1. \A p \in E2 :
          \/ p \in E /\ p \in DOMAIN o
          \/ p \notin DOMAIN o /\ p - Len(o) \in 1 .. step.errors /\ p \in Nat
    BY <1>19 DEF Entries
  <2>2. /\ headerless \in [1 .. step.errors -> n + 1 .. next]
        /\ \A k, l \in 1 .. step.errors : headerless[k] = headerless[l] => k = l
        /\ \A k \in 1 .. step.errors : s[headerless[k]] = "headerless"
    BY <1>8 DEF Headerless
  <2> HIDE DEF E, E2
  <2>3. \A p \in E2 :
          \/ p \in DOMAIN o /\ p \in E /\ about2[p] = about[p] /\ about2[p] \in 1 .. n
          \/ /\ p \notin DOMAIN o /\ p - Len(o) \in 1 .. step.errors /\ p \in Nat
             /\ about2[p] = headerless[p - Len(o)] /\ about2[p] \in n + 1 .. next
    BY <1>2, <2>1, <2>2 DEF E
  <2> HIDE DEF about2
  <2>4. \A p, q \in E2 : about2[p] = about2[q] => p = q
    <3> SUFFICES ASSUME NEW p \in E2, NEW q \in E2, about2[p] = about2[q] PROVE p = q
      OBVIOUS
    <3>1. CASE p \in DOMAIN o /\ q \in DOMAIN o
      BY <1>2, <2>3, <3>1 DEF E
    <3>2. CASE p \notin DOMAIN o /\ q \notin DOMAIN o
      <4>1. p - Len(o) = q - Len(o) /\ p \in Nat /\ q \in Nat
        BY <2>2, <2>3, <3>2
      <4>2. Len(o) \in Nat
        OBVIOUS
      <4> QED BY <4>1, <4>2
    <3>3. CASE ~(p \in DOMAIN o <=> q \in DOMAIN o)
      BY <1>9, <2>3, <3>3
    <3> QED BY <3>1, <3>2, <3>3
  <2>5. \A p \in E2 : about2[p] \in 1 .. next
    BY <1>9, <2>3
  <2>6. \A p \in E2 : \/ s[about2[p]] = "headerless"
                      \/ s[about2[p]] = "undecodable" /\ AnsweredBy(now, about2[p])
    <3> SUFFICES ASSUME NEW p \in E2
                 PROVE  \/ s[about2[p]] = "headerless"
                        \/ s[about2[p]] = "undecodable" /\ AnsweredBy(now, about2[p])
      OBVIOUS
    <3>1. CASE p \in DOMAIN o
      <4>1. p \in Entries(o, 0, Answers) /\ about2[p] = about[p]
        BY <2>3, <3>1 DEF E
      <4> QED BY <1>2, <1>17, <4>1, Zenon
    <3>2. CASE p \notin DOMAIN o
      <4>1. p - Len(o) \in 1 .. step.errors /\ about2[p] = headerless[p - Len(o)]
        BY <2>3, <3>2, Zenon
      <4>2. s[headerless[p - Len(o)]] = "headerless"
        BY <2>2, <4>1, Zenon
      <4> QED BY <4>1, <4>2, Zenon
    <3> QED BY <3>1, <3>2
  <2>7. about2 \in [E2 -> 1 .. next]
    BY <2>5 DEF about2
  <2>8. ErrorsOf(s, now, o2, next, about2)
    BY <2>4, <2>6, <2>7 DEF ErrorsOf, E2
  <2> QED BY <2>8
<1>25. ConnectionOK(s, now, o2, step.rest \o more)
  <2>1. PICK about2 : ErrorsOf(s, now, o2, next, about2)
    BY <1>24
  <2>2. ReadSoFar(s, now, o2, step.rest \o more, at, next, about2)
    BY <1>2, <1>7, <1>9, <1>18, <2>1, Zenon DEF ReadSoFar
  <2> QED BY <1>17, <1>22, <1>23, <2>2, Zenon DEF ConnectionOK
<1> QED BY <1>0, <1>4, <1>10, <1>12, <1>13, <1>16, <1>17, <1>19, <1>25, <1>26, Zenon DEF Handled

\* Where the tokens of a message are when others come behind it.
LEMMA WithinOffsets ==
  ASSUME NEW a \in Nat, NEW lo \in Nat, NEW hi \in Nat, NEW top \in Nat, NEW size \in Nat,
         NEW q \in 1 .. size, a <= lo, hi = lo + size, hi <= top
  PROVE  lo - a + q \in 1 .. top - a
OBVIOUS

\* The limits of the messages when one is added.
LEMMA LimitsMore ==
  ASSUME NEW s \in Seq(AllKinds), NEW at, Limits(s, at), NEW kind \in AllKinds,
         NEW N \in Nat, N = Len(s), NEW at2,
         at2 = [i \in 0 .. N + 1 |-> IF i = N + 1 THEN at[N] + Size(kind) ELSE at[i]]
  PROVE  Limits(Append(s, kind), at2)
<1>1. Size(kind) \in Nat
  BY DEF Size
<1>2. /\ at \in [0 .. N -> Nat] /\ \A i \in 1 .. N : at[i] = at[i - 1] + Size(s[i])
      /\ \A i, j \in 0 .. N : i <= j => at[i] <= at[j]
  BY DEF Limits
<1>3. /\ Len(Append(s, kind)) = N + 1 /\ Append(s, kind)[N + 1] = kind
      /\ \A i \in 1 .. N : Append(s, kind)[i] = s[i]
  OBVIOUS
<1>4. PICK top \in Nat : top = at[N]
  BY <1>2
<1>5. PICK size \in Nat : size = Size(kind)
  BY <1>1
<1>6. /\ at2 \in [0 .. N + 1 -> Nat] /\ at2[N + 1] = top + size
      /\ \A i \in 0 .. N : at2[i] = at[i]
  BY <1>2, <1>4, <1>5
<1>7. ASSUME NEW i \in 1 .. N + 1 PROVE at2[i] = at2[i - 1] + Size(Append(s, kind)[i])
  <2>1. CASE i = N + 1
    <3>1. i - 1 = N /\ N \in 0 .. N
      BY <2>1
    <3> QED BY <1>3, <1>4, <1>5, <1>6, <2>1, <3>1, Zenon
  <2>2. CASE i # N + 1
    <3>1. i \in 1 .. N /\ i \in 0 .. N /\ i - 1 \in 0 .. N
      BY <2>2
    <3> QED BY <1>2, <1>3, <1>6, <3>1, Zenon
  <2> QED BY <2>1, <2>2
<1>8. ASSUME NEW i \in 0 .. N + 1, NEW j \in 0 .. N + 1, i <= j PROVE at2[i] <= at2[j]
  <2>1. CASE j \in 0 .. N
    <3>1. i \in 0 .. N
      BY <1>8, <2>1
    <3> QED BY <1>2, <1>6, <1>8, <2>1, <3>1
  <2>2. CASE j = N + 1 /\ i = N + 1
    BY <1>6, <2>2
  <2>3. CASE j = N + 1 /\ i \in 0 .. N
    <3>1. at2[i] = at[i] /\ at[i] <= top /\ at[i] \in Nat
      <4>1. i <= N /\ N \in 0 .. N
        BY <2>3
      <4>2. at[i] \in Nat
        BY <1>2, <2>3
      <4> QED BY <1>2, <1>4, <1>6, <2>3, <4>1, <4>2, Zenon
    <3> QED BY <1>6, <2>3, <3>1
  <2> QED BY <2>1, <2>2, <2>3
<1> QED BY <1>3, <1>6, <1>7, <1>8, Zenon DEF Limits

\* The bytes of a message sent are behind those not read yet.
LEMMA UnreadMore ==
  ASSUME NEW s \in Seq(AllKinds), NEW at, Limits(s, at), NEW n \in 0 .. Len(s),
         NEW u, Unread(s, at, n, u), NEW kind \in AllKinds
  PROVE  \E at2 : /\ Limits(Append(s, kind), at2)
                  /\ Unread(Append(s, kind), at2, n, u \o Bytes(kind, Len(s) + 1))
<1>1. PICK N \in Nat : N = Len(s)
  OBVIOUS
<1> DEFINE at2 == [i \in 0 .. N + 1 |-> IF i = N + 1 THEN at[N] + Size(kind) ELSE at[i]]
<1>2. Limits(Append(s, kind), at2)
  BY <1>1, LimitsMore
<1>3. PICK s2 : s2 = Append(s, kind)
  OBVIOUS
<1>4. /\ s2 \in Seq(AllKinds) /\ Len(s2) = N + 1 /\ s2[N + 1] = kind
      /\ \A i \in 1 .. N : s2[i] = s[i]
  BY <1>1, <1>3
<1>5. PICK more, size : more = Bytes(kind, N + 1) /\ size = Size(kind) /\ size \in Nat
  <2>1. Size(kind) \in Nat
    BY DEF Size
  <2> QED BY <2>1, Zenon
<1>6. more \in Seq(Tokens) /\ Len(more) = size
  <2>1. N + 1 \in Nat
    OBVIOUS
  <2> QED BY <1>5, <2>1, MessageTokens, Zenon
<1>7. PICK top \in Nat, a \in Nat : top = at[N] /\ a = at[n] /\ a <= top
  <2>1. n \in 0 .. N /\ N \in 0 .. N /\ n <= N
    BY <1>1
  <2>2. at \in [0 .. N -> Nat] /\ \A i, j \in 0 .. N : i <= j => at[i] <= at[j]
    BY <1>1 DEF Limits
  <2>3. at[N] \in Nat /\ at[n] \in Nat /\ at[n] <= at[N]
    BY <2>1, <2>2
  <2> QED BY <2>3, Zenon
<1>8. /\ at2[N + 1] = top + size /\ at2[n] = a /\ at2[N] = top
      /\ \A i \in 0 .. N : at2[i] = at[i]
  <2>1. n \in 0 .. N /\ N \in 0 .. N
    BY <1>1
  <2>2. (\A i \in 0 .. N : at2[i] = at[i]) /\ at2[N + 1] = at[N] + Size(kind)
    OBVIOUS
  <2> QED BY <1>5, <1>7, <2>1, <2>2, Zenon
<1>9. u \in Seq(Tokens) /\ Len(u) = top - a
  BY <1>1, <1>7 DEF Unread
<1>10. PICK l \in Nat : l = top - a
  <2>1. top - a \in Nat
    BY <1>7
  <2> QED BY <2>1, Zenon
<1>11. PICK u2 : u2 = u \o more
  OBVIOUS
<1>12. /\ u2 \in Seq(Tokens) /\ Len(u2) = l + size
       /\ \A q \in 1 .. l + size : u2[q] = IF q <= l THEN u[q] ELSE more[q - l]
  BY <1>6, <1>9, <1>10, <1>11, Together, SMTT(20)
<1> HIDE DEF at2
<1>13. Len(u2) = at2[Len(s2)] - at2[n]
  <2>1. l + size = (top + size) - a
    BY <1>5, <1>7, <1>10, SMTT(20)
  <2> QED BY <1>4, <1>8, <1>12, <2>1, Zenon
<1>14. ASSUME NEW i \in n + 1 .. N + 1, NEW q \in 1 .. Size(s2[i])
       PROVE  u2[at2[i - 1] - at2[n] + q] = Bytes(s2[i], i)[q]
  <2>1. CASE i = N + 1
    <3>1. i - 1 = N /\ s2[i] = kind /\ q \in 1 .. size
      BY <1>4, <1>5, <2>1
    <3>2. l + q \in 1 .. l + size /\ ~(l + q <= l) /\ l + q - l = q
      BY <1>5, <3>1
    <3>3. u2[l + q] = more[q]
      <4>1. PICK p : p = l + q
        OBVIOUS
      <4>2. p \in 1 .. l + size /\ ~(p <= l) /\ p - l = q
        BY <1>5, <3>1, <4>1
      <4>3. u2[p] = more[p - l]
        BY <1>12, <4>2, Zenon
      <4> QED BY <4>1, <4>2, <4>3, Zenon
    <3> QED BY <1>5, <1>8, <1>10, <2>1, <3>1, <3>3, Zenon
  <2>2. CASE i # N + 1
    <3>1. i \in n + 1 .. N /\ i \in 1 .. N /\ i \in 0 .. N /\ i - 1 \in 0 .. N /\ n <= i - 1 /\ i <= N
          /\ n \in 0 .. N /\ N \in 0 .. N
      BY <1>1, <2>2
    <3>2. s2[i] = s[i] /\ at2[i - 1] = at[i - 1] /\ q \in 1 .. Size(s[i])
      BY <1>4, <1>8, <3>1
    <3>3. /\ at \in [0 .. N -> Nat] /\ at[i] = at[i - 1] + Size(s[i])
          /\ \A j, k \in 0 .. N : j <= k => at[j] <= at[k]
      BY <1>1, <3>1 DEF Limits
    <3>4. PICK lo \in Nat, hi \in Nat, part \in Nat :
            lo = at[i - 1] /\ hi = at[i] /\ part = Size(s[i]) /\ hi = lo + part /\ a <= lo /\ hi <= top
      <4>1. at[i - 1] \in Nat /\ at[i] \in Nat /\ Size(s[i]) \in Nat
        BY <3>1, <3>3 DEF Size
      <4>2. at[n] <= at[i - 1] /\ at[i] <= at[N]
        BY <3>1, <3>3, Zenon
      <4> QED BY <1>7, <3>3, <4>1, <4>2, Zenon
    <3>5. lo - a + q \in 1 .. top - a
      BY <3>2, <3>4, WithinOffsets
    <3>6. lo - a + q \in 1 .. l + size /\ lo - a + q <= l
      BY <1>5, <1>10, <3>5
    <3>7. u2[lo - a + q] = u[lo - a + q]
      BY <1>12, <3>6, Zenon
    <3>8. u[at[i - 1] - at[n] + q] = Bytes(s[i], i)[q]
      BY <1>1, <3>1, <3>2 DEF Unread
    <3> QED BY <1>7, <1>8, <3>2, <3>4, <3>7, <3>8, Zenon
  <2> QED BY <2>1, <2>2
<1>15. Unread(s2, at2, n, u2)
  BY <1>4, <1>12, <1>13, <1>14, Zenon DEF Unread
<1> QED BY <1>1, <1>2, <1>3, <1>5, <1>11, <1>15, Zenon

\* What holds of a connection still holds when the client sends another message.
LEMMA MessageSent ==
  ASSUME NEW s \in Seq(AllKinds), NEW hs \in Seq(Fibers), NEW o \in Seq(Lines), NEW u,
         ConnectionOK(s, hs, o, u), NEW kind \in AllKinds
  PROVE  ConnectionOK(Append(s, kind), hs, o, u \o Bytes(kind, Len(s) + 1))
<1>1. PICK s2, u2 : s2 = Append(s, kind) /\ u2 = u \o Bytes(kind, Len(s) + 1)
  OBVIOUS
<1>2. \A i \in 1 .. Len(s) : i \in 1 .. Len(s2) /\ s2[i] = s[i]
  BY <1>1
<1>3. \A k \in DOMAIN hs : FiberOK(s, hs[k]) /\ FiberOK(s2, hs[k])
  BY <1>2 DEF ConnectionOK, FiberOK
<1>4. WrittenOK(s2, hs, o)
  <2>1. \A i : IsRead(hs, i) => s2[i] = s[i]
    BY <1>2, <1>3 DEF IsRead, FiberOK
  <2> QED BY <2>1 DEF ConnectionOK, WrittenOK
<1>5. PICK at, n, about : ReadSoFar(s, hs, o, u, at, n, about)
  BY DEF ConnectionOK
<1>6. PICK at2 : Limits(s2, at2) /\ Unread(s2, at2, n, u2)
  BY <1>1, <1>5, UnreadMore DEF ReadSoFar
<1>7. n \in 0 .. Len(s) /\ n \in 0 .. Len(s2) /\ \A i \in 1 .. n : s2[i] = s[i]
  BY <1>1, <1>2, <1>5 DEF ReadSoFar
<1>8. ErrorsOf(s2, hs, o, n, about)
  BY <1>5, <1>7 DEF ReadSoFar, ErrorsOf
<1>9. ReadSoFar(s2, hs, o, u2, at2, n, about)
  BY <1>5, <1>6, <1>7, <1>8, Zenon DEF ReadSoFar
<1>10. ConnectionOK(s2, hs, o, u2)
  BY <1>3, <1>4, <1>9 DEF ConnectionOK
<1> QED BY <1>1, <1>10

-----------------------------------------------------------------------------
(* The flag.                                                               *)

Holds(f) == f.holds /\ f.at \notin {"done", "failed"}

\* The flag of a connection follows the handler that holds the run.
LEMMA FlagAfter ==
  ASSUME NEW hs \in Seq(Fibers), NEW b \in BOOLEAN, Flag(hs, b), NEW k \in DOMAIN hs, NEW f \in Fibers
  PROVE  /\ (Holds(f) <=> Holds(hs[k])) => Flag([hs EXCEPT ![k] = f], b)
         /\ ~b /\ Holds(f) => Flag([hs EXCEPT ![k] = f], TRUE)
         /\ Holds(hs[k]) /\ ~Holds(f) => Flag([hs EXCEPT ![k] = f], FALSE)
<1>1. PICK now : now = [hs EXCEPT ![k] = f]
  OBVIOUS
<1>2. /\ DOMAIN now = DOMAIN hs /\ now[k] = f /\ \A j \in DOMAIN hs \ {k} : now[j] = hs[j]
  BY <1>1, FiberMoved
<1>3. /\ \A j \in DOMAIN hs : j \in HoldersIn(hs) <=> Holds(hs[j])
      /\ \A j \in DOMAIN hs : j \in HoldersIn(now) <=> Holds(now[j])
      /\ HoldersIn(hs) \subseteq DOMAIN hs /\ HoldersIn(now) \subseteq DOMAIN hs
  BY <1>2, Zenon DEF HoldersIn, Holds
<1>4. \A i, j \in HoldersIn(hs) : i = j
  BY DEF Flag
<1>5. b <=> HoldersIn(hs) # {}
  BY DEF Flag
<1>6. ASSUME Holds(f) <=> Holds(hs[k]) PROVE Flag(now, b)
  <2>1. \A j \in DOMAIN hs : j \in HoldersIn(now) <=> j \in HoldersIn(hs)
    BY <1>2, <1>3, <1>6, Zenon
  <2>2. HoldersIn(now) = HoldersIn(hs)
    BY <1>3, <2>1
  <2> QED BY <1>4, <1>5, <2>2, Zenon DEF Flag
<1>7. ASSUME ~b, Holds(f) PROVE Flag(now, TRUE)
  <2>1. HoldersIn(hs) = {}
    BY <1>5, <1>7, Zenon
  <2>2. HoldersIn(now) = {k}
    BY <1>2, <1>3, <1>7, <2>1
  <2> QED BY <2>2 DEF Flag
<1>8. ASSUME Holds(hs[k]), ~Holds(f) PROVE Flag(now, FALSE)
  <2>1. \A j \in HoldersIn(hs) : j = k
    BY <1>3, <1>4, <1>8, Zenon
  <2>2. HoldersIn(now) = {}
    BY <1>2, <1>3, <1>8, <2>1
  <2> QED BY <2>2 DEF Flag
<1> QED BY <1>1, <1>6, <1>7, <1>8, Zenon

\* Fibers that do not hold the flag are added.
LEMMA FlagStarted ==
  ASSUME NEW hs \in Seq(Fibers), NEW b \in BOOLEAN, Flag(hs, b), NEW new \in Seq(Fibers),
         \A k \in DOMAIN new : new[k].holds = FALSE
  PROVE  Flag(hs \o new, b)
<1>1. PICK l \in Nat : l = Len(hs)
  OBVIOUS
<1>2. PICK now : now = hs \o new
  OBVIOUS
<1>3. /\ DOMAIN now = 1 .. l + Len(new) /\ DOMAIN hs = 1 .. l /\ DOMAIN new = 1 .. Len(new)
      /\ Len(new) \in Nat
      /\ \A k \in 1 .. l + Len(new) : now[k] = IF k <= l THEN hs[k] ELSE new[k - l]
  BY <1>1, <1>2, ConcatProperties
<1>4. \A k \in DOMAIN hs : k \in DOMAIN now /\ now[k] = hs[k]
  BY <1>3
<1>5. \A k \in DOMAIN now \ DOMAIN hs : now[k].holds = FALSE
  BY <1>3
<1>6. HoldersIn(now) = HoldersIn(hs)
  <2>1. ASSUME NEW k \in HoldersIn(now) PROVE k \in HoldersIn(hs)
    <3>1. k \in DOMAIN now /\ now[k].holds /\ now[k].at \notin {"done", "failed"}
      BY <2>1, Zenon DEF HoldersIn
    <3>2. k \in DOMAIN hs
      BY <1>5, <3>1, Zenon
    <3> QED BY <1>4, <3>1, <3>2, Zenon DEF HoldersIn
  <2>2. ASSUME NEW k \in HoldersIn(hs) PROVE k \in HoldersIn(now)
    BY <1>4, <2>2, Zenon DEF HoldersIn
  <2> QED BY <2>1, <2>2
<1>7. Flag(now, b)
  BY <1>6, Zenon DEF Flag
<1> QED BY <1>2, <1>7

-----------------------------------------------------------------------------
(* The steps.                                                              *)

\* The step gives a connection these fibers, this output and this flag.
Becomes(c, hs, o, b) ==
  /\ handlers' = [handlers EXCEPT ![c] = hs] /\ out' = [out EXCEPT ![c] = o]
  /\ busy' = [busy EXCEPT ![c] = b]
  /\ UNCHANGED <<input, buffer, serving, broken>>

\* A step of one connection that takes no bytes in.
LEMMA LocalStep ==
  ASSUME IInv, NEW c \in Connections, NEW hs \in Seq(Fibers), NEW o \in Seq(Lines), NEW b \in BOOLEAN,
         Becomes(c, hs, o, b), Flag(hs, b), ConnectionOK(sent[c], hs, o, buffer[c] \o wire[c])
  PROVE  IInv'
<1> USE DEF input, Becomes
<1>1. TypeOK /\ \A d \in Connections :
                  Flag(handlers[d], busy[d]) /\ ConnectionOK(sent[d], handlers[d], out[d], buffer[d] \o wire[d])
  BY DEF IInv
<1>2. /\ handlers \in [Connections -> Seq(Fibers)] /\ out \in [Connections -> Seq(Lines)]
      /\ busy \in [Connections -> BOOLEAN]
  BY <1>1 DEF TypeOK
<1>3. /\ handlers' \in [Connections -> Seq(Fibers)] /\ handlers'[c] = hs
      /\ \A d \in Connections \ {c} : handlers'[d] = handlers[d]
  BY <1>2
<1>4. /\ out' \in [Connections -> Seq(Lines)] /\ out'[c] = o
      /\ \A d \in Connections \ {c} : out'[d] = out[d]
  BY <1>2
<1>5. /\ busy' \in [Connections -> BOOLEAN] /\ busy'[c] = b
      /\ \A d \in Connections \ {c} : busy'[d] = busy[d]
  BY <1>2, Zenon
<1>6. TypeOK'
  BY <1>1, <1>3, <1>4, <1>5, Zenon DEF TypeOK
<1>7. ASSUME NEW d \in Connections
      PROVE  Flag(handlers'[d], busy'[d]) /\ ConnectionOK(sent'[d], handlers'[d], out'[d], buffer'[d] \o wire'[d])
  <2>1. CASE d = c
    BY <1>3, <1>4, <1>5, <2>1, Zenon
  <2>2. CASE d # c
    BY <1>1, <1>3, <1>4, <1>5, <2>2, Zenon
  <2> QED BY <2>1, <2>2
<1> QED BY <1>6, <1>7 DEF IInv

\* A step of one fiber that writes nothing.
LEMMA FiberStep ==
  ASSUME IInv, NEW c \in Connections, NEW k \in DOMAIN handlers[c], NEW f \in Fibers, NEW b \in BOOLEAN,
         Becomes(c, [handlers[c] EXCEPT ![k] = f], out[c], b),
         Moves(sent[c], handlers[c][k], f), Flag([handlers[c] EXCEPT ![k] = f], b)
  PROVE  IInv'
<1>1. /\ handlers[c] \in Seq(Fibers) /\ out[c] \in Seq(Lines)
      /\ ConnectionOK(sent[c], handlers[c], out[c], buffer[c] \o wire[c])
  BY DEF IInv, TypeOK
<1>2. PICK hs : hs = [handlers[c] EXCEPT ![k] = f]
  OBVIOUS
<1>3. hs \in Seq(Fibers)
  BY <1>1, <1>2, FiberMoved
<1>4. ConnectionOK(sent[c], hs, out[c], buffer[c] \o wire[c])
  BY <1>1, <1>2, FiberMoves
<1>5. Becomes(c, hs, out[c], b) /\ Flag(hs, b)
  BY <1>2, Zenon
<1> QED BY <1>1, <1>3, <1>4, <1>5, LocalStep

\* The fiber of a step, what it is, and that its message is one of the client's.
LEMMA FiberFacts ==
  ASSUME IInv, NEW c \in Connections, NEW k \in DOMAIN handlers[c]
  PROVE  /\ handlers[c] \in Seq(Fibers) /\ handlers[c][k] \in Fibers /\ sent[c] \in Seq(AllKinds)
         /\ FiberOK(sent[c], handlers[c][k]) /\ KindOf(c, k) = sent[c][handlers[c][k].message]
         /\ KindOf(c, k) \in AllKinds \ {"headerless"}
         /\ handlers \in [Connections -> Seq(Fibers)] /\ busy[c] \in BOOLEAN
         /\ Flag(handlers[c], busy[c])
<1>1. /\ handlers \in [Connections -> Seq(Fibers)] /\ sent[c] \in Seq(AllKinds) /\ busy[c] \in BOOLEAN
      /\ handlers[c] \in Seq(Fibers) /\ handlers[c][k] \in Fibers
  BY DEF IInv, TypeOK
<1>2. FiberOK(sent[c], handlers[c][k])
  BY DEF IInv, ConnectionOK
<1>3. KindOf(c, k) = sent[c][handlers[c][k].message] /\ KindOf(c, k) # "headerless" /\ KindOf(c, k) \in AllKinds
  BY <1>1, <1>2 DEF KindOf, FiberOK
<1> QED BY <1>1, <1>2, <1>3, Zenon DEF IInv

\* Setting a connection to what it is changes nothing.
LEMMA SameAgain ==
  ASSUME IInv, NEW c \in Connections
  PROVE  [out EXCEPT ![c] = out[c]] = out /\ [busy EXCEPT ![c] = busy[c]] = busy
<1>1. out \in [Connections -> Seq(Lines)] /\ busy \in [Connections -> BOOLEAN]
  BY DEF IInv, TypeOK
<1>2. [out EXCEPT ![c] = out[c]] = out
  BY <1>1
<1>3. [busy EXCEPT ![c] = busy[c]] = busy
  BY <1>1
<1> QED BY <1>2, <1>3

\* A step that moves one fiber and leaves the flag and who holds it.
LEMMA QuietStep ==
  ASSUME IInv, NEW c \in Connections, NEW k \in DOMAIN handlers[c], NEW f \in Fibers,
         handlers' = [handlers EXCEPT ![c] = [handlers[c] EXCEPT ![k] = f]],
         UNCHANGED <<input, buffer, serving, busy, broken, out>>,
         Moves(sent[c], handlers[c][k], f), Holds(f) <=> Holds(handlers[c][k])
  PROVE  IInv'
<1>1. Flag([handlers[c] EXCEPT ![k] = f], busy[c]) /\ busy[c] \in BOOLEAN
  <2>1. Flag(handlers[c], busy[c]) /\ busy[c] \in BOOLEAN /\ handlers[c] \in Seq(Fibers)
    BY FiberFacts, Zenon
  <2>2. (Holds(f) <=> Holds(handlers[c][k])) => Flag([handlers[c] EXCEPT ![k] = f], busy[c])
    BY <2>1, FlagAfter, Zenon
  <2> QED BY <2>1, <2>2, Zenon
<1>2. Becomes(c, [handlers[c] EXCEPT ![k] = f], out[c], busy[c])
  BY SameAgain, Zenon DEF Becomes
<1> QED BY <1>1, <1>2, FiberStep

\* A handler is decided on: it answers at once, or goes for the run.
LEMMA HandleFrameOK ==
  ASSUME IInv, NEW c \in Connections, NEW k \in DOMAIN handlers[c], HandleFrame(c, k)
  PROVE  IInv'
<1>1. PICK g : g = handlers[c][k]
  OBVIOUS
<1>2. PICK kind : kind = KindOf(c, k)
  OBVIOUS
<1>3. /\ g \in Fibers /\ FiberOK(sent[c], g) /\ kind = sent[c][g.message]
      /\ kind \in AllKinds \ {"headerless"} /\ g.at = "frame"
      /\ handlers \in [Connections -> Seq(Fibers)]
  BY <1>1, <1>2, FiberFacts DEF HandleFrame, At
<1>4. g.holds = FALSE /\ g.queue = 0 /\ g.offered = 0
  BY <1>3 DEF FiberOK
<1>5. UNCHANGED <<input, buffer, serving, busy, broken, out>>
  BY DEF HandleFrame
<1>6. CASE kind = "undecodable"
  <2>1. PICK f : f = [g EXCEPT !.at = "answering", !.answer = "parseError"]
    OBVIOUS
  <2>2. handlers' = [handlers EXCEPT ![c] = [handlers[c] EXCEPT ![k] = f]]
    BY <1>1, <1>2, <1>3, <1>6, <2>1 DEF HandleFrame
  <2>3. /\ f \in Fibers /\ f.message = g.message /\ f.at = "answering" /\ f.answer = "parseError"
        /\ f.holds = FALSE /\ f.queue = 0 /\ f.offered = 0 /\ f.consumer = g.consumer
    BY <1>3, <1>4, <2>1 DEF Fibers, Places, Answers
  <2>4. Moves(sent[c], g, f)
    BY <1>3, <1>4, <1>6, <2>3 DEF Moves, FiberOK, Over
  <2>5. Holds(f) <=> Holds(g)
    BY <1>4, <2>3 DEF Holds
  <2> QED BY <1>1, <1>5, <2>2, <2>3, <2>4, <2>5, QuietStep
<1>7. CASE kind = "notification"
  <2>1. PICK f : f = [g EXCEPT !.at = "done"]
    OBVIOUS
  <2>2. handlers' = [handlers EXCEPT ![c] = [handlers[c] EXCEPT ![k] = f]]
    BY <1>1, <1>2, <1>3, <1>7, <2>1 DEF HandleFrame
  <2>3. /\ f \in Fibers /\ f.message = g.message /\ f.at = "done"
        /\ f.holds = FALSE /\ f.queue = 0 /\ f.offered = 0 /\ f.consumer = g.consumer
    BY <1>3, <1>4, <2>1 DEF Fibers, Places
  <2>4. Moves(sent[c], g, f)
    BY <1>3, <1>4, <1>7, <2>3 DEF Moves, FiberOK, Over
  <2>5. Holds(f) <=> Holds(g)
    BY <1>4, <2>3 DEF Holds
  <2> QED BY <1>1, <1>5, <2>2, <2>3, <2>4, <2>5, QuietStep
<1>8. CASE kind \notin {"undecodable", "notification"}
  <2>1. PICK d : d = Decision(kind, busy[c])
    OBVIOUS
  <2>2. kind \in Requests /\ d \in {"busy", kind} /\ d \in Requests \cup {"busy"}
    BY <1>3, <1>8, <2>1 DEF Decision, Requests
  <2>3. PICK f : f = [g EXCEPT !.at = "decided", !.decision = d]
    OBVIOUS
  <2>4. handlers' = [handlers EXCEPT ![c] = [handlers[c] EXCEPT ![k] = f]]
    BY <1>1, <1>2, <1>3, <1>8, <2>1, <2>3 DEF HandleFrame
  <2>5. /\ f \in Fibers /\ f.message = g.message /\ f.at = "decided" /\ f.decision = d
        /\ f.holds = FALSE /\ f.queue = 0 /\ f.offered = 0 /\ f.consumer = g.consumer
    BY <1>3, <1>4, <2>2, <2>3 DEF Fibers, Places
  <2>6. Moves(sent[c], g, f)
    BY <1>3, <1>4, <2>2, <2>5 DEF Moves, FiberOK, Over
  <2>7. Holds(f) <=> Holds(g)
    BY <1>4, <2>5 DEF Holds
  <2> QED BY <1>1, <1>5, <2>4, <2>5, <2>6, <2>7, QuietStep
<1> QED BY <1>6, <1>7, <1>8

\* The answer a decision without an engine run gets is one of its kind.
LEMMA AnswerFits ==
  ASSUME NEW kind \in Requests, NEW decision \in {"busy", kind}, decision \notin RunsEngine
  PROVE  AnswerTo(decision) \in AnswersOf(kind) /\ AnswerTo(decision) \in Answers
BY DEF Requests, AllKinds, RunsEngine, AnswerTo, AnswersOf, Answers

\* A step that moves one fiber and gives the flag away or takes it back.
LEMMA FlagStep ==
  ASSUME IInv, NEW c \in Connections, NEW k \in DOMAIN handlers[c], NEW f \in Fibers, NEW b \in BOOLEAN,
         handlers' = [handlers EXCEPT ![c] = [handlers[c] EXCEPT ![k] = f]],
         busy' = [busy EXCEPT ![c] = b], UNCHANGED <<input, buffer, serving, broken, out>>,
         Moves(sent[c], handlers[c][k], f),
         \/ b = TRUE /\ ~busy[c] /\ Holds(f)
         \/ b = FALSE /\ Holds(handlers[c][k]) /\ ~Holds(f)
  PROVE  IInv'
<1>1. Flag([handlers[c] EXCEPT ![k] = f], b)
  <2>1. Flag(handlers[c], busy[c]) /\ busy[c] \in BOOLEAN /\ handlers[c] \in Seq(Fibers)
    BY FiberFacts, Zenon
  <2>2. /\ ~busy[c] /\ Holds(f) => Flag([handlers[c] EXCEPT ![k] = f], TRUE)
        /\ Holds(handlers[c][k]) /\ ~Holds(f) => Flag([handlers[c] EXCEPT ![k] = f], FALSE)
    BY <2>1, FlagAfter, Zenon
  <2> QED BY <2>2, Zenon
<1>2. Becomes(c, [handlers[c] EXCEPT ![k] = f], out[c], b)
  BY SameAgain, Zenon DEF Becomes
<1> QED BY <1>1, <1>2, FiberStep

\* The run is claimed by one handler, and refused to the others.
LEMMA ClaimOK ==
  ASSUME IInv, NEW c \in Connections, NEW k \in DOMAIN handlers[c], Claim(c, k)
  PROVE  IInv'
<1>1. PICK g : g = handlers[c][k]
  OBVIOUS
<1>2. PICK kind : kind = sent[c][g.message]
  OBVIOUS
<1>3. PICK d : d = g.decision
  OBVIOUS
<1>4. /\ g \in Fibers /\ FiberOK(sent[c], g) /\ g.at = "decided"
      /\ handlers \in [Connections -> Seq(Fibers)] /\ busy[c] \in BOOLEAN
  BY <1>1, FiberFacts DEF Claim, At
<1>5. g.holds = FALSE /\ g.queue = 0 /\ g.offered = 0 /\ kind \in Requests /\ d \in {"busy", kind}
  BY <1>2, <1>3, <1>4 DEF FiberOK
<1>6. UNCHANGED <<input, buffer, serving, broken, out>>
  BY DEF Claim
<1>7. /\ handlers' = [handlers EXCEPT ![c] = [handlers[c] EXCEPT ![k] =
             IF d = "mutationTest" /\ busy[c] THEN [g EXCEPT !.at = "answering", !.answer = "busy"]
             ELSE IF d \in RunsEngine
                  THEN [g EXCEPT !.at = "running", !.holds = (d = "mutationTest")]
                  ELSE [g EXCEPT !.at = "answering", !.answer = AnswerTo(d)]]]
      /\ busy' = [busy EXCEPT ![c] = busy[c] \/ d = "mutationTest"]
  BY <1>1, <1>3, <1>4 DEF Claim
<1>8. "busy" \notin RunsEngine /\ "undecodable" \notin Requests
  BY DEF RunsEngine, Requests
<1>9. ASSUME NEW answer \in Answers, answer \in AnswersOf(kind), NEW f,
             f = [g EXCEPT !.at = "answering", !.answer = answer],
             handlers' = [handlers EXCEPT ![c] = [handlers[c] EXCEPT ![k] = f]], UNCHANGED busy
      PROVE  IInv'
  <2>1. /\ f \in Fibers /\ f.message = g.message /\ f.at = "answering" /\ f.answer = answer
        /\ f.holds = FALSE /\ f.queue = 0 /\ f.offered = 0 /\ f.consumer = g.consumer
    BY <1>4, <1>5, <1>9 DEF Fibers, Places
  <2>2. Moves(sent[c], g, f)
    BY <1>2, <1>4, <1>5, <1>8, <1>9, <2>1 DEF Moves, FiberOK, Over
  <2>3. Holds(f) <=> Holds(g)
    BY <1>5, <2>1 DEF Holds
  <2> QED BY <1>1, <1>6, <1>9, <2>1, <2>2, <2>3, QuietStep
<1>10. CASE d = "mutationTest" /\ busy[c]
  <2>1. PICK f : f = [g EXCEPT !.at = "answering", !.answer = "busy"]
    OBVIOUS
  <2>2. "busy" \in Answers /\ "busy" \in AnswersOf(kind)
    BY <1>5 DEF Answers, AnswersOf, Requests, AllKinds, RunsEngine
  <2>3. handlers' = [handlers EXCEPT ![c] = [handlers[c] EXCEPT ![k] = f]]
    BY <1>7, <1>10, <2>1, Zenon
  <2>4. UNCHANGED busy
    <3>1. (busy[c] \/ d = "mutationTest") = busy[c]
      BY <1>4, <1>10
    <3> QED BY <1>7, <3>1, SameAgain, Zenon
  <2> QED BY <1>9, <2>1, <2>2, <2>3, <2>4
<1>11. CASE d \notin RunsEngine
  <2>1. PICK f : f = [g EXCEPT !.at = "answering", !.answer = AnswerTo(d)]
    OBVIOUS
  <2>2. AnswerTo(d) \in Answers /\ AnswerTo(d) \in AnswersOf(kind)
    BY <1>5, <1>11, AnswerFits
  <2>3. d # "mutationTest"
    BY <1>11 DEF RunsEngine
  <2>4. handlers' = [handlers EXCEPT ![c] = [handlers[c] EXCEPT ![k] = f]]
    BY <1>7, <1>11, <2>1, <2>3, Zenon
  <2>5. UNCHANGED busy
    <3>1. (busy[c] \/ d = "mutationTest") = busy[c]
      BY <1>4, <2>3
    <3> QED BY <1>7, <3>1, SameAgain, Zenon
  <2> QED BY <1>9, <2>1, <2>2, <2>4, <2>5
<1>12. CASE d \in RunsEngine /\ ~(d = "mutationTest" /\ busy[c])
  <2>1. PICK f : f = [g EXCEPT !.at = "running", !.holds = (d = "mutationTest")]
    OBVIOUS
  <2>2. d = kind
    BY <1>5, <1>8, <1>12
  <2>3. handlers' = [handlers EXCEPT ![c] = [handlers[c] EXCEPT ![k] = f]]
    BY <1>7, <1>12, <2>1, Zenon
  <2>4. /\ f \in Fibers /\ f.message = g.message /\ f.at = "running" /\ f.decision = d
        /\ f.queue = 0 /\ f.offered = 0 /\ f.consumer = g.consumer
    BY <1>3, <1>4, <1>5, <2>1 DEF Fibers, Places
  <2>5. f.holds = (d = "mutationTest")
    BY <1>4, <2>1 DEF Fibers
  <2>6. Moves(sent[c], g, f)
    BY <1>2, <1>4, <1>5, <1>12, <2>2, <2>4 DEF Moves, FiberOK, Over
  <2>7. CASE d = "mutationTest"
    <3>1. Holds(f) /\ ~busy[c]
      BY <1>12, <2>4, <2>5, <2>7 DEF Holds
    <3>2. (busy[c] \/ d = "mutationTest") = TRUE
      BY <2>7
    <3>3. busy' = [busy EXCEPT ![c] = TRUE]
      BY <1>7, <3>2, Zenon
    <3> QED BY <1>1, <1>6, <2>3, <2>4, <2>6, <3>1, <3>3, FlagStep
  <2>8. CASE d # "mutationTest"
    <3>1. Holds(f) <=> Holds(g)
      BY <1>5, <2>5, <2>8 DEF Holds
    <3>2. (busy[c] \/ d = "mutationTest") = busy[c]
      BY <1>4, <2>8
    <3>3. UNCHANGED busy
      BY <1>7, <3>2, SameAgain, Zenon
    <3> QED BY <1>1, <1>6, <2>3, <2>4, <2>6, <3>1, <3>3, QuietStep
  <2> QED BY <2>7, <2>8
<1> QED BY <1>10, <1>11, <1>12

\* The claim is given up behind the answer.
LEMMA ReleaseOK ==
  ASSUME IInv, NEW c \in Connections, NEW k \in DOMAIN handlers[c], Release(c, k)
  PROVE  IInv'
<1>1. PICK g : g = handlers[c][k]
  OBVIOUS
<1>2. PICK place : place = IF g.at = "failing" THEN "failed" ELSE "done"
  OBVIOUS
<1>3. PICK f : f = [g EXCEPT !.at = place]
  OBVIOUS
<1>4. /\ g \in Fibers /\ FiberOK(sent[c], g) /\ g.at \in {"releasing", "failing"}
      /\ handlers \in [Connections -> Seq(Fibers)]
  BY <1>1, FiberFacts DEF Release, At
<1>5. handlers' = [handlers EXCEPT ![c] = [handlers[c] EXCEPT ![k] = f]]
  BY <1>1, <1>2, <1>3, <1>4 DEF Release
<1>6. /\ f \in Fibers /\ f.message = g.message /\ f.at = place /\ place \in {"failed", "done"}
      /\ f.queue = g.queue /\ f.offered = g.offered /\ f.consumer = g.consumer
  BY <1>2, <1>3, <1>4 DEF Fibers, Places
<1>7. Moves(sent[c], g, f)
  BY <1>2, <1>4, <1>6 DEF Moves, FiberOK, Over
<1>8. ~Holds(f)
  BY <1>6 DEF Holds
<1>9. UNCHANGED <<input, buffer, serving, broken, out>>
  BY DEF Release
<1>10. CASE g.holds
  <2>1. Holds(g)
    BY <1>4, <1>10 DEF Holds
  <2>2. busy' = [busy EXCEPT ![c] = FALSE]
    BY <1>1, <1>10 DEF Release
  <2> QED BY <1>1, <1>5, <1>6, <1>7, <1>8, <1>9, <2>1, <2>2, FlagStep
<1>11. CASE ~g.holds
  <2>1. ~Holds(g)
    BY <1>11 DEF Holds
  <2>2. UNCHANGED busy
    BY <1>1, <1>11 DEF Release
  <2> QED BY <1>1, <1>5, <1>6, <1>7, <1>8, <1>9, <2>1, <2>2, QuietStep
<1> QED BY <1>10, <1>11

\* The engine offers progress to the handler that holds the run.
LEMMA EngineOffersOK ==
  ASSUME IInv, NEW c \in Connections, NEW k \in DOMAIN handlers[c], EngineOffers(c, k)
  PROVE  IInv'
<1>1. PICK g : g = handlers[c][k]
  OBVIOUS
<1>2. PICK f : f = [g EXCEPT !.queue = @ + 1, !.offered = @ + 1]
  OBVIOUS
<1>3. /\ g \in Fibers /\ FiberOK(sent[c], g) /\ g.at = "running"
      /\ g.offered < MaxEvents /\ g.queue < Bound
      /\ handlers \in [Connections -> Seq(Fibers)]
  BY <1>1, FiberFacts DEF EngineOffers, At
<1>4. handlers' = [handlers EXCEPT ![c] = [handlers[c] EXCEPT ![k] = f]]
  BY <1>1, <1>2, <1>3 DEF EngineOffers
<1>5. PICK queue, offered : queue = g.queue + 1 /\ offered = g.offered + 1
  OBVIOUS
<1>6. /\ queue \in 0 .. Bound /\ offered \in 0 .. MaxEvents
      /\ offered + g.queue = g.offered + queue
  <2>1. \A q, r \in Nat : /\ r < q => r + 1 \in 0 .. q
                          /\ (r + 1) + q = r + (q + 1)
    OBVIOUS
  <2>2. g.queue \in Nat /\ g.offered \in Nat
    BY <1>3, FiberNumbers
  <2>3. Bound \in Nat /\ MaxEvents \in Nat
    BY ServerAssumption
  <2> QED BY <1>3, <1>5, <2>1, <2>2, <2>3, Zenon
<1>7. f = [g EXCEPT !.queue = queue, !.offered = offered]
  BY <1>2, <1>5, Zenon
<1>8. /\ f \in Fibers /\ f.message = g.message /\ f.at = "running" /\ f.decision = g.decision
      /\ f.holds = g.holds /\ f.queue = queue /\ f.offered = offered /\ f.consumer = g.consumer
  BY <1>3, <1>6, <1>7 DEF Fibers
<1>9. Moves(sent[c], g, f)
  BY <1>3, <1>6, <1>8 DEF Moves, FiberOK, Over
<1>10. Holds(f) <=> Holds(g)
  BY <1>3, <1>8, Zenon DEF Holds
<1>11. UNCHANGED <<input, buffer, serving, busy, broken, out>>
  BY DEF EngineOffers
<1> QED BY <1>1, <1>4, <1>8, <1>9, <1>10, <1>11, QuietStep

\* The engine ends, with what it has offered still to be written.
LEMMA EngineEndsOK ==
  ASSUME IInv, NEW c \in Connections, NEW k \in DOMAIN handlers[c], EngineEnds(c, k)
  PROVE  IInv'
<1>1. PICK g : g = handlers[c][k]
  OBVIOUS
<1>2. PICK answer \in {"result", "internalError"} :
        handlers' = [handlers EXCEPT ![c][k].at = "draining", ![c][k].answer = answer]
  BY DEF EngineEnds
<1>3. PICK f : f = [g EXCEPT !.at = "draining", !.answer = answer]
  OBVIOUS
<1>4. /\ g \in Fibers /\ FiberOK(sent[c], g) /\ g.at = "running"
      /\ handlers \in [Connections -> Seq(Fibers)]
  BY <1>1, FiberFacts DEF EngineEnds, At
<1>5. handlers' = [handlers EXCEPT ![c] = [handlers[c] EXCEPT ![k] = f]]
  BY <1>1, <1>2, <1>3, <1>4
<1>6. /\ f \in Fibers /\ f.message = g.message /\ f.at = "draining" /\ f.answer = answer
      /\ f.holds = g.holds /\ f.queue = g.queue /\ f.offered = g.offered /\ f.consumer = g.consumer
  BY <1>3, <1>4 DEF Fibers, Places, Answers
<1>7. Moves(sent[c], g, f)
  BY <1>4, <1>6 DEF Moves, FiberOK, Over
<1>8. Holds(f) <=> Holds(g)
  BY <1>4, <1>6, Zenon DEF Holds
<1>9. UNCHANGED <<input, buffer, serving, busy, broken, out>>
  BY DEF EngineEnds
<1> QED BY <1>1, <1>5, <1>6, <1>7, <1>8, <1>9, QuietStep

\* Nothing is left to be written.
LEMMA DrainedOK ==
  ASSUME IInv, NEW c \in Connections, NEW k \in DOMAIN handlers[c], Drained(c, k)
  PROVE  IInv'
<1>1. PICK g : g = handlers[c][k]
  OBVIOUS
<1>2. PICK kind : kind = sent[c][g.message]
  OBVIOUS
<1>3. PICK f : f = [g EXCEPT !.at = "answering"]
  OBVIOUS
<1>4. /\ g \in Fibers /\ FiberOK(sent[c], g) /\ g.at = "draining"
      /\ g.queue = 0 \/ g.consumer = "dead"
      /\ handlers \in [Connections -> Seq(Fibers)]
  BY <1>1, FiberFacts DEF Drained, At
<1>5. handlers' = [handlers EXCEPT ![c] = [handlers[c] EXCEPT ![k] = f]]
  BY <1>1, <1>3, <1>4 DEF Drained
<1>6. /\ f \in Fibers /\ f.message = g.message /\ f.at = "answering" /\ f.answer = g.answer
      /\ f.holds = g.holds /\ f.queue = g.queue /\ f.offered = g.offered /\ f.consumer = g.consumer
  BY <1>3, <1>4 DEF Fibers, Places
<1>7. kind \in RunsEngine /\ g.answer \in {"result", "internalError"}
  BY <1>2, <1>4 DEF FiberOK
<1>8. kind # "undecodable" /\ g.answer \in AnswersOf(kind)
  BY <1>7 DEF RunsEngine, AnswersOf
<1>9. Moves(sent[c], g, f)
  BY <1>2, <1>4, <1>6, <1>8 DEF Moves, FiberOK, Over
<1>10. Holds(f) <=> Holds(g)
  BY <1>4, <1>6, Zenon DEF Holds
<1>11. UNCHANGED <<input, buffer, serving, busy, broken, out>>
  BY DEF Drained
<1> QED BY <1>1, <1>5, <1>6, <1>9, <1>10, <1>11, QuietStep

\* A notification is written.
LEMMA NotifyOK ==
  ASSUME IInv, NEW c \in Connections, NEW k \in DOMAIN handlers[c], Notify(c, k)
  PROVE  IInv'
<1>1. PICK g : g = handlers[c][k]
  OBVIOUS
<1>2. PICK hs, o, u : hs = handlers[c] /\ o = out[c] /\ u = buffer[c] \o wire[c]
  OBVIOUS
<1>3. /\ g \in Fibers /\ FiberOK(sent[c], g) /\ g.queue > 0 /\ g.consumer = "alive"
      /\ handlers \in [Connections -> Seq(Fibers)] /\ hs \in Seq(Fibers) /\ g = hs[k] /\ k \in DOMAIN hs
      /\ sent[c] \in Seq(AllKinds) /\ Flag(hs, busy[c]) /\ busy[c] \in BOOLEAN
  BY <1>1, <1>2, FiberFacts DEF Notify
<1>4. out \in [Connections -> Seq(Lines)] /\ o \in Seq(Lines) /\ ConnectionOK(sent[c], hs, o, u)
  BY <1>2 DEF IInv, TypeOK
<1>5. PICK less : less = g.queue - 1
  OBVIOUS
<1>6. less \in 0 .. Bound
  <2>1. g.queue \in 0 .. Bound
    BY <1>3 DEF Fibers
  <2>2. \A q \in 0 .. Bound : q > 0 => q - 1 \in 0 .. Bound
    BY ServerAssumption
  <2> QED BY <1>3, <1>5, <2>1, <2>2
<1>7. g.at \in Places /\ g.at \notin Over
  <2>1. g.queue # 0
    BY <1>3
  <2> QED BY <1>3, <2>1 DEF FiberOK, Fibers
<1>8. UNCHANGED <<input, buffer, serving, busy, broken>>
  BY DEF Notify
<1>9. CASE broken[c]
  <2>1. PICK f : f = [g EXCEPT !.queue = less, !.consumer = "dead"]
    OBVIOUS
  <2>2. UNCHANGED out /\ handlers' = [handlers EXCEPT ![c] = [handlers[c] EXCEPT ![k] = f]]
    BY <1>1, <1>3, <1>5, <1>9, <2>1, ZenonT(60) DEF Notify
  <2>3. /\ f \in Fibers /\ f.message = g.message /\ f.at = g.at /\ f.answer = g.answer
        /\ f.holds = g.holds /\ f.queue = less /\ f.offered = g.offered /\ f.consumer = "dead"
        /\ f.decision = g.decision
    BY <1>3, <1>6, <2>1 DEF Fibers
  <2>4. g.at \notin {"frame", "decided"}
    BY <1>3 DEF FiberOK
  <2>5. Moves(sent[c], g, f)
    BY <1>3, <1>7, <2>3, <2>4 DEF Moves, FiberOK, Over
  <2>6. Holds(f) <=> Holds(g)
    BY <2>3, Zenon DEF Holds
  <2> QED BY <1>1, <1>8, <2>2, <2>3, <2>5, <2>6, QuietStep
<1>10. CASE ~broken[c]
  <2>1. PICK now, line : /\ now = [hs EXCEPT ![k].queue = @ - 1]
                         /\ line = [to |-> hs[k].message, what |-> "progress"]
    OBVIOUS
  <2>2. PICK f : f = [g EXCEPT !.queue = less]
    OBVIOUS
  <2>3. now = [hs EXCEPT ![k] = f]
    BY <1>3, <1>5, <2>1, <2>2, Zenon
  <2>4. f \in Fibers /\ f.at = g.at /\ f.holds = g.holds
    BY <1>3, <1>6, <2>2 DEF Fibers
  <2>5. now \in Seq(Fibers) /\ Append(o, line) \in Seq(Lines) /\ ConnectionOK(sent[c], now, Append(o, line), u)
    BY <1>3, <1>4, <2>1, ProgressWritten, Zenon
  <2>6. Flag(now, busy[c])
    <3>1. Holds(f) <=> Holds(hs[k])
      BY <1>3, <2>4, Zenon DEF Holds
    <3>2. (Holds(f) <=> Holds(hs[k])) => Flag([hs EXCEPT ![k] = f], busy[c])
      BY <1>3, <2>4, FlagAfter, Zenon
    <3> QED BY <2>3, <3>1, <3>2, Zenon
  <2>7. handlers' = [handlers EXCEPT ![c] = now]
    BY <1>2, <1>3, <1>10, <2>1 DEF Notify
  <2>8. out' = [out EXCEPT ![c] = Append(o, line)]
    BY <1>2, <1>4, <1>10, <2>1 DEF Notify
  <2>9. Becomes(c, now, Append(o, line), busy[c])
    BY <1>8, <2>7, <2>8, SameAgain, Zenon DEF Becomes
  <2>10. ConnectionOK(sent[c], now, Append(o, line), buffer[c] \o wire[c])
    BY <1>2, <2>5, Zenon
  <2> QED BY <1>3, <2>5, <2>6, <2>9, <2>10, LocalStep
<1> QED BY <1>9, <1>10

\* The answer is written.
LEMMA AnswerOK ==
  ASSUME IInv, NEW c \in Connections, NEW k \in DOMAIN handlers[c], Answer(c, k)
  PROVE  IInv'
<1>1. PICK g : g = handlers[c][k]
  OBVIOUS
<1>2. PICK hs, o, u : hs = handlers[c] /\ o = out[c] /\ u = buffer[c] \o wire[c]
  OBVIOUS
<1>3. /\ g \in Fibers /\ FiberOK(sent[c], g) /\ g.at = "answering" /\ KindOf(c, k) = sent[c][g.message]
      /\ handlers \in [Connections -> Seq(Fibers)] /\ hs \in Seq(Fibers) /\ g = hs[k] /\ k \in DOMAIN hs
      /\ sent[c] \in Seq(AllKinds) /\ Flag(hs, busy[c]) /\ busy[c] \in BOOLEAN
  BY <1>1, <1>2, FiberFacts DEF Answer, At
<1>4. out \in [Connections -> Seq(Lines)] /\ o \in Seq(Lines) /\ ConnectionOK(sent[c], hs, o, u)
  BY <1>2 DEF IInv, TypeOK
<1>5. UNCHANGED <<input, buffer, serving, busy, broken>>
  BY DEF Answer
<1>6. CASE broken[c]
  <2>1. PICK f : f = [g EXCEPT !.at = "failing"]
    OBVIOUS
  <2>2. UNCHANGED out /\ handlers' = [handlers EXCEPT ![c] = [handlers[c] EXCEPT ![k] = f]]
    BY <1>1, <1>3, <1>6, <2>1 DEF Answer
  <2>3. /\ f \in Fibers /\ f.message = g.message /\ f.at = "failing"
        /\ f.holds = g.holds /\ f.queue = g.queue /\ f.offered = g.offered /\ f.consumer = g.consumer
    BY <1>3, <2>1 DEF Fibers, Places
  <2>4. Moves(sent[c], g, f)
    BY <1>3, <2>3 DEF Moves, FiberOK, Over
  <2>5. Holds(f) <=> Holds(g)
    BY <1>3, <2>3, Zenon DEF Holds
  <2> QED BY <1>1, <1>5, <2>2, <2>3, <2>4, <2>5, QuietStep
<1>7. CASE ~broken[c]
  <2>1. PICK now, line : now = [hs EXCEPT ![k].at = "releasing"] /\ line = AnswerLine(sent[c], hs[k])
    OBVIOUS
  <2>2. PICK f : f = [g EXCEPT !.at = "releasing"]
    OBVIOUS
  <2>3. now = [hs EXCEPT ![k] = f]
    BY <1>3, <2>1, <2>2, Zenon
  <2>4. f \in Fibers /\ f.at = "releasing" /\ f.holds = g.holds
    BY <1>3, <2>2 DEF Fibers, Places
  <2>5. now \in Seq(Fibers) /\ Append(o, line) \in Seq(Lines) /\ ConnectionOK(sent[c], now, Append(o, line), u)
    BY <1>3, <1>4, <2>1, AnswerWritten, Zenon
  <2>6. Flag(now, busy[c])
    <3>1. Holds(f) <=> Holds(hs[k])
      BY <1>3, <2>4, Zenon DEF Holds
    <3>2. (Holds(f) <=> Holds(hs[k])) => Flag([hs EXCEPT ![k] = f], busy[c])
      BY <1>3, <2>4, FlagAfter, Zenon
    <3> QED BY <2>3, <3>1, <3>2, Zenon
  <2>7. handlers' = [handlers EXCEPT ![c] = now]
    BY <1>2, <1>3, <1>7, <2>1 DEF Answer
  <2>8. line = [to |-> IdOf(c, k), what |-> handlers[c][k].answer]
    BY <1>1, <1>3, <2>1, Zenon DEF AnswerLine, IdOf
  <2>9. out' = [out EXCEPT ![c] = Append(o, line)]
    BY <1>2, <1>4, <1>7, <2>8 DEF Answer
  <2>10. Becomes(c, now, Append(o, line), busy[c])
    BY <1>5, <2>7, <2>9, SameAgain, Zenon DEF Becomes
  <2>11. ConnectionOK(sent[c], now, Append(o, line), buffer[c] \o wire[c])
    BY <1>2, <2>5, Zenon
  <2> QED BY <1>3, <2>5, <2>6, <2>10, <2>11, LocalStep
<1> QED BY <1>6, <1>7

\* The client sends a whole frame.
LEMMA SendOK ==
  ASSUME IInv, NEW c \in Connections, Send(c)
  PROVE  IInv'
<1>1. PICK kind \in AllKinds :
        /\ sent' = [sent EXCEPT ![c] = Append(@, kind)]
        /\ wire' = [wire EXCEPT ![c] = @ \o Bytes(kind, Len(sent[c]) + 1)]
  BY DEF Send
<1>2. UNCHANGED <<ended, buffer, serving, busy, handlers, broken, out>>
  BY DEF Send
<1>3. TypeOK /\ \A d \in Connections :
                  Flag(handlers[d], busy[d]) /\ ConnectionOK(sent[d], handlers[d], out[d], buffer[d] \o wire[d])
  BY DEF IInv
<1>4. /\ sent \in [Connections -> Seq(AllKinds)] /\ wire \in [Connections -> Seq(Tokens)]
      /\ buffer[c] \in Seq(Tokens) /\ sent[c] \in Seq(AllKinds) /\ wire[c] \in Seq(Tokens)
      /\ handlers[c] \in Seq(Fibers) /\ out[c] \in Seq(Lines)
  BY <1>3 DEF TypeOK
<1>5. PICK s2, more : s2 = Append(sent[c], kind) /\ more = Bytes(kind, Len(sent[c]) + 1)
  OBVIOUS
<1>6. s2 \in Seq(AllKinds) /\ more \in Seq(Tokens)
  <2>1. Len(sent[c]) + 1 \in Nat
    BY <1>4
  <2>2. more \in Seq(Tokens)
    BY <1>5, <2>1, MessageTokens, Zenon
  <2> QED BY <1>4, <1>5, <2>2
<1>7. ConnectionOK(s2, handlers[c], out[c], (buffer[c] \o wire[c]) \o more)
  BY <1>3, <1>4, <1>5, MessageSent
<1>8. (buffer[c] \o wire[c]) \o more = buffer[c] \o (wire[c] \o more)
  BY <1>4, <1>6, TokensTogether, Zenon
<1>9. PICK coming : coming = wire[c] \o more
  OBVIOUS
<1>10. coming \in Seq(Tokens) /\ ConnectionOK(s2, handlers[c], out[c], buffer[c] \o coming)
  <2>1. coming \in Seq(Tokens)
    BY <1>4, <1>6, <1>9
  <2> QED BY <1>7, <1>8, <1>9, <2>1, Zenon
<1>11. sent' = [sent EXCEPT ![c] = s2] /\ wire' = [wire EXCEPT ![c] = coming]
  BY <1>1, <1>5, <1>9, Zenon
<1>12. /\ sent' \in [Connections -> Seq(AllKinds)] /\ sent'[c] = s2
       /\ \A d \in Connections \ {c} : sent'[d] = sent[d]
  BY <1>4, <1>6, <1>11
<1>13. /\ wire' \in [Connections -> Seq(Tokens)] /\ wire'[c] = coming
       /\ \A d \in Connections \ {c} : wire'[d] = wire[d]
  BY <1>4, <1>10, <1>11
<1>14. TypeOK'
  BY <1>2, <1>3, <1>12, <1>13, Zenon DEF TypeOK
<1>15. ASSUME NEW d \in Connections
       PROVE  Flag(handlers'[d], busy'[d]) /\ ConnectionOK(sent'[d], handlers'[d], out'[d], buffer'[d] \o wire'[d])
  <2>1. CASE d = c
    BY <1>2, <1>3, <1>10, <1>12, <1>13, <2>1, Zenon
  <2>2. CASE d # c
    BY <1>2, <1>3, <1>12, <1>13, <2>2, Zenon
  <2> QED BY <2>1, <2>2
<1> QED BY <1>14, <1>15 DEF IInv

\* The server reads part of what was sent, and forks a handler for every frame in it.
LEMMA ReadIsOK ==
  ASSUME IInv, NEW c \in Connections, NEW n \in 1 .. Len(wire[c]), Read(c, n)
  PROVE  IInv'
<1>1. TypeOK /\ \A d \in Connections :
                  Flag(handlers[d], busy[d]) /\ ConnectionOK(sent[d], handlers[d], out[d], buffer[d] \o wire[d])
  BY DEF IInv
<1>2. /\ wire \in [Connections -> Seq(Tokens)] /\ buffer \in [Connections -> Seq(Tokens)]
      /\ handlers \in [Connections -> Seq(Fibers)] /\ out \in [Connections -> Seq(Lines)]
      /\ serving \in [Connections -> {"open", "joining", "closed"}]
      /\ busy \in [Connections -> BOOLEAN] /\ sent[c] \in Seq(AllKinds)
  BY <1>1 DEF TypeOK
<1>3. PICK coming, chunk, more, bytes :
        /\ coming = wire[c] /\ chunk = SubSeq(coming, 1, n) /\ more = SubSeq(coming, n + 1, Len(coming))
        /\ bytes = buffer[c] \o chunk
  OBVIOUS
<1>4. bytes \in Seq(Tokens) /\ more \in Seq(Tokens) /\ bytes \o more = buffer[c] \o wire[c]
  <2>1. buffer[c] \in Seq(Tokens) /\ coming \in Seq(Tokens) /\ n \in 1 .. Len(coming)
    BY <1>2, <1>3
  <2> QED BY <1>3, <2>1, Chunk, Zenon
<1>5. PICK hs, o, s : hs = handlers[c] /\ o = out[c] /\ s = sent[c]
  OBVIOUS
<1>6. PICK step : step = ReadFrames(bytes)
  OBVIOUS
<1>7. hs \in Seq(Fibers) /\ o \in Seq(Lines) /\ s \in Seq(AllKinds) /\ ConnectionOK(s, hs, o, bytes \o more)
  <2>1. ConnectionOK(s, hs, o, bytes \o more)
    BY <1>1, <1>4, <1>5, Zenon
  <2> QED BY <1>2, <1>5, <2>1
<1>8. /\ step \in FramingState /\ ConnectionOK(s, hs, o, step.rest \o more)
      /\ hs \o NewFibers(s, step.frames) \in Seq(Fibers) /\ o \o ErrorLines(step.errors) \in Seq(Lines)
      /\ NewFibers(s, step.frames) \in Seq(Fibers)
      /\ \A k \in DOMAIN NewFibers(s, step.frames) : NewFibers(s, step.frames)[k].holds = FALSE
      /\ ConnectionOK(s, hs \o NewFibers(s, step.frames), o \o ErrorLines(step.errors), step.rest \o more)
  <2>1. bytes \in Seq(Tokens) /\ more \in Seq(Tokens)
    BY <1>4, Zenon
  <2>2. Handled(s, hs, o, more, step)
    BY <1>6, <1>7, <2>1, FramesHandled
  <2> QED BY <2>2, Zenon DEF Handled
<1>9. PICK hs2, o2 : hs2 = hs \o NewFibers(s, step.frames) /\ o2 = o \o ErrorLines(step.errors)
  OBVIOUS
<1>10. hs2 \in Seq(Fibers) /\ o2 \in Seq(Lines) /\ ConnectionOK(s, hs2, o2, step.rest \o more)
  BY <1>8, <1>9, Zenon
<1>11. Flag(hs, busy[c]) /\ Flag(hs2, busy[c])
  <2>1. Flag(hs, busy[c]) /\ busy[c] \in BOOLEAN
    BY <1>1, <1>2, <1>5
  <2> QED BY <1>7, <1>8, <1>9, <2>1, FlagStarted, Zenon
<1>12. step.rest \in Seq(Tokens)
  BY <1>8 DEF FramingState
<1>13. UNCHANGED <<sent, ended, busy, broken>>
  BY DEF Read
<1>14. \A frame : MessageOf(c, frame) = MessageIn(s, frame)
  BY <1>5 DEF MessageOf, MessageIn
<1>15. /\ buffer' = [buffer EXCEPT ![c] = step.rest] /\ wire' = [wire EXCEPT ![c] = more]
       /\ \/ serving' = [serving EXCEPT ![c] = "closed"] /\ UNCHANGED <<handlers, out>>
          \/ /\ UNCHANGED serving
             /\ handlers' = [handlers EXCEPT ![c] = hs2] /\ out' = [out EXCEPT ![c] = o2]
  <2>1. step = ReadFrames(buffer[c] \o SubSeq(wire[c], 1, n))
    BY <1>3, <1>6, Zenon
  <2>2. wire' = [wire EXCEPT ![c] = SubSeq(wire[c], n + 1, Len(wire[c]))]
    BY <1>2 DEF Read
  <2>3. wire' = [wire EXCEPT ![c] = more]
    BY <1>3, <2>2, Zenon
  <2>4. NewFibers(s, step.frames) = [k \in DOMAIN step.frames |-> Fiber(MessageOf(c, step.frames[k]))]
    BY <1>14, Zenon DEF NewFibers
  <2>5. ErrorLines(step.errors) = [e \in 1 .. step.errors |-> ParseError]
    BY DEF ErrorLines
  <2>6. hs2 = handlers[c] \o [k \in DOMAIN step.frames |-> Fiber(MessageOf(c, step.frames[k]))]
    BY <1>5, <1>9, <2>4, Zenon
  <2>7. o2 = out[c] \o [e \in 1 .. step.errors |-> ParseError]
    BY <1>5, <1>9, <2>5, Zenon
  <2>8. buffer' = [buffer EXCEPT ![c] = step.rest]
    BY <2>1, Zenon DEF Read
  <2>9. IF broken[c] /\ step.errors > 0
        THEN serving' = [serving EXCEPT ![c] = "closed"] /\ UNCHANGED <<handlers, out>>
        ELSE /\ handlers' = [handlers EXCEPT ![c] =
                  @ \o [k \in DOMAIN step.frames |-> Fiber(MessageOf(c, step.frames[k]))]]
             /\ out' = [out EXCEPT ![c] = @ \o [e \in 1 .. step.errors |-> ParseError]]
             /\ UNCHANGED serving
    BY <2>1, Zenon DEF Read
  <2>10. CASE broken[c] /\ step.errors > 0
    BY <2>3, <2>8, <2>9, <2>10, Zenon
  <2>11. CASE ~(broken[c] /\ step.errors > 0)
    <3>1. handlers' = [handlers EXCEPT ![c] = hs2] /\ out' = [out EXCEPT ![c] = o2] /\ UNCHANGED serving
      BY <2>6, <2>7, <2>9, <2>11, Zenon
    <3> QED BY <2>3, <2>8, <3>1, Zenon
  <2> QED BY <2>10, <2>11
<1>16. /\ buffer' \in [Connections -> Seq(Tokens)] /\ buffer'[c] = step.rest
       /\ \A d \in Connections \ {c} : buffer'[d] = buffer[d]
  BY <1>2, <1>12, <1>15
<1>17. /\ wire' \in [Connections -> Seq(Tokens)] /\ wire'[c] = more
       /\ \A d \in Connections \ {c} : wire'[d] = wire[d]
  BY <1>2, <1>4, <1>15
<1>18. CASE serving' = [serving EXCEPT ![c] = "closed"] /\ UNCHANGED <<handlers, out>>
  <2>1. serving' \in [Connections -> {"open", "joining", "closed"}]
    BY <1>2, <1>18
  <2>2. TypeOK'
    BY <1>1, <1>13, <1>16, <1>17, <1>18, <2>1, Zenon DEF TypeOK
  <2>3. ASSUME NEW d \in Connections
        PROVE  Flag(handlers'[d], busy'[d]) /\ ConnectionOK(sent'[d], handlers'[d], out'[d], buffer'[d] \o wire'[d])
    <3>1. CASE d = c
      BY <1>1, <1>5, <1>8, <1>13, <1>16, <1>17, <1>18, <3>1, Zenon
    <3>2. CASE d # c
      BY <1>1, <1>13, <1>16, <1>17, <1>18, <3>2, Zenon
    <3> QED BY <3>1, <3>2
  <2> QED BY <2>2, <2>3 DEF IInv
<1>19. CASE UNCHANGED serving /\ handlers' = [handlers EXCEPT ![c] = hs2] /\ out' = [out EXCEPT ![c] = o2]
  <2>1. /\ handlers' \in [Connections -> Seq(Fibers)] /\ handlers'[c] = hs2
        /\ \A d \in Connections \ {c} : handlers'[d] = handlers[d]
    BY <1>2, <1>10, <1>19
  <2>2. /\ out' \in [Connections -> Seq(Lines)] /\ out'[c] = o2
        /\ \A d \in Connections \ {c} : out'[d] = out[d]
    BY <1>2, <1>10, <1>19
  <2>3. TypeOK'
    BY <1>1, <1>13, <1>16, <1>17, <1>19, <2>1, <2>2, Zenon DEF TypeOK
  <2>4. ASSUME NEW d \in Connections
        PROVE  Flag(handlers'[d], busy'[d]) /\ ConnectionOK(sent'[d], handlers'[d], out'[d], buffer'[d] \o wire'[d])
    <3>1. CASE d = c
      BY <1>5, <1>10, <1>11, <1>13, <1>16, <1>17, <2>1, <2>2, <3>1, Zenon
    <3>2. CASE d # c
      BY <1>1, <1>13, <1>16, <1>17, <2>1, <2>2, <3>2, Zenon
    <3> QED BY <3>1, <3>2
  <2> QED BY <2>3, <2>4 DEF IInv
<1> QED BY <1>15, <1>18, <1>19

\* Hanging up, a write that fails, the end of a connection: nothing that IInv is about.
LEMMA SideStep ==
  ASSUME IInv, TypeOK', UNCHANGED <<sent, wire, buffer, busy, handlers, out>>
  PROVE  IInv'
BY DEF IInv

\* The ends of a connection.
LEMMA SideSteps ==
  ASSUME IInv, NEW c \in Connections, Hangup(c) \/ Break(c) \/ EndOfChunks(c) \/ Joined(c)
  PROVE  IInv'
<1> USE DEF input
<1>1. TypeOK
  BY DEF IInv
<1>2. CASE Hangup(c)
  <2>1. ended' \in [Connections -> BOOLEAN]
    BY <1>1, <1>2 DEF Hangup, TypeOK
  <2>2. UNCHANGED <<sent, wire, buffer, serving, busy, handlers, broken, out>>
    BY <1>2 DEF Hangup
  <2>3. TypeOK'
    BY <1>1, <2>1, <2>2, Zenon DEF TypeOK
  <2> QED BY <2>2, <2>3, SideStep
<1>3. CASE Break(c)
  <2>1. broken' \in [Connections -> BOOLEAN]
    BY <1>1, <1>3 DEF Break, TypeOK
  <2>2. UNCHANGED <<sent, wire, ended, buffer, serving, busy, handlers, out>>
    BY <1>3 DEF Break
  <2>3. TypeOK'
    BY <1>1, <2>1, <2>2, Zenon DEF TypeOK
  <2> QED BY <2>2, <2>3, SideStep
<1>4. CASE EndOfChunks(c) \/ Joined(c)
  <2>1. serving' \in [Connections -> {"open", "joining", "closed"}]
    BY <1>1, <1>4 DEF EndOfChunks, Joined, TypeOK
  <2>2. UNCHANGED <<sent, wire, ended, buffer, busy, handlers, broken, out>>
    BY <1>4 DEF EndOfChunks, Joined
  <2>3. TypeOK'
    BY <1>1, <2>1, <2>2, Zenon DEF TypeOK
  <2> QED BY <2>2, <2>3, SideStep
<1> QED BY <1>2, <1>3, <1>4

\* No connection has been used.
LEMMA InitIInv == Init => IInv
<1> SUFFICES ASSUME Init PROVE IInv
  OBVIOUS
<1>1. TypeOK
  <2>1. <<>> \in Seq(AllKinds) /\ <<>> \in Seq(Tokens) /\ <<>> \in Seq(Fibers) /\ <<>> \in Seq(Lines)
    OBVIOUS
  <2> QED BY <2>1 DEF Init, TypeOK
<1>2. ASSUME NEW c \in Connections
      PROVE  Flag(handlers[c], busy[c]) /\ ConnectionOK(sent[c], handlers[c], out[c], buffer[c] \o wire[c])
  <2>1. /\ sent[c] = <<>> /\ handlers[c] = <<>> /\ out[c] = <<>> /\ busy[c] = FALSE
        /\ buffer[c] = <<>> /\ wire[c] = <<>>
    BY <1>2 DEF Init
  <2>2. DOMAIN handlers[c] = {} /\ DOMAIN out[c] = {} /\ Len(sent[c]) = 0
    BY <2>1
  <2>3. Flag(handlers[c], busy[c])
    BY <2>1, <2>2 DEF Flag, HoldersIn
  <2>4. buffer[c] \o wire[c] \in Seq(Tokens) /\ Len(buffer[c] \o wire[c]) = 0
    BY <2>1
  <2>5. PICK at : at = [i \in {0} |-> 0]
    OBVIOUS
  <2>6. Limits(sent[c], at)
    <3>1. 0 .. 0 = {0} /\ 1 .. 0 = {}
      OBVIOUS
    <3> QED BY <2>2, <2>5, <3>1 DEF Limits
  <2>7. Unread(sent[c], at, 0, buffer[c] \o wire[c])
    <3>1. at[0] - at[0] = 0 /\ 0 + 1 .. 0 = {}
      BY <2>5
    <3> QED BY <2>2, <2>4, <3>1 DEF Unread
  <2>8. Entries(out[c], 0, Answers) = {}
    BY <2>2 DEF Entries
  <2>9. PICK about : about = [p \in {} |-> 1]
    OBVIOUS
  <2>10. ErrorsOf(sent[c], handlers[c], out[c], 0, about)
    BY <2>8, <2>9 DEF ErrorsOf
  <2>11. ReadSoFar(sent[c], handlers[c], out[c], buffer[c] \o wire[c], at, 0, about)
    BY <2>2, <2>6, <2>7, <2>10 DEF ReadSoFar
  <2>12. /\ InOrder(handlers[c]) /\ WrittenOK(sent[c], handlers[c], out[c])
         /\ Accounted(handlers[c], out[c]) /\ \A k \in DOMAIN handlers[c] : FiberOK(sent[c], handlers[c][k])
    BY <2>2 DEF InOrder, WrittenOK, Accounted
  <2> QED BY <2>3, <2>11, <2>12 DEF ConnectionOK
<1> QED BY <1>1, <1>2 DEF IInv

\* One step for each action: what the client does, what is read, what a fiber does.
LEMMA NextIInv == IInv /\ [Next]_vars => IInv'
<1> SUFFICES ASSUME IInv, [Next]_vars PROVE IInv'
  OBVIOUS
<1>1. CASE UNCHANGED vars
  <2>1. UNCHANGED <<sent, wire, ended, buffer, serving, busy, handlers, broken, out>>
    BY <1>1 DEF vars, input
  <2> QED BY <2>1 DEF IInv, TypeOK
<1>2. CASE Next
  <2>1. PICK c \in Connections :
          \/ Send(c) \/ Hangup(c) \/ Break(c)
          \/ ReadSome(c) \/ EndOfChunks(c) \/ Joined(c)
          \/ Handle(c) \/ Engine(c) \/ Progress(c)
    BY <1>2 DEF Next
  <2>2. CASE Send(c)
    BY <2>2, SendOK
  <2>3. CASE Hangup(c) \/ Break(c) \/ EndOfChunks(c) \/ Joined(c)
    BY <2>3, SideSteps
  <2>4. CASE ReadSome(c)
    BY <2>4, ReadIsOK DEF ReadSome
  <2>5. CASE Handle(c)
    <3>1. PICK k \in DOMAIN handlers[c] : HandlerStep(c, k)
      BY <2>5 DEF Handle
    <3> QED BY <3>1, HandleFrameOK, ClaimOK, DrainedOK, AnswerOK, ReleaseOK DEF HandlerStep
  <2>6. CASE Engine(c)
    BY <2>6, EngineOffersOK, EngineEndsOK DEF Engine
  <2>7. CASE Progress(c)
    BY <2>7, NotifyOK DEF Progress
  <2> QED BY <2>1, <2>2, <2>3, <2>4, <2>5, <2>6, <2>7
<1> QED BY <1>1, <1>2

\* What holds in every state of the server (Serve.cell.ts).
THEOREM Inductive == Spec => []IInv
BY InitIInv, NextIInv, PTL DEF Spec

\* Every variable of the server stays in its type: no queue of a run holds more than
\* QUEUE_BOUND events (queue.offer of withEngine waits), and what is kept of a chunk,
\* whatever its cut, are tokens of the connection.
THEOREM TypeCorrect == Spec => []TypeOK
<1>1. IInv => TypeOK
  BY DEF IInv
<1> QED BY <1>1, Inductive, PTL

\* The flag and the handler that holds the run agree: one run at a time.
LEMMA OneRunOfIInv == IInv => OneRun
<1> SUFFICES ASSUME IInv, NEW c \in Connections
             PROVE  (\A k, l \in Holders(c) : k = l) /\ (busy[c] <=> Holders(c) # {})
  BY DEF OneRun
<1>1. Holders(c) = HoldersIn(handlers[c])
  BY DEF Holders, HoldersIn
<1> QED BY <1>1, Zenon DEF IInv, Flag

\* However the fibers of a connection interleave between the decision of dispatchRequest
\* and its claim, one holds the flag at most, and the flag is set exactly while one does.
THEOREM OneRunAtATime == Spec => []OneRun
BY Inductive, OneRunOfIInv, PTL

\* What was offered is written before the answer.
LEMMA ProgressOfIInv == IInv => ProgressBeforeAnswer
<1> SUFFICES ASSUME IInv, NEW c \in Connections, NEW k \in DOMAIN handlers[c],
                    handlers[c][k].message # 0,
                    NEW p \in Written(c, handlers[c][k].message, Answers)
             PROVE  /\ \A q \in Written(c, handlers[c][k].message, {"progress"}) : q < p
                    /\ handlers[c][k].consumer = "alive" =>
                         Cardinality(Written(c, handlers[c][k].message, {"progress"})) = handlers[c][k].offered
  BY DEF ProgressBeforeAnswer
<1>1. PICK i, o, hs : i = handlers[c][k].message /\ o = out[c] /\ hs = handlers[c]
  OBVIOUS
<1>2. /\ \A whats : Written(c, i, whats) = Entries(o, i, whats)
      /\ o \in Seq(Lines) /\ hs \in Seq(Fibers) /\ ConnectionOK(sent[c], hs, o, buffer[c] \o wire[c])
      /\ hs[k] \in Fibers /\ k \in DOMAIN hs /\ i # 0 /\ i = hs[k].message
  BY <1>1 DEF Written, Entries, IInv, TypeOK
<1>3. p \in DOMAIN o /\ o[p].to = i /\ o[p].what \in Answers
  BY <1>1, <1>2 DEF Entries
<1>4. AnsweredBy(hs, i) /\ \A q \in DOMAIN o : o[q].to = i => q <= p
  BY <1>2, <1>3 DEF ConnectionOK, WrittenOK
<1>5. \A q \in Entries(o, i, {"progress"}) : q < p
  <2> SUFFICES ASSUME NEW q \in Entries(o, i, {"progress"}) PROVE q < p
    OBVIOUS
  <2>1. q \in DOMAIN o /\ o[q].to = i /\ o[q].what = "progress"
    BY DEF Entries
  <2>2. q <= p /\ q # p
    BY <1>3, <1>4, <2>1 DEF Answers
  <2>3. q \in Nat /\ p \in Nat
    BY <1>2, <1>3, <2>1
  <2> QED BY <2>2, <2>3
<1>6. ASSUME hs[k].consumer = "alive"
      PROVE  Cardinality(Entries(o, i, {"progress"})) = hs[k].offered
  <2>1. hs[k].at \in {"releasing", "done"}
    <3>1. InOrder(hs)
      BY <1>2 DEF ConnectionOK
    <3> QED BY <1>2, <1>4, <3>1, OneFiber
  <2>2. hs[k].queue = 0
    BY <1>2, <1>6, <2>1 DEF ConnectionOK, FiberOK, Over
  <2>3. PICK m \in Nat, q \in Nat, offered \in Nat :
          m = Cardinality(Entries(o, i, {"progress"})) /\ q = hs[k].queue /\ offered = hs[k].offered
    BY <1>2, EntriesFinite, FiberNumbers, Zenon
  <2>4. m + q = offered
    BY <1>2, <1>6, <2>3, Zenon DEF ConnectionOK, Accounted
  <2>5. m = offered
    BY <2>2, <2>3, <2>4
  <2> QED BY <2>3, <2>5, Zenon
<1> QED BY <1>1, <1>2, <1>5, <1>6, Zenon

\* withEngine answers a mutation test after all of its progress, and leaves none out as
\* long as its consumer lives: for any number of events, chunks and requests at once.
THEOREM ProgressComesFirst == Spec => []ProgressBeforeAnswer
BY Inductive, ProgressOfIInv, PTL

\* A set of numbers none of which is below another has one member at most.
LEMMA OneAtMost ==
  ASSUME NEW o \in Seq(Lines), NEW i, NEW whats,
         \A p, q \in Entries(o, i, whats) : p = q
  PROVE  Cardinality(Entries(o, i, whats)) <= 1
<1>1. PICK S : S = Entries(o, i, whats)
  OBVIOUS
<1>2. CASE S = {}
  BY <1>1, <1>2, FS_EmptySet
<1>3. CASE S # {}
  <2>1. PICK p : p \in S
    BY <1>3
  <2>2. S = {p}
    BY <1>1, <2>1
  <2>3. Cardinality(S) = 1
    BY <2>2, FS_Singleton
  <2> QED BY <1>1, <2>3
<1> QED BY <1>2, <1>3

\* What is written is the answer to a message that was sent.
LEMMA AnswersOfIInv == IInv => AnswersRight
<1> SUFFICES ASSUME IInv, NEW c \in Connections
             PROVE  /\ \A i \in DOMAIN sent[c] :
                         /\ Cardinality(Written(c, i, Answers)) <= 1
                         /\ \A p \in Written(c, i, Answers) : out[c][p].what \in AnswersOf(sent[c][i])
                    /\ Cardinality(Written(c, 0, Answers)) <= Cardinality(Malformed(c))
  BY DEF AnswersRight
<1>1. PICK s, o, hs : s = sent[c] /\ o = out[c] /\ hs = handlers[c]
  OBVIOUS
<1>2. /\ \A i, whats : Written(c, i, whats) = Entries(o, i, whats)
      /\ s \in Seq(AllKinds) /\ o \in Seq(Lines) /\ ConnectionOK(s, hs, o, buffer[c] \o wire[c])
  BY <1>1 DEF Written, Entries, IInv, TypeOK
<1>3. ASSUME NEW i \in DOMAIN s
      PROVE  Cardinality(Entries(o, i, Answers)) <= 1 /\ \A p \in Entries(o, i, Answers) : o[p].what \in AnswersOf(s[i])
  <2>1. i # 0 /\ DOMAIN o \subseteq Nat
    BY <1>2, <1>3
  <2>2. \A p \in Entries(o, i, Answers) :
          /\ p \in DOMAIN o /\ o[p].what \in AnswersOf(s[i])
          /\ \A q \in Entries(o, i, Answers) : q <= p
    <3> SUFFICES ASSUME NEW p \in Entries(o, i, Answers)
                 PROVE  /\ p \in DOMAIN o /\ o[p].what \in AnswersOf(s[i])
                        /\ \A q \in Entries(o, i, Answers) : q <= p
      OBVIOUS
    <3>1. p \in DOMAIN o /\ o[p].to = i /\ o[p].what \in Answers
      BY DEF Entries
    <3>2. /\ o[p].what \in AnswersOf(s[i])
          /\ \A q \in DOMAIN o : o[q].to = i => q <= p
      BY <1>2, <2>1, <3>1 DEF ConnectionOK, WrittenOK
    <3> QED BY <3>1, <3>2 DEF Entries
  <2>3. \A p, q \in Entries(o, i, Answers) : p = q
    BY <2>1, <2>2
  <2> QED BY <1>2, <2>2, <2>3, OneAtMost
<1>4. Cardinality(Entries(o, 0, Answers)) <= Cardinality(Malformed(c))
  <2>1. PICK at, n, about : ReadSoFar(s, hs, o, buffer[c] \o wire[c], at, n, about)
    BY <1>2, Zenon DEF ConnectionOK
  <2>2. PICK E, M : E = Entries(o, 0, Answers) /\ M = Malformed(c)
    OBVIOUS
  <2>3. n \in 0 .. Len(s) /\ ErrorsOf(s, hs, o, n, about)
    BY <2>1 DEF ReadSoFar
  <2>4. 1 .. n \subseteq DOMAIN s
    BY <1>2, <2>3
  <2>5. about \in [E -> 1 .. n]
    BY <2>2, <2>3 DEF ErrorsOf
  <2>6. \A p \in E : about[p] \in M
    BY <1>1, <2>2, <2>3, <2>4 DEF ErrorsOf, Malformed
  <2>7. about \in [E -> M]
    BY <2>5, <2>6
  <2>8. about \in Injection(E, M)
    BY <2>2, <2>3, <2>7 DEF ErrorsOf, Injection, IsInjective
  <2>9. IsFiniteSet(M)
    <3>1. DOMAIN s = 1 .. Len(s) /\ Len(s) \in Nat
      BY <1>2
    <3>2. IsFiniteSet(DOMAIN s)
      BY <3>1, FS_Interval
    <3> QED BY <1>1, <2>2, <3>2, FS_Subset DEF Malformed
  <2> QED BY <2>2, <2>8, <2>9, FS_Injection
<1> QED BY <1>1, <1>2, <1>3, <1>4, Zenon

\* A request of any kind is answered once at most, with an answer of its kind, and no more
\* errors are written than malformed messages came: wherever chunks are cut (makeFrameDecoder)
\* and however the fibers of handleFrame interleave.
THEOREM AnswersAreRight == Spec => []AnswersRight
BY Inductive, AnswersOfIInv, PTL
=============================================================================
