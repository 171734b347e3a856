------------------------------ MODULE RleProofs ------------------------------
(***************************************************************************)
(* Proofs about zcc_rle_decode, for every block size and every input: it   *)
(* stays in its buffer, reads at most two bytes past the packed ones, and  *)
(* hands out whole blocks only.                                            *)
(***************************************************************************)
EXTENDS Rle, SetInduction, SequenceTheorems, TLAPS

-------------------------------------------------------------------------------
(* The function that the decoder computes exists and does what its         *)
(* definition says: there is a function that does so for the last k bytes, *)
(* for every k.                                                            *)

LEMMA InputFacts ==
  ASSUME NEW x \in Inputs
  PROVE  /\ x.len \in Nat
         /\ \A n \in 0..(x.len + 1) : At(x.mem, n) \in Nat
<1>1. x.len \in Nat /\ x.mem \in Seq(Nat) /\ x.len + 2 <= Len(x.mem)
  BY InputsAssumption
<1>2. ASSUME NEW n \in 0..(x.len + 1) PROVE At(x.mem, n) \in Nat
  <2>1. n + 1 \in 1..Len(x.mem) BY <1>1
  <2> QED BY <1>1, <2>1 DEF At
<1> QED BY <1>1, <1>2

LEMMA CopiesFit ==
  ASSUME NEW n \in Int, NEW c \in 0..BlockSize
  PROVE  Copies(n, c) \in Nat /\ c + Copies(n, c) \in 0..BlockSize
BY BlockSizeAssumption DEF Copies

Decodings == [Nat -> [0..BlockSize -> Seq(Nat)]]

LEMMA BytesOfDecoding ==
  ASSUME NEW g \in Decodings, NEW n \in Nat, NEW c \in 0..BlockSize
  PROVE  g[n][c] \in Seq(Nat)
<1>1. g[n] \in [0..BlockSize -> Seq(Nat)] BY DEF Decodings
<1> QED BY <1>1

LEMMA StepIsBytes ==
  ASSUME NEW x \in Inputs, NEW g \in Decodings, NEW n \in Nat, NEW c \in 0..BlockSize
  PROVE  Step(x.mem, x.run, x.len, g, n, c) \in Seq(Nat)
<1> DEFINE copies == Copies(At(x.mem, n + 1), c)
<1>1. CASE n >= x.len \/ c = BlockSize BY <1>1 DEF Step
<1>2. CASE ~(n >= x.len \/ c = BlockSize) /\ At(x.mem, n) = x.run
  <2>1. At(x.mem, n + 1) \in Nat /\ At(x.mem, n + 2) \in Nat
    <3>1. n + 1 \in 0..(x.len + 1) /\ n + 2 \in 0..(x.len + 1)
      BY <1>2, InputFacts
    <3> QED BY <3>1, InputFacts
  <2>2. copies \in Nat /\ c + copies \in 0..BlockSize BY <2>1, CopiesFit
  <2> HIDE DEF copies
  <2>3. g[n + 2][c + copies] \in Seq(Nat) BY <2>2, BytesOfDecoding
  <2>4. [k \in 1..copies |-> At(x.mem, n + 2)] \in Seq(Nat) BY <2>1, <2>2
  <2>5. [k \in 1..copies |-> At(x.mem, n + 2)] \o g[n + 2][c + copies] \in Seq(Nat)
    BY <2>3, <2>4
  <2> QED BY <1>2, <2>5 DEF Step, copies
<1>3. CASE ~(n >= x.len \/ c = BlockSize) /\ At(x.mem, n) # x.run
  <2>1. At(x.mem, n) \in Nat /\ c + 1 \in 0..BlockSize
    BY <1>3, InputFacts, BlockSizeAssumption
  <2>2. g[n + 1][c + 1] \in Seq(Nat) BY <2>1, BytesOfDecoding
  <2>3. <<At(x.mem, n)>> \o g[n + 1][c + 1] \in Seq(Nat) BY <2>1, <2>2
  <2> QED BY <1>3, <2>3 DEF Step
<1> QED BY <1>1, <1>2, <1>3

\* g does what the definition says from index n on.
RightFrom(x, g, n) ==
  \A m \in Nat, c \in 0..BlockSize :
    m >= n => g[m][c] = Step(x.mem, x.run, x.len, g, m, c)

\* One step looks at what lies behind it only.
LEMMA StepLooksBehind ==
  ASSUME NEW x \in Inputs, NEW g, NEW h, NEW n \in Nat, NEW c \in 0..BlockSize,
         \A m \in Nat, d \in 0..BlockSize : m > n => g[m][d] = h[m][d]
  PROVE  Step(x.mem, x.run, x.len, g, n, c) = Step(x.mem, x.run, x.len, h, n, c)
<1> DEFINE copies == Copies(At(x.mem, n + 1), c)
<1>1. CASE n >= x.len \/ c = BlockSize BY <1>1 DEF Step
<1>2. CASE ~(n >= x.len \/ c = BlockSize) /\ At(x.mem, n) = x.run
  <2>1. At(x.mem, n + 1) \in Nat
    <3>1. n + 1 \in 0..(x.len + 1) BY <1>2, InputFacts
    <3> QED BY <3>1, InputFacts
  <2>2. copies \in Nat /\ c + copies \in 0..BlockSize BY <2>1, CopiesFit
  <2> HIDE DEF copies
  <2>3. g[n + 2][c + copies] = h[n + 2][c + copies] BY <2>2
  <2> QED BY <1>2, <2>3 DEF Step, copies
<1>3. CASE ~(n >= x.len \/ c = BlockSize) /\ At(x.mem, n) # x.run
  <2>1. c + 1 \in 0..BlockSize BY <1>3, BlockSizeAssumption
  <2>2. g[n + 1][c + 1] = h[n + 1][c + 1] BY <2>1
  <2> QED BY <1>3, <2>2 DEF Step
<1> QED BY <1>1, <1>2, <1>3

LEMMA DecodingExists ==
  ASSUME NEW x \in Inputs
  PROVE  \E g \in Decodings : RightFrom(x, g, 0)
<1> DEFINE T == {k \in Nat : \E g \in Decodings : RightFrom(x, g, x.len - k)}
<1>0. x.len \in Nat BY InputFacts
<1>1. 0 \in T
  <2> DEFINE g == [n \in Nat |-> [c \in 0..BlockSize |-> <<>>]]
  <2>1. g \in Decodings BY DEF Decodings
  <2>2. ASSUME NEW m \in Nat, NEW c \in 0..BlockSize, m >= x.len - 0
        PROVE  g[m][c] = Step(x.mem, x.run, x.len, g, m, c)
    BY <1>0, <2>2 DEF Step
  <2>3. RightFrom(x, g, x.len - 0) BY <2>2 DEF RightFrom
  <2> QED BY <2>1, <2>3
<1>2. ASSUME NEW k \in T PROVE k + 1 \in T
  <2>0. k \in Nat OBVIOUS
  <2>1. PICK g \in Decodings : RightFrom(x, g, x.len - k) OBVIOUS
  <2> DEFINE h == [n \in Nat |-> [c \in 0..BlockSize |->
                     IF n >= x.len - k THEN g[n][c] ELSE Step(x.mem, x.run, x.len, g, n, c)]]
  <2>2. h \in Decodings
    <3>1. ASSUME NEW n \in Nat, NEW c \in 0..BlockSize
          PROVE  /\ g[n][c] \in Seq(Nat)
                 /\ Step(x.mem, x.run, x.len, g, n, c) \in Seq(Nat)
      BY StepIsBytes, BytesOfDecoding
    <3> QED BY <3>1 DEF Decodings
  <2>3. ASSUME NEW m \in Nat, NEW c \in 0..BlockSize, m >= x.len - (k + 1)
        PROVE  h[m][c] = Step(x.mem, x.run, x.len, h, m, c)
    <3>1. \A n \in Nat, d \in 0..BlockSize : n >= x.len - k => h[n][d] = g[n][d]
      OBVIOUS
    <3>2. h[m][c] = Step(x.mem, x.run, x.len, g, m, c)
      <4>1. m >= x.len - k => g[m][c] = Step(x.mem, x.run, x.len, g, m, c)
        BY <2>1 DEF RightFrom
      <4> QED BY <4>1
    <3>3. \A n \in Nat, d \in 0..BlockSize : n > m => h[n][d] = g[n][d]
      BY <1>0, <2>0, <2>3, <3>1
    <3> HIDE DEF h
    <3>4. Step(x.mem, x.run, x.len, h, m, c) = Step(x.mem, x.run, x.len, g, m, c)
      BY <3>3, StepLooksBehind
    <3> QED BY <3>2, <3>4
  <2>4. RightFrom(x, h, x.len - (k + 1)) BY <2>3 DEF RightFrom
  <2> QED BY <2>0, <2>2, <2>4
<1>3. T = Nat
  <2> HIDE DEF T
  <2>1. T \subseteq Nat BY DEF T
  <2> QED BY <1>1, <1>2, <2>1, SetInduction
<1>4. x.len \in T BY <1>0, <1>3
<1>5. x.len - x.len = 0 BY <1>0
<1> QED BY <1>4, <1>5

Decoding(x) == DecodedFrom(x.mem, x.run, x.len)

LEMMA DecodingIsRight ==
  ASSUME NEW x \in Inputs
  PROVE  Decoding(x) \in Decodings /\ RightFrom(x, Decoding(x), 0)
<1> DEFINE P(f) == f = [n \in Nat |-> [c \in 0..BlockSize |->
                          Step(x.mem, x.run, x.len, f, n, c)]]
<1>1. PICK g \in Decodings : RightFrom(x, g, 0) BY DecodingExists
<1>2. P(g)
  <2>1. ASSUME NEW n \in Nat
        PROVE  g[n] = [c \in 0..BlockSize |-> Step(x.mem, x.run, x.len, g, n, c)]
    <3>1. \A c \in 0..BlockSize : g[n][c] = Step(x.mem, x.run, x.len, g, n, c)
      BY <1>1 DEF RightFrom
    <3> QED BY <3>1 DEF Decodings
  <2> QED BY <2>1 DEF Decodings
<1>3. Decoding(x) = CHOOSE f : P(f) BY DEF Decoding, DecodedFrom
<1>4. P(Decoding(x))
  <2> HIDE DEF P
  <2>1. P(CHOOSE f : P(f)) BY <1>2
  <2> QED BY <1>3, <2>1
<1>5. ASSUME NEW n \in Nat, NEW c \in 0..BlockSize
      PROVE  Decoding(x)[n][c] = Step(x.mem, x.run, x.len, Decoding(x), n, c)
  <2> DEFINE step(p, q) == Step(x.mem, x.run, x.len, Decoding(x), p, q)
  <2>1. Decoding(x) = [p \in Nat |-> [q \in 0..BlockSize |-> step(p, q)]] BY <1>4
  <2> HIDE DEF step
  <2>2. Decoding(x)[n][c] = step(n, c) BY <2>1
  <2> QED BY <2>2 DEF step
<1>6. RightFrom(x, Decoding(x), 0) BY <1>5 DEF RightFrom
<1> DEFINE T == {k \in Nat : \A n \in Nat, c \in 0..BlockSize :
                              n >= x.len - k => Decoding(x)[n][c] = g[n][c]}
<1>0. x.len \in Nat BY InputFacts
<1>7. 0 \in T
  <2> SUFFICES ASSUME NEW n \in Nat, NEW c \in 0..BlockSize, n >= x.len - 0
               PROVE  Decoding(x)[n][c] = g[n][c]
    OBVIOUS
  <2>1. Decoding(x)[n][c] = Step(x.mem, x.run, x.len, Decoding(x), n, c) BY <1>5
  <2>2. g[n][c] = Step(x.mem, x.run, x.len, g, n, c) BY <1>1 DEF RightFrom
  <2> QED BY <1>0, <2>1, <2>2 DEF Step
<1>8. ASSUME NEW k \in T PROVE k + 1 \in T
  <2>0. k \in Nat /\ \A n \in Nat, c \in 0..BlockSize :
                        n >= x.len - k => Decoding(x)[n][c] = g[n][c]
    OBVIOUS
  <2>1. ASSUME NEW n \in Nat, NEW c \in 0..BlockSize, n >= x.len - (k + 1)
        PROVE  Decoding(x)[n][c] = g[n][c]
    <3>1. \A m \in Nat, d \in 0..BlockSize : m > n => Decoding(x)[m][d] = g[m][d]
      BY <1>0, <2>0, <2>1
    <3>2. Step(x.mem, x.run, x.len, Decoding(x), n, c) = Step(x.mem, x.run, x.len, g, n, c)
      BY <3>1, StepLooksBehind
    <3>3. g[n][c] = Step(x.mem, x.run, x.len, g, n, c) BY <1>1 DEF RightFrom
    <3> QED BY <1>5, <3>2, <3>3
  <2> QED BY <2>0, <2>1
<1>9. T = Nat
  <2> HIDE DEF T
  <2>1. T \subseteq Nat BY DEF T
  <2> QED BY <1>7, <1>8, <2>1, SetInduction
<1>10. ASSUME NEW n \in Nat, NEW c \in 0..BlockSize PROVE Decoding(x)[n][c] = g[n][c]
  <2>1. x.len \in T BY <1>0, <1>9
  <2> QED BY <1>0, <2>1
<1>11. Decoding(x) \in Decodings
  <2>1. ASSUME NEW n \in Nat, NEW c \in 0..BlockSize
        PROVE  Step(x.mem, x.run, x.len, Decoding(x), n, c) \in Seq(Nat)
    BY <1>5, <1>10, BytesOfDecoding
  <2> DEFINE step(p, q) == Step(x.mem, x.run, x.len, Decoding(x), p, q)
  <2>2. Decoding(x) = [p \in Nat |-> [q \in 0..BlockSize |-> step(p, q)]] BY <1>4
  <2>3. \A p \in Nat, q \in 0..BlockSize : step(p, q) \in Seq(Nat) BY <2>1
  <2> HIDE DEF step
  <2> QED BY <2>2, <2>3 DEF Decodings
<1> QED BY <1>6, <1>11

-------------------------------------------------------------------------------
(* What the loops keep.                                                    *)

\* Where the loops are: s passes the packed bytes by one at most, and the
\* inner loop starts inside them.  A returned size is the length of the
\* buffer, which is handed out when it is whole.
Position ==
  /\ pc = "run" => s < input.len
  /\ s <= input.len + 1

Outcome ==
  /\ pc # "done" => dest = NoBlock /\ errno = "OK" /\ result = -1
  /\ pc = "done" => /\ result = b
                    /\ b = BlockSize => dest = buffer /\ errno = "OK"
                    /\ b # BlockSize => dest = NoBlock /\ errno = "RLE"

Inv == TypeOK /\ InBuffer /\ ReadsNear /\ Position /\ Outcome

LEMMA SourceByte ==
  ASSUME input \in Inputs, NEW i \in Nat, i <= input.len + 1
  PROVE  Src(i) \in Nat
<1>1. input.len \in Nat /\ input.mem \in Seq(Nat) /\ input.len + 2 <= Len(input.mem)
  BY InputsAssumption
<1>2. i + 1 \in 1..Len(input.mem) BY <1>1
<1> QED BY <1>1, <1>2 DEF Src, At

LEMMA InvInit == Init => Inv
<1> SUFFICES ASSUME Init PROVE Inv
  OBVIOUS
<1>1. input.len \in Nat BY InputsAssumption DEF Init
<1>2. buffer \in Seq(Nat) /\ Len(buffer) = 0 BY DEF Init
<1> QED
  BY <1>1, <1>2, BlockSizeAssumption
  DEF Init, Inv, TypeOK, InBuffer, ReadsNear, Position, Outcome, b

\* A stored byte keeps the buffer a sequence, one longer.
LEMMA Stored ==
  ASSUME buffer \in Seq(Nat), NEW c \in Nat, buffer' = Append(buffer, c)
  PROVE  buffer' \in Seq(Nat) /\ b' = b + 1 /\ b \in Nat
BY DEF b

LEMMA InvNext == Inv /\ [Next]_vars => Inv'
<1> SUFFICES ASSUME Inv, [Next]_vars PROVE Inv'
  OBVIOUS
<1> USE DEF Inv
<1>0. /\ input \in Inputs /\ input.len \in Nat /\ b \in Nat
      /\ buffer \in Seq(Nat) /\ s \in Nat /\ r \in Int /\ reach \in Int
  BY InputsAssumption DEF TypeOK, b
<1>1. CASE Literal
  <2>1. s < input.len /\ b < BlockSize /\ pc = "loop" BY <1>1 DEF Literal, More
  <2>2. Src(s) \in Nat BY <1>0, <2>1, SourceByte
  <2>3. buffer' \in Seq(Nat) /\ b' = b + 1 BY <1>0, <1>1, <2>2, Stored DEF Literal
  <2>4. /\ input' = input /\ pc' = pc /\ r' = r /\ s' = s + 1
        /\ dest' = NoBlock /\ result' = -1 /\ errno' = "OK"
        /\ reach' = Farthest(s)
    BY <1>1, <2>1 DEF Literal, Outcome
  <2>5. reach' \in Int /\ reach' <= input.len + 1
    BY <1>0, <2>1, <2>4 DEF Farthest, ReadsNear
  <2> QED
    BY <1>0, <2>1, <2>3, <2>4, <2>5, BlockSizeAssumption
    DEF TypeOK, InBuffer, ReadsNear, Position, Outcome
<1>2. CASE StartRun
  <2>1. s < input.len /\ pc = "loop" BY <1>2 DEF StartRun, More
  <2>2. Src(s + 1) \in Nat BY <1>0, <2>1, SourceByte
  <2>3. /\ pc' = "run" /\ r' = Src(s + 1) /\ reach' = Farthest(s + 1)
        /\ UNCHANGED <<input, s, buffer, dest, result, errno>>
    BY <1>2 DEF StartRun
  <2>4. reach' \in Int /\ reach' <= input.len + 1
    BY <1>0, <2>1, <2>3 DEF Farthest, ReadsNear
  <2> QED
    BY <1>0, <2>1, <2>2, <2>3, <2>4 DEF TypeOK, InBuffer, ReadsNear, Position, Outcome, b
<1>3. CASE CopyRun
  <2>1. s < input.len /\ pc = "run" /\ b < BlockSize
    BY <1>3 DEF CopyRun, InRun, Position
  <2>2. Src(s + 2) \in Nat
    <3>1. s + 2 \in Nat /\ s + 2 <= input.len + 1 BY <1>0, <2>1
    <3> QED BY <1>0, <3>1, SourceByte
  <2>3. buffer' \in Seq(Nat) /\ b' = b + 1 BY <1>0, <1>3, <2>2, Stored DEF CopyRun
  <2>4. /\ r' = r - 1 /\ reach' = Farthest(s + 2)
        /\ UNCHANGED <<input, pc, s, dest, result, errno>>
    BY <1>3 DEF CopyRun
  <2>5. reach' \in Int /\ reach' <= input.len + 1
    BY <1>0, <2>1, <2>4 DEF Farthest, ReadsNear
  <2> QED
    BY <1>0, <2>1, <2>3, <2>4, <2>5, BlockSizeAssumption
    DEF TypeOK, InBuffer, ReadsNear, Position, Outcome
<1>4. CASE EndRun
  <2>1. s < input.len /\ pc = "run" BY <1>4 DEF EndRun, Position
  <2>2. /\ r' = r - 1 /\ s' = s + 2 /\ pc' = "loop"
        /\ UNCHANGED <<input, buffer, dest, result, errno, reach>>
    BY <1>4 DEF EndRun, AfterRun
  <2> QED
    BY <1>0, <2>1, <2>2 DEF TypeOK, InBuffer, ReadsNear, Position, Outcome, b
<1>5. CASE Return
  <2>1. /\ pc = "loop" /\ pc' = "done" /\ result' = b
        /\ UNCHANGED <<input, s, r, buffer, reach>>
        /\ b = BlockSize => dest' = buffer /\ errno' = "OK"
        /\ b # BlockSize => dest' = NoBlock /\ errno' = "RLE"
    BY <1>5 DEF Return, Outcome, Whole
  <2> QED
    BY <1>0, <2>1 DEF TypeOK, InBuffer, ReadsNear, Position, Outcome, b
<1>6. CASE UNCHANGED vars
  BY <1>6 DEF vars, TypeOK, InBuffer, ReadsNear, Position, Outcome, b
<1> QED BY <1>1, <1>2, <1>3, <1>4, <1>5, <1>6 DEF Next

\* The decoder's variables stay in their ranges.
THEOREM TypeCorrect == Spec => []TypeOK
<1>1. Inv => TypeOK BY DEF Inv
<1> QED BY InvInit, InvNext, <1>1, PTL DEF Spec

\* No packed data makes the decoder write outside its 256-byte buffer.
THEOREM StaysInBuffer == Spec => []InBuffer
<1>1. Inv => InBuffer BY DEF Inv
<1> QED BY InvInit, InvNext, <1>1, PTL DEF Spec

\* No packed data makes it read farther than two bytes past the packed ones.
THEOREM ReadsNearEnd == Spec => []ReadsNear
<1>1. Inv => ReadsNear BY DEF Inv
<1> QED BY InvInit, InvNext, <1>1, PTL DEF Spec

\* The caller's block is left whole or untouched.  That NoBlock is no
\* sequence of bytes is all that is asked of it.
THEOREM WholeBlocks ==
  ASSUME NoBlock \notin Seq(Nat)
  PROVE  Spec => []AllOrNothing
<1>1. Inv => AllOrNothing
  BY BlockSizeAssumption DEF Inv, Outcome, AllOrNothing, TypeOK, b
<1> QED BY InvInit, InvNext, <1>1, PTL DEF Spec


-------------------------------------------------------------------------------
(* The loops compute the function: what is in the buffer and what the      *)
(* function makes of the bytes still to be read are together what it makes *)
(* of all of them.                                                         *)

Repeat(c, n) == [k \in 1..n |-> c]

RunLeft == Copies(r, b)

DecodeInv ==
  LET rest(n, c) == Decoding(input)[n][c]
  IN  /\ pc = "loop" => buffer \o rest(s, b) = rest(0, 0)
      /\ pc = "run" =>
           buffer \o (Repeat(Src(s + 2), RunLeft) \o rest(s + 2, b + RunLeft)) = rest(0, 0)
      /\ pc = "done" => buffer = rest(0, 0)

LEMMA AppendThenRest ==
  ASSUME NEW p \in Seq(Nat), NEW q \in Seq(Nat), NEW c \in Nat
  PROVE  Append(p, c) \o q = p \o (<<c>> \o q)
<1>1. Append(p, c) = p \o <<c>> OBVIOUS
<1>2. <<c>> \in Seq(Nat) OBVIOUS
<1> QED BY <1>1, <1>2, ConcatAssociative

LEMMA RepeatOnce ==
  ASSUME NEW q \in Seq(Nat), NEW c \in Nat, NEW n \in Nat \ {0}
  PROVE  Repeat(c, n) \o q = <<c>> \o (Repeat(c, n - 1) \o q)
<1>1. Repeat(c, n) = <<c>> \o Repeat(c, n - 1)
  BY DEF Repeat
<1>2. <<c>> \in Seq(Nat) /\ Repeat(c, n - 1) \in Seq(Nat) BY DEF Repeat
<1> QED BY <1>1, <1>2, ConcatAssociative

LEMMA RepeatNever ==
  ASSUME NEW q \in Seq(Nat), NEW c PROVE Repeat(c, 0) \o q = q
<1>1. Repeat(c, 0) = <<>> BY DEF Repeat
<1> QED BY <1>1

LEMMA StepOfRun ==
  ASSUME NEW x, NEW g, NEW n \in Nat, NEW c, ~(n >= x.len), c # BlockSize, At(x.mem, n) = x.run
  PROVE  Step(x.mem, x.run, x.len, g, n, c)
           = Repeat(At(x.mem, n + 2), Copies(At(x.mem, n + 1), c))
               \o g[n + 2][c + Copies(At(x.mem, n + 1), c)]
BY DEF Step, Repeat

LEMMA RestIsRight ==
  ASSUME input \in Inputs, NEW n \in Nat, NEW c \in 0..BlockSize
  PROVE  /\ Decoding(input)[n][c] \in Seq(Nat)
         /\ Decoding(input)[n][c] = Step(input.mem, input.run, input.len, Decoding(input), n, c)
BY DecodingIsRight, BytesOfDecoding DEF RightFrom

LEMMA DecodeInvInit == Init => DecodeInv
<1> SUFFICES ASSUME Init PROVE DecodeInv
  OBVIOUS
<1>1. Decoding(input)[0][0] \in Seq(Nat) BY RestIsRight, BlockSizeAssumption DEF Init
<1>2. buffer = <<>> /\ b = 0 /\ pc = "loop" /\ s = 0 BY DEF Init, b
<1> QED BY <1>1, <1>2 DEF DecodeInv

LEMMA DecodeInvNext == Inv /\ DecodeInv /\ [Next]_vars => DecodeInv'
<1> SUFFICES ASSUME Inv, DecodeInv, [Next]_vars PROVE DecodeInv'
  OBVIOUS
<1> DEFINE rest(n, c) == Decoding(input)[n][c]
<1>0. /\ input \in Inputs /\ input.len \in Nat /\ b \in 0..BlockSize
      /\ buffer \in Seq(Nat) /\ s \in Nat /\ r \in Int
  BY InputsAssumption, BlockSizeAssumption DEF Inv, TypeOK, InBuffer, b
<1>1. CASE Literal
  <2>1. /\ pc = "loop" /\ pc' = "loop" /\ s < input.len /\ b < BlockSize /\ Src(s) # input.run
        /\ buffer' = Append(buffer, Src(s)) /\ s' = s + 1 /\ input' = input
    BY <1>1 DEF Literal, More
  <2>2. Src(s) \in Nat BY <1>0, <2>1, SourceByte
  <2>3. b' = b + 1 BY <1>0, <2>1, <2>2, Stored
  <2>4. rest(s, b) = <<Src(s)>> \o rest(s + 1, b + 1)
    <3>1. rest(s, b) = Step(input.mem, input.run, input.len, Decoding(input), s, b)
      BY <1>0, RestIsRight
    <3> QED BY <1>0, <2>1, <3>1 DEF Step, Src
  <2>5. rest(s + 1, b + 1) \in Seq(Nat)
    <3>1. s + 1 \in Nat /\ b + 1 \in 0..BlockSize BY <1>0, <2>1, BlockSizeAssumption
    <3> QED BY <1>0, <3>1, RestIsRight
  <2>6. buffer' \o rest(s + 1, b + 1) = buffer \o rest(s, b)
    <3> DEFINE q == rest(s + 1, b + 1)
    <3>1. q \in Seq(Nat) BY <2>5
    <3>2. rest(s, b) = <<Src(s)>> \o q BY <2>4
    <3> HIDE DEF q
    <3>3. buffer' \o q = buffer \o (<<Src(s)>> \o q) BY <1>0, <2>1, <2>2, <3>1, AppendThenRest
    <3>4. buffer' \o q = buffer \o rest(s, b) BY <3>2, <3>3
    <3> QED BY <3>4 DEF q
  <2>7. buffer' \o rest(s', b') = rest(0, 0) BY <2>1, <2>3, <2>6 DEF DecodeInv
  <2> QED BY <2>1, <2>7 DEF DecodeInv
<1>2. CASE StartRun
  <2>1. /\ pc = "loop" /\ pc' = "run" /\ s < input.len /\ b < BlockSize /\ Src(s) = input.run
        /\ r' = Src(s + 1) /\ UNCHANGED <<input, s, buffer>>
    BY <1>2 DEF StartRun, More
  <2>2. b' = b /\ RunLeft' = Copies(Src(s + 1), b) /\ Src(s + 2)' = Src(s + 2)
    BY <2>1 DEF b, RunLeft, Copies, Src, At
  <2>3. rest(s, b) = Repeat(Src(s + 2), RunLeft') \o rest(s + 2, b + RunLeft')
    <3>1. rest(s, b) = Step(input.mem, input.run, input.len, Decoding(input), s, b)
      BY <1>0, RestIsRight
    <3>2. b # BlockSize /\ ~(s >= input.len) BY <1>0, <2>1
    <3>3. At(input.mem, s) = input.run BY <2>1 DEF Src
    <3>4. Step(input.mem, input.run, input.len, Decoding(input), s, b)
            = Repeat(At(input.mem, s + 2), Copies(At(input.mem, s + 1), b))
                \o Decoding(input)[s + 2][b + Copies(At(input.mem, s + 1), b)]
      BY <1>0, <3>2, <3>3, StepOfRun
    <3> QED BY <2>2, <3>1, <3>4 DEF Src
  <2> QED BY <2>1, <2>2, <2>3 DEF DecodeInv
<1>3. CASE CopyRun
  <2>1. /\ pc = "run" /\ pc' = "run" /\ r - 1 > 0 /\ b < BlockSize /\ r' = r - 1
        /\ buffer' = Append(buffer, Src(s + 2)) /\ UNCHANGED <<input, s>>
    BY <1>3 DEF CopyRun, InRun
  <2>2. Src(s + 2) \in Nat
    <3>1. s + 2 \in Nat /\ s + 2 <= input.len + 1 BY <1>0, <2>1 DEF Inv, Position
    <3> QED BY <1>0, <3>1, SourceByte
  <2>3. b' = b + 1 /\ Src(s + 2)' = Src(s + 2)
    BY <1>0, <2>1, <2>2, Stored DEF Src, At
  <2>4. /\ RunLeft \in Nat \ {0} /\ RunLeft' = RunLeft - 1
        /\ b + RunLeft \in 0..BlockSize /\ b' + RunLeft' = b + RunLeft
    BY <1>0, <2>1, <2>3, BlockSizeAssumption DEF RunLeft, Copies
  <2>5. rest(s + 2, b + RunLeft) \in Seq(Nat)
    <3>1. s + 2 \in Nat BY <1>0
    <3> QED BY <1>0, <2>4, <3>1, RestIsRight
  <2> DEFINE q == Repeat(Src(s + 2), RunLeft - 1) \o rest(s + 2, b + RunLeft)
  <2>6. Repeat(Src(s + 2), RunLeft) \o rest(s + 2, b + RunLeft) = <<Src(s + 2)>> \o q
    BY <2>2, <2>4, <2>5, RepeatOnce
  <2>7. q \in Seq(Nat)
    <3>1. Repeat(Src(s + 2), RunLeft - 1) \in Seq(Nat) BY <2>2, <2>4 DEF Repeat
    <3> QED BY <2>5, <3>1
  <2>8. buffer' \o q = buffer \o (<<Src(s + 2)>> \o q)
    <3> HIDE DEF q
    <3> QED BY <1>0, <2>1, <2>2, <2>7, AppendThenRest
  <2>9. q = Repeat(Src(s + 2)', RunLeft') \o rest(s' + 2, b' + RunLeft')
    BY <2>1, <2>3, <2>4
  <2> QED BY <2>1, <2>6, <2>8, <2>9 DEF DecodeInv
<1>4. CASE EndRun
  <2>1. /\ pc = "run" /\ pc' = "loop" /\ ~(r - 1 > 0 /\ b < BlockSize) /\ s' = s + 2
        /\ UNCHANGED <<input, buffer>>
    BY <1>4 DEF EndRun, InRun, AfterRun
  <2>2. RunLeft = 0 /\ b' = b BY <1>0, <2>1, BlockSizeAssumption DEF RunLeft, Copies, b
  <2>3. rest(s + 2, b) \in Seq(Nat)
    <3>1. s + 2 \in Nat BY <1>0
    <3> QED BY <1>0, <3>1, RestIsRight
  <2>4. Repeat(Src(s + 2), RunLeft) \o rest(s + 2, b + RunLeft) = rest(s + 2, b)
    <3>1. b + RunLeft = b BY <1>0, <2>2
    <3> QED BY <2>2, <2>3, <3>1, RepeatNever
  <2> QED BY <2>1, <2>2, <2>4 DEF DecodeInv
<1>5. CASE Return
  <2>1. /\ pc = "loop" /\ pc' = "done" /\ ~(s < input.len /\ b < BlockSize)
        /\ UNCHANGED <<input, buffer>>
    BY <1>5 DEF Return, More
  <2>2. rest(s, b) = <<>>
    <3>1. rest(s, b) = Step(input.mem, input.run, input.len, Decoding(input), s, b)
      BY <1>0, RestIsRight
    <3>2. s >= input.len \/ b = BlockSize BY <1>0, <2>1, BlockSizeAssumption
    <3> QED BY <3>1, <3>2 DEF Step
  <2> QED BY <1>0, <2>1, <2>2 DEF DecodeInv
<1>6. CASE UNCHANGED vars
  BY <1>6 DEF vars, DecodeInv, RunLeft, Src, At, b
<1> QED BY <1>1, <1>2, <1>3, <1>4, <1>5, <1>6 DEF Next

\* The loops compute the function RleCodec defines, whatever the bytes are.
THEOREM DecodesAsDefined == Spec => []ComputesDecoded
<1>1. DecodeInv => ComputesDecoded BY DEF DecodeInv, ComputesDecoded, Decoded, Decoding
<1> QED BY InvInit, InvNext, DecodeInvInit, DecodeInvNext, <1>1, PTL DEF Spec

-------------------------------------------------------------------------------
(* A packed block.  The decoder is at the start of a piece of the packing, *)
(* or at the byte of a run whose last copy is still to be stored.          *)

AtPiece ==
  /\ s \in DOMAIN input.place
  /\ b = input.place[s]

AtLastOfRun ==
  /\ s - 2 \in DOMAIN input.place \ {input.len}
  /\ Src(s - 2) = input.run
  /\ b + 1 = input.place[s + 1]

InsideRun ==
  /\ s \in DOMAIN input.place \ {input.len}
  /\ Src(s) = input.run
  /\ r > 0
  /\ input.place[s] <= b
  /\ b + r = input.place[s + 3]

PackedInv ==
  input.block # NoBlock =>
    /\ \A k \in 1..b : buffer[k] = input.block[k]
    /\ reach < input.len
    /\ pc = "loop" => AtPiece \/ AtLastOfRun
    /\ pc = "run" => InsideRun
    /\ pc = "done" => b = BlockSize

LEMMA PackedInvInit == Init => PackedInv
<1> SUFFICES ASSUME Init, input.block # NoBlock PROVE PackedInv
  BY DEF PackedInv
<1>1. Packs(input) BY PackedAssumption DEF Init
<1>2. input.len \in Nat BY InputsAssumption DEF Init
<1>3. b = 0 /\ s = 0 /\ pc = "loop" /\ reach = -1 BY DEF Init, b
<1>4. AtPiece BY <1>1, <1>3 DEF Packs, AtPiece
<1> QED BY <1>2, <1>3, <1>4 DEF PackedInv

LEMMA PieceFacts ==
  ASSUME NEW x \in Inputs, x.block # NoBlock, NEW p \in DOMAIN x.place
  PROVE  /\ p \in 0..x.len /\ x.place[p] \in 0..BlockSize
         /\ p = x.len => x.place[p] = BlockSize
         /\ p # x.len /\ At(x.mem, p) = x.run =>
              /\ At(x.mem, p + 1) > 0
              /\ At(x.mem, p + 2) # x.run
              /\ p + 3 \in DOMAIN x.place
              /\ x.place[p + 3] = x.place[p] + At(x.mem, p + 1)
              /\ \A k \in (x.place[p] + 1)..x.place[p + 3] : x.block[k] = At(x.mem, p + 2)
         /\ p # x.len /\ At(x.mem, p) # x.run =>
              /\ p + 1 \in DOMAIN x.place
              /\ x.place[p + 1] = x.place[p] + 1
              /\ x.block[x.place[p + 1]] = At(x.mem, p)
<1>1. Packs(x) BY PackedAssumption
<1>2. p \in 0..x.len /\ x.place[p] \in 0..BlockSize BY <1>1 DEF Packs
<1> QED BY <1>1, <1>2 DEF Packs

LEMMA RunPiece ==
  ASSUME NEW x \in Inputs, x.block # NoBlock, NEW p \in DOMAIN x.place,
         p # x.len, At(x.mem, p) = x.run
  PROVE  /\ At(x.mem, p + 1) > 0
         /\ At(x.mem, p + 2) # x.run
         /\ p + 3 \in DOMAIN x.place
         /\ x.place[p + 3] = x.place[p] + At(x.mem, p + 1)
         /\ \A k \in (x.place[p] + 1)..x.place[p + 3] : x.block[k] = At(x.mem, p + 2)
BY PieceFacts

\* A byte stored is the next one of the block.
LEMMA NextOfBlock ==
  ASSUME buffer \in Seq(Nat), NEW c \in Nat, buffer' = Append(buffer, c),
         input' = input, \A k \in 1..b : buffer[k] = input.block[k], input.block[b + 1] = c
  PROVE  \A k \in 1..b' : buffer'[k] = input'.block[k]
BY DEF b

LEMMA PackedInvNext == Inv /\ PackedInv /\ [Next]_vars => PackedInv'
<1> SUFFICES ASSUME Inv, PackedInv, [Next]_vars, input'.block # NoBlock PROVE PackedInv'
  BY DEF PackedInv
<1>0. /\ input \in Inputs /\ input.len \in Nat /\ b \in 0..BlockSize /\ input' = input
      /\ buffer \in Seq(Nat) /\ s \in Nat /\ r \in Int /\ reach \in Int
      /\ input.block # NoBlock
  BY InputsAssumption, BlockSizeAssumption
  DEF Inv, TypeOK, InBuffer, b, Next, vars, Literal, StartRun, CopyRun, EndRun, Return
<1>a. /\ \A k \in 1..b : buffer[k] = input.block[k]
      /\ reach < input.len
  BY <1>0 DEF PackedInv
<1>1. CASE Literal
  <2>1. /\ pc = "loop" /\ pc' = "loop" /\ s < input.len /\ b < BlockSize /\ Src(s) # input.run
        /\ buffer' = Append(buffer, Src(s)) /\ s' = s + 1 /\ reach' = Farthest(s)
    BY <1>1 DEF Literal, More
  <2>2. Src(s) \in Nat BY <1>0, <2>1, SourceByte
  <2>3. b' = b + 1 BY <1>0, <2>1, <2>2, Stored
  <2>4. reach' < input.len BY <1>0, <1>a, <2>1 DEF Farthest
  <2>5. AtPiece' /\ input.block[b + 1] = Src(s)
    <3>1. CASE AtPiece
      <4>1. /\ s + 1 \in DOMAIN input.place
            /\ input.place[s + 1] = b + 1
            /\ input.block[input.place[s + 1]] = Src(s)
        BY <1>0, <2>1, <3>1, PieceFacts DEF AtPiece, Src
      <4> QED BY <1>0, <2>1, <2>3, <4>1 DEF AtPiece
    <3>2. CASE AtLastOfRun
      <4> DEFINE p == s - 2
      <4>0. p + 3 = s + 1 /\ p + 2 = s BY <1>0
      <4>1. /\ p \in DOMAIN input.place /\ p # input.len /\ At(input.mem, p) = input.run
            /\ b + 1 = input.place[s + 1]
        BY <3>2 DEF AtLastOfRun, Src
      <4> HIDE DEF p
      <4>2. /\ At(input.mem, p + 1) > 0 /\ p \in 0..input.len
            /\ p + 3 \in DOMAIN input.place
            /\ input.place[p + 3] = input.place[p] + At(input.mem, p + 1)
            /\ input.place[p] \in Nat
            /\ \A k \in (input.place[p] + 1)..input.place[p + 3] :
                 input.block[k] = At(input.mem, p + 2)
        <5>1. p \in 0..input.len /\ input.place[p] \in 0..BlockSize BY <1>0, <4>1, PieceFacts
        <5>2. input.place[p] \in Nat BY <5>1, BlockSizeAssumption
        <5> QED BY <1>0, <4>1, <5>1, <5>2, RunPiece
      <4>3. At(input.mem, p + 1) \in Nat
        <5>1. p + 1 \in 0..(input.len + 1) BY <1>0, <4>2
        <5> QED BY <1>0, <5>1, InputFacts
      <4>4. b + 1 \in (input.place[p] + 1)..input.place[p + 3]
        BY <1>0, <4>0, <4>1, <4>2, <4>3
      <4>5. input.block[b + 1] = Src(s) BY <4>0, <4>2, <4>4 DEF Src
      <4> QED BY <1>0, <2>1, <2>3, <4>0, <4>1, <4>2, <4>5 DEF AtPiece
    <3> QED BY <1>0, <2>1, <3>1, <3>2 DEF PackedInv
  <2>6. \A k \in 1..b' : buffer'[k] = input'.block[k]
    BY <1>0, <1>a, <2>1, <2>2, <2>5, NextOfBlock
  <2> QED BY <1>0, <2>1, <2>4, <2>5, <2>6 DEF PackedInv
<1>2. CASE StartRun
  <2>1. /\ pc = "loop" /\ pc' = "run" /\ s < input.len /\ Src(s) = input.run
        /\ r' = Src(s + 1) /\ UNCHANGED <<s, buffer>> /\ reach' = Farthest(s + 1)
    BY <1>2 DEF StartRun, More
  <2>2. AtPiece
    <3>1. ASSUME AtLastOfRun PROVE FALSE
      <4> DEFINE p == s - 2
      <4>1. p \in DOMAIN input.place /\ p # input.len /\ At(input.mem, p) = input.run
        BY <3>1 DEF AtLastOfRun, Src
      <4>2. p + 2 = s BY <1>0
      <4> HIDE DEF p
      <4>3. At(input.mem, p + 2) # input.run BY <1>0, <4>1, PieceFacts
      <4> QED BY <2>1, <4>2, <4>3 DEF Src
    <3> QED BY <1>0, <2>1, <3>1 DEF PackedInv
  <2>3. /\ s \in DOMAIN input.place /\ b = input.place[s] /\ s # input.len
        /\ Src(s + 1) > 0 /\ s + 3 \in DOMAIN input.place
        /\ input.place[s + 3] = input.place[s] + Src(s + 1)
    BY <1>0, <2>1, <2>2, PieceFacts DEF AtPiece, Src
  <2>4. s + 3 <= input.len BY <1>0, <2>3, PieceFacts
  <2>5. InsideRun'
    BY <1>0, <2>1, <2>3 DEF InsideRun, Src, b
  <2>6. reach' < input.len BY <1>0, <1>a, <2>1, <2>4 DEF Farthest
  <2>7. \A k \in 1..b' : buffer'[k] = input'.block[k] BY <1>0, <1>a, <2>1 DEF b
  <2> QED BY <2>1, <1>0, <2>5, <2>6, <2>7 DEF PackedInv
<1>3. CASE CopyRun
  <2>1. /\ pc = "run" /\ pc' = "run" /\ r - 1 > 0 /\ b < BlockSize /\ r' = r - 1 /\ s' = s
        /\ buffer' = Append(buffer, Src(s + 2)) /\ reach' = Farthest(s + 2)
    BY <1>3 DEF CopyRun, InRun
  <2>2. InsideRun BY <1>0, <2>1 DEF PackedInv
  <2>3. /\ s + 3 \in DOMAIN input.place
        /\ input.place[s] \in Nat
        /\ \A k \in (input.place[s] + 1)..input.place[s + 3] : input.block[k] = Src(s + 2)
    <3>1. s \in DOMAIN input.place /\ s # input.len /\ At(input.mem, s) = input.run
      BY <2>2 DEF InsideRun, Src
    <3>2. input.place[s] \in 0..BlockSize BY <1>0, <3>1, PieceFacts
    <3>3. input.place[s] \in Nat BY <3>2, BlockSizeAssumption
    <3> QED BY <1>0, <3>1, <3>3, RunPiece DEF Src
  <2>4. s + 3 <= input.len BY <1>0, <2>3, PieceFacts
  <2>5. Src(s + 2) \in Nat
    <3>1. s + 2 \in Nat /\ s + 2 <= input.len + 1 BY <1>0, <2>4
    <3> QED BY <1>0, <3>1, SourceByte
  <2>6. b' = b + 1 BY <1>0, <2>1, <2>5, Stored
  <2>7. input.block[b + 1] = Src(s + 2)
    <3>1. b + 1 \in (input.place[s] + 1)..input.place[s + 3]
      BY <1>0, <2>1, <2>2, <2>3 DEF InsideRun
    <3> QED BY <2>3, <3>1
  <2>8. \A k \in 1..b' : buffer'[k] = input'.block[k]
    BY <1>0, <1>a, <2>1, <2>5, <2>7, NextOfBlock
  <2>9. InsideRun'
    <3>1. b' + r' = b + r /\ r' > 0 /\ input.place[s] <= b' BY <1>0, <2>1, <2>2, <2>3, <2>6 DEF InsideRun
    <3> QED BY <1>0, <2>1, <2>2, <3>1 DEF InsideRun, Src
  <2>10. reach' < input.len BY <1>0, <1>a, <2>1, <2>4 DEF Farthest
  <2> QED BY <1>0, <2>1, <2>8, <2>9, <2>10 DEF PackedInv
<1>4. CASE EndRun
  <2>1. /\ pc = "run" /\ pc' = "loop" /\ ~(r - 1 > 0 /\ b < BlockSize) /\ s' = s + 2
        /\ UNCHANGED <<buffer, reach>>
    BY <1>4 DEF EndRun, InRun, AfterRun
  <2>2. InsideRun BY <1>0, <2>1 DEF PackedInv
  <2>3. s + 3 \in DOMAIN input.place BY <1>0, <2>2, PieceFacts DEF InsideRun, Src
  <2>4. input.place[s + 3] <= BlockSize BY <1>0, <2>3, PieceFacts
  <2>5. r = 1 BY <1>0, <2>1, <2>2, <2>4, BlockSizeAssumption DEF InsideRun
  <2>6. s' - 2 = s /\ s' + 1 = s + 3 /\ b' = b BY <1>0, <2>1 DEF b
  <2>7. AtLastOfRun' BY <1>0, <2>2, <2>5, <2>6 DEF AtLastOfRun, InsideRun, Src
  <2>8. \A k \in 1..b' : buffer'[k] = input'.block[k] BY <1>0, <1>a, <2>1 DEF b
  <2> QED BY <1>0, <1>a, <2>1, <2>7, <2>8 DEF PackedInv
<1>5. CASE Return
  <2>1. /\ pc = "loop" /\ pc' = "done" /\ ~(s < input.len /\ b < BlockSize)
        /\ UNCHANGED <<s, buffer, reach>>
    BY <1>5 DEF Return, More
  <2>2. b = BlockSize
    <3>1. CASE AtPiece
      <4>1. s \in 0..input.len /\ (s = input.len => b = BlockSize)
        BY <1>0, <3>1, PieceFacts DEF AtPiece
      <4> QED BY <1>0, <2>1, <4>1, BlockSizeAssumption
    <3>2. CASE AtLastOfRun
      <4> DEFINE p == s - 2
      <4>1. p \in DOMAIN input.place /\ p # input.len /\ At(input.mem, p) = input.run
        BY <3>2 DEF AtLastOfRun, Src
      <4>2. p + 3 = s + 1 BY <1>0
      <4> HIDE DEF p
      <4>3. s + 1 \in DOMAIN input.place BY <1>0, <4>1, <4>2, PieceFacts
      <4>4. s + 1 <= input.len /\ input.place[s + 1] <= BlockSize BY <1>0, <4>3, PieceFacts
      <4> QED BY <1>0, <2>1, <3>2, <4>4, BlockSizeAssumption DEF AtLastOfRun
    <3> QED BY <1>0, <2>1, <3>1, <3>2 DEF PackedInv
  <2> QED BY <1>0, <1>a, <2>1, <2>2 DEF PackedInv, b
<1>6. CASE UNCHANGED vars
  BY <1>6 DEF vars, PackedInv, AtPiece, AtLastOfRun, InsideRun, Src, At, b
<1> QED BY <1>1, <1>2, <1>3, <1>4, <1>5, <1>6 DEF Next

\* What a packer made of a block the decoder makes the block again, and it
\* reads no byte past the packed ones.
THEOREM DecodesPackings == Spec => []RoundTrip
<1>1. Inv /\ PackedInv => RoundTrip
  <2> SUFFICES ASSUME Inv, PackedInv, pc = "done", input.block # NoBlock
               PROVE  dest = input.block /\ reach < input.len
    BY DEF RoundTrip
  <2>1. b = BlockSize /\ reach < input.len /\ \A k \in 1..b : buffer[k] = input.block[k]
    BY DEF PackedInv
  <2>2. dest = buffer BY <2>1 DEF Inv, Outcome
  <2>3. input.block \in Seq(Nat) /\ Len(input.block) = BlockSize
    BY PackedAssumption DEF Inv, TypeOK, Packs
  <2>4. buffer \in Seq(Nat) BY DEF Inv, TypeOK
  <2>5. buffer = input.block
    BY <2>1, <2>3, <2>4, SeqEqual DEF b
  <2> QED BY <2>1, <2>2, <2>5
<1> QED BY InvInit, InvNext, PackedInvInit, PackedInvNext, <1>1, PTL DEF Spec

===============================================================================
