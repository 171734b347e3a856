--------------------------- MODULE FreadAllocProofs ---------------------------
(***************************************************************************)
(* Proofs about zcc_fread_alloc, for every block size and file: reads have *)
(* room, the result is exact, nothing leaks.                               *)
(***************************************************************************)
EXTENDS FreadAlloc, TLAPS

\* Until the return nothing has been handed out, and no error noted.
Underway ==
  pc \in {"open", "read", "check"}
    => dest = "NULL" /\ errno = "OK" /\ buffer # "freed"

\* The counters in the loop: the stream has delivered what was counted,
\* and the buffer is one block ahead.
Counters ==
  /\ pc = "open" => bufread = 0 /\ pos = 0 /\ bufsize = BlockSize /\ buffer = "none"
  /\ pc \in {"read", "check"} => bufsize = bufread + BlockSize /\ buffer \in {"live", "NULL"}
  /\ pc = "read" => bufread = pos
  /\ pc = "check" => /\ bufread + got = pos
                     /\ buffer = "live"
                     /\ got < BlockSize /\ eof => pos = fileSize
  /\ pc \in {"read", "check"} /\ buffer = "live" => capacity = bufsize
  /\ pc = "open" => fp = "none"

Inv == TypeOK /\ Underway /\ Counters /\ ResultExact /\ NothingLeaks

\* A read stays within the file when it takes no more than is left of it.
LEMMA ReadStaysInFile ==
  ASSUME NEW at \in Nat, NEW n \in Nat, NEW g \in Nat, g <= n - at
  PROVE  at + g \in 0..n
OBVIOUS

LEMMA InvInit == Init => Inv
<1> SUFFICES ASSUME Init PROVE Inv
  OBVIOUS
<1>1. BlockSize \in Nat /\ fileSize \in Nat /\ 0 \in 0..fileSize /\ 0 \in 0..BlockSize
  BY BlockSizeAssumption, MaxFileAssumption DEF Init
<1>2. eof \in BOOLEAN BY DEF Init
<1>3. /\ fileSize \in 0..MaxFile /\ pos \in 0..fileSize /\ got \in 0..BlockSize
      /\ capacity \in Nat /\ bufsize \in Nat /\ bufread \in Nat /\ ret \in Int
  BY <1>1 DEF Init
<1>4. TypeOK BY <1>2, <1>3 DEF Init, TypeOK
<1> QED BY <1>1, <1>4 DEF Init, Inv, Underway, Counters, ResultExact, NothingLeaks

LEMMA InvNext == Inv /\ [Next]_vars => Inv'
<1> SUFFICES ASSUME Inv, [Next]_vars PROVE Inv'
  OBVIOUS
<1> USE DEF Inv
<1>0. BlockSize \in Nat /\ BlockSize > 0 BY BlockSizeAssumption
<1>1. CASE OpenFails
  BY <1>1 DEF OpenFails, TypeOK, Underway, Counters, ResultExact, NothingLeaks
<1>2. CASE Open
  BY <1>0, <1>2 DEF Open, TypeOK, Underway, Counters, ResultExact, NothingLeaks
<1>3. CASE Fread
  <2>1. /\ pos \in Nat /\ fileSize \in Nat /\ pos <= fileSize /\ bufread = pos
        /\ bufsize = bufread + BlockSize /\ capacity = bufsize
    BY <1>3 DEF Fread, TypeOK, Counters
  <2>2. got' \in 0..BlockSize /\ got' <= fileSize - pos /\ pos' = pos + got'
    BY <1>0, <1>3, <2>1 DEF Fread
  <2>3. got' < BlockSize /\ eof' => pos' = fileSize
    BY <1>0, <1>3, <2>1, <2>2 DEF Fread
  <2>4. /\ pc' = "check" /\ buffer = "live" /\ eof' \in BOOLEAN
        /\ UNCHANGED <<fileSize, fp, buffer, capacity, bufsize, bufread, dest, errno, ret>>
    BY <1>3 DEF Fread
  <2>5. pos' \in 0..fileSize
    <3>1. got' \in Nat /\ got' <= fileSize - pos BY <1>0, <2>2
    <3>2. pos + got' \in 0..fileSize BY <2>1, <3>1, ReadStaysInFile
    <3> QED BY <2>2, <3>2
  <2>6. TypeOK' BY <2>2, <2>4, <2>5 DEF TypeOK
  <2>7. Underway' BY <1>3, <2>4 DEF Underway, Fread
  <2>8. Counters' BY <1>0, <2>1, <2>2, <2>3, <2>4 DEF Counters
  <2> QED BY <2>4, <2>6, <2>7, <2>8 DEF ResultExact, NothingLeaks
<1>4. CASE FullBlock
  <2>1. /\ bufread + got = pos /\ bufsize = bufread + BlockSize
        /\ bufread \in Nat /\ pos \in Nat
    BY <1>4 DEF FullBlock, TypeOK, Counters
  <2>2. /\ pc = "check" /\ got = BlockSize
        /\ bufsize' = bufsize + BlockSize /\ bufread' = bufread + BlockSize
        /\ pc' = "read"
        /\ \/ buffer' = "live" /\ capacity' = bufsize'
           \/ buffer' = "NULL" /\ capacity' = 0
        /\ UNCHANGED <<fileSize, fp, pos, got, eof, dest, errno, ret>>
    BY <1>4 DEF FullBlock, Grow
  <2>3. TypeOK' BY <2>1, <2>2 DEF TypeOK
  <2>4. Underway' BY <2>2 DEF Underway
  <2>5. Counters' BY <2>1, <2>2 DEF Counters
  <2> QED BY <2>2, <2>3, <2>4, <2>5 DEF ResultExact, NothingLeaks
<1>5. CASE EndOfFile
  <2>1. /\ bufread + got = pos /\ pos = fileSize /\ buffer = "live"
        /\ bufread \in Nat /\ got \in Nat /\ dest = "NULL" /\ errno = "OK"
    BY <1>5 DEF EndOfFile, TypeOK, Counters, Underway
  <2>2. bufread' = fileSize /\ pos' = pos /\ fileSize' = fileSize
    BY <1>5, <2>1 DEF EndOfFile
  <2> QED
    BY <1>5, <2>1, <2>2 DEF EndOfFile, IsEmpty, TypeOK, Underway, Counters, ResultExact,
       NothingLeaks
<1>6. CASE FailedRead
  BY <1>6 DEF FailedRead, BufferOnFailure, TypeOK, Underway, Counters, ResultExact, NothingLeaks
<1>7. CASE UNCHANGED vars
  BY <1>7 DEF vars, TypeOK, Underway, Counters, ResultExact, NothingLeaks
<1> QED BY <1>1, <1>2, <1>3, <1>4, <1>5, <1>6, <1>7 DEF Next

\* Every fread of a whole block has a whole block of memory to go to.
THEOREM RoomForEveryBlock == Spec => []RoomForBlock
<1>1. Inv => RoomForBlock
  BY BlockSizeAssumption DEF Inv, TypeOK, Counters, RoomForBlock
<1> QED BY InvInit, InvNext, <1>1, PTL DEF Spec

\* A call that returns reports the size of the file and all of its bytes, or
\* -1 with an error code.
THEOREM ResultsExact == Spec => [](TypeOK /\ ResultExact)
<1>1. Inv => TypeOK /\ ResultExact BY DEF Inv
<1> QED BY InvInit, InvNext, <1>1, PTL DEF Spec

\* And it holds nothing the caller cannot free.
THEOREM LeaksNothing == Spec => []NothingLeaks
<1>1. Inv => NothingLeaks BY DEF Inv
<1> QED BY InvInit, InvNext, <1>1, PTL DEF Spec

===============================================================================
