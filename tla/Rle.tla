--------------------------------- MODULE Rle ---------------------------------
(***************************************************************************)
(* zcc_rle_decode (rle.c), loop by loop.                                   *)
(*                                                                         *)
(* The input is chosen at the start: the memory from the first packed byte *)
(* on (what follows the packed bytes is whatever lies there), the run      *)
(* byte, the packed length, and the block that was packed with the place   *)
(* of each piece, or no block when the bytes are no packing of one.        *)
(***************************************************************************)
EXTENDS RleCodec

CONSTANTS
  Inputs,     \* the calls: [mem, run, len, block, place]
  NoBlock     \* no block

ASSUME BlockSizeAssumption == BlockSize \in Nat \ {0}

\* The loop looks at most two bytes past the packed ones, and those are
\* memory; a count byte is a number.
ASSUME InputsAssumption ==
  \A x \in Inputs : /\ x.len \in Nat
                    /\ x.mem \in Seq(Nat)
                    /\ x.len + 2 <= Len(x.mem)

\* A packed block as doc/reference/formats/zip_disk.txt describes it: bytes
\* that stand for themselves, and runs, the run byte, a count and the byte that
\* stands there so often.  place tells for the index each of these starts at,
\* and for the end, how many bytes of the block lie before it.
Packs(x) ==
  /\ x.block \in Seq(Nat) /\ Len(x.block) = BlockSize
  /\ x.place \in [DOMAIN x.place -> 0..BlockSize]
  /\ {0} \subseteq DOMAIN x.place /\ DOMAIN x.place \subseteq 0..x.len
  /\ x.place[0] = 0
  /\ x.len \in DOMAIN x.place => x.place[x.len] = BlockSize
  /\ \A p \in DOMAIN x.place \ {x.len} :
       IF At(x.mem, p) = x.run
       THEN /\ At(x.mem, p + 1) > 0
            /\ At(x.mem, p + 2) # x.run
            /\ p + 3 \in DOMAIN x.place
            /\ x.place[p + 3] = x.place[p] + At(x.mem, p + 1)
            /\ \A k \in (x.place[p] + 1)..x.place[p + 3] : x.block[k] = At(x.mem, p + 2)
       ELSE /\ p + 1 \in DOMAIN x.place
            /\ x.place[p + 1] = x.place[p] + 1
            /\ x.block[x.place[p + 1]] = At(x.mem, p)

ASSUME PackedAssumption == \A x \in Inputs : x.block # NoBlock => Packs(x)

VARIABLES
  input,      \* the call
  pc,         \* "loop", "run" (in the inner loop), "done"
  s,          \* source index
  r,          \* what is left of the run
  buffer,     \* the bytes stored; b of the code is its length
  dest,       \* the caller's block: NoBlock until the copy
  result,     \* the returned size, -1 before the return
  errno,      \* zcc_errno
  reach       \* the highest source index read, -1 before the first

vars == <<input, pc, s, r, buffer, dest, result, errno, reach>>

b == Len(buffer)

Src(i) == At(input.mem, i)

Farthest(i) == IF i > reach THEN i ELSE reach

Init ==
  /\ input \in Inputs
  /\ pc = "loop"
  /\ s = 0
  /\ r = 0
  /\ buffer = <<>>
  /\ dest = NoBlock
  /\ result = -1
  /\ errno = "OK"
  /\ reach = -1

MorePast == s <= input.len /\ b < BlockSize
More == s < input.len /\ b < BlockSize

Literal ==
  /\ pc = "loop"
  /\ More
  /\ Src(s) # input.run
  /\ buffer' = Append(buffer, Src(s))
  /\ s' = s + 1
  /\ reach' = Farthest(s)
  /\ UNCHANGED <<input, pc, r, dest, result, errno>>

StartRun ==
  /\ pc = "loop"
  /\ More
  /\ Src(s) = input.run
  /\ r' = Src(s + 1)
  /\ pc' = "run"
  /\ reach' = Farthest(s + 1)
  /\ UNCHANGED <<input, s, buffer, dest, result, errno>>

\* The condition of the inner loop, which decrements r first.
InRunUnbounded == r - 1 > 0
InRun == r - 1 > 0 /\ b < BlockSize

CopyRun ==
  /\ pc = "run"
  /\ InRun
  /\ r' = r - 1
  /\ buffer' = Append(buffer, Src(s + 2))
  /\ reach' = Farthest(s + 2)
  /\ UNCHANGED <<input, pc, s, dest, result, errno>>

\* Where the outer loop goes on after a run: at the byte of the run, which is
\* stored once more as a literal.
AfterRunSkip(i) == i + 3
AfterRunStay(i) == i
AfterRun(i) == i + 2

EndRun ==
  /\ pc = "run"
  /\ ~InRun
  /\ r' = r - 1
  /\ s' = AfterRun(s)
  /\ pc' = "loop"
  /\ UNCHANGED <<input, buffer, dest, result, errno, reach>>

WholeOrShort(n) == TRUE
Whole(n) == n = BlockSize

Return ==
  /\ pc = "loop"
  /\ ~More
  /\ pc' = "done"
  /\ result' = b
  /\ IF Whole(b)
     THEN dest' = buffer /\ errno' = errno
     ELSE dest' = dest /\ errno' = "RLE"
  /\ UNCHANGED <<input, s, r, buffer, reach>>

Next == Literal \/ StartRun \/ CopyRun \/ EndRun \/ Return

Spec == Init /\ [][Next]_vars

\* Nothing the decoder does can block.
FairSpec == Spec /\ WF_vars(Next)

-------------------------------------------------------------------------------
(* Properties.                                                             *)

TypeOK ==
  /\ input \in Inputs
  /\ pc \in {"loop", "run", "done"}
  /\ s \in Nat /\ r \in Int /\ reach \in Int
  /\ buffer \in Seq(Nat)
  /\ dest = NoBlock \/ dest = buffer
  /\ result \in {-1, b}
  /\ errno \in {"OK", "RLE"}

\* buffer is an array of 256 bytes: a run or a literal never goes past it,
\* whatever the packed bytes say.
InBuffer == b <= BlockSize

\* The packed length does not keep the reads inside the packed bytes: the
\* count and the byte of a run may lie one and two past a run byte that is
\* the last one, and never farther.
ReadsNear == reach <= input.len + 1

\* The caller's block is a whole block or untouched, the error code is set
\* exactly when it is untouched, and the size returned tells which it is.
AllOrNothing ==
  pc = "done" => /\ dest # NoBlock <=> result = BlockSize
                 /\ errno = "RLE" <=> result # BlockSize
                 /\ dest # NoBlock => Len(dest) = BlockSize

\* A packed block decodes to the block, without reading past its packed
\* bytes: doc/reference/formats/zip_disk.txt has a run stand for as many
\* bytes as its count says.
RoundTrip ==
  pc = "done" /\ input.block # NoBlock
    => dest = input.block /\ reach < input.len

\* The loops compute the function that the models of the callers use.
ComputesDecoded == pc = "done" => buffer = Decoded(input.mem, input.run, input.len)

\* The decoder returns on any bytes.
Terminates == <>(pc = "done")
===============================================================================
