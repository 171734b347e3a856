------------------------------- MODULE RleCodec -------------------------------
(***************************************************************************)
(* What zcc_rle_decode (rle.c) leaves in its buffer, as a function of the  *)
(* packed bytes.  mem is memory from the first packed byte on, run the     *)
(* byte that starts a run, len the number of packed bytes; At counts from  *)
(* 0 as the code does.                                                     *)
(***************************************************************************)
EXTENDS Integers, Sequences

CONSTANT BlockSize   \* 256 in the code

At(mem, i) == mem[i + 1]

\* How often the inner loop stores the byte of a run whose count byte is r,
\* with b bytes stored already: r - 1 times, the byte itself is left for the
\* outer loop to store as a literal.
Copies(r, b) == IF r < 2 THEN 0 ELSE IF r - 1 < BlockSize - b THEN r - 1 ELSE BlockSize - b

\* What the bytes from s on add to a buffer that holds b bytes, where from
\* tells it for the bytes behind them.
Step(mem, run, len, from, s, b) ==
  IF s >= len \/ b = BlockSize THEN <<>>
  ELSE IF At(mem, s) = run
  THEN LET n == Copies(At(mem, s + 1), b)
       IN  [i \in 1..n |-> At(mem, s + 2)] \o from[s + 2][b + n]
  ELSE <<At(mem, s)>> \o from[s + 1][b + 1]

DecodedFrom(mem, run, len) ==
  LET from[s \in Nat] == [b \in 0..BlockSize |-> Step(mem, run, len, from, s, b)]
  IN  from

Decoded(mem, run, len) == DecodedFrom(mem, run, len)[0][0]
===============================================================================
