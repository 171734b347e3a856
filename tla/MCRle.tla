-------------------------------- MODULE MCRle --------------------------------
(***************************************************************************)
(* Calls of zcc_rle_decode for TLC, with blocks of BlockSize bytes: every  *)
(* packing of a block as the format describes it, and arbitrary bytes.     *)
(***************************************************************************)
EXTENDS Rle, FiniteSets

CONSTANTS
  Rep,        \* the run byte
  Plain,      \* bytes other than Rep
  Junk,       \* bytes in arbitrary packed data and after packed data
  MaxLen      \* packed length of arbitrary data

\* A packed block is a sequence of items: a byte, or a run of n bytes.
Items == [n : {0}, byte : Plain] \cup [n : 1..BlockSize, byte : Plain]

RECURSIVE Pack(_), Expand(_), ItemsFor(_)
Pack(items) ==
  IF items = <<>> THEN <<>>
  ELSE LET x == Head(items)
       IN  (IF x.n = 0 THEN <<x.byte>> ELSE <<Rep, x.n, x.byte>>) \o Pack(Tail(items))

Expand(items) ==
  IF items = <<>> THEN <<>>
  ELSE LET x == Head(items)
       IN  (IF x.n = 0 THEN <<x.byte>> ELSE [i \in 1..x.n |-> x.byte]) \o Expand(Tail(items))

\* The sequences of items that expand to n bytes.
ItemsFor(n) ==
  IF n = 0 THEN {<<>>}
  ELSE UNION {{<<x>> \o rest : rest \in ItemsFor(n - (IF x.n = 0 THEN 1 ELSE x.n))} :
                 x \in {x \in Items : x.n <= n}}

PlaceOf(items) ==
  LET part(k) == SubSeq(items, 1, k)
      start(k) == Len(Pack(part(k)))
  IN  [p \in {start(k) : k \in 0..Len(items)} |->
         Len(Expand(part(CHOOSE k \in 0..Len(items) : start(k) = p)))]

PackedInputs ==
  {[mem |-> Pack(items) \o <<junk, junk, junk>>, run |-> Rep,
    len |-> Len(Pack(items)), block |-> Expand(items), place |-> PlaceOf(items)] :
     items \in ItemsFor(BlockSize), junk \in Junk}

ArbitraryInputs ==
  UNION {{[mem |-> m, run |-> Rep, len |-> n, block |-> NoBlock, place |-> <<>>] :
            m \in [1..(n + 3) -> Junk]} : n \in 0..MaxLen}

MCInputs == PackedInputs \cup ArbitraryInputs
===============================================================================
