-------------------------------- MODULE Petasc --------------------------------
(***************************************************************************)
(* PETSCII to ASCII (petasc.c), as the listing of a directory uses it.     *)
(***************************************************************************)
EXTENDS Integers, Sequences, FiniteSetsExt

\* Row $c0 of the table, which is one entry short: $dc is left out, every code
\* behind it has the entry of its neighbour, and the last one the zero that C
\* puts where nothing is given.
RowsFromC0NoBacktick(p) ==
  CASE p \in 192..217 -> p - 127
    [] p \in 218..221 -> p + 1
    [] p \in 222..254 -> p - 62
    [] p = 255 -> 0

RowsFromC0(p) ==
  CASE p = 192 -> 96
    [] p \in 193..218 -> p - 128
    [] p = 219 -> p
    [] p \in 220..222 -> p + 1
    [] p \in 223..254 -> p - 63
    [] p = 255 -> 0

zcc_pet_to_asc(p) ==
  CASE p = 3 -> 27
    [] p \in {8, 9} -> p + 12
    [] p = 20 -> 8
    [] p \in 65..90 -> p + 32
    [] p \in 96..127 -> p + 96
    [] p = 141 -> 13
    [] p = 160 -> 32
    [] p >= 192 -> RowsFromC0(p)
    [] OTHER -> p

Underscore == 95

\* The loop stops at a zero in pet, of which n bytes are looked at.
ZeroAt(pet, n) == Min({k \in 1..n : pet[k] = 0} \cup {n + 1})

zcc_pet_to_asc_str(pet, n) ==
  [k \in 1..(ZeroAt(pet, n) - 1) |->
     LET b == zcc_pet_to_asc(pet[k]) IN IF b < 128 THEN b ELSE Underscore]

\* What printf prints of it: the zero behind the text, or one in the text, is
\* the end of the string.
CString(asc) ==
  SubSeq(asc, 1, Min({k \in DOMAIN asc : asc[k] = 0} \cup {Len(asc) + 1}) - 1)
===============================================================================
