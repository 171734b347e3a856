------------------------------- MODULE Strlist -------------------------------
(***************************************************************************)
(* The string list of strlist.c: an array that doubles when it is full.    *)
(* A list is [items, items_max]; items_used is the length of items.        *)
(***************************************************************************)
EXTENDS Integers, Sequences

CONSTANTS
  STRLIST_INITIAL_SIZE,  \* 4 in the code
  NULL,                  \* the null pointer
  EmptyString            \* the string ""

ASSUME StrlistAssumption == STRLIST_INITIAL_SIZE \in Nat \ {0}

strlist_init == [items |-> <<>>, items_max |-> STRLIST_INITIAL_SIZE]

\* The size of an array of n elements before the element n + 1 goes in: the
\* string list and the option list grow alike.
GrownLate(n, max) == IF n > max THEN 2 * max ELSE max
Grown(n, max) == IF n = max THEN 2 * max ELSE max

strlist_addEmpty(list, s) ==
  IF s = NULL THEN list
  ELSE [items |-> Append(list.items, s),
        items_max |-> Grown(Len(list.items), list.items_max)]

strlist_add(list, s) ==
  IF s \in {NULL, EmptyString} THEN list
  ELSE [items |-> Append(list.items, s),
        items_max |-> Grown(Len(list.items), list.items_max)]

strlist_getNext(list, index) ==
  IF index + 1 \in 0..(Len(list.items) - 1) THEN list.items[index + 2] ELSE NULL

\* Indices are those of C.
strlist_get(list, index) ==
  IF index \in 0..(Len(list.items) - 1) THEN list.items[index + 1] ELSE NULL

StringLists(S) == [items : Seq(S), items_max : Nat]

HasRoom(list) == Len(list.items) <= list.items_max
===============================================================================
