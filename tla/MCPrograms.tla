----------------------------- MODULE MCPrograms -----------------------------
(***************************************************************************)
(* Command lines for both programs: the table of zipcode-conv with its     *)
(* commands, that of the unit tests, and one with an option of every type  *)
(* and of none; names long enough to convert and too short.                *)
(***************************************************************************)
EXTENDS Main

CONSTANTS null, nan, nul

Plain(s, n) == [kind |-> "plain", name |-> s, num |-> n]
Short(c) == [kind |-> "short", name |-> c, num |-> nan]
Long(s) == [kind |-> "long", name |-> s, num |-> nan]

MCEmpty == Plain("", nan)
Archive == Plain("1!a", nan)
Digit == Plain("5", 5)

Opt(s, l, type, t, f) == [short |-> s, long |-> l, type |-> type, target |-> t, factory |-> f]

AllTypes ==
  <<Opt("n", "num", "INT", "num", -1),
    Opt("r", "run-module", "STR", "run", Archive),
    Opt("t", "list", "ARR", "list", null),
    Opt("x", "illegal", "illegal", "x", 0),
    Opt("m", "late", "BOOL", "late", 0)>>

MCTables == {main_cmdline_options, unit_cmdline_options, AllTypes}

MCWords == {MCEmpty, Archive, Digit, Short("r"), Short("t"), Short("n"), Short(nul)}
             \cup {Long(s) : s \in {"help", "version", "run-module", "zipdisk-info",
                                    "zipdisk-unzip", "d64-dir"}}

MCBaseLength == [w \in MCWords \ {MCEmpty} |-> IF w = Digit THEN 1 ELSE 3]
===============================================================================
