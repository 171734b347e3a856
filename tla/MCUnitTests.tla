----------------------------- MODULE MCUnitTests -----------------------------
(***************************************************************************)
(* Suites of up to one module more than there is room for, with modules    *)
(* that have all callbacks or none, and tests that keep going or do not.   *)
(***************************************************************************)
EXTENDS UnitTests

CONSTANTS null, nan, nul

Plain(s) == [kind |-> "plain", name |-> s, num |-> nan]
Short(c) == [kind |-> "short", name |-> c, num |-> nan]

MCEmpty == Plain("")

First == Plain("first")
Second == Plain("second")

MCTables == {unit_cmdline_options}

MCWords == {MCEmpty, First, Second, Plain("none"), Short("a"), Short("r"), Short("m"), Short("t")}

Mod(name, callbacks, tests_) ==
  [name |-> name, setup |-> callbacks, teardown |-> callbacks, tests |-> tests_]

Tests == {<<>>, <<FALSE>>, <<TRUE, FALSE>>, <<FALSE, TRUE>>}

MCSuites ==
  {<<>>}
  \cup {<<Mod(First, a, x)>> : a \in BOOLEAN, x \in Tests}
  \cup {<<Mod(First, a, x), Mod(Second, b, y)>> :
          a \in BOOLEAN, b \in BOOLEAN, x \in Tests, y \in Tests}
  \cup {<<Mod(First, FALSE, <<TRUE>>), Mod(First, TRUE, <<FALSE>>)>>,
        <<Mod(First, TRUE, <<>>), Mod(Second, TRUE, <<>>), Mod(First, TRUE, <<>>)>>}

\* A test that counts one, and one that counts several.
MCCounts == {[total |-> 1, passed |-> 1], [total |-> 3, passed |-> 2]}
===============================================================================
