------------------------------ MODULE UnitTests ------------------------------
(***************************************************************************)
(* The unit test program: main of tests/unit_tests.c over the command line *)
(* of Cmdline, and the test runner tests/unit.c.  The modules' callbacks   *)
(* are not modelled: each may succeed or fail.                             *)
(*                                                                         *)
(* A module is [name, setup, teardown, tests]: the word that names it on   *)
(* the command line, whether it has the two optional callbacks, and for    *)
(* each test whether it has keep_going.  log has what the runner did: the  *)
(* modules it said it is running, and the callbacks with their results.    *)
(***************************************************************************)
EXTENDS Cmdline, SequencesExt

CONSTANTS
  UNIT_MODULE_MAX,  \* 256 in the code
  Suites,           \* what register_modules registers: sequences of modules
  Counts            \* what a test may count: [total, passed]

ASSUME UnitTablesAssumption == Tables = {unit_cmdline_options}
ASSUME UnitModuleMaxAssumption == UNIT_MODULE_MAX \in Nat \ {0}
ASSUME SuitesAssumption ==
  Suites \subseteq Seq([name : Words, setup : BOOLEAN, teardown : BOOLEAN, tests : Seq(BOOLEAN)])
ASSUME CountsAssumption == Counts \subseteq [total : Nat, passed : Nat]

VARIABLES
  suite,
  modules,       \* the registered modules
  ustep,         \* "register", "result", "next", "setup", "test", "ended",
                 \* "exit", "crash"
  all,           \* whether all modules are run, or one by its name
  m,             \* the module that is run, from 1
  t,             \* its next test, from 1
  tests,         \* module->tests_total and tests_passed, as [total, passed]
  cummulative,   \* the counters over all modules: [modules, total, passed]
  status,        \* the exit status
  log

runVars == <<all, m, t, tests, cummulative, log>>
unitVars == <<suite, modules, ustep, status, runVars>>

UnitInit ==
  /\ Init
  /\ suite \in Suites
  /\ modules = <<>>
  /\ ustep = "register"
  /\ all = FALSE
  /\ m = 0
  /\ t = 0
  /\ tests = [total |-> 0, passed |-> 0]
  /\ cummulative = [modules |-> 0, total |-> 0, passed |-> 0]
  /\ status = "SUCCESS"
  /\ log = <<>>

Entry(kind, test, ok, n) ==
  [kind |-> kind, module |-> m, test |-> test, ok |-> ok, total |-> n.total, passed |-> n.passed]

Nothing == [total |-> 0, passed |-> 0]

-------------------------------------------------------------------------------
(* unit_module_add.                                                        *)

HasPlace == Len(modules) < UNIT_MODULE_MAX

Register ==
  /\ ustep = "register"
  /\ Len(modules) < Len(suite)
  /\ \/ /\ HasPlace
        /\ modules' = Append(modules, suite[Len(modules) + 1])
        /\ UNCHANGED <<ustep, status>>
     \/ /\ ~HasPlace
        /\ ustep' = "exit"
        /\ status' = "FAILURE"
        /\ UNCHANGED modules
  /\ UNCHANGED <<vars, suite, runVars>>

Registered ==
  /\ ustep = "register"
  /\ Len(modules) = Len(suite)
  /\ ustep' = "result"
  /\ UNCHANGED <<vars, suite, modules, status, runVars>>

ParseStep ==
  /\ ustep \notin {"register", "exit"}
  /\ cmdline_init \/ AddOption \/ OptionsAdded \/ Parse \/ cmdline_exit
  /\ UNCHANGED unitVars

-------------------------------------------------------------------------------
(* The switch of main.                                                     *)

Working(s) == pc = "call" /\ ustep = s

Given(w) == w \notin {NULL, EmptyString}

unit_module_find_by_name(w) ==
  IF \E k \in DOMAIN modules : modules[k].name = w
  THEN Min({k \in DOMAIN modules : modules[k].name = w}) ELSE 0

RunsOne == result = "OK" /\ Given(target["opt_run_module"])
RunsAll == result = "OK" /\ ~RunsOne /\ target["opt_run_all_modules"] = 1

EndWell(ok) ==
  /\ ustep' = "ended"
  /\ status' = "SUCCESS"

\* The counters are printed when a run by name fails, and changed by no one.
End(ok) ==
  /\ ustep' = "ended"
  /\ status' = IF ok THEN "SUCCESS" ELSE "FAILURE"

\* Help, an error, lists of modules or tests, or nothing at all.
RunNone ==
  /\ Working("result")
  /\ ~RunsOne /\ ~RunsAll
  /\ End(result # "ERROR")
  /\ UNCHANGED <<vars, suite, modules, runVars>>

RunOne ==
  /\ Working("result")
  /\ RunsOne
  /\ LET k == unit_module_find_by_name(target["opt_run_module"])
     IN  \/ /\ k = 0
            /\ End(FALSE)
            /\ UNCHANGED runVars
         \/ /\ k # 0
            /\ m' = k
            /\ ustep' = "setup"
            /\ UNCHANGED <<status, all, t, tests, cummulative, log>>
  /\ UNCHANGED <<vars, suite, modules>>

RunAll ==
  /\ Working("result")
  /\ RunsAll
  /\ all' = TRUE
  /\ m' = 1
  /\ ustep' = "next"
  /\ UNCHANGED <<vars, suite, modules, status, t, tests, cummulative, log>>

\* unit_module_run_all looks at the name of the module behind the last one,
\* which is a null pointer, or lies past the array when that is full.
NextModule ==
  /\ Working("next")
  /\ ustep' = IF m \in DOMAIN modules THEN "setup" ELSE "crash"
  /\ UNCHANGED <<vars, suite, modules, status, runVars>>

-------------------------------------------------------------------------------
(* unit_module_exec.                                                       *)

Module == modules[m]

\* unit_module_exec has returned ok.
ExecReturns(ok) ==
  IF all /\ ok
  THEN m' = m + 1 /\ ustep' = "next" /\ UNCHANGED status
  ELSE End(ok) /\ UNCHANGED m

CountsKept == tests
CountsReset == Nothing

\* unit_module_init.
Setup(ok) ==
  /\ Working("setup")
  /\ ~Module.setup => ok
  /\ tests' = CountsReset
  /\ log' = log \o <<Entry("module", 0, TRUE, Nothing)>>
                \o (IF Module.setup THEN <<Entry("setup", 0, ok, Nothing)>> ELSE <<>>)
  /\ \/ /\ ok
        /\ cummulative' = [cummulative EXCEPT !.modules = @ + 1]
        /\ t' = 1
        /\ ustep' = "test"
        /\ UNCHANGED <<m, status>>
     \/ /\ ~ok
        /\ ExecReturns(FALSE)
        /\ UNCHANGED <<cummulative, t>>
  /\ UNCHANGED <<vars, suite, modules, all>>

FatalAny(k, ok) == ~ok
Fatal(k, ok) == ~ok /\ ~Module.tests[k]

\* The next test.  A fatal failure leaves at once: no teardown, and what the
\* module has counted does not go into the counters over all.
Test(ok, n) ==
  /\ Working("test")
  /\ t <= Len(Module.tests)
  /\ log' = Append(log, Entry("test", t, ok, n))
  /\ tests' = [total |-> tests.total + n.total, passed |-> tests.passed + n.passed]
  /\ \/ /\ Fatal(t, ok)
        /\ ExecReturns(FALSE)
        /\ UNCHANGED t
     \/ /\ ~Fatal(t, ok)
        /\ t' = t + 1
        /\ UNCHANGED <<m, ustep, status>>
  /\ UNCHANGED <<vars, suite, modules, all, cummulative>>

\* Behind the last test; unit_module_exit.
Teardown(ok) ==
  /\ Working("test")
  /\ t > Len(Module.tests)
  /\ ~Module.teardown => ok
  /\ cummulative' = [cummulative EXCEPT !.total = @ + tests.total,
                                        !.passed = @ + tests.passed]
  /\ log' = log \o (IF Module.teardown THEN <<Entry("teardown", 0, ok, Nothing)>> ELSE <<>>)
  /\ ExecReturns(ok)
  /\ UNCHANGED <<vars, suite, modules, all, t, tests>>

Leave ==
  /\ Working("ended")
  /\ Call
  /\ UNCHANGED unitVars

UnitNext ==
  \/ Register \/ Registered \/ ParseStep
  \/ RunNone \/ RunOne \/ RunAll \/ NextModule
  \/ \E ok \in BOOLEAN : Setup(ok) \/ Teardown(ok) \/ \E n \in Counts : Test(ok, n)
  \/ Leave

UnitSpec == UnitInit /\ [][UnitNext]_<<vars, unitVars>>

\* The program waits for nobody, and every callback returns.
FairUnitSpec == UnitSpec /\ WF_<<vars, unitVars>>(UnitNext)
-------------------------------------------------------------------------------
(* Properties.                                                             *)

\* What running a module is to do, and a run of the program.
Script(k) ==
  <<<<"module", k, 0>>>>
    \o (IF modules[k].setup THEN <<<<"setup", k, 0>>>> ELSE <<>>)
    \o [n \in DOMAIN modules[k].tests |-> <<"test", k, n>>]
    \o (IF modules[k].teardown THEN <<<<"teardown", k, 0>>>> ELSE <<>>)

Named == {k \in DOMAIN modules : modules[k].name = target["opt_run_module"]}

WholeScript ==
  IF RunsAll THEN FlattenSeq([k \in DOMAIN modules |-> Script(k)])
  ELSE IF RunsOne /\ Named # {} THEN Script(Min(Named)) ELSE <<>>

Done == [k \in DOMAIN log |-> <<log[k].kind, log[k].module, log[k].test>>]

\* What ends a run: all but a test that failed and has keep_going.
Ends(e) == ~e.ok /\ (e.kind = "test" => ~modules[e.module].tests[e.test])

\* The callbacks are called in the order of the modules and of their tests:
\* setup before the tests, teardown behind them and before the next module,
\* each once.  The run stops at what fails fatally, and nowhere else; so only
\* a failed setup and a fatal test leave a module without its teardown.
RunsInOrder ==
  /\ IsPrefix(Done, WholeScript)
  /\ \A k \in 1..(Len(log) - 1) : ~Ends(log[k])
  /\ ustep \in {"ended", "crash"} /\ Done # WholeScript => Ends(Last(log))

\* A module the run has left at a test.
CutShort(k) == \E n \in DOMAIN log : log[n].kind = "test" /\ log[n].module = k /\ Ends(log[n])

\* The counters over all modules, when one has been run: every module whose
\* setup went well, and what the tests of those that were not cut short have
\* counted, each once, whatever the module has counted before.
CountsExact ==
  ustep \in {"next", "ended", "crash"} =>
    LET began == {k \in DOMAIN log : log[k].kind = "module"}
        refused == {k \in DOMAIN log : log[k].kind = "setup" /\ ~log[k].ok}
        counted == {k \in DOMAIN log : log[k].kind = "test" /\ ~CutShort(log[k].module)}
    IN  /\ cummulative.modules = Cardinality(began) - Cardinality(refused)
        /\ cummulative.total = MapThenSumSet(LAMBDA k : log[k].total, counted)
        /\ cummulative.passed = MapThenSumSet(LAMBDA k : log[k].passed, counted)

\* The exit status is a failure where the command line is wrong, the module is
\* not there, or its run was ended by what failed: not for a test that failed
\* and lets the others go on.
VerdictExact ==
  pc = "done" =>
    (status = "FAILURE" <=> \/ result = "ERROR"
                            \/ RunsOne /\ Named = {}
                            \/ \E k \in DOMAIN log : Ends(log[k]))

\* Whatever the callbacks return, the program comes to its end, to that in
\* unit_module_add, or to the crash behind the last module.
UnitEnds == <>(pc = "done" \/ ustep \in {"exit", "crash"})

-------------------------------------------------------------------------------
(* What the comments of unit.c say and the code does not do.               *)

\* unit.c:291-293: unit_module_run_all runs "all units in all modules" and
\* returns a "boolean".
RunAllReturns == ustep # "crash"
===============================================================================
