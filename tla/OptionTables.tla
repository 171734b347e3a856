----------------------------- MODULE OptionTables -----------------------------
(***************************************************************************)
(* The options of both programs, in the order of their tables.             *)
(***************************************************************************)
EXTENDS Strlist

CONSTANT NoShort   \* the character 0

Switch(s, l, t) ==
  [short |-> s, long |-> l, type |-> "BOOL", target |-> t, factory |-> 0]
Text(s, l, t) ==
  [short |-> s, long |-> l, type |-> "STR", target |-> t, factory |-> NULL]

main_cmdline_options ==
  <<Switch(NoShort, "zipdisk-info", "opt_zipdisk_info"),
    Switch(NoShort, "verbose", "opt_verbose"),
    Switch(NoShort, "zipdisk-unzip", "opt_zipdisk_unzip"),
    Switch(NoShort, "d64-dir", "opt_d64_dir")>>

unit_cmdline_options ==
  <<Switch("m", "list-modules", "opt_list_modules"),
    Text("t", "list-tests", "opt_list_tests"),
    Switch("a", "run-all-modules", "opt_run_all_modules"),
    Text("r", "run-module", "opt_run_module")>>
===============================================================================
