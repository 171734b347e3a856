--------------------------------- MODULE Main ---------------------------------
(***************************************************************************)
(* The main function of zipcode-conv and its commands, main.c, over the    *)
(* command line of Cmdline.  The commands' work on files is in Unzip and   *)
(* D64Dir; here it ends well or not.  With another table of options the    *)
(* parser works for another program, of which no more is said here.        *)
(***************************************************************************)
EXTENDS Cmdline

CONSTANTS
  BaseLength   \* the length of the base name of each word

ASSUME MainTablesAssumption == main_cmdline_options \in Tables
ASSUME BaseLengthAssumption == BaseLength \in [Strings -> Nat]

VARIABLES
  step,      \* in the work of the program: "result", "command", "read",
             \* "unzip", "ended", "crash"
  command,   \* the command that runs
  infile,    \* the file it reads, or NULL
  outfile,   \* the file it writes, [word, made], or NULL
  retval     \* the exit status

workVars == <<step, command, infile, outfile, retval>>
cmdlineVars == <<input, options, target, i, args, result>>

MainInit ==
  /\ Init
  /\ step = "result"
  /\ command = "none"
  /\ infile = NULL
  /\ outfile = NULL
  /\ retval = "SUCCESS"

IsMain == table = main_cmdline_options

Working(s) == IsMain /\ pc = "call" /\ step = s
KeepMemory == UNCHANGED memory

EndedWell(ok) ==
  /\ step' = "ended"
  /\ retval' = "SUCCESS"

Ended(ok) ==
  /\ step' = "ended"
  /\ retval' = IF ok THEN "SUCCESS" ELSE "FAILURE"

\* handle_commands: the first of the commands that was asked for.
ChosenLast(t) ==
  IF t["opt_d64_dir"] = 1 THEN "dir"
  ELSE IF t["opt_zipdisk_unzip"] = 1 THEN "unzip"
  ELSE IF t["opt_zipdisk_info"] = 1 THEN "info" ELSE "none"
Chosen(t) ==
  IF t["opt_zipdisk_info"] = 1 THEN "info"
  ELSE IF t["opt_zipdisk_unzip"] = 1 THEN "unzip"
  ELSE IF t["opt_d64_dir"] = 1 THEN "dir" ELSE "none"

\* The switch of main.
HandleResult ==
  /\ Working("result")
  /\ \/ /\ result # "OK"
        /\ Ended(result # "ERROR")
        /\ UNCHANGED command
     \/ /\ result = "OK"
        /\ Chosen(target) = "none"
        /\ Ended(TRUE)
        /\ UNCHANGED command
     \/ /\ result = "OK"
        /\ Chosen(target) # "none"
        /\ command' = Chosen(target)
        /\ step' = "command"
        /\ UNCHANGED retval
  /\ UNCHANGED <<pc, cmdlineVars, memory, infile, outfile>>

Argument(n) == strlist_get(args, n)

\* What a zipdisk handle holds: its path and slices.
ZipBlocks == {<<"zip", "handle", 0>>}

\* cmd_zipdisk_info.  A zipdisk that was not read to its end is not freed.
Info(ok) ==
  /\ Working("command")
  /\ command = "info"
  /\ infile' = Argument(0)
  /\ ok => infile' # NULL
  /\ Ended(ok)
  /\ \/ KeepMemory
     \/ ~ok /\ infile' # NULL /\ Memory({}, ZipBlocks)
  /\ UNCHANGED <<pc, cmdlineVars, command, outfile>>

\* cmd_d64_dir.  Without an argument there is no file to read.
Dir(ok) ==
  /\ Working("command")
  /\ command = "dir"
  /\ infile' = Argument(0)
  /\ ok => infile' # NULL
  /\ Ended(ok)
  /\ UNCHANGED <<pc, cmdlineVars, memory, command, outfile>>

UnzipNoFile ==
  /\ Working("command")
  /\ command = "unzip"
  /\ Argument(0) = NULL
  /\ Ended(FALSE)
  /\ UNCHANGED <<pc, cmdlineVars, memory, command, infile, outfile>>

\* The name of the output file: the second argument, or the base name of the
\* first without two characters and with ".d64".  That no zero byte is put
\* behind the name, main.c:176-180, is left out: what follows it in memory is
\* anything.
OutfileGiven ==
  /\ Argument(1) # NULL
  /\ outfile' = [word |-> Argument(1), made |-> FALSE]
  /\ step' = "read"
  /\ KeepMemory

OutfileMade ==
  /\ Argument(1) = NULL
  /\ BaseLength[Argument(0)] >= 2
  /\ outfile' = [word |-> Argument(0), made |-> TRUE]
  /\ step' = "read"
  /\ Memory({}, {<<"outfile", "str", 0>>})

\* The base name has no two characters: the number of those to copy wraps.
OutfileCrash ==
  /\ Argument(1) = NULL
  /\ BaseLength[Argument(0)] < 2
  /\ step' = "crash"
  /\ UNCHANGED <<memory, outfile>>

UnzipNames ==
  /\ Working("command")
  /\ command = "unzip"
  /\ Argument(0) # NULL
  /\ infile' = Argument(0)
  /\ OutfileGiven \/ OutfileMade \/ OutfileCrash
  /\ UNCHANGED <<pc, cmdlineVars, command, retval>>

OutfileBlocksKept == {}
OutfileBlocks == IF outfile.made THEN {<<"outfile", "str", 0>>} ELSE {}

\* The zipdisk is read, and never freed.
UnzipRead(ok) ==
  /\ Working("read")
  /\ \/ /\ ok
        /\ step' = "unzip"
        /\ Memory({}, ZipBlocks)
        /\ UNCHANGED retval
     \/ /\ ~ok
        /\ Ended(FALSE)
        /\ \E left \in {{}, ZipBlocks} : Memory(OutfileBlocks, left)
  /\ UNCHANGED <<pc, cmdlineVars, command, infile, outfile>>

Unzip(ok) ==
  /\ Working("unzip")
  /\ Ended(ok)
  /\ Memory(OutfileBlocks, {})
  /\ UNCHANGED <<pc, cmdlineVars, command, infile, outfile>>

Leave ==
  /\ Working("ended")
  /\ Call
  /\ UNCHANGED workVars

Work ==
  \/ HandleResult
  \/ UnzipNoFile
  \/ UnzipNames
  \/ \E ok \in BOOLEAN : Info(ok) \/ Dir(ok) \/ UnzipRead(ok) \/ Unzip(ok)
  \/ Leave

OtherProgram ==
  /\ ~IsMain
  /\ Call
  /\ UNCHANGED workVars

ParseStep ==
  /\ cmdline_init \/ AddOption \/ OptionsAdded \/ Parse \/ cmdline_exit
  /\ UNCHANGED workVars

MainNext == ParseStep \/ Work \/ OtherProgram

MainSpec == MainInit /\ [][MainNext]_<<vars, workVars>>

\* The program waits for nobody.
FairMainSpec == MainSpec /\ WF_<<vars, workVars>>(MainNext)

-------------------------------------------------------------------------------
(* Properties.                                                             *)

\* A word of the command line names the option at k of the table.
Asks(k) == \E w \in Range(argv) : w.kind # "plain" /\ option_find(w) = k

\* One command runs, and it is the one asked for: where the command line asks
\* for more than one, info comes before unzip, and unzip before dir, in whatever
\* order they stand there.
CommandAsAsked ==
  step # "result" /\ result = "OK" =>
    /\ command = "info" <=> Asks(1)
    /\ command = "unzip" <=> Asks(3) /\ ~Asks(1)
    /\ command = "dir" <=> Asks(4) /\ ~Asks(1) /\ ~Asks(3)

PlainWords == PlainIn(DOMAIN argv)
First(S) == argv[Min(S)]

\* A command reads the first plain word of the command line, wherever the
\* options stand, and unzip writes the second or a name made from the first.
FilesAsNamed ==
  /\ infile # NULL => infile = First(PlainWords)
  /\ outfile # NULL => /\ outfile.made <=> Cardinality(PlainWords) = 1
                       /\ outfile.word = IF outfile.made THEN infile
                                         ELSE First(PlainWords \ {Min(PlainWords)})

\* The exit status is a failure for a command line that is wrong, and for a
\* command without a file; it is a success for help, and where no command was
\* asked for.
StatusExact ==
  IsMain /\ pc = "done" =>
    /\ result = "ERROR" => retval = "FAILURE"
    /\ result \in {"HELP", "VERSION"} => retval = "SUCCESS"
    /\ result = "OK" =>
         /\ ~Asks(1) /\ ~Asks(3) /\ ~Asks(4) => retval = "SUCCESS"
         /\ PlainWords = {} /\ (Asks(1) \/ Asks(3) \/ Asks(4)) => retval = "FAILURE"

\* Of what the commands allocate only a zipdisk is left, and only by the two
\* that read one: the name of the output file is freed where it was made, and
\* not where it belongs to the list of arguments.
MainMemory ==
  pc = "done" => heap \subseteq IF command \in {"info", "unzip"} THEN ZipBlocks ELSE {}

\* Whatever the command line, the program comes to its end, or to the crash
\* over a name that is too short.
MainEnds == <>(pc = "done" \/ step = "crash")
===============================================================================
