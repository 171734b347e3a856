------------------------------- MODULE Cmdline -------------------------------
(***************************************************************************)
(* The command line parser of cmdline.c as the main functions of both      *)
(* programs use it: cmdline_init, cmdline_add_options, cmdline_parse, the  *)
(* program's own work, cmdline_exit.                                       *)
(*                                                                         *)
(* A word of the command line is what the parser sees in it:               *)
(* [kind, name, num].  kind is "plain", "short" (a dash) or "long" (two);  *)
(* name is the character behind the dash, NoShort where there is none, or  *)
(* the text behind the dashes; num is what strtol makes of the whole word. *)
(* An option is [short, long, type, target, factory], with targets named.  *)
(*                                                                         *)
(* heap has the live blocks of memory, each named by what owns it.  The    *)
(* programs exit when they run out of memory; that is left out.            *)
(***************************************************************************)
EXTENDS OptionTables, FiniteSetsExt

CONSTANTS
  OPT_LIST_INITIAL_SIZE,  \* 4 in the code
  Words,        \* the words a command line may have, and EmptyString
  ArgvMax,      \* bound on the number of words behind the program's name
  Tables,       \* tables of options, each a sequence
  NotANumber,   \* num of a word that strtol does not read to its end
  IntHalf       \* half the values of an int, 2^31 in the code

OptionTypes == {"BOOL", "INT", "STR", "ARR"}

Ints == (-IntHalf)..(IntHalf - 1)

ASSUME OptListAssumption == OPT_LIST_INITIAL_SIZE \in Nat \ {0}
ASSUME ArgvMaxAssumption == ArgvMax \in Nat
ASSUME IntHalfAssumption == IntHalf \in Nat \ {0, 1}
ASSUME WordsAssumption ==
  /\ EmptyString \in Words /\ NULL \notin Words
  /\ \A w \in Words : w.num \in Int \cup {NotANumber}

Strings == Words \ {EmptyString}

\* What a target of an option may hold.
Values(o) ==
  CASE o.type \in {"BOOL", "INT"} -> Ints
    [] o.type = "STR" -> Words \cup {NULL}
    [] o.type = "ARR" -> StringLists(Strings)

\* No two options write to the same target, which is none of the parser's own
\* names; factory values have the type.
ASSUME TablesAssumption ==
  \A t \in Tables :
    /\ \A k \in DOMAIN t : t[k].target \notin {"prg", "option", "args"}
    /\ \A j, k \in DOMAIN t : t[j].target = t[k].target => j = k
    /\ \A k \in DOMAIN t : t[k].type \in {"BOOL", "INT", "STR"} => t[k].factory \in Values(t[k])

VARIABLES
  pc,           \* "init", "add", "parse", "args", "call", "exit", "done"
  table,        \* the program's table of options
  argv,         \* the words behind the program's name
  option_list,  \* the registered options,
  option_list_size,  \* and the size of their array
  target,       \* the values of the targets
  i,            \* cmdline_parse is at argv[i]
  args,         \* the list of the words that are no options, or NULL
  result,       \* what cmdline_parse returned, "none" before
  heap,         \* live blocks
  badFree       \* a block was freed that was not live, or lost while it was

memory == <<heap, badFree>>
input == <<table, argv>>
options == <<option_list, option_list_size>>
vars == <<pc, input, options, target, i, args, result, memory>>

Targets == {table[k].target : k \in DOMAIN table}

Init ==
  /\ pc = "init"
  /\ table \in Tables
  /\ argv \in UNION {[1..n -> Words] : n \in 0..ArgvMax}
  /\ option_list = <<>>
  /\ option_list_size = 0
  /\ target = [t \in Targets |-> NULL]
  /\ i = 0
  /\ args = NULL
  /\ result = "none"
  /\ heap = {}
  /\ badFree = FALSE

\* Blocks are freed, and then others allocated.
Memory(freed, allocated) ==
  /\ heap' = (heap \ freed) \cup allocated
  /\ badFree' = (\/ badFree
                 \/ ~(freed \subseteq heap)
                 \/ (heap \ freed) \cap allocated # {})

\* What a list takes: itself, its array, and its strings.
ListBlocks(owner, list) ==
  {<<owner, "list", 0>>, <<owner, "items", 0>>}
    \cup {<<owner, "item", k>> : k \in DOMAIN list.items}

ProgramBlocks == {<<"prg", "name", 0>>, <<"prg", "version", 0>>, <<"option", "list", 0>>}

-------------------------------------------------------------------------------
(* Registering the options.                                                *)

cmdline_init ==
  /\ pc = "init"
  /\ pc' = "add"
  /\ Memory({}, ProgramBlocks)
  /\ option_list_size' = OPT_LIST_INITIAL_SIZE
  /\ UNCHANGED <<input, option_list, target, i, args, result>>

\* The value cmdline_option_init stores, and what is allocated for it.
FactoryValue(o) == IF o.type = "ARR" THEN strlist_init ELSE o.factory
ValueBlocks(o, value) ==
  CASE o.type = "STR" /\ value # NULL -> {<<o.target, "str", 0>>}
    [] o.type = "ARR" -> ListBlocks(o.target, value)
    [] OTHER -> {}

\* cmdline_add_options with the next option of the table.
AddOption ==
  LET k == Len(option_list) + 1
      o == table[k]
  IN  /\ pc = "add"
      /\ k \in DOMAIN table
      /\ o.type \in OptionTypes
      /\ option_list' = Append(option_list, o)
      /\ option_list_size' = Grown(Len(option_list), option_list_size)
      /\ target' = [target EXCEPT ![o.target] = FactoryValue(o)]
      /\ Memory({}, {<<"option", "item", k>>} \cup ValueBlocks(o, FactoryValue(o)))
      /\ UNCHANGED <<pc, input, i, args, result>>

\* The table is at its end, or has an option of an illegal type: the copy is
\* freed again, and the options behind it are not registered.  The programs
\* do not look at the result.
OptionsAdded ==
  /\ pc = "add"
  /\ Len(option_list) + 1 \in DOMAIN table =>
       table[Len(option_list) + 1].type \notin OptionTypes
  /\ pc' = "parse"
  /\ UNCHANGED <<input, options, target, i, args, result, memory>>

-------------------------------------------------------------------------------
(* cmdline_parse.                                                          *)

ParseInit ==
  /\ pc = "parse"
  /\ pc' = "args"
  /\ i' = 1
  /\ args' = strlist_init
  /\ Memory({}, ListBlocks("args", strlist_init))
  /\ UNCHANGED <<input, options, target, result>>

Return(r) ==
  /\ pc' = "call"
  /\ result' = r
  /\ UNCHANGED <<input, options, target, i, args, memory>>

Word == argv[i]
InArgv == pc = "args" /\ i <= Len(argv)

ParseOK ==
  /\ pc = "args"
  /\ i > Len(argv)
  /\ Return("OK")

\* Words without text are counted, and not kept.
AddArg ==
  /\ InArgv
  /\ Word.kind = "plain"
  /\ i' = i + 1
  /\ args' = strlist_add(args, Word)
  /\ Memory({}, ListBlocks("args", args') \ ListBlocks("args", args))
  /\ UNCHANGED <<pc, input, options, target, result>>

IsHelp(w) == w.kind = "long" /\ w.name = "help"
IsVersion(w) == w.kind = "long" /\ w.name = "version"

Help == InArgv /\ IsHelp(Word) /\ Return("HELP")
Version == InArgv /\ IsVersion(Word) /\ Return("VERSION")

\* The index of the option that a word names, or 0.  A lone dash names the
\* first option without a short form.
Matches(o, w) ==
  \/ w.kind = "long" /\ o.long = w.name
  \/ w.kind = "short" /\ o.short = w.name

FindIn(list, w) ==
  LET named == {k \in DOMAIN list : Matches(list[k], w)}
  IN  IF named = {} THEN 0 ELSE Min(named)

option_find(w) == FindIn(option_list, w)

IsOption == InArgv /\ Word.kind # "plain" /\ ~IsHelp(Word) /\ ~IsVersion(Word)
Option == option_list[option_find(Word)]

UnknownOption ==
  /\ IsOption
  /\ option_find(Word) = 0
  /\ Return("ERROR")

\* The word behind the one at k; argv ends with a null pointer.
Behind(k) == IF k < Len(argv) THEN argv[k + 1] ELSE NULL

\* What option_handle refuses.
Refused(o, arg) ==
  \/ o.type # "BOOL" /\ arg \in {NULL, EmptyString}
  \/ o.type = "INT" /\ arg \notin {NULL, EmptyString} /\ arg.num = NotANumber

RefusedOption ==
  /\ IsOption
  /\ option_find(Word) # 0
  /\ Refused(Option, Behind(i))
  /\ Return("ERROR")

\* How many words behind the option it takes.
DeltaNone(o) == 0
DeltaError(o) == IF o.type = "BOOL" THEN -1 ELSE 1
Delta(o) == IF o.type = "BOOL" THEN 0 ELSE 1

\* The conversion of a long to an int.
ToInt(n) == ((n + IntHalf) % (2 * IntHalf)) - IntHalf

NewValueToggled(o, arg) ==
  CASE o.type = "BOOL" -> 1 - target[o.target]
    [] o.type = "INT" -> ToInt(arg.num)
    [] o.type = "STR" -> arg
    [] o.type = "ARR" -> strlist_add(target[o.target], arg)

NewValue(o, arg) ==
  CASE o.type = "BOOL" -> 1
    [] o.type = "INT" -> ToInt(arg.num)
    [] o.type = "STR" -> arg
    [] o.type = "ARR" -> strlist_add(target[o.target], arg)

\* The value that is freed: a string gives way to another.
OldBlocksKept(o) == {}
OldBlocks(o) == IF o.type = "STR" THEN ValueBlocks(o, target[o.target]) ELSE {}

HandleOption ==
  /\ IsOption
  /\ option_find(Word) # 0
  /\ ~Refused(Option, Behind(i))
  /\ LET o == Option
         new == NewValue(o, Behind(i))
         kept == IF o.type = "ARR" THEN ValueBlocks(o, target[o.target]) ELSE {}
     IN  /\ target' = [target EXCEPT ![o.target] = new]
         /\ Memory(OldBlocks(o), ValueBlocks(o, new) \ kept)
         /\ i' = i + Delta(o) + 1
  /\ UNCHANGED <<pc, input, options, args, result>>

-------------------------------------------------------------------------------

\* The program does its work.
Call ==
  /\ pc = "call"
  /\ pc' = "exit"
  /\ UNCHANGED <<input, options, target, i, args, result, memory>>

OptionBlocks == {<<"option", "item", k>> : k \in DOMAIN option_list}
TargetBlocks ==
  UNION {ValueBlocks(option_list[k], target[option_list[k].target]) : k \in DOMAIN option_list}

\* The option list itself is not emptied.
cmdline_exit ==
  /\ pc = "exit"
  /\ pc' = "done"
  /\ args' = NULL
  /\ Memory(ProgramBlocks \cup OptionBlocks \cup TargetBlocks \cup ListBlocks("args", args), {})
  /\ UNCHANGED <<input, options, target, i, result>>

Parse == ParseInit \/ ParseOK \/ AddArg \/ Help \/ Version \/ UnknownOption
           \/ RefusedOption \/ HandleOption

Next == cmdline_init \/ AddOption \/ OptionsAdded \/ Parse \/ Call \/ cmdline_exit

Spec == Init /\ [][Next]_vars
-------------------------------------------------------------------------------
(* Properties.                                                             *)

\* Each registered option has its target, with a value of its type.
TypeOK ==
  /\ pc \in {"init", "add", "parse", "args", "call", "exit", "done"}
  /\ result \in {"none", "OK", "HELP", "VERSION", "ERROR"}
  /\ table \in Tables /\ argv \in Seq(Words)
  /\ option_list \in Seq(Range(table)) /\ option_list_size \in Nat
  /\ DOMAIN target = Targets
  /\ i \in 0..(Len(argv) + 1)
  /\ args \in StringLists(Strings) \cup {NULL}
  /\ \A k \in DOMAIN option_list :
       /\ option_list[k] = table[k]
       /\ target[table[k].target] \in Values(table[k])

\* No list has more elements than its array: the list of options, that of the
\* plain words, and those that options collect.
ListsHaveRoom ==
  /\ Len(option_list) <= option_list_size
  /\ args # NULL => HasRoom(args)
  /\ \A k \in DOMAIN option_list :
       option_list[k].type = "ARR" => HasRoom(target[option_list[k].target])

\* Whatever way the parsing ends, cmdline_exit frees every block of the parser
\* once, the strings that options have replaced included, and none is lost.
Owners == {"prg", "option", "args"} \cup Targets

MemoryExact ==
  /\ ~badFree
  /\ pc = "done" => \A b \in heap : b[1] \notin Owners

\* The words that name an option which takes a value,
Takers ==
  {k \in DOMAIN argv : /\ argv[k].kind # "plain"
                       /\ option_find(argv[k]) # 0
                       /\ option_list[option_find(argv[k])].type # "BOOL"}

\* and those that are such a value, whatever they look like: those behind a
\* taker that is not a value itself.
DirectlyBehind(n, S) == CHOOSE V \in SUBSET (1..n) :
                   \A k \in 1..n : k \in V <=> k - 1 \in S \ V

ValueWords == DirectlyBehind(Len(argv), Takers)

\* What a word that is no value makes of the parsing.
Outcome(k) ==
  LET w == argv[k]
  IN  CASE w.kind = "plain" -> "OK"
        [] IsHelp(w) -> "HELP"
        [] IsVersion(w) -> "VERSION"
        [] OTHER -> IF \/ option_find(w) = 0
                       \/ Refused(option_list[option_find(w)], Behind(k))
                    THEN "ERROR" ELSE "OK"

Ending == {k \in DOMAIN argv : k \notin ValueWords /\ Outcome(k) # "OK"}

\* The words that were dealt with.
Passed == {k \in DOMAIN argv : k \notin ValueWords /\ \A e \in Ending : k < e}

\* The parser returns what the first word that ends it says, counting neither
\* the values of options nor what stands behind.
ResultExact ==
  result # "none" => result = IF Ending = {} THEN "OK" ELSE Outcome(Min(Ending))

\* The items of a list are the words at the indices in S, in their order.
Has(list, words, S) ==
  /\ Len(list.items) = Cardinality(S)
  /\ \A k \in S : list.items[Cardinality({j \in S : j <= k})] = words[k]

\* The list of arguments has the plain words, in their order, without those
\* that options have taken, up to the end of the parsing.
PlainIn(S) == {k \in S : argv[k].kind = "plain" /\ argv[k] # EmptyString}

ArgsExact == pc = "call" => Has(args, argv, PlainIn(Passed))

\* What the words in S say of an option: the factory value, the last value
\* given, or all of them.
Uses(n, S) == {k \in S : argv[k].kind # "plain" /\ option_find(argv[k]) = n}

ValuesOf(uses) == {k + 1 : k \in uses}

Says(o, value, uses) ==
  IF o.type = "ARR" THEN Has(value, argv, ValuesOf(uses))
  ELSE IF uses = {} THEN value = o.factory
  ELSE CASE o.type = "BOOL" -> value = 1
         [] o.type = "INT" -> value = ToInt(argv[Max(ValuesOf(uses))].num)
         [] o.type = "STR" -> value = argv[Max(ValuesOf(uses))]

\* Each target holds what the command line says.
TargetsExact ==
  pc = "call" =>
    \A n \in DOMAIN option_list :
      Says(option_list[n], target[option_list[n].target], Uses(n, Passed))
===============================================================================
