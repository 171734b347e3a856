---------------------------- MODULE CmdlineProofs ----------------------------
(***************************************************************************)
(* Proofs about Cmdline, for every table of options and every command      *)
(* line: targets hold values of their types and the values given, lists    *)
(* stay in their arrays, the arguments are those of the command line, and  *)
(* the memory is freed.  And about Main over it: the command that was      *)
(* asked for runs, on the files that were named, and of what it allocates  *)
(* only a zipdisk is left.                                                 *)
(***************************************************************************)
EXTENDS Main, SetInduction, FiniteSetTheorems, TLAPS

\* Doubling an array that is not empty makes room for one more.
LEMMA GrownRoom ==
  ASSUME NEW n \in Nat, NEW max \in Nat \ {0}, n <= max
  PROVE  Grown(n, max) \in Nat \ {0} /\ n + 1 <= Grown(n, max)
BY DEF Grown

\* A list of strings that stays in its array does so when a string is added.
LEMMA ListAdded ==
  ASSUME NEW S, NEW list \in StringLists(S), HasRoom(list), list.items_max # 0,
         NEW s \in S \cup {NULL, EmptyString}
  PROVE  LET new == strlist_add(list, s)
         IN  new \in StringLists(S) /\ HasRoom(new) /\ new.items_max # 0
<1>1. CASE s \in {NULL, EmptyString} BY <1>1 DEF strlist_add
<1>2. CASE s \notin {NULL, EmptyString}
  <2>1. /\ list.items \in Seq(S) /\ list.items_max \in Nat
        /\ Len(list.items) \in Nat /\ Len(list.items) <= list.items_max
    BY DEF StringLists, HasRoom
  <2>2. Append(list.items, s) \in Seq(S) /\ Len(Append(list.items, s)) = Len(list.items) + 1
    BY <2>1, <1>2
  <2>3. /\ Grown(Len(list.items), list.items_max) \in Nat \ {0}
        /\ Len(list.items) + 1 <= Grown(Len(list.items), list.items_max)
    BY <2>1, GrownRoom
  <2>4. strlist_add(list, s) = [items |-> Append(list.items, s),
                                items_max |-> Grown(Len(list.items), list.items_max)]
    BY <1>2 DEF strlist_add
  <2> QED BY <2>2, <2>3, <2>4 DEF StringLists, HasRoom
<1> QED BY <1>1, <1>2

LEMMA ListNew ==
  ASSUME NEW S
  PROVE  strlist_init \in StringLists(S) /\ HasRoom(strlist_init) /\ strlist_init.items_max # 0
BY StrlistAssumption DEF strlist_init, StringLists, HasRoom

\* A list with a place for one more element.
Sound(list) == list \in StringLists(Strings) /\ HasRoom(list) /\ list.items_max # 0

Fits(o, value) == value \in Values(o) /\ (o.type = "ARR" => Sound(value))

\* Arrays are never empty, so that doubling makes room; and the parser has its
\* list while it needs it.
CmdInv ==
  /\ TypeOK
  /\ pc # "init" => option_list_size # 0
  /\ pc = "init" => option_list = <<>>
  /\ Len(option_list) <= option_list_size
  /\ args = NULL \/ Sound(args)
  /\ pc \in {"args", "call", "exit"} => Sound(args)
  /\ pc = "args" => i # 0
  /\ \A k \in DOMAIN option_list :
       /\ k \in DOMAIN table
       /\ table[k].type \in OptionTypes
       /\ Fits(table[k], target[table[k].target])

\* A word names the first option that it matches, or none.
LEMMA FindsFirst ==
  ASSUME NEW S, NEW list \in Seq(S), NEW w
  PROVE  LET f == FindIn(list, w)
         IN  /\ f # 0 => /\ f \in DOMAIN list /\ Matches(list[f], w)
                         /\ \A k \in DOMAIN list : Matches(list[k], w) => f <= k
             /\ f = 0 => \A k \in DOMAIN list : ~Matches(list[k], w)
<1> DEFINE named == {k \in DOMAIN list : Matches(list[k], w)}
<1>1. named \in SUBSET Nat /\ 0 \notin named OBVIOUS
<1>2. FindIn(list, w) = IF named = {} THEN 0 ELSE Min(named) BY DEF FindIn
<1>3. CASE named = {} BY <1>2, <1>3
<1>4. CASE named # {}
  <2>1. Min(named) \in named /\ \A k \in named : Min(named) <= k
    <3> HIDE DEF named
    <3> QED BY <1>1, <1>4, MinIsLeast
  <2> QED BY <1>1, <1>2, <1>4, <2>1
<1> QED BY <1>3, <1>4

LEMMA FindsOption ==
  ASSUME option_list \in Seq(Range(table)), NEW w, option_find(w) # 0
  PROVE  option_find(w) \in DOMAIN option_list
BY FindsFirst DEF option_find

LEMMA IntTyped ==
  ASSUME NEW n \in Int
  PROVE  ToInt(n) \in Ints /\ 1 \in Ints
<1>1. (n + IntHalf) % (2 * IntHalf) \in 0..(2 * IntHalf - 1)
  BY IntHalfAssumption
<1> QED BY <1>1, IntHalfAssumption DEF ToInt, Ints

\* What option_handle stores has the type of the option.
LEMMA NewFits ==
  ASSUME NEW o, o.type \in OptionTypes, Fits(o, target[o.target]),
         NEW arg \in Words \cup {NULL}, ~Refused(o, arg)
  PROVE  Fits(o, NewValue(o, arg))
<1>1. CASE o.type = "BOOL"
  <2>1. 1 \in Ints BY IntTyped
  <2>2. NewValue(o, arg) = 1 BY <1>1 DEF NewValue
  <2> QED BY <1>1, <2>1, <2>2 DEF Fits, Values
<1>2. CASE o.type = "INT"
  <2>1. arg.num \in Int
    BY <1>2, WordsAssumption DEF Refused
  <2>2. NewValue(o, arg) = ToInt(arg.num) BY <1>2 DEF NewValue
  <2> QED BY <1>2, <2>1, <2>2, IntTyped DEF Fits, Values
<1>3. CASE o.type = "STR"
  <2>1. NewValue(o, arg) = arg BY <1>3 DEF NewValue
  <2> QED BY <1>3, <2>1 DEF Fits, Values
<1>4. CASE o.type = "ARR"
  <2>1. arg \in Strings BY <1>4 DEF Refused, Strings
  <2>2. Sound(target[o.target]) BY <1>4 DEF Fits
  <2>3. Sound(strlist_add(target[o.target], arg))
    BY <2>1, <2>2, ListAdded DEF Sound
  <2>4. NewValue(o, arg) = strlist_add(target[o.target], arg) BY <1>4 DEF NewValue
  <2> QED BY <1>4, <2>3, <2>4 DEF Fits, Values, Sound
<1> QED BY <1>1, <1>2, <1>3, <1>4 DEF OptionTypes

\* So has what cmdline_option_init stores.
LEMMA FactoryFits ==
  ASSUME table \in Tables, NEW k \in DOMAIN table, table[k].type \in OptionTypes
  PROVE  Fits(table[k], FactoryValue(table[k]))
<1>1. CASE table[k].type = "ARR"
  <2>1. Sound(strlist_init) BY ListNew DEF Sound
  <2> QED BY <1>1, <2>1 DEF FactoryValue, Fits, Values, Sound
<1>2. CASE table[k].type # "ARR"
  <2>1. table[k].factory \in Values(table[k])
    BY <1>2, TablesAssumption DEF OptionTypes
  <2> QED BY <1>2, <2>1 DEF FactoryValue, Fits
<1> QED BY <1>1, <1>2

\* A store to the target of one option leaves those of the others alone.
LEMMA StoreFits ==
  ASSUME NEW t \in Tables, NEW old, DOMAIN old = {t[k].target : k \in DOMAIN t},
         NEW k \in DOMAIN t, NEW v, Fits(t[k], v),
         NEW K, K \subseteq DOMAIN t, \A j \in K : Fits(t[j], old[t[j].target])
  PROVE  LET new == [old EXCEPT ![t[k].target] = v]
         IN  /\ DOMAIN new = DOMAIN old
             /\ \A j \in K \cup {k} : Fits(t[j], new[t[j].target])
<1> DEFINE new == [old EXCEPT ![t[k].target] = v]
<1>1. new[t[k].target] = v OBVIOUS
<1>2. ASSUME NEW j \in K, j # k PROVE new[t[j].target] = old[t[j].target]
  BY <1>2, TablesAssumption
<1> QED BY <1>1, <1>2

LEMMA CmdInvInit == Init => CmdInv
<1> SUFFICES ASSUME Init PROVE CmdInv
  OBVIOUS
<1>1. argv \in Seq(Words) /\ 0 \in 0..(Len(argv) + 1)
  BY ArgvMaxAssumption DEF Init
<1>2. option_list \in Seq(Range(table)) /\ DOMAIN option_list = {} /\ Len(option_list) = 0
  BY DEF Init
<1>3. TypeOK BY <1>1, <1>2 DEF Init, TypeOK
<1> QED BY <1>2, <1>3 DEF Init, CmdInv

\* Most steps leave the options and their targets alone.
LEMMA OptionsKept ==
  ASSUME CmdInv, UNCHANGED <<input, options, target>>,
         pc' \in {"add", "parse", "args", "call", "exit", "done"}, pc # "init",
         result' \in {"none", "OK", "HELP", "VERSION", "ERROR"},
         i' \in 0..(Len(argv) + 1),
         args' = NULL \/ Sound(args'), pc' \in {"args", "call", "exit"} => Sound(args'),
         pc' = "args" => i' # 0
  PROVE  CmdInv'
<1>1. UNCHANGED <<table, argv, option_list, option_list_size, target>>
  BY DEF input, options
<1>2. args' \in StringLists(Strings) \cup {NULL} BY DEF Sound
<1>3. TypeOK' BY <1>1, <1>2 DEF CmdInv, TypeOK, Targets
<1>4. \A k \in DOMAIN option_list' :
        /\ k \in DOMAIN table'
        /\ table'[k].type \in OptionTypes
        /\ Fits(table'[k], target'[table'[k].target])
  BY <1>1 DEF CmdInv
<1> QED BY <1>1, <1>3, <1>4 DEF CmdInv, Fits, Sound, Values

LEMMA CmdInvNext == CmdInv /\ [Next]_vars => CmdInv'
<1> SUFFICES ASSUME CmdInv, [Next]_vars PROVE CmdInv'
  OBVIOUS
<1>0. /\ TypeOK
      /\ table \in Tables /\ argv \in Seq(Words) /\ Len(argv) \in Nat
      /\ option_list \in Seq(Range(table)) /\ Len(option_list) \in Nat
      /\ DOMAIN option_list = 1..Len(option_list)
      /\ option_list_size \in Nat
      /\ i \in 0..(Len(argv) + 1)
      /\ args = NULL \/ Sound(args)
      /\ pc \in {"args", "call", "exit"} => Sound(args)
      /\ result \in {"none", "OK", "HELP", "VERSION", "ERROR"}
  BY DEF CmdInv, TypeOK
<1>1. CASE cmdline_init
  <2>1. option_list = <<>> BY <1>1 DEF cmdline_init, CmdInv
  <2>2. TypeOK'
    BY <1>0, <1>1, <2>1, OptListAssumption DEF cmdline_init, TypeOK, input, Targets
  <2>3. option_list_size' # 0 /\ Len(option_list') <= option_list_size'
    BY <1>1, <2>1, OptListAssumption DEF cmdline_init
  <2> QED BY <1>0, <1>1, <2>1, <2>2, <2>3 DEF cmdline_init, CmdInv
<1>2. CASE AddOption
  <2> DEFINE n == Len(option_list) + 1
             K == DOMAIN option_list
  <2>1. /\ n \in DOMAIN table
        /\ table[n].type \in OptionTypes
        /\ option_list' = Append(option_list, table[n])
        /\ option_list_size' = Grown(Len(option_list), option_list_size)
        /\ target' = [target EXCEPT ![table[n].target] = FactoryValue(table[n])]
        /\ pc = "add" /\ UNCHANGED <<pc, table, argv, i, args, result>>
    BY <1>2 DEF AddOption, input
  <2>2. Fits(table[n], FactoryValue(table[n])) BY <1>0, <2>1, FactoryFits
  <2>3. /\ K \subseteq DOMAIN table /\ DOMAIN target = {table[k].target : k \in DOMAIN table}
        /\ \A j \in K : /\ table[j].type \in OptionTypes
                         /\ Fits(table[j], target[table[j].target])
                         /\ option_list[j] = table[j]
    BY DEF CmdInv, TypeOK, Targets
  <2>4. /\ DOMAIN target' = DOMAIN target
        /\ \A j \in K \cup {n} : Fits(table[j], target'[table[j].target])
    BY <1>0, <2>1, <2>2, <2>3, StoreFits
  <2>5. /\ option_list' \in Seq(Range(table)) /\ Len(option_list') = n
        /\ DOMAIN option_list' = K \cup {n}
        /\ \A j \in K \cup {n} : option_list'[j] = table[j]
    <3>1. table[n] \in Range(table) BY <2>1 DEF Range
    <3> QED BY <1>0, <2>1, <2>3, <3>1
  <2>6. option_list_size' \in Nat \ {0} /\ n <= option_list_size'
    <3>1. option_list_size # 0 /\ Len(option_list) <= option_list_size
      BY <2>1 DEF CmdInv
    <3> QED BY <1>0, <2>1, <3>1, GrownRoom
  <2>7. TypeOK'
    BY <1>0, <2>1, <2>3, <2>4, <2>5, <2>6 DEF TypeOK, Fits, Targets
  <2>8. \A k \in DOMAIN option_list' :
          /\ k \in DOMAIN table'
          /\ table'[k].type \in OptionTypes
          /\ Fits(table'[k], target'[table'[k].target])
    BY <2>1, <2>3, <2>4, <2>5
  <2>9. /\ pc' = "add" /\ (args' = NULL \/ Sound(args'))
        /\ option_list_size' # 0 /\ Len(option_list') <= option_list_size'
    BY <1>0, <2>1, <2>5, <2>6 DEF Sound
  <2> QED BY <2>7, <2>8, <2>9 DEF CmdInv, Fits, Sound, Values
<1>3. CASE OptionsAdded
  BY <1>0, <1>3, OptionsKept DEF OptionsAdded
<1>4. CASE ParseInit
  <2>1. Sound(args') BY <1>4, ListNew DEF ParseInit, Sound
  <2>2. i' \in 1..(Len(argv) + 1) BY <1>0, <1>4 DEF ParseInit
  <2> QED BY <1>0, <1>4, <2>1, <2>2, OptionsKept DEF ParseInit
<1>5. CASE ParseOK \/ Help \/ Version \/ UnknownOption \/ RefusedOption
  <2>1. /\ pc = "args" /\ pc' = "call" /\ UNCHANGED <<input, options, target, i, args>>
        /\ result' \in {"OK", "HELP", "VERSION", "ERROR"}
    BY <1>5 DEF ParseOK, Help, Version, UnknownOption, RefusedOption, IsOption, InArgv, Return
  <2> QED BY <1>0, <2>1, OptionsKept
<1>6. CASE AddArg
  <2>1. /\ pc = "args" /\ i <= Len(argv) /\ i' = i + 1
        /\ args' = strlist_add(args, argv[i])
        /\ UNCHANGED <<pc, input, options, target, result>>
    BY <1>6 DEF AddArg, InArgv, Word
  <2>2. Sound(args) BY <2>1 DEF CmdInv
  <2>3. argv[i] \in Words
    <3>1. i \in 1..Len(argv) BY <1>0, <2>1 DEF CmdInv
    <3> QED BY <1>0, <3>1
  <2>4. Sound(strlist_add(args, argv[i]))
    BY <2>2, <2>3, ListAdded DEF Sound, Strings
  <2>5. i + 1 \in 1..(Len(argv) + 1) BY <1>0, <2>1
  <2> QED BY <1>0, <2>1, <2>4, <2>5, OptionsKept
<1>7. CASE HandleOption
  <2> DEFINE f == option_find(Word)
             o == table[f]
             arg == Behind(i)
             K == DOMAIN option_list
  <2>1. f \in K /\ K \subseteq DOMAIN table /\ Option = o
    BY <1>7, FindsOption DEF HandleOption, CmdInv, TypeOK, Option
  <2>2. /\ DOMAIN target = {table[k].target : k \in DOMAIN table}
        /\ \A j \in K : /\ table[j].type \in OptionTypes
                         /\ Fits(table[j], target[table[j].target])
    BY DEF CmdInv, TypeOK, Targets
  <2>3. arg \in Words \cup {NULL} BY <1>0 DEF Behind
  <2>4. /\ ~Refused(o, arg) /\ i <= Len(argv)
        /\ target' = [target EXCEPT ![o.target] = NewValue(o, arg)]
        /\ i' = i + Delta(o) + 1
        /\ UNCHANGED <<pc, input, options, args, result>>
    BY <1>7, <2>1 DEF HandleOption, IsOption, InArgv
  <2>5. Fits(o, NewValue(o, arg)) BY <2>1, <2>2, <2>3, <2>4, NewFits
  <2>6. /\ DOMAIN target' = DOMAIN target
        /\ \A j \in K \cup {f} : Fits(table[j], target'[table[j].target])
    BY <1>0, <2>1, <2>2, <2>4, <2>5, StoreFits
  <2>7. i' \in 1..(Len(argv) + 1)
    <3>1. CASE o.type = "BOOL" BY <1>0, <2>4, <3>1 DEF Delta
    <3>2. CASE o.type # "BOOL"
      <4>1. arg # NULL BY <2>4, <3>2 DEF Refused
      <4>2. i < Len(argv) BY <1>0, <4>1 DEF Behind
      <4> QED BY <1>0, <2>4, <3>2, <4>2 DEF Delta
    <3> QED BY <3>1, <3>2
  <2>8. UNCHANGED <<pc, table, argv, option_list, option_list_size, args, result>>
    BY <2>4 DEF input, options
  <2>9. TypeOK' BY <1>0, <2>6, <2>7, <2>8 DEF CmdInv, TypeOK, Targets, Fits
  <2>10. \A k \in DOMAIN option_list' :
           /\ k \in DOMAIN table'
           /\ table'[k].type \in OptionTypes
           /\ Fits(table'[k], target'[table'[k].target])
    BY <2>1, <2>2, <2>6, <2>8
  <2>11. i' # 0 BY <2>7
  <2> QED BY <2>8, <2>9, <2>10, <2>11 DEF CmdInv, Fits, Sound, Values
<1>8. CASE Call
  BY <1>0, <1>8, OptionsKept DEF Call
<1>9. CASE cmdline_exit
  BY <1>0, <1>9, OptionsKept DEF cmdline_exit
<1>10. CASE UNCHANGED vars
  BY <1>10 DEF vars, input, options, CmdInv, TypeOK, Targets, Fits, Sound, Values
<1> QED BY <1>1, <1>2, <1>3, <1>4, <1>5, <1>6, <1>7, <1>8, <1>9, <1>10
        DEF Next, Parse

\* Targets hold values of the types of their options, and cmdline_parse never
\* reads behind the null pointer at the end of argv.
THEOREM CmdlineTypeCorrect == Spec => []TypeOK
<1>1. CmdInv => TypeOK BY DEF CmdInv
<1> QED BY CmdInvInit, CmdInvNext, <1>1, PTL DEF Spec

\* The list of options, that of the plain words and those that options collect
\* never have more elements than their arrays, for every command line.
THEOREM ListsStayInArrays == Spec => []ListsHaveRoom
<1>1. CmdInv => ListsHaveRoom
  BY DEF CmdInv, TypeOK, ListsHaveRoom, Fits, Sound
<1> QED BY CmdInvInit, CmdInvNext, <1>1, PTL DEF Spec

-------------------------------------------------------------------------------
(* The memory of the parser.  Each block is named by its owner, so that the  *)
(* blocks of different owners do not meet; the invariant says which blocks   *)
(* are live at each program counter.                                         *)

LEMMA ListOwned ==
  ASSUME NEW w, NEW list, NEW b \in ListBlocks(w, list)
  PROVE  b[1] = w
BY DEF ListBlocks

LEMMA ValueOwned ==
  ASSUME NEW o, NEW v, NEW b \in ValueBlocks(o, v)
  PROVE  b[1] = o.target
<1>1. CASE o.type = "STR" /\ v # NULL BY <1>1 DEF ValueBlocks
<1>2. CASE o.type = "ARR" BY <1>2, ListOwned DEF ValueBlocks
<1> QED BY <1>1, <1>2 DEF ValueBlocks

\* A list keeps its blocks when a string is added.
LEMMA ListKeepsBlocks ==
  ASSUME NEW S, NEW list \in StringLists(S), NEW s, NEW w
  PROVE  ListBlocks(w, list) \subseteq ListBlocks(w, strlist_add(list, s))
<1>1. CASE s \in {NULL, EmptyString} BY <1>1 DEF strlist_add
<1>2. CASE s \notin {NULL, EmptyString}
  <2>1. list.items \in Seq(S) BY DEF StringLists
  <2>2. strlist_add(list, s).items = Append(list.items, s) BY <1>2 DEF strlist_add
  <2>3. DOMAIN list.items \subseteq DOMAIN Append(list.items, s) BY <2>1
  <2> QED BY <2>2, <2>3 DEF ListBlocks
<1> QED BY <1>1, <1>2

\* The blocks of the values of the options in K.
Blocks(t, K, value) == UNION {ValueBlocks(t[k], value[t[k].target]) : k \in K}

LEMMA BlocksSplit ==
  ASSUME NEW t, NEW K, NEW value, NEW k \in K
  PROVE  Blocks(t, K, value) = Blocks(t, K \ {k}, value) \cup ValueBlocks(t[k], value[t[k].target])
BY DEF Blocks

LEMMA BlocksKept ==
  ASSUME NEW t, NEW K, NEW old, NEW new, \A j \in K : new[t[j].target] = old[t[j].target]
  PROVE  Blocks(t, K, new) = Blocks(t, K, old)
BY DEF Blocks

LEMMA BlocksOwned ==
  ASSUME NEW t \in Tables, NEW K, K \subseteq DOMAIN t, NEW value, NEW b \in Blocks(t, K, value)
  PROVE  \E k \in K : b[1] = t[k].target
<1>1. PICK k \in K : b \in ValueBlocks(t[k], value[t[k].target]) BY DEF Blocks
<1> QED BY <1>1, ValueOwned

\* What the parser owns, but for the list of the plain words.
Base == ProgramBlocks \cup OptionBlocks \cup TargetBlocks

ArgsBlocks == ListBlocks("args", args)

\* What is live at each program counter.
MemInv ==
  /\ CmdInv
  /\ ~badFree
  /\ pc = "init" => heap = {}
  /\ pc \in {"add", "parse"} => heap = Base
  /\ pc \in {"args", "call", "exit"} => heap = Base \cup ArgsBlocks
  /\ pc = "done" => heap = {}

LEMMA TargetBlocksOf ==
  ASSUME CmdInv
  PROVE  TargetBlocks = Blocks(table, DOMAIN option_list, target)
BY DEF CmdInv, TypeOK, TargetBlocks, Blocks

LEMMA BaseOwned ==
  ASSUME CmdInv, NEW b \in Base
  PROVE  b[1] # "args"
<1>1. CASE b \in ProgramBlocks \cup OptionBlocks BY <1>1 DEF ProgramBlocks, OptionBlocks
<1>2. CASE b \in TargetBlocks
  <2>1. table \in Tables /\ DOMAIN option_list \subseteq DOMAIN table BY DEF CmdInv, TypeOK
  <2>2. \E k \in DOMAIN option_list : b[1] = table[k].target
    BY <1>2, <2>1, TargetBlocksOf, BlocksOwned
  <2> QED BY <2>1, <2>2, TablesAssumption
<1> QED BY <1>1, <1>2 DEF Base

\* Nothing is freed and nothing of what is allocated is live.
LEMMA Allocates ==
  ASSUME ~badFree, NEW new, new \cap heap = {}, Memory({}, new)
  PROVE  heap' = heap \cup new /\ ~badFree'
BY DEF Memory

\* One value gives way to another, in part or as a whole.
LEMMA Replaces ==
  ASSUME ~badFree, NEW rest, NEW old, NEW new, heap = rest \cup old,
         rest \cap (old \cup new) = {},
         \/ Memory(old, new)
         \/ old \subseteq new /\ Memory({}, new \ old)
  PROVE  heap' = rest \cup new /\ ~badFree'
BY DEF Memory

LEMMA BaseKept ==
  ASSUME UNCHANGED <<table, option_list, target>>
  PROVE  Base' = Base
BY DEF Base, ProgramBlocks, OptionBlocks, TargetBlocks

LEMMA MemInvInit == Init => MemInv
BY CmdInvInit DEF Init, MemInv

LEMMA MemInvNext == MemInv /\ [Next]_vars => MemInv'
<1> SUFFICES ASSUME MemInv, [Next]_vars PROVE MemInv'
  OBVIOUS
<1>0. /\ CmdInv /\ CmdInv' /\ ~badFree
      /\ table \in Tables /\ DOMAIN option_list \subseteq DOMAIN table
      /\ option_list \in Seq(Range(table)) /\ Len(option_list) \in Nat
      /\ DOMAIN option_list = 1..Len(option_list)
      /\ \A k \in DOMAIN option_list : option_list[k] = table[k]
  BY CmdInvNext DEF MemInv, CmdInv, TypeOK
<1>1. CASE cmdline_init
  <2>1. option_list = <<>> /\ UNCHANGED option_list /\ heap = {} /\ pc' = "add"
    BY <1>1 DEF cmdline_init, MemInv, CmdInv
  <2>2. heap' = ProgramBlocks /\ ~badFree'
    BY <1>0, <1>1, <2>1, Allocates DEF cmdline_init
  <2>3. OptionBlocks' = {} /\ TargetBlocks' = {} BY <2>1 DEF OptionBlocks, TargetBlocks
  <2> QED BY <1>0, <2>1, <2>2, <2>3 DEF MemInv, Base, ProgramBlocks
<1>2. CASE AddOption
  <2> DEFINE n == Len(option_list) + 1
             K == DOMAIN option_list
             v == FactoryValue(table[n])
             new == {<<"option", "item", n>>} \cup ValueBlocks(table[n], v)
  <2>1. /\ n \in DOMAIN table /\ pc = "add" /\ pc' = "add" /\ table' = table
        /\ option_list' = Append(option_list, table[n])
        /\ target' = [target EXCEPT ![table[n].target] = v]
        /\ Memory({}, new)
    BY <1>2 DEF AddOption, input
  <2>2. DOMAIN option_list' = K \cup {n} /\ n \notin K
    <3>1. table[n] \in Range(table) BY <2>1 DEF Range
    <3> QED BY <1>0, <2>1, <3>1
  <2>3. TargetBlocks' = TargetBlocks \cup ValueBlocks(table[n], v)
    <3>1. TargetBlocks' = Blocks(table, K \cup {n}, target')
      <4>1. (CmdInv => TargetBlocks = Blocks(table, DOMAIN option_list, target))'
        BY TargetBlocksOf, PTL
      <4> QED BY <1>0, <2>1, <2>2, <4>1 DEF Blocks
    <3>2. target'[table[n].target] = v
      BY <1>0, <2>1 DEF CmdInv, TypeOK, Targets
    <3>3. (K \cup {n}) \ {n} = K BY <2>2
    <3>4. Blocks(table, K \cup {n}, target') = Blocks(table, K, target') \cup ValueBlocks(table[n], v)
      BY <3>2, <3>3, BlocksSplit
    <3>5. Blocks(table, K, target') = Blocks(table, K, target)
      <4>1. \A k \in K : target'[table[k].target] = target[table[k].target]
        BY <1>0, <2>1, <2>2, TablesAssumption
      <4> QED BY <4>1, BlocksKept
    <3> QED BY <1>0, <3>1, <3>4, <3>5, TargetBlocksOf
  <2>4. OptionBlocks' = OptionBlocks \cup {<<"option", "item", n>>}
    BY <2>2 DEF OptionBlocks
  <2>5. new \cap Base = {}
    <3>1. ASSUME NEW b \in ValueBlocks(table[n], v) PROVE b \notin Base
      <4>1. b[1] = table[n].target /\ table[n].target \notin {"prg", "option"}
        BY <1>0, <2>1, ValueOwned, TablesAssumption
      <4>2. b \notin ProgramBlocks \cup OptionBlocks
        BY <4>1 DEF ProgramBlocks, OptionBlocks
      <4>3. b \notin TargetBlocks
        <5>1. \A k \in K : table[k].target # table[n].target
          BY <1>0, <2>1, <2>2, TablesAssumption
        <5> QED BY <1>0, <4>1, <5>1, TargetBlocksOf, BlocksOwned
      <4> QED BY <4>2, <4>3 DEF Base
    <3>2. <<"option", "item", n>> \notin Base
      <4>1. <<"option", "item", n>> \notin ProgramBlocks \cup OptionBlocks
        BY <2>2 DEF ProgramBlocks, OptionBlocks
      <4>2. <<"option", "item", n>> \notin TargetBlocks
        <5>1. \A k \in K : table[k].target # "option" BY <1>0, TablesAssumption
        <5> QED BY <1>0, <5>1, TargetBlocksOf, BlocksOwned
      <4> QED BY <4>1, <4>2 DEF Base
    <3> QED BY <3>1, <3>2
  <2>6. heap = Base BY <2>1 DEF MemInv
  <2>7. heap' = heap \cup new /\ ~badFree'
    BY <1>0, <2>1, <2>5, <2>6, Allocates
  <2>8. Base' = Base \cup new
    BY <2>3, <2>4 DEF Base, ProgramBlocks
  <2> QED BY <1>0, <2>1, <2>6, <2>7, <2>8 DEF MemInv
<1>3. CASE OptionsAdded
  <2>1. /\ pc = "add" /\ pc' = "parse"
        /\ UNCHANGED <<table, option_list, target, args, heap, badFree>>
    BY <1>3 DEF OptionsAdded, input, options, memory
  <2> QED BY <1>0, <2>1, BaseKept DEF MemInv
<1>4. CASE ParseInit
  <2>1. /\ pc = "parse" /\ pc' = "args" /\ args' = strlist_init
        /\ UNCHANGED <<table, option_list, target>>
        /\ Memory({}, ListBlocks("args", args'))
    BY <1>4 DEF ParseInit, input, options
  <2>2. heap = Base /\ ListBlocks("args", args') \cap Base = {}
    BY <1>0, <2>1, BaseOwned, ListOwned DEF MemInv
  <2>3. heap' = Base \cup ListBlocks("args", args') /\ ~badFree'
    BY <1>0, <2>1, <2>2, Allocates
  <2> QED BY <1>0, <2>1, <2>3, BaseKept DEF MemInv, ArgsBlocks
<1>5. CASE ParseOK \/ Help \/ Version \/ UnknownOption \/ RefusedOption
  <2>1. /\ pc = "args" /\ pc' = "call"
        /\ UNCHANGED <<table, option_list, target, args, heap, badFree>>
    BY <1>5 DEF ParseOK, Help, Version, UnknownOption, RefusedOption, IsOption, InArgv,
                Return, input, options, memory
  <2> QED BY <1>0, <2>1, BaseKept DEF MemInv, ArgsBlocks
<1>6. CASE AddArg
  <2>1. /\ pc = "args" /\ pc' = "args" /\ args' = strlist_add(args, Word)
        /\ UNCHANGED <<table, option_list, target>>
        /\ Memory({}, ListBlocks("args", args') \ ListBlocks("args", args))
    BY <1>6 DEF AddArg, InArgv, input, options
  <2>2. ListBlocks("args", args) \subseteq ListBlocks("args", args')
    BY <1>0, <2>1, ListKeepsBlocks DEF CmdInv, Sound
  <2>3. Base \cap (ListBlocks("args", args) \cup ListBlocks("args", args')) = {}
    BY <1>0, BaseOwned, ListOwned
  <2>4. heap = Base \cup ListBlocks("args", args) BY <2>1 DEF MemInv, ArgsBlocks
  <2>5. heap' = Base \cup ListBlocks("args", args') /\ ~badFree'
    BY <1>0, <2>1, <2>2, <2>3, <2>4, Replaces
  <2> QED BY <1>0, <2>1, <2>5, BaseKept DEF MemInv, ArgsBlocks
<1>7. CASE HandleOption
  <2> DEFINE f == option_find(Word)
             o == table[f]
             value == NewValue(o, Behind(i))
             K == DOMAIN option_list
             old == ValueBlocks(o, target[o.target])
             new == ValueBlocks(o, value)
             rest == ProgramBlocks \cup OptionBlocks \cup Blocks(table, K \ {f}, target)
                       \cup ArgsBlocks
  <2>1. f \in K /\ f \in DOMAIN table /\ Option = o
    BY <1>0, <1>7, FindsOption DEF HandleOption, Option
  <2>2. /\ pc = "args" /\ pc' = "args" /\ UNCHANGED <<table, option_list, args>>
        /\ target' = [target EXCEPT ![o.target] = value]
        /\ Memory(OldBlocks(o), new \ (IF o.type = "ARR" THEN old ELSE {}))
    BY <1>7, <2>1 DEF HandleOption, IsOption, InArgv, input, options
  <2>3. heap = rest \cup old
    <3>1. heap = ProgramBlocks \cup OptionBlocks \cup Blocks(table, K, target) \cup ArgsBlocks
      BY <1>0, <2>2, TargetBlocksOf DEF MemInv, Base
    <3>2. Blocks(table, K, target) = Blocks(table, K \ {f}, target) \cup old
      BY <2>1, BlocksSplit
    <3> QED BY <3>1, <3>2
  <2>4. rest \cap (old \cup new) = {}
    <3> SUFFICES ASSUME NEW b \in old \cup new PROVE b \notin rest
      OBVIOUS
    <3>1. b[1] = o.target BY ValueOwned
    <3>2. o.target \notin {"prg", "option", "args"} BY <1>0, <2>1, TablesAssumption
    <3>3. b \notin ProgramBlocks \cup OptionBlocks
      BY <3>1, <3>2 DEF ProgramBlocks, OptionBlocks
    <3>4. b \notin ArgsBlocks BY <3>1, <3>2, ListOwned DEF ArgsBlocks
    <3>5. b \notin Blocks(table, K \ {f}, target)
      <4>1. \A k \in K \ {f} : table[k].target # o.target
        BY <1>0, <2>1, TablesAssumption
      <4> QED BY <1>0, <3>1, <4>1, BlocksOwned
    <3> QED BY <3>3, <3>4, <3>5
  <2>5. \/ Memory(old, new)
        \/ old \subseteq new /\ Memory({}, new \ old)
    <3>1. o.type \in OptionTypes /\ Fits(o, target[o.target])
      BY <1>0, <2>1 DEF CmdInv
    <3>2. CASE o.type = "STR"
      <4>1. OldBlocks(o) = old BY <3>2 DEF OldBlocks
      <4> QED BY <2>2, <3>2, <4>1
    <3>3. CASE o.type = "ARR"
      <4>1. OldBlocks(o) = {} BY <3>3 DEF OldBlocks
      <4>2. value = strlist_add(target[o.target], Behind(i)) BY <3>3 DEF NewValue
      <4>3. /\ old = ListBlocks(o.target, target[o.target])
            /\ new = ListBlocks(o.target, value)
        BY <3>3 DEF ValueBlocks
      <4>4. target[o.target] \in StringLists(Strings) BY <3>1, <3>3 DEF Fits, Sound
      <4>5. old \subseteq new BY <4>2, <4>3, <4>4, ListKeepsBlocks
      <4> QED BY <2>2, <3>3, <4>1, <4>5
    <3>4. CASE o.type \in {"BOOL", "INT"}
      <4>1. OldBlocks(o) = {} BY <3>4 DEF OldBlocks
      <4>2. old = {} /\ new = {} BY <3>4 DEF ValueBlocks
      <4> QED BY <2>2, <3>4, <4>1, <4>2
    <3> QED BY <3>1, <3>2, <3>3, <3>4 DEF OptionTypes
  <2>6. heap' = rest \cup new /\ ~badFree'
    <3> HIDE DEF rest, old, new
    <3> QED BY <1>0, <2>3, <2>4, <2>5, Replaces
  <2>7. TargetBlocks' = Blocks(table, K \ {f}, target) \cup new
    <3>1. TargetBlocks' = Blocks(table, K, target')
      <4>1. (CmdInv => TargetBlocks = Blocks(table, DOMAIN option_list, target))'
        BY TargetBlocksOf, PTL
      <4> QED BY <1>0, <2>2, <4>1 DEF Blocks
    <3>2. target'[o.target] = value
      <4>1. o.target \in DOMAIN target BY <1>0, <2>1 DEF CmdInv, TypeOK, Targets
      <4> QED BY <2>2, <4>1
    <3>3. Blocks(table, K, target') = Blocks(table, K \ {f}, target') \cup new
      <4>1. Blocks(table, K, target')
              = Blocks(table, K \ {f}, target') \cup ValueBlocks(o, target'[o.target])
        <5> HIDE DEF f
        <5> QED BY <2>1 DEF Blocks
      <4> QED BY <3>2, <4>1
    <3>4. Blocks(table, K \ {f}, target') = Blocks(table, K \ {f}, target)
      <4>1. \A k \in K \ {f} : target'[table[k].target] = target[table[k].target]
        BY <1>0, <2>1, <2>2, TablesAssumption
      <4> QED BY <4>1, BlocksKept
    <3> QED BY <3>1, <3>3, <3>4
  <2>8. heap' = Base' \cup ArgsBlocks'
    BY <2>2, <2>6, <2>7 DEF Base, ProgramBlocks, OptionBlocks, ArgsBlocks
  <2> QED BY <1>0, <2>2, <2>6, <2>8 DEF MemInv
<1>8. CASE Call
  <2>1. /\ pc = "call" /\ pc' = "exit"
        /\ UNCHANGED <<table, option_list, target, args, heap, badFree>>
    BY <1>8 DEF Call, input, options, memory
  <2> QED BY <1>0, <2>1, BaseKept DEF MemInv, ArgsBlocks
<1>9. CASE cmdline_exit
  <2>1. pc = "exit" /\ pc' = "done" /\ Memory(Base \cup ArgsBlocks, {})
    BY <1>9 DEF cmdline_exit, Base, ArgsBlocks
  <2>2. heap' = {} /\ ~badFree' BY <1>0, <2>1 DEF MemInv, Memory
  <2> QED BY <1>0, <2>1, <2>2 DEF MemInv
<1>10. CASE UNCHANGED vars
  <2>1. UNCHANGED <<pc, table, option_list, target, args, heap, badFree>>
    BY <1>10 DEF vars, input, options, memory
  <2> QED BY <1>0, <2>1, BaseKept DEF MemInv, ArgsBlocks
<1> QED BY <1>1, <1>2, <1>3, <1>4, <1>5, <1>6, <1>7, <1>8, <1>9, <1>10
        DEF Next, Parse

\* Whatever the table and the command line, every block is freed once, and
\* none is left behind cmdline_exit.
THEOREM MemoryFreedOnce == Spec => []MemoryExact
<1>1. MemInv => MemoryExact BY DEF MemInv, MemoryExact
<1> QED BY MemInvInit, MemInvNext, <1>1, PTL DEF Spec

-------------------------------------------------------------------------------
(* What the parser makes of the words.                                     *)

\* There is one way to tell the values from the other words: for the first n
\* words there is, for every n.
LEMMA BehindExists ==
  ASSUME NEW n \in Nat, NEW S
  PROVE  \E V \in SUBSET (1..n) : \A k \in 1..n : k \in V <=> k - 1 \in S \ V
<1> DEFINE T == {m \in Nat : \E V \in SUBSET (1..m) :
                              \A k \in 1..m : k \in V <=> k - 1 \in S \ V}
<1>1. 0 \in T
  <2>1. {} \in SUBSET (1..0) /\ \A k \in 1..0 : k \in {} <=> k - 1 \in S \ {} OBVIOUS
  <2> QED BY <2>1
<1>2. ASSUME NEW m \in T PROVE m + 1 \in T
  <2>1. m \in Nat OBVIOUS
  <2>2. PICK V \in SUBSET (1..m) : \A k \in 1..m : k \in V <=> k - 1 \in S \ V OBVIOUS
  <2> DEFINE W == IF m \in S \ V THEN V \cup {m + 1} ELSE V
  <2>3. W \in SUBSET (1..(m + 1)) BY <2>1
  <2>4. ASSUME NEW k \in 1..(m + 1) PROVE k \in W <=> k - 1 \in S \ W
    <3>1. k - 1 # m + 1 /\ m + 1 \notin V BY <2>1
    <3>2. k - 1 \in W <=> k - 1 \in V BY <3>1
    <3>3. CASE k = m + 1
      <4>1. k - 1 = m BY <2>1, <3>3
      <4> QED BY <3>1, <3>2, <3>3, <4>1
    <3>4. CASE k # m + 1
      <4>1. k \in 1..m BY <2>1, <3>4
      <4>2. k \in W <=> k \in V BY <3>4
      <4> QED BY <2>2, <3>2, <4>1, <4>2
    <3> QED BY <3>3, <3>4
  <2> QED BY <2>1, <2>3, <2>4
<1>3. T = Nat
  <2> HIDE DEF T
  <2>1. T \subseteq Nat BY DEF T
  <2> QED BY <1>1, <1>2, <2>1, SetInduction
<1> QED BY <1>3

LEMMA ValuesAre ==
  ASSUME argv \in Seq(Words)
  PROVE  /\ ValueWords \subseteq 1..Len(argv)
         /\ \A k \in 1..Len(argv) : k \in ValueWords <=> k - 1 \in Takers \ ValueWords
<1> DEFINE n == Len(argv)
           P(V) == \A k \in 1..n : k \in V <=> k - 1 \in Takers \ V
<1>1. n \in Nat OBVIOUS
<1>2. \E V \in SUBSET (1..n) : P(V) BY <1>1, BehindExists
<1>3. ValueWords = CHOOSE V \in SUBSET (1..n) : P(V) BY DEF ValueWords, DirectlyBehind
<1> HIDE DEF P
<1>4. ValueWords \in SUBSET (1..n) /\ P(ValueWords) BY <1>2, <1>3
<1> QED BY <1>4 DEF P

\* The words and the options do not change while they are read.
LEMMA WordsKept ==
  ASSUME UNCHANGED <<argv, option_list>>
  PROVE  /\ Takers' = Takers /\ ValueWords' = ValueWords
         /\ Ending' = Ending /\ Passed' = Passed
<1>1. Takers' = Takers BY DEF Takers, option_find
<1>2. ValueWords' = ValueWords BY <1>1 DEF ValueWords
<1>3. Ending' = Ending
  BY <1>2 DEF Ending, Outcome, IsHelp, IsVersion, option_find, Refused, Behind
<1>4. Passed' = Passed BY <1>2, <1>3 DEF Passed
<1> QED BY <1>1, <1>2, <1>3, <1>4

\* The words that the parser has gone past, and those it has dealt with.
Dealt == {k \in 1..(i - 1) : k \notin ValueWords}

\* A list whose items are the words at some indices is so with one more word.
LEMMA OneMore ==
  ASSUME NEW list, NEW words, NEW S \in SUBSET Nat, IsFiniteSet(S), Has(list, words, S),
         NEW n \in Nat, \A k \in S : k < n, list.items \in Seq(Words),
         NEW new, new.items = Append(list.items, words[n])
  PROVE  Has(new, words, S \cup {n})
<1> DEFINE c == Cardinality(S)
<1>1. n \notin S BY DEF Has
<1>2. c \in Nat /\ Cardinality(S \cup {n}) = c + 1
  BY <1>1, FS_AddElement, FS_CardinalityType
<1>3. Len(list.items) = c BY DEF Has
<1>4. /\ Len(new.items) = c + 1 /\ new.items[c + 1] = words[n]
      /\ \A m \in 1..c : new.items[m] = list.items[m]
  BY <1>2, <1>3
<1>5. ASSUME NEW k \in S
      PROVE  new.items[Cardinality({j \in S \cup {n} : j <= k})] = words[k]
  <2> DEFINE R == {j \in S : j <= k}
  <2>1. {j \in S \cup {n} : j <= k} = R
    <3>1. ~(n <= k) BY <1>5
    <3> QED BY <3>1
  <2>2. R \subseteq S /\ k \in R OBVIOUS
  <2>3. Cardinality(R) \in 1..c
    <3>1. IsFiniteSet(R) /\ Cardinality(R) <= c BY <2>2, FS_Subset
    <3>2. Cardinality(R) \in Nat BY <3>1, FS_CardinalityType
    <3>3. Cardinality(R) # 0 BY <2>2, <3>1, FS_EmptySet
    <3> QED BY <1>2, <3>1, <3>2, <3>3
  <2>4. list.items[Cardinality(R)] = words[k] BY DEF Has
  <2> QED BY <1>4, <2>1, <2>3, <2>4
<1>6. {j \in S \cup {n} : j <= n} = S \cup {n}
  <2>1. \A j \in S \cup {n} : j <= n OBVIOUS
  <2> QED BY <2>1
<1>7. new.items[Cardinality({j \in S \cup {n} : j <= n})] = words[n]
  BY <1>2, <1>4, <1>6
<1> QED BY <1>2, <1>4, <1>5, <1>7 DEF Has

\* The lists and targets hold what the words in Dealt say.
Contents ==
  /\ Has(args, argv, PlainIn(Dealt))
  /\ \A n \in DOMAIN option_list :
       Says(option_list[n], target[option_list[n].target], Uses(n, Dealt))

\* The parser is never at a value, and all it has dealt with was in order; it
\* stops behind the words or at the first that ends it.
ResultInv ==
  /\ pc \in {"init", "add", "parse", "args"} => result = "none"
  /\ pc \in {"add", "parse"} =>
       \A n \in DOMAIN option_list :
         target[option_list[n].target] = FactoryValue(option_list[n])
  /\ pc \in {"args", "call", "exit", "done"} =>
       /\ i # 0
       /\ i <= Len(argv) => i \notin ValueWords
       /\ \A k \in Dealt : Outcome(k) = "OK"
  /\ pc \in {"call", "exit", "done"} =>
       \/ i > Len(argv) /\ result = "OK"
       \/ i <= Len(argv) /\ result = Outcome(i) /\ result # "OK"
  /\ pc \in {"args", "call"} => Contents

LEMMA DoneFacts ==
  ASSUME CmdInv
  PROVE  /\ IsFiniteSet(Dealt) /\ Dealt \in SUBSET Nat /\ \A k \in Dealt : k < i
         /\ i \in Nat /\ argv \in Seq(Words) /\ Len(argv) \in Nat
         /\ Dealt \subseteq DOMAIN argv
<1>1. i \in 0..(Len(argv) + 1) /\ argv \in Seq(Words) BY DEF CmdInv, TypeOK
<1>2. IsFiniteSet(1..(i - 1)) BY <1>1, FS_Interval
<1>3. Dealt \subseteq 1..(i - 1) BY DEF Dealt
<1>4. IsFiniteSet(Dealt) BY <1>2, <1>3, FS_Subset
<1>5. Dealt \subseteq DOMAIN argv BY <1>1, <1>3
<1> QED BY <1>1, <1>3, <1>4, <1>5

\* Once the parsing has ended its words are those up to the one that ends it.
LEMMA StoppedAt ==
  ASSUME CmdInv, ResultInv, pc \in {"call", "exit", "done"}
  PROVE  Passed = Dealt /\ result = IF Ending = {} THEN "OK" ELSE Outcome(Min(Ending))
<1>1. /\ i \in 1..(Len(argv) + 1) /\ Len(argv) \in Nat /\ DOMAIN argv = 1..Len(argv)
      /\ i <= Len(argv) => i \notin ValueWords
      /\ \A k \in Dealt : Outcome(k) = "OK"
  BY DEF CmdInv, TypeOK, ResultInv
<1>2. CASE i > Len(argv) /\ result = "OK"
  <2>1. Dealt = {k \in DOMAIN argv : k \notin ValueWords} BY <1>1, <1>2 DEF Dealt
  <2>2. Ending = {} BY <1>1, <2>1 DEF Ending
  <2> QED BY <1>2, <2>1, <2>2 DEF Passed
<1>3. CASE i <= Len(argv) /\ result = Outcome(i) /\ result # "OK"
  <2>1. i \in Ending BY <1>1, <1>3 DEF Ending
  <2>2. Ending \in SUBSET Nat /\ \A e \in Ending : i <= e
    <3> SUFFICES ASSUME NEW e \in Ending PROVE e \in Nat /\ i <= e
      OBVIOUS
    <3>1. e \in 1..Len(argv) /\ e \notin ValueWords /\ Outcome(e) # "OK" BY <1>1 DEF Ending
    <3>2. e \notin Dealt BY <1>1, <3>1
    <3> QED BY <1>1, <3>1, <3>2 DEF Dealt
  <2>3. Min(Ending) = i BY <2>1, <2>2, MinIs
  <2>4. Passed = Dealt
    <3>1. ASSUME NEW k \in Passed PROVE k \in Dealt
      <4>1. k \in 1..Len(argv) /\ k \notin ValueWords /\ k < i BY <1>1, <2>1 DEF Passed
      <4> QED BY <1>1, <4>1 DEF Dealt
    <3>2. ASSUME NEW k \in Dealt PROVE k \in Passed
      <4>1. k \in 1..(i - 1) /\ k \notin ValueWords BY DEF Dealt
      <4>2. \A e \in Ending : k < e BY <1>1, <2>2, <4>1
      <4> QED BY <1>1, <1>3, <4>1, <4>2 DEF Passed
    <3> QED BY <3>1, <3>2
  <2> QED BY <1>3, <2>1, <2>3, <2>4
<1> QED BY <1>2, <1>3 DEF ResultInv

\* The parser goes on behind a word and behind its value.
LEMMA DoneGrows ==
  ASSUME CmdInv, ResultInv, pc = "args", i <= Len(argv), UNCHANGED <<argv, option_list>>,
         Outcome(i) = "OK",
         \/ i \notin Takers /\ i' = i + 1
         \/ i \in Takers /\ i' = i + 2 /\ i < Len(argv)
  PROVE  /\ Dealt' = Dealt \cup {i}
         /\ i' # 0 /\ (i' <= Len(argv') => i' \notin ValueWords')
         /\ \A k \in Dealt' : Outcome(k)' = "OK"
<1>1. /\ i \in 1..Len(argv) /\ Len(argv) \in Nat /\ DOMAIN argv = 1..Len(argv)
      /\ i \notin ValueWords /\ \A k \in Dealt : Outcome(k) = "OK"
  BY DEF CmdInv, TypeOK, ResultInv
<1>2. \A k \in 1..Len(argv) : k \in ValueWords <=> k - 1 \in Takers \ ValueWords
  BY ValuesAre DEF CmdInv, TypeOK
<1>3. ValueWords' = ValueWords BY WordsKept
<1>4. Dealt' = Dealt \cup {i} /\ i' # 0 /\ (i' <= Len(argv') => i' \notin ValueWords')
  <2>1. CASE i \notin Takers /\ i' = i + 1
    <3>1. i + 1 <= Len(argv) => i + 1 \notin ValueWords
      <4> SUFFICES ASSUME i + 1 <= Len(argv) PROVE i + 1 \notin ValueWords
        OBVIOUS
      <4>1. i + 1 \in 1..Len(argv) /\ (i + 1) - 1 = i BY <1>1
      <4> QED BY <1>2, <2>1, <4>1
    <3>2. 1..(i' - 1) = 1..(i - 1) \cup {i} BY <1>1, <2>1
    <3> QED BY <1>1, <1>3, <2>1, <3>1, <3>2 DEF Dealt
  <2>2. CASE i \in Takers /\ i' = i + 2 /\ i < Len(argv)
    <3>1. i + 1 \in ValueWords
      <4>1. i + 1 \in 1..Len(argv) /\ (i + 1) - 1 = i BY <1>1, <2>2
      <4> QED BY <1>1, <1>2, <2>2, <4>1
    <3>2. i + 2 <= Len(argv) => i + 2 \notin ValueWords
      <4> SUFFICES ASSUME i + 2 <= Len(argv) PROVE i + 2 \notin ValueWords
        OBVIOUS
      <4>1. i + 2 \in 1..Len(argv) /\ (i + 2) - 1 = i + 1 BY <1>1
      <4> QED BY <1>2, <3>1, <4>1
    <3>3. 1..(i' - 1) = 1..(i - 1) \cup {i, i + 1} BY <1>1, <2>2
    <3> QED BY <1>1, <1>3, <2>2, <3>1, <3>2, <3>3 DEF Dealt
  <2> QED BY <2>1, <2>2
<1>5. ASSUME NEW k \in Dealt \cup {i} PROVE Outcome(k)' = "OK"
  <2>1. PICK m \in 1..Len(argv) : m = k
    BY <1>1 DEF Dealt
  <2>2. Outcome(m) = "OK" BY <1>1, <2>1
  <2>3. Outcome(m)' = Outcome(m)
    BY DEF Outcome, IsHelp, IsVersion, option_find, Refused, Behind
  <2> QED BY <2>1, <2>2, <2>3
<1> QED BY <1>4, <1>5

\* A word that is no use of the option n changes nothing for it.
LEMMA NoUse ==
  ASSUME NEW n, NEW S, NEW k, argv[k].kind = "plain" \/ option_find(argv[k]) # n
  PROVE  Uses(n, S \cup {k}) = Uses(n, S)
BY DEF Uses

LEMMA OneUse ==
  ASSUME NEW S, NEW k, argv[k].kind # "plain"
  PROVE  Uses(option_find(argv[k]), S \cup {k}) = Uses(option_find(argv[k]), S) \cup {k}
BY DEF Uses

\* What the lists and targets hold when the words are still the same.
LEMMA ContentsThen ==
  ASSUME UNCHANGED <<argv, option_list>>, Has(args', argv, PlainIn(Dealt')),
         \A n \in DOMAIN option_list :
           Says(option_list[n], target'[option_list[n].target], Uses(n, Dealt'))
  PROVE  Contents'
<1>1. PlainIn(Dealt)' = PlainIn(Dealt') BY DEF PlainIn
<1>2. Has(args', argv', PlainIn(Dealt)') BY <1>1
<1>3. ASSUME NEW n \in DOMAIN option_list
      PROVE  Says(option_list[n], target[option_list[n].target], Uses(n, Dealt))'
  <2>1. Uses(n, Dealt)' = Uses(n, Dealt') BY DEF Uses, option_find
  <2>2. Says(option_list[n], target'[option_list[n].target], Uses(n, Dealt')) OBVIOUS
  <2> QED BY <2>1, <2>2 DEF Says
<1> QED BY <1>2, <1>3 DEF Contents

LEMMA AddArgSays ==
  ASSUME CmdInv, ResultInv, AddArg
  PROVE  ResultInv'
<1>1. /\ pc = "args" /\ pc' = "args" /\ i <= Len(argv) /\ i' = i + 1
      /\ argv[i].kind = "plain" /\ args' = strlist_add(args, argv[i])
      /\ UNCHANGED <<table, argv, option_list, target, result>>
  BY DEF AddArg, InArgv, Word, input, options
<1>2. Outcome(i) = "OK" /\ i \notin Takers
  <2>1. Outcome(i) = "OK" BY <1>1 DEF Outcome, IsHelp, IsVersion
  <2>2. i \notin Takers BY <1>1 DEF Takers
  <2> QED BY <2>1, <2>2
<1>3. /\ Dealt' = Dealt \cup {i}
      /\ i' # 0 /\ (i' <= Len(argv') => i' \notin ValueWords')
      /\ \A k \in Dealt' : Outcome(k)' = "OK"
  BY <1>1, <1>2, DoneGrows
<1>4. Contents BY <1>1 DEF ResultInv
<1>5. Has(args', argv, PlainIn(Dealt'))
  <2>1. CASE argv[i] = EmptyString
    <3>1. args' = args BY <1>1, <2>1 DEF strlist_add
    <3>2. PlainIn(Dealt \cup {i}) = PlainIn(Dealt) BY <2>1 DEF PlainIn
    <3> QED BY <1>3, <1>4, <3>1, <3>2 DEF Contents
  <2>2. CASE argv[i] # EmptyString
    <3>1. PlainIn(Dealt \cup {i}) = PlainIn(Dealt) \cup {i} BY <1>1, <2>2 DEF PlainIn
    <3>2. /\ PlainIn(Dealt) \subseteq Dealt /\ IsFiniteSet(PlainIn(Dealt))
          /\ PlainIn(Dealt) \in SUBSET Nat /\ \A k \in PlainIn(Dealt) : k < i
          /\ i \in Nat
      <4>1. PlainIn(Dealt) \subseteq Dealt BY DEF PlainIn
      <4>2. IsFiniteSet(PlainIn(Dealt)) BY <4>1, DoneFacts, FS_Subset
      <4> QED BY <4>1, <4>2, DoneFacts
    <3>3. argv[i] \in Words /\ argv[i] # NULL
      <4>1. i \in 1..Len(argv) /\ argv \in Seq(Words)
        BY <1>1 DEF CmdInv, TypeOK
      <4>2. argv[i] \in Words BY <4>1
      <4> QED BY <4>2, WordsAssumption
    <3>4. args'.items = Append(args.items, argv[i])
      BY <1>1, <2>2, <3>3 DEF strlist_add
    <3>5. args.items \in Seq(Words)
      <4>1. args.items \in Seq(Strings) BY <1>1 DEF CmdInv, Sound, StringLists
      <4>2. Strings \subseteq Words BY DEF Strings
      <4> QED BY <4>1, <4>2
    <3>6. Has(args, argv, PlainIn(Dealt)) BY <1>4 DEF Contents
    <3>7. Has(args', argv, PlainIn(Dealt) \cup {i}) BY <3>2, <3>4, <3>5, <3>6, OneMore
    <3> QED BY <1>3, <3>1, <3>7
  <2> QED BY <2>1, <2>2
<1>6. ASSUME NEW n \in DOMAIN option_list
      PROVE  Says(option_list[n], target'[option_list[n].target], Uses(n, Dealt'))
  BY <1>1, <1>3, <1>4, NoUse DEF Contents
<1>7. Contents' BY <1>1, <1>3, <1>5, <1>6, ContentsThen
<1> QED BY <1>1, <1>3, <1>7 DEF ResultInv

\* What an option's target holds once the parser has gone past one more use of
\* the option.
LEMMA UseSays ==
  ASSUME CmdInv, NEW o, o.type \in OptionTypes, Fits(o, target[o.target]),
         NEW U \in SUBSET Nat, IsFiniteSet(U), \A k \in U : k < i, i \in Nat,
         Says(o, target[o.target], U), o.type # "BOOL" => i < Len(argv),
         ~Refused(o, Behind(i))
  PROVE  Says(o, NewValue(o, Behind(i)), U \cup {i})
<1> DEFINE given == ValuesOf(U)
           all == ValuesOf(U \cup {i})
           new == NewValue(o, Behind(i))
<1>1. all = given \cup {i + 1} BY DEF ValuesOf
<1>2. given \in SUBSET Nat /\ \A k \in given : k < i + 1 BY DEF ValuesOf
<1>3. U \cup {i} # {} OBVIOUS
<1>4. CASE o.type = "BOOL"
  <2>1. new = 1 BY <1>4 DEF NewValue
  <2> QED BY <1>3, <1>4, <2>1 DEF Says
<1>5. CASE o.type \in {"INT", "STR"}
  <2>1. Behind(i) = argv[i + 1] BY <1>5 DEF Behind
  <2>2. Max(all) = i + 1
    <3>1. all \in SUBSET Nat /\ i + 1 \in all /\ \A k \in all : k <= i + 1
      <4> HIDE DEF given, all
      <4> QED BY <1>1, <1>2
    <3> HIDE DEF all
    <3> QED BY <3>1, MaxIs
  <2>3. /\ o.type = "INT" => new = ToInt(argv[Max(all)].num)
        /\ o.type = "STR" => new = argv[Max(all)]
    <3> HIDE DEF all
    <3> QED BY <1>5, <2>1, <2>2 DEF NewValue
  <2>4. CASE o.type = "INT" BY <1>3, <2>3, <2>4 DEF Says
  <2>5. CASE o.type = "STR" BY <1>3, <2>3, <2>5 DEF Says
  <2> QED BY <1>5, <2>4, <2>5
<1>6. CASE o.type = "ARR"
  <2>1. Behind(i) = argv[i + 1] /\ i + 1 \in Nat BY <1>6 DEF Behind
  <2>2. argv[i + 1] \notin {NULL, EmptyString} BY <1>6, <2>1 DEF Refused
  <2>3. new = strlist_add(target[o.target], argv[i + 1]) BY <1>6, <2>1 DEF NewValue
  <2>4. new.items = Append(target[o.target].items, argv[i + 1])
    BY <2>2, <2>3 DEF strlist_add
  <2>5. target[o.target].items \in Seq(Words)
    <3>1. target[o.target].items \in Seq(Strings) BY <1>6 DEF Fits, Sound, StringLists
    <3>2. Strings \subseteq Words BY DEF Strings
    <3> QED BY <3>1, <3>2
  <2>6. IsFiniteSet(given)
    <3>1. given \subseteq 1..i BY DEF ValuesOf
    <3>2. IsFiniteSet(1..i) BY FS_Interval
    <3> QED BY <3>1, <3>2, FS_Subset
  <2>7. Has(target[o.target], argv, given) BY <1>6 DEF Says
  <2>8. Has(new, argv, given \cup {i + 1})
    <3> HIDE DEF given, new
    <3> QED BY <1>2, <2>1, <2>4, <2>5, <2>6, <2>7, OneMore
  <2> QED BY <1>1, <1>6, <2>8 DEF Says
<1> QED BY <1>4, <1>5, <1>6 DEF OptionTypes

LEMMA HandleOptionSays ==
  ASSUME CmdInv, ResultInv, HandleOption
  PROVE  ResultInv'
<1> DEFINE f == option_find(argv[i])
           o == option_list[f]
<1>1. /\ pc = "args" /\ pc' = "args" /\ i <= Len(argv) /\ i' = i + Delta(o) + 1
      /\ argv[i].kind # "plain" /\ ~IsHelp(argv[i]) /\ ~IsVersion(argv[i])
      /\ f # 0 /\ ~Refused(o, Behind(i))
      /\ target' = [target EXCEPT ![o.target] = NewValue(o, Behind(i))]
      /\ UNCHANGED <<table, argv, option_list, args, result>>
  BY DEF HandleOption, IsOption, InArgv, Word, Option, input, options
<1>2. /\ option_list \in Seq(Range(table)) /\ table \in Tables
      /\ DOMAIN target = Targets
      /\ i \in 1..Len(argv) /\ Len(argv) \in Nat /\ DOMAIN argv = 1..Len(argv)
  BY <1>1 DEF CmdInv, TypeOK
<1>3. f \in DOMAIN option_list BY <1>1, <1>2, FindsOption
<1>4. /\ \A k \in DOMAIN option_list : k \in DOMAIN table /\ option_list[k] = table[k]
      /\ o.type \in OptionTypes /\ Fits(o, target[o.target])
  BY <1>3 DEF CmdInv, TypeOK
<1>5. o.target \in DOMAIN target BY <1>2, <1>3, <1>4 DEF Targets
<1>6. o.type # "BOOL" => i < Len(argv)
  BY <1>1, <1>2 DEF Refused, Behind
<1>7. Outcome(i) = "OK" BY <1>1 DEF Outcome
<1>8. \/ i \notin Takers /\ i' = i + 1
      \/ i \in Takers /\ i' = i + 2 /\ i < Len(argv)
  <2>1. i \in Takers <=> o.type # "BOOL" BY <1>1, <1>2 DEF Takers
  <2> QED BY <1>1, <1>2, <1>6, <2>1 DEF Delta
<1>9. /\ Dealt' = Dealt \cup {i}
      /\ i' # 0 /\ (i' <= Len(argv') => i' \notin ValueWords')
      /\ \A k \in Dealt' : Outcome(k)' = "OK"
  BY <1>1, <1>7, <1>8, DoneGrows
<1>10. Contents BY <1>1 DEF ResultInv
<1>11. PlainIn(Dealt') = PlainIn(Dealt) BY <1>1, <1>9 DEF PlainIn
<1>12. Has(args', argv, PlainIn(Dealt')) BY <1>1, <1>10, <1>11 DEF Contents
<1>13. ASSUME NEW n \in DOMAIN option_list
       PROVE  Says(option_list[n], target'[option_list[n].target], Uses(n, Dealt'))
  <2>1. CASE n = f
    <3> DEFINE U == Uses(f, Dealt)
    <3>1. Uses(f, Dealt') = U \cup {i}
      <4> HIDE DEF o
      <4> QED BY <1>1, <1>9, OneUse
    <3>2. /\ U \in SUBSET Nat /\ IsFiniteSet(U) /\ \A k \in U : k < i
      <4>1. U \subseteq Dealt BY DEF Uses
      <4>2. IsFiniteSet(U) BY <4>1, DoneFacts, FS_Subset
      <4> HIDE DEF U
      <4> QED BY <4>1, <4>2, DoneFacts
    <3>3. Says(o, target[o.target], U) BY <1>3, <1>10 DEF Contents
    <3>4. Says(o, NewValue(o, Behind(i)), U \cup {i})
      <4> HIDE DEF U, o
      <4> QED BY <1>1, <1>2, <1>4, <1>6, <3>2, <3>3, UseSays
    <3>5. target'[o.target] = NewValue(o, Behind(i)) BY <1>1, <1>5
    <3> HIDE DEF U, f
    <3> QED BY <2>1, <3>1, <3>4, <3>5
  <2>2. CASE n # f
    <3>1. option_list[n].target # o.target
      BY <1>2, <1>3, <1>4, <2>2, TablesAssumption
    <3>2. target'[option_list[n].target] = target[option_list[n].target] BY <1>1, <3>1
    <3>3. Uses(n, Dealt') = Uses(n, Dealt) BY <1>9, <2>2, NoUse
    <3> QED BY <1>10, <3>2, <3>3 DEF Contents
  <2> QED BY <2>1, <2>2
<1>14. Contents' BY <1>1, <1>12, <1>13, ContentsThen
<1> QED BY <1>1, <1>9, <1>14 DEF ResultInv

\* What is so of the words and the targets is still so where they are the same.
LEMMA WordsStill ==
  ASSUME CmdInv, UNCHANGED <<argv, option_list, target, i>>
  PROVE  /\ Dealt' = Dealt /\ ValueWords' = ValueWords
         /\ (\A k \in Dealt : Outcome(k) = "OK") => \A k \in Dealt' : Outcome(k)' = "OK"
         /\ \A k \in DOMAIN argv : Outcome(k)' = Outcome(k)
         /\ args' = args /\ Contents => Contents'
<1>1. ValueWords' = ValueWords BY WordsKept
<1>2. Dealt' = Dealt BY <1>1 DEF Dealt
<1>3. ASSUME NEW k \in DOMAIN argv PROVE Outcome(k)' = Outcome(k)
  BY DEF Outcome, IsHelp, IsVersion, option_find, Refused, Behind
<1>4. Dealt \subseteq DOMAIN argv BY DoneFacts
<1>5. ASSUME args' = args, Contents PROVE Contents'
  BY <1>2, <1>5, ContentsThen DEF Contents
<1> QED BY <1>1, <1>2, <1>3, <1>4, <1>5

\* The parser's own answer to each word that ends the parsing.
LEMMA ReturnSays ==
  ASSUME CmdInv, ResultInv,
         ParseOK \/ Help \/ Version \/ UnknownOption \/ RefusedOption
  PROVE  ResultInv'
<1>1. /\ pc = "args" /\ pc' = "call"
      /\ UNCHANGED <<table, argv, option_list, target, i, args>>
  BY DEF ParseOK, Help, Version, UnknownOption, RefusedOption, IsOption, InArgv,
         Return, input, options
<1>2. /\ i \in Nat /\ Len(argv) \in Nat BY DoneFacts
<1>3. \/ i > Len(argv) /\ result' = "OK"
      \/ i <= Len(argv) /\ result' = Outcome(i) /\ result' # "OK"
  <2>1. CASE ParseOK BY <2>1 DEF ParseOK, Return
  <2>2. CASE Help BY <2>2 DEF Help, IsVersion, InArgv, Word, Return, Outcome, IsHelp
  <2>3. CASE Version
    BY <2>3 DEF Version, InArgv, Word, Return, Outcome, IsHelp, IsVersion
  <2>4. CASE UnknownOption
    BY <2>4 DEF UnknownOption, IsOption, InArgv, Word, Return, Outcome
  <2>5. CASE RefusedOption
    BY <2>5 DEF RefusedOption, IsOption, InArgv, Word, Return, Outcome, Option
  <2> QED BY <2>1, <2>2, <2>3, <2>4, <2>5
<1>4. /\ i # 0 /\ (i <= Len(argv) => i \notin ValueWords)
      /\ \A k \in Dealt : Outcome(k) = "OK"
      /\ Contents
  BY <1>1 DEF ResultInv
<1>5. i <= Len(argv) => i \in DOMAIN argv /\ Outcome(i)' = Outcome(i)
  <2>1. i <= Len(argv) => i \in DOMAIN argv BY <1>2, <1>4
  <2> QED BY <1>1, <2>1, WordsStill
<1>6. ValueWords' = ValueWords /\ (\A k \in Dealt' : Outcome(k)' = "OK") /\ Contents'
  BY <1>1, <1>4, WordsStill
<1>7. \/ i' > Len(argv') /\ result' = "OK"
      \/ i' <= Len(argv') /\ result' = Outcome(i)' /\ result' # "OK"
  BY <1>1, <1>3, <1>5
<1> QED BY <1>1, <1>4, <1>6, <1>7 DEF ResultInv

\* Nothing is dealt with where the parser starts.
LEMMA ParseInitSays ==
  ASSUME CmdInv, ResultInv, ParseInit
  PROVE  ResultInv'
<1>1. /\ pc = "parse" /\ pc' = "args" /\ i' = 1 /\ args' = strlist_init
      /\ UNCHANGED <<table, argv, option_list, target, result>>
  BY DEF ParseInit, input, options
<1>2. /\ argv \in Seq(Words) /\ Len(argv) \in Nat
      /\ option_list \in Seq(Range(table)) /\ table \in Tables
  BY DEF CmdInv, TypeOK
<1>3. Dealt' = {} BY <1>1 DEF Dealt
<1>4. 1 <= Len(argv') => 1 \notin ValueWords'
  <2>1. ValueWords' = ValueWords BY <1>1, WordsKept
  <2>2. 0 \notin Takers BY <1>2 DEF Takers
  <2>3. 1 <= Len(argv) => 1 \notin ValueWords
    <3> SUFFICES ASSUME 1 <= Len(argv) PROVE 1 \notin ValueWords
      OBVIOUS
    <3>1. 1 \in 1..Len(argv) /\ 1 - 1 = 0 BY <1>2
    <3> QED BY <1>2, <2>2, <3>1, ValuesAre
  <2> QED BY <1>1, <2>1, <2>3
<1>5. Has(strlist_init, argv, {})
  BY FS_EmptySet DEF Has, strlist_init
<1>6. Has(args', argv, PlainIn(Dealt'))
  <2>1. PlainIn(Dealt') = {} BY <1>3 DEF PlainIn
  <2> QED BY <1>1, <1>5, <2>1
<1>7. ASSUME NEW n \in DOMAIN option_list
      PROVE  Says(option_list[n], target'[option_list[n].target], Uses(n, Dealt'))
  <2>1. Uses(n, Dealt') = {} /\ ValuesOf({}) = {} BY <1>3 DEF Uses, ValuesOf
  <2>2. target'[option_list[n].target] = FactoryValue(option_list[n])
    BY <1>1 DEF ResultInv
  <2>3. Says(option_list[n], FactoryValue(option_list[n]), {})
    BY <1>5, <2>1 DEF Says, FactoryValue
  <2> QED BY <2>1, <2>2, <2>3
<1>8. Contents' BY <1>1, <1>6, <1>7, ContentsThen
<1> QED BY <1>1, <1>3, <1>4, <1>8 DEF ResultInv

\* Each registered option has its factory value.
LEMMA AddOptionSays ==
  ASSUME CmdInv, ResultInv, AddOption
  PROVE  ResultInv'
<1> DEFINE m == Len(option_list) + 1
           o == table[m]
           K == DOMAIN option_list
<1>1. /\ pc = "add" /\ m \in DOMAIN table
      /\ option_list' = Append(option_list, o)
      /\ target' = [target EXCEPT ![o.target] = FactoryValue(o)]
      /\ UNCHANGED <<pc, table, argv, result>>
  BY DEF AddOption, input
<1>2. /\ option_list \in Seq(Range(table)) /\ table \in Tables
      /\ DOMAIN target = Targets
      /\ \A n \in K : n \in DOMAIN table /\ option_list[n] = table[n]
  BY DEF CmdInv, TypeOK
<1>3. /\ DOMAIN option_list' = K \cup {m} /\ m \notin K
      /\ option_list'[m] = o /\ \A n \in K : option_list'[n] = option_list[n]
  BY <1>1, <1>2
<1>4. o.target \in DOMAIN target BY <1>1, <1>2 DEF Targets
<1>5. ASSUME NEW n \in DOMAIN option_list'
      PROVE  target'[option_list'[n].target] = FactoryValue(option_list'[n])
  <2>1. CASE n = m
    <3> HIDE DEF m
    <3> QED BY <1>1, <1>3, <1>4, <2>1
  <2>2. CASE n # m
    <3>1. n \in K /\ option_list'[n] = table[n] BY <1>2, <1>3, <2>2
    <3>2. table[n].target # o.target BY <1>1, <1>2, <2>2, <3>1, TablesAssumption
    <3>3. target[table[n].target] = FactoryValue(table[n])
      BY <1>1, <1>2, <3>1 DEF ResultInv
    <3>4. target'[table[n].target] = target[table[n].target] BY <1>1, <3>2
    <3> QED BY <3>1, <3>3, <3>4
  <2> QED BY <2>1, <2>2
<1> QED BY <1>1, <1>5 DEF ResultInv, FactoryValue

LEMMA ResultInvInit == Init => ResultInv
BY DEF Init, ResultInv

\* Behind the parsing nothing changes but the program counter and the memory.
LEMMA ResultInvNext == CmdInv /\ ResultInv /\ [Next]_vars => ResultInv'
<1> SUFFICES ASSUME CmdInv, ResultInv, [Next]_vars PROVE ResultInv'
  OBVIOUS
<1>1. CASE cmdline_init
  <2>1. pc' = "add" /\ option_list' = <<>> /\ UNCHANGED result
    BY <1>1 DEF cmdline_init, CmdInv
  <2>2. pc = "init" BY <1>1 DEF cmdline_init
  <2> QED BY <2>1, <2>2 DEF ResultInv
<1>2. CASE AddOption BY <1>2, AddOptionSays
<1>3. CASE OptionsAdded
  <2>1. pc = "add" /\ pc' = "parse" /\ UNCHANGED <<option_list, target, result>>
    BY <1>3 DEF OptionsAdded, options
  <2> QED BY <2>1 DEF ResultInv, FactoryValue
<1>4. CASE ParseInit BY <1>4, ParseInitSays
<1>5. CASE ParseOK \/ Help \/ Version \/ UnknownOption \/ RefusedOption
  BY <1>5, ReturnSays
<1>6. CASE AddArg BY <1>6, AddArgSays
<1>7. CASE HandleOption BY <1>7, HandleOptionSays
<1>8. CASE Call \/ cmdline_exit \/ UNCHANGED vars
  <2>1. /\ UNCHANGED <<argv, option_list, target, i, result>>
        /\ \/ pc = "call" /\ pc' = "exit"
           \/ pc = "exit" /\ pc' = "done"
           \/ pc' = pc /\ args' = args
    BY <1>8 DEF Call, cmdline_exit, vars, input, options
  <2>2. /\ Dealt' = Dealt /\ ValueWords' = ValueWords
        /\ (\A k \in Dealt : Outcome(k) = "OK") => \A k \in Dealt' : Outcome(k)' = "OK"
        /\ args' = args /\ Contents => Contents'
    BY <2>1, WordsStill
  <2>3. i # 0 /\ i <= Len(argv) => Outcome(i)' = Outcome(i)
    <3>1. i # 0 /\ i <= Len(argv) => i \in DOMAIN argv BY DoneFacts
    <3> QED BY <2>1, <3>1, WordsStill
  <2>4. pc' \in {"args", "call"} => Contents' BY <2>1, <2>2 DEF ResultInv
  <2>5. pc' \in {"add", "parse"} =>
          \A n \in DOMAIN option_list' :
            target'[option_list'[n].target] = FactoryValue(option_list'[n])
    BY <2>1 DEF ResultInv
  <2>6. pc' \in {"call", "exit", "done"} =>
          \/ i' > Len(argv') /\ result' = "OK"
          \/ i' <= Len(argv') /\ result' = Outcome(i)' /\ result' # "OK"
    BY <2>1, <2>3 DEF ResultInv
  <2> QED BY <2>1, <2>2, <2>4, <2>5, <2>6 DEF ResultInv, FactoryValue
<1> QED BY <1>1, <1>2, <1>3, <1>4, <1>5, <1>6, <1>7, <1>8 DEF Next, Parse

LEMMA ResultInvariant == Spec => [](CmdInv /\ ResultInv)
BY CmdInvInit, CmdInvNext, ResultInvInit, ResultInvNext, PTL DEF Spec

LEMMA ParsedExactly ==
  ASSUME CmdInv, ResultInv
  PROVE  ResultExact /\ ArgsExact /\ TargetsExact
<1>1. ResultExact
  <2> SUFFICES ASSUME result # "none"
               PROVE  result = IF Ending = {} THEN "OK" ELSE Outcome(Min(Ending))
    BY DEF ResultExact
  <2>1. pc \in {"call", "exit", "done"} BY DEF CmdInv, TypeOK, ResultInv
  <2> QED BY <2>1, StoppedAt
<1>2. pc = "call" => Passed = Dealt /\ Contents
  BY StoppedAt DEF ResultInv
<1>3. ArgsExact BY <1>2 DEF ArgsExact, Contents
<1>4. TargetsExact BY <1>2 DEF TargetsExact, Contents
<1> QED BY <1>1, <1>3, <1>4

\* The parser returns what the first word that ends it says, for every table
\* and every command line.
THEOREM ReturnsExactly == Spec => []ResultExact
BY ResultInvariant, ParsedExactly, PTL

\* The arguments are the plain words up to the end of the parsing, in their
\* order, and no word that an option has taken.
THEOREM ArgumentsExactly == Spec => []ArgsExact
BY ResultInvariant, ParsedExactly, PTL

\* Each target holds its factory value, the last value that the command line
\* gives it, or the list of all of them.
THEOREM TargetsExactly == Spec => []TargetsExact
BY ResultInvariant, ParsedExactly, PTL


-------------------------------------------------------------------------------
(* The memory of zipcode-conv.                                             *)

OutfileName == {<<"outfile", "str", 0>>}

\* What a command has allocated and not freed at each of its steps.
WorkBlocks ==
  CASE step = "read" -> OutfileBlocks
    [] step = "unzip" -> OutfileBlocks \cup ZipBlocks
    [] OTHER -> {}

\* What it never frees.
Lost == IF IsMain /\ command \in {"info", "unzip"} THEN ZipBlocks ELSE {}

\* The memory of the parser is there through the work of the program, and that
\* of the work beside it.
MainMemInv ==
  /\ CmdInv
  /\ ~badFree
  /\ pc \notin {"call", "exit", "done"} => MemInv /\ step = "result"
  /\ pc = "call" /\ step # "ended" => heap = Base \cup ArgsBlocks \cup WorkBlocks
  /\ (pc = "call" /\ step = "ended") \/ pc = "exit" =>
       \E left \in SUBSET Lost : heap = Base \cup ArgsBlocks \cup left
  /\ pc = "done" => heap \subseteq Lost
  /\ step \in {"read", "unzip"} => command = "unzip"
  /\ ~IsMain => step = "result"

\* The owners of the blocks of the parser.
LEMMA ParserOwned ==
  ASSUME CmdInv, IsMain, NEW b \in Base \cup ArgsBlocks
  PROVE  b \notin ZipBlocks \cup OutfileName
<1>1. CASE b \in ArgsBlocks
  <2>1. b[1] = "args" BY <1>1, ListOwned DEF ArgsBlocks
  <2> QED BY <2>1 DEF ZipBlocks, OutfileName
<1>2. CASE b \in ProgramBlocks \cup OptionBlocks
  BY <1>2 DEF ProgramBlocks, OptionBlocks, ZipBlocks, OutfileName
<1>3. CASE b \in TargetBlocks
  <2>1. table \in Tables /\ DOMAIN option_list \subseteq DOMAIN table BY DEF CmdInv, TypeOK
  <2>2. PICK k \in DOMAIN table : b[1] = table[k].target
    BY <1>3, <2>1, TargetBlocksOf, BlocksOwned
  <2>3. table[k].target \notin {"zip", "outfile"}
    BY <2>2 DEF IsMain, main_cmdline_options, Switch
  <2> QED BY <2>2, <2>3 DEF ZipBlocks, OutfileName
<1> QED BY <1>1, <1>2, <1>3 DEF Base

LEMMA CmdInvKept ==
  ASSUME CmdInv, UNCHANGED <<pc, cmdlineVars>>
  PROVE  CmdInv' /\ Base' = Base /\ ArgsBlocks' = ArgsBlocks
<1>1. UNCHANGED <<pc, table, argv, option_list, option_list_size, target, i, args, result>>
  BY DEF cmdlineVars, input, options
<1> QED BY <1>1, BaseKept DEF CmdInv, TypeOK, Targets, ArgsBlocks

\* A step of a command: what it holds is freed, and other blocks allocated.
LEMMA WorkReplaces ==
  ASSUME CmdInv, IsMain, ~badFree, NEW kept, NEW old, NEW new,
         kept \cup old \subseteq ZipBlocks \cup OutfileName,
         new \subseteq ZipBlocks \cup OutfileName,
         kept \cap (old \cup new) = {},
         heap = Base \cup ArgsBlocks \cup kept \cup old,
         Memory(old, new)
  PROVE  heap' = Base \cup ArgsBlocks \cup kept \cup new /\ ~badFree'
<1>1. (Base \cup ArgsBlocks) \cap (old \cup new) = {} BY ParserOwned
<1>2. heap \ old = Base \cup ArgsBlocks \cup kept BY <1>1
<1>3. heap' = (heap \ old) \cup new
      /\ (badFree' <=> (badFree \/ ~(old \subseteq heap) \/ (heap \ old) \cap new # {}))
  BY DEF Memory
<1> QED BY <1>1, <1>2, <1>3

LEMMA NothingLeft ==
  ASSUME NEW h, NEW p, h = p, NEW l
  PROVE  \E left \in SUBSET l : h = p \cup left
<1>1. {} \in SUBSET l /\ h = p \cup {} OBVIOUS
<1> QED BY <1>1

LEMMA MainMemInvInit == MainInit => MainMemInv
<1> SUFFICES ASSUME MainInit PROVE MainMemInv
  OBVIOUS
<1>1. MemInv BY MemInvInit DEF MainInit
<1> QED BY <1>1 DEF MainInit, Init, MainMemInv, MemInv

\* The steps of the parser before and behind the work of the program.
LEMMA ParserKeeps ==
  ASSUME MainMemInv, ParseStep
  PROVE  MainMemInv'
<1>0. CmdInv' /\ UNCHANGED <<step, command, outfile, table>>
  <2>1. Next /\ UNCHANGED workVars BY DEF ParseStep, Next
  <2>2. UNCHANGED table
    BY <2>1 DEF Next, cmdline_init, AddOption, OptionsAdded, Parse, ParseInit, ParseOK, AddArg,
       Help, Version, UnknownOption, RefusedOption, HandleOption, Call, cmdline_exit, Return, input
  <2> QED BY <2>1, <2>2, CmdInvNext DEF MainMemInv, workVars
<1>1. CASE cmdline_init \/ AddOption \/ OptionsAdded \/ Parse
  <2>1. pc \notin {"call", "exit", "done"} /\ pc' \notin {"exit", "done"}
    BY <1>1 DEF cmdline_init, AddOption, OptionsAdded, Parse, ParseInit, ParseOK, AddArg,
       Help, Version, UnknownOption, RefusedOption, IsOption, InArgv, HandleOption, Return
  <2>2. MemInv' BY <1>1, <2>1, MemInvNext DEF MainMemInv, Next
  <2>3. step = "result" BY <2>1 DEF MainMemInv
  <2>4. WorkBlocks' = {} BY <1>0, <2>3 DEF WorkBlocks
  <2> QED BY <1>0, <2>1, <2>2, <2>3, <2>4 DEF MainMemInv, MemInv
<1>2. CASE cmdline_exit
  <2>1. pc = "exit" /\ pc' = "done" /\ Memory(Base \cup ArgsBlocks, {})
    BY <1>2 DEF cmdline_exit, Base, ArgsBlocks
  <2>2. PICK left \in SUBSET Lost : heap = Base \cup ArgsBlocks \cup left
    BY <2>1 DEF MainMemInv
  <2>3. heap' \subseteq Lost /\ ~badFree' BY <2>1, <2>2 DEF Memory, MainMemInv
  <2>4. Lost' = Lost /\ (IsMain' <=> IsMain) BY <1>0 DEF Lost, IsMain, ZipBlocks
  <2> QED BY <1>0, <2>1, <2>3, <2>4 DEF MainMemInv
<1> QED BY <1>1, <1>2 DEF ParseStep

\* A step of the work that says what it leaves.
LEMMA WorkKeeps ==
  ASSUME MainMemInv, pc = "call", IsMain, UNCHANGED <<pc, cmdlineVars>>, ~badFree',
         \/ step' # "ended" /\ heap' = Base \cup ArgsBlocks \cup WorkBlocks'
         \/ step' = "ended" /\ \E left \in SUBSET Lost' : heap' = Base \cup ArgsBlocks \cup left,
         step' \in {"read", "unzip"} => command' = "unzip"
  PROVE  MainMemInv'
<1>1. CmdInv' /\ Base' = Base /\ ArgsBlocks' = ArgsBlocks BY CmdInvKept DEF MainMemInv
<1>2. pc' = "call" /\ IsMain' BY DEF IsMain, cmdlineVars, input
<1> QED BY <1>1, <1>2 DEF MainMemInv

LEMMA MainMemInvNext == MainMemInv /\ [MainNext]_<<vars, workVars>> => MainMemInv'
<1> SUFFICES ASSUME MainMemInv, [MainNext]_<<vars, workVars>> PROVE MainMemInv'
  OBVIOUS
<1>0. CmdInv /\ ~badFree BY DEF MainMemInv
<1> DEFINE Parser == Base \cup ArgsBlocks
<1>1. CASE ParseStep BY <1>1, ParserKeeps
<1>2. CASE HandleResult
  <2>1. /\ IsMain /\ pc = "call" /\ step = "result" /\ step' \in {"ended", "command"}
        /\ UNCHANGED <<pc, cmdlineVars>> /\ UNCHANGED <<heap, badFree>>
    BY <1>2 DEF HandleResult, Working, Ended, memory
  <2>2. heap' = Parser /\ ~badFree' BY <1>0, <2>1 DEF MainMemInv, WorkBlocks
  <2>3. WorkBlocks' = {} BY <2>1 DEF WorkBlocks
  <2> QED BY <2>1, <2>2, <2>3, WorkKeeps
<1>3. CASE UnzipNoFile \/ \E ok \in BOOLEAN : Dir(ok)
  <2>1. /\ IsMain /\ pc = "call" /\ step = "command" /\ step' = "ended"
        /\ UNCHANGED <<pc, cmdlineVars>> /\ UNCHANGED <<heap, badFree>>
    BY <1>3 DEF UnzipNoFile, Dir, Working, Ended, memory
  <2>2. heap' = Parser /\ ~badFree' BY <1>0, <2>1 DEF MainMemInv, WorkBlocks
  <2>3. \E left \in SUBSET Lost' : heap' = Parser \cup left
    <3> HIDE DEF Parser
    <3> QED BY <2>2, NothingLeft
  <2> QED BY <2>1, <2>2, <2>3, WorkKeeps
<1>4. CASE \E ok \in BOOLEAN : Info(ok)
  <2>1. /\ IsMain /\ pc = "call" /\ step = "command" /\ step' = "ended"
        /\ UNCHANGED <<pc, cmdlineVars>> /\ command = "info" /\ command' = "info"
        /\ UNCHANGED <<heap, badFree>> \/ Memory({}, ZipBlocks)
    BY <1>4 DEF Info, Working, Ended, memory, KeepMemory
  <2>2. heap = Parser BY <2>1 DEF MainMemInv, WorkBlocks
  <2>3. Lost' = ZipBlocks BY <2>1 DEF Lost, IsMain, ZipBlocks, cmdlineVars, input
  <2>4. CASE UNCHANGED <<heap, badFree>>
    <3>1. \E left \in SUBSET Lost' : heap' = Parser \cup left BY <2>2, <2>4, NothingLeft
    <3> QED BY <1>0, <2>1, <2>4, <3>1, WorkKeeps
  <2>5. CASE Memory({}, ZipBlocks)
    <3>1. heap' = Base \cup ArgsBlocks \cup {} \cup ZipBlocks /\ ~badFree'
      BY <1>0, <2>1, <2>2, <2>5, WorkReplaces
    <3> QED BY <2>1, <2>3, <3>1, WorkKeeps
  <2> QED BY <2>1, <2>4, <2>5
<1>5. CASE UnzipNames
  <2>1. /\ IsMain /\ pc = "call" /\ step = "command"
        /\ UNCHANGED <<pc, cmdlineVars>> /\ command = "unzip" /\ command' = "unzip"
        /\ OutfileGiven \/ OutfileMade \/ OutfileCrash
    BY <1>5 DEF UnzipNames, Working
  <2>2. heap = Parser BY <2>1 DEF MainMemInv, WorkBlocks
  <2>3. CASE OutfileGiven
    <3>1. step' = "read" /\ UNCHANGED <<heap, badFree>> /\ outfile'.made = FALSE
      BY <2>3 DEF OutfileGiven, KeepMemory, memory
    <3>2. WorkBlocks' = {} BY <3>1 DEF WorkBlocks, OutfileBlocks
    <3> QED BY <1>0, <2>1, <2>2, <3>1, <3>2, WorkKeeps
  <2>4. CASE OutfileMade
    <3>1. step' = "read" /\ Memory({}, OutfileName) /\ outfile'.made = TRUE
      BY <2>4 DEF OutfileMade, OutfileName
    <3>2. WorkBlocks' = OutfileName BY <3>1 DEF WorkBlocks, OutfileBlocks, OutfileName
    <3>3. heap' = Base \cup ArgsBlocks \cup {} \cup OutfileName /\ ~badFree'
      <4>1. heap = Base \cup ArgsBlocks \cup {} \cup {} BY <2>2
      <4>2. {} \cup {} \subseteq ZipBlocks \cup OutfileName
            /\ OutfileName \subseteq ZipBlocks \cup OutfileName
            /\ {} \cap ({} \cup OutfileName) = {}
        OBVIOUS
      <4> HIDE DEF Parser
      <4> QED BY <1>0, <2>1, <3>1, <4>1, <4>2, WorkReplaces
    <3> QED BY <2>1, <3>1, <3>2, <3>3, WorkKeeps
  <2>5. CASE OutfileCrash
    <3>1. step' = "crash" /\ UNCHANGED <<heap, badFree>> BY <2>5 DEF OutfileCrash, memory
    <3>2. WorkBlocks' = {} BY <3>1 DEF WorkBlocks
    <3> QED BY <1>0, <2>1, <2>2, <3>1, <3>2, WorkKeeps
  <2> QED BY <2>1, <2>3, <2>4, <2>5
<1>6. CASE \E ok \in BOOLEAN : UnzipRead(ok)
  <2>1. /\ IsMain /\ pc = "call" /\ step = "read" /\ UNCHANGED <<pc, cmdlineVars>>
        /\ command = "unzip" /\ UNCHANGED <<command, outfile>>
        /\ \/ step' = "unzip" /\ Memory({}, ZipBlocks)
           \/ step' = "ended" /\ \E left \in {{}, ZipBlocks} : Memory(OutfileBlocks, left)
    BY <1>6 DEF UnzipRead, Working, Ended, MainMemInv
  <2>2. heap = Parser \cup OutfileBlocks BY <2>1 DEF MainMemInv, WorkBlocks
  <2>3. OutfileBlocks \subseteq OutfileName /\ OutfileName \cap ZipBlocks = {}
    BY DEF OutfileBlocks, OutfileName, ZipBlocks
  <2>4. Lost' = ZipBlocks BY <2>1 DEF Lost, IsMain, ZipBlocks, cmdlineVars, input
  <2>5. CASE step' = "unzip" /\ Memory({}, ZipBlocks)
    <3>1. heap' = Base \cup ArgsBlocks \cup OutfileBlocks \cup ZipBlocks /\ ~badFree'
      BY <1>0, <2>1, <2>2, <2>3, <2>5, WorkReplaces
    <3>2. WorkBlocks' = OutfileBlocks \cup ZipBlocks
      BY <2>1, <2>5 DEF WorkBlocks, OutfileBlocks, ZipBlocks
    <3> QED BY <2>1, <2>5, <3>1, <3>2, WorkKeeps
  <2>6. CASE step' = "ended" /\ \E left \in {{}, ZipBlocks} : Memory(OutfileBlocks, left)
    <3>1. PICK left \in {{}, ZipBlocks} : Memory(OutfileBlocks, left) BY <2>6
    <3>2. heap' = Base \cup ArgsBlocks \cup {} \cup left /\ ~badFree'
      <4>1. left \subseteq ZipBlocks OBVIOUS
      <4> QED BY <1>0, <2>1, <2>2, <2>3, <3>1, <4>1, WorkReplaces
    <3> QED BY <2>1, <2>4, <2>6, <3>2, WorkKeeps
  <2> QED BY <2>1, <2>5, <2>6
<1>7. CASE \E ok \in BOOLEAN : Unzip(ok)
  <2>1. /\ IsMain /\ pc = "call" /\ step = "unzip" /\ UNCHANGED <<pc, cmdlineVars>>
        /\ command = "unzip" /\ UNCHANGED <<command, outfile>>
        /\ step' = "ended" /\ Memory(OutfileBlocks, {})
    BY <1>7 DEF Unzip, Working, Ended, MainMemInv
  <2>2. heap = Parser \cup ZipBlocks \cup OutfileBlocks BY <2>1 DEF MainMemInv, WorkBlocks
  <2>3. OutfileBlocks \subseteq OutfileName /\ OutfileName \cap ZipBlocks = {}
    BY DEF OutfileBlocks, OutfileName, ZipBlocks
  <2>4. Lost' = ZipBlocks BY <2>1 DEF Lost, IsMain, ZipBlocks, cmdlineVars, input
  <2>5. heap' = Base \cup ArgsBlocks \cup ZipBlocks \cup {} /\ ~badFree'
    BY <1>0, <2>1, <2>2, <2>3, WorkReplaces
  <2> QED BY <2>1, <2>4, <2>5, WorkKeeps
<1>8. CASE Leave \/ OtherProgram
  <2>1. /\ pc = "call" /\ pc' = "exit" /\ Call /\ UNCHANGED <<step, command, outfile>>
        /\ UNCHANGED <<table, option_list, target, args, heap, badFree>>
        /\ step \in {"result", "ended"}
    BY <1>8 DEF Leave, OtherProgram, Working, Call, workVars, input, options, memory, MainMemInv
  <2>2. CmdInv' BY <1>0, <2>1, CmdInvNext DEF Next
  <2>3. Base' = Base /\ ArgsBlocks' = ArgsBlocks BY <2>1, BaseKept DEF ArgsBlocks
  <2>4. Lost' = Lost /\ (IsMain' <=> IsMain) BY <2>1 DEF Lost, IsMain, ZipBlocks
  <2>5. \E left \in SUBSET Lost : heap = Parser \cup left
    <3>1. CASE step = "ended" BY <2>1, <3>1 DEF MainMemInv
    <3>2. CASE step = "result"
      <4>1. heap = Parser \cup {} BY <2>1, <3>2 DEF MainMemInv, WorkBlocks
      <4> QED BY <4>1
    <3> QED BY <2>1, <3>1, <3>2
  <2> QED BY <1>0, <2>1, <2>2, <2>3, <2>4, <2>5 DEF MainMemInv
<1>9. CASE UNCHANGED <<vars, workVars>>
  <2>1. /\ UNCHANGED <<pc, cmdlineVars>> /\ UNCHANGED <<heap, badFree, step, command, outfile>>
        /\ UNCHANGED vars
    BY <1>9 DEF vars, workVars, cmdlineVars, memory
  <2>2. CmdInv' /\ Base' = Base /\ ArgsBlocks' = ArgsBlocks BY <1>0, <2>1, CmdInvKept
  <2>3. MemInv => MemInv' BY <2>1, MemInvNext
  <2>4. Lost' = Lost /\ WorkBlocks' = WorkBlocks /\ (IsMain' <=> IsMain)
    BY <2>1 DEF Lost, IsMain, ZipBlocks, WorkBlocks, OutfileBlocks, cmdlineVars, input
  <2> QED BY <2>1, <2>2, <2>3, <2>4 DEF MainMemInv
<1> QED BY <1>1, <1>2, <1>3, <1>4, <1>5, <1>6, <1>7, <1>8, <1>9 DEF MainNext, Work

\* Of what the commands of zipcode-conv allocate only a zipdisk is left: the
\* name of the output file is freed where it was made, and not where it
\* belongs to the list of arguments.
THEOREM OnlyZipdiskLeft == MainSpec => []MainMemory
<1>1. MainMemInv => MainMemory BY DEF MainMemInv, MainMemory, Lost
<1> QED BY MainMemInvInit, MainMemInvNext, <1>1, PTL DEF MainSpec

\* And the memory of the parser is freed once beside it.
THEOREM ParserMemoryFreedOnce == MainSpec => []MemoryExact
<1>1. ASSUME MainMemInv PROVE MemoryExact
  <2> SUFFICES ASSUME pc = "done", NEW b \in heap PROVE b[1] \notin Owners
    BY <1>1 DEF MainMemInv, MemoryExact
  <2>1. b \in ZipBlocks /\ IsMain BY <1>1 DEF MainMemInv, Lost
  <2>2. b[1] = "zip" BY <2>1 DEF ZipBlocks
  <2>3. "zip" \notin Targets
    BY <2>1 DEF Targets, IsMain, main_cmdline_options, Switch
  <2> QED BY <2>2, <2>3 DEF Owners
<1> QED BY MainMemInvInit, MainMemInvNext, <1>1, PTL DEF MainSpec

-------------------------------------------------------------------------------
(* What the commands are given.                                            *)

\* The first items of a list are the words at the smallest indices.
LEMMA FirstItem ==
  ASSUME NEW list, NEW words, NEW S \in SUBSET Nat, IsFiniteSet(S), S # {},
         Has(list, words, S)
  PROVE  Len(list.items) >= 1 /\ list.items[1] = words[Min(S)]
<1> DEFINE m == Min(S)
<1>1. m \in S /\ \A k \in S : m <= k BY MinIsLeast
<1>2. Cardinality(S) \in Nat /\ Cardinality(S) # 0 BY FS_CardinalityType, FS_EmptySet
<1>3. {j \in S : j <= m} = {m}
  <2> HIDE DEF m
  <2>1. m \in Nat /\ m <= m BY <1>1
  <2>2. \A j \in S : j <= m => j = m BY <1>1, <2>1
  <2> QED BY <1>1, <2>1, <2>2
<1>4. Cardinality({j \in S : j <= m}) = 1 BY <1>3, FS_Singleton
<1>5. list.items[Cardinality({j \in S : j <= m})] = words[m] BY <1>1 DEF Has
<1> QED BY <1>2, <1>4, <1>5 DEF Has

LEMMA SecondItem ==
  ASSUME NEW list, NEW words, NEW S \in SUBSET Nat, IsFiniteSet(S),
         Has(list, words, S), Len(list.items) >= 2
  PROVE  list.items[2] = words[Min(S \ {Min(S)})]
<1> DEFINE m == Min(S)
           R == S \ {m}
           n == Min(R)
<1>1. Cardinality(S) \in Nat /\ Cardinality(S) >= 2 BY FS_CardinalityType DEF Has
<1>2. S # {} BY <1>1, FS_EmptySet
<1>3. m \in S /\ \A k \in S : m <= k BY <1>2, MinIsLeast
<1>4. R # {}
  <2>1. S # {m}
    <3> HIDE DEF m
    <3>1. S = {m} => Cardinality(S) = 1 BY FS_Singleton
    <3> QED BY <1>1, <3>1
  <2> QED BY <1>2, <2>1
<1>5. n \in R /\ \A k \in R : n <= k
  <2>1. R \in SUBSET Nat OBVIOUS
  <2> HIDE DEF R
  <2> QED BY <1>4, <2>1, MinIsLeast
<1>6. {j \in S : j <= n} = {m} \cup {n} /\ m # n /\ n \in S
  <2>1. m \in Nat /\ n \in Nat /\ m # n /\ n \in S /\ m <= n
    <3> HIDE DEF n
    <3> QED BY <1>3, <1>5
  <2>2. \A j \in S : j # m => n <= j BY <1>5
  <2> HIDE DEF m, n
  <2>3. \A j \in S : j <= n => j \in {m} \cup {n} BY <2>1, <2>2
  <2>4. m \in S /\ n <= n BY <1>3, <2>1
  <2> QED BY <2>1, <2>3, <2>4
<1>7. Cardinality({j \in S : j <= n}) = 2
  <2>1. IsFiniteSet({m}) /\ Cardinality({m}) = 1 BY FS_Singleton
  <2>2. n \notin {m} BY <1>6
  <2>3. Cardinality({m} \cup {n}) = 2
    <3> HIDE DEF m, n
    <3>1. Cardinality({m} \cup {n}) = Cardinality({m}) + 1 BY <2>1, <2>2, FS_AddElement
    <3> QED BY <2>1, <3>1
  <2> QED BY <1>6, <2>3
<1>8. list.items[Cardinality({j \in S : j <= n})] = words[n] BY <1>6 DEF Has
<1> QED BY <1>7, <1>8

\* What the command line asks for does not change.
LEMMA AskedStill ==
  ASSUME UNCHANGED <<argv, option_list>>
  PROVE  /\ PlainWords' = PlainWords
         /\ First(PlainWords)' = First(PlainWords)
         /\ First(PlainWords \ {Min(PlainWords)})' = First(PlainWords \ {Min(PlainWords)})
         /\ \A k \in {1, 3, 4} : Asks(k)' = Asks(k)
<1>1. PlainWords' = PlainWords BY DEF PlainWords, PlainIn
<1> QED BY <1>1 DEF First, Asks, option_find

\* The steps of the work leave the parser and what it has read alone.
LEMMA WorkParsed ==
  ASSUME CmdInv, ResultInv, UNCHANGED <<pc, cmdlineVars>>
  PROVE  CmdInv' /\ ResultInv'
<1>1. UNCHANGED <<pc, table, argv, option_list, target, i, args, result>>
  BY DEF cmdlineVars, input, options
<1>2. CmdInv' BY CmdInvKept
<1>3. /\ Dealt' = Dealt /\ ValueWords' = ValueWords
      /\ (\A k \in Dealt : Outcome(k) = "OK") => \A k \in Dealt' : Outcome(k)' = "OK"
      /\ args' = args /\ Contents => Contents'
  BY <1>1, WordsStill
<1>4. i # 0 /\ i <= Len(argv) => Outcome(i)' = Outcome(i)
  <2>1. i # 0 /\ i <= Len(argv) => i \in DOMAIN argv BY DoneFacts
  <2> QED BY <1>1, <2>1, WordsStill
<1> QED BY <1>1, <1>2, <1>3, <1>4 DEF ResultInv, FactoryValue

\* A step of the program is one of the parser, or one that leaves it alone.
LEMMA StepParses ==
  ASSUME [MainNext]_<<vars, workVars>>
  PROVE  [Next]_vars \/ UNCHANGED <<pc, cmdlineVars>>
<1>1. CASE ParseStep BY <1>1 DEF ParseStep, Next
<1>2. CASE Leave \/ OtherProgram BY <1>2 DEF Leave, OtherProgram, Next
<1>3. CASE HandleResult \/ UnzipNoFile \/ UnzipNames
  BY <1>3 DEF HandleResult, UnzipNoFile, UnzipNames
<1>4. CASE \E ok \in BOOLEAN : Info(ok) \/ Dir(ok) \/ UnzipRead(ok) \/ Unzip(ok)
  BY <1>4 DEF Info, Dir, UnzipRead, Unzip
<1>5. CASE UNCHANGED <<vars, workVars>> BY <1>5
<1> QED BY <1>1, <1>2, <1>3, <1>4, <1>5 DEF MainNext, Work

LEMMA ParsedInvariant == MainSpec => [](CmdInv /\ ResultInv)
<1>1. MainInit => CmdInv /\ ResultInv BY CmdInvInit, ResultInvInit DEF MainInit
<1>2. CmdInv /\ ResultInv /\ [MainNext]_<<vars, workVars>> => (CmdInv /\ ResultInv)'
  BY StepParses, WorkParsed, CmdInvNext, ResultInvNext
<1> QED BY <1>1, <1>2, PTL DEF MainSpec

\* What the parser returns, and what it leaves in the list of arguments and in
\* the targets, is exact beside the work of the program too.
THEOREM MainParsesExactly == MainSpec => [](ResultExact /\ ArgsExact /\ TargetsExact)
BY ParsedInvariant, ParsedExactly, PTL

\* What CommandAsAsked, FilesAsNamed and StatusExact say of a command, of files
\* and of an exit status.
CommandIs(c) ==
  /\ c = "info" <=> Asks(1)
  /\ c = "unzip" <=> Asks(3) /\ ~Asks(1)
  /\ c = "dir" <=> Asks(4) /\ ~Asks(1) /\ ~Asks(3)

FilesAre(in, out) ==
  /\ in # NULL => in = First(PlainWords)
  /\ out # NULL => /\ out.made <=> Cardinality(PlainWords) = 1
                   /\ out.word = IF out.made THEN in
                                 ELSE First(PlainWords \ {Min(PlainWords)})

StatusIs(status) ==
  /\ result = "ERROR" => status = "FAILURE"
  /\ result \in {"HELP", "VERSION"} => status = "SUCCESS"
  /\ result = "OK" =>
       /\ ~Asks(1) /\ ~Asks(3) /\ ~Asks(4) => status = "SUCCESS"
       /\ PlainWords = {} /\ (Asks(1) \/ Asks(3) \/ Asks(4)) => status = "FAILURE"

\* All options of zipcode-conv are registered, so that the words mean the same
\* through all of the work.
Registered == IsMain /\ pc \notin {"init", "add"} => DOMAIN option_list = DOMAIN table

\* The command, its files and the status are what the command line says.
WorkInv ==
  /\ Registered
  /\ step = "result" => command = "none"
  /\ step \in {"result", "command"} => infile = NULL /\ outfile = NULL
  /\ step # "result" => IsMain /\ pc \in {"call", "exit", "done"}
  /\ IsMain /\ pc \in {"exit", "done"} => step = "ended"
  /\ step \in {"command", "read", "unzip"} =>
       result = "OK" /\ command \in {"info", "unzip", "dir"}
  /\ step \in {"read", "unzip"} => PlainWords # {}
  /\ step = "ended" => StatusIs(retval)
  /\ step # "result" /\ result = "OK" => CommandIs(command)
  /\ FilesAre(infile, outfile)

\* What the parser has made of a command line that is in order.
LEMMA MainParsed ==
  ASSUME CmdInv, ResultInv, WorkInv, IsMain, pc = "call", result = "OK"
  PROVE  /\ Has(args, argv, PlainWords)
         /\ PlainWords \in SUBSET Nat /\ IsFiniteSet(PlainWords)
         /\ target["opt_zipdisk_info"] = 1 <=> Asks(1)
         /\ target["opt_zipdisk_unzip"] = 1 <=> Asks(3)
         /\ target["opt_d64_dir"] = 1 <=> Asks(4)
<1>1. /\ argv \in Seq(Words) /\ DOMAIN argv = 1..Len(argv) /\ Len(argv) \in Nat
      /\ DOMAIN option_list = DOMAIN table
      /\ \A k \in DOMAIN option_list : option_list[k] = table[k]
      /\ option_list \in Seq(Range(table))
  BY DEF CmdInv, TypeOK, WorkInv, Registered
<1>2. table = main_cmdline_options /\ DOMAIN table = 1..4
      /\ \A k \in 1..4 : table[k].type = "BOOL" /\ table[k].factory = 0
  BY DEF IsMain, main_cmdline_options, Switch
<1>3. Takers = {}
  <2>1. ASSUME NEW w, option_find(w) # 0 PROVE option_list[option_find(w)].type = "BOOL"
    BY <1>1, <1>2, <2>1, FindsOption
  <2> QED BY <2>1 DEF Takers
<1>4. ValueWords = {} BY <1>1, <1>3, ValuesAre
<1>5. Dealt = DOMAIN argv
  <2>1. i > Len(argv)
    <3> SUFFICES ASSUME i <= Len(argv), result # "OK" PROVE FALSE
      BY DoneFacts DEF ResultInv
    <3> QED OBVIOUS
  <2>2. i \in 0..(Len(argv) + 1) BY DEF CmdInv, TypeOK
  <2>3. i - 1 = Len(argv) BY <1>1, <2>1, <2>2
  <2> QED BY <1>1, <1>4, <2>3 DEF Dealt
<1>6. Contents BY DEF ResultInv
<1>7. Has(args, argv, PlainWords) BY <1>5, <1>6 DEF Contents, PlainWords
<1>8. PlainWords \in SUBSET Nat /\ IsFiniteSet(PlainWords)
  <2>1. PlainWords \subseteq DOMAIN argv BY DEF PlainWords, PlainIn
  <2>2. IsFiniteSet(1..Len(argv)) BY <1>1, FS_Interval
  <2>3. IsFiniteSet(PlainWords) BY <1>1, <2>1, <2>2, FS_Subset
  <2> QED BY <1>1, <2>1, <2>3
<1>9. ASSUME NEW k \in 1..4
      PROVE  target[table[k].target] = 1 <=> Asks(k)
  <2>1. Says(table[k], target[table[k].target], Uses(k, DOMAIN argv))
    BY <1>1, <1>2, <1>5, <1>6 DEF Contents
  <2>2. Uses(k, DOMAIN argv) # {} <=> Asks(k) BY DEF Uses, Asks, Range
  <2>3. target[table[k].target] = IF Uses(k, DOMAIN argv) = {} THEN 0 ELSE 1
    BY <1>2, <2>1 DEF Says
  <2> QED BY <2>2, <2>3
<1>10. /\ table[1].target = "opt_zipdisk_info" /\ table[3].target = "opt_zipdisk_unzip"
       /\ table[4].target = "opt_d64_dir"
  BY <1>2 DEF main_cmdline_options, Switch
<1>11. /\ target[table[1].target] = 1 <=> Asks(1)
       /\ target[table[3].target] = 1 <=> Asks(3)
       /\ target[table[4].target] = 1 <=> Asks(4)
  BY <1>9
<1> QED BY <1>7, <1>8, <1>10, <1>11

\* The arguments of a command are the first two plain words.
LEMMA ArgumentsAre ==
  ASSUME CmdInv, ResultInv, WorkInv, IsMain, pc = "call", result = "OK"
  PROVE  /\ Argument(0) # NULL => PlainWords # {} /\ Argument(0) = First(PlainWords)
         /\ Argument(1) # NULL =>
              /\ Cardinality(PlainWords) # 1
              /\ Argument(1) = First(PlainWords \ {Min(PlainWords)})
         /\ Argument(0) # NULL /\ Argument(1) = NULL => Cardinality(PlainWords) = 1
<1>1. /\ Has(args, argv, PlainWords)
      /\ PlainWords \in SUBSET Nat /\ IsFiniteSet(PlainWords)
  BY MainParsed
<1>2. args.items \in Seq(Strings) /\ NULL \notin Strings
  <2>1. Sound(args) BY DEF CmdInv
  <2> QED BY <2>1, WordsAssumption DEF Sound, StringLists, Strings
<1> DEFINE n == Len(args.items)
<1>3. n \in Nat /\ n = Cardinality(PlainWords) BY <1>1, <1>2 DEF Has
<1>4. /\ Argument(0) = IF n >= 1 THEN args.items[1] ELSE NULL
      /\ Argument(1) = IF n >= 2 THEN args.items[2] ELSE NULL
  BY <1>3 DEF Argument, strlist_get
<1>5. n >= 2 => args.items[2] # NULL BY <1>2
<1>6. n >= 1 => PlainWords # {} /\ args.items[1] = First(PlainWords)
  <2> SUFFICES ASSUME n >= 1 PROVE PlainWords # {} /\ args.items[1] = First(PlainWords)
    OBVIOUS
  <2>1. PlainWords # {}
    <3>1. PlainWords = {} => Cardinality(PlainWords) = 0 BY <1>1, FS_EmptySet
    <3> QED BY <1>3, <3>1
  <2> QED BY <1>1, <2>1, FirstItem DEF First
<1>7. n >= 2 => args.items[2] = First(PlainWords \ {Min(PlainWords)})
  BY <1>1, SecondItem DEF First
<1> QED BY <1>3, <1>4, <1>5, <1>6, <1>7

\* The program goes on while its table and its words stay the same.
LEMMA WordsMean ==
  ASSUME UNCHANGED <<table, argv, option_list, result>>
  PROVE  /\ IsMain' <=> IsMain
         /\ PlainWords' = PlainWords
         /\ \A c : CommandIs(c)' <=> CommandIs(c)
         /\ \A s : StatusIs(s)' <=> StatusIs(s)
         /\ \A in, out : FilesAre(in, out)' <=> FilesAre(in, out)
<1>1. /\ PlainWords' = PlainWords /\ First(PlainWords)' = First(PlainWords)
      /\ First(PlainWords \ {Min(PlainWords)})' = First(PlainWords \ {Min(PlainWords)})
      /\ \A k \in {1, 3, 4} : Asks(k)' = Asks(k)
  BY AskedStill
<1>2. Asks(1)' = Asks(1) /\ Asks(3)' = Asks(3) /\ Asks(4)' = Asks(4) BY <1>1
<1> QED BY <1>1, <1>2 DEF IsMain, CommandIs, StatusIs, FilesAre

LEMMA CommandGoesOn ==
  ASSUME WorkInv, IsMain, pc = "call", UNCHANGED <<pc, cmdlineVars>>,
         step' # "result",
         step' = "command" => infile' = NULL /\ outfile' = NULL,
         step' \in {"command", "read", "unzip"} =>
           result = "OK" /\ command' \in {"info", "unzip", "dir"},
         step' \in {"read", "unzip"} => PlainWords # {},
         step' = "ended" => StatusIs(retval'),
         result = "OK" => CommandIs(command'),
         FilesAre(infile', outfile')
  PROVE  WorkInv'
<1>1. UNCHANGED <<pc, table, argv, option_list, result>>
  BY DEF cmdlineVars, input, options
<1> DEFINE c == command'
           r == retval'
           in == infile'
           out == outfile'
<1>2. /\ IsMain' <=> IsMain
      /\ PlainWords' = PlainWords
      /\ CommandIs(command)' <=> CommandIs(c)
      /\ StatusIs(retval)' <=> StatusIs(r)
      /\ FilesAre(infile, outfile)' <=> FilesAre(in, out)
  BY <1>1, WordsMean DEF CommandIs, StatusIs, FilesAre
<1>3. Registered' BY <1>1, <1>2 DEF WorkInv, Registered
<1> QED BY <1>1, <1>2, <1>3 DEF WorkInv

LEMMA WorkInvInit == MainInit => WorkInv
BY DEF MainInit, Init, WorkInv, Registered, FilesAre

\* The parser before and behind the work of the program.
LEMMA ParserWorks ==
  ASSUME CmdInv, CmdInv', WorkInv, ParseStep
  PROVE  WorkInv'
<1>0. UNCHANGED <<step, command, infile, outfile, retval, table, argv>>
  BY DEF ParseStep, workVars, cmdline_init, AddOption, OptionsAdded, Parse, ParseInit,
         ParseOK, AddArg, Help, Version, UnknownOption, RefusedOption, HandleOption,
         cmdline_exit, Return, input
<1>1. IsMain' <=> IsMain BY <1>0 DEF IsMain
<1>2. CASE cmdline_init \/ AddOption \/ OptionsAdded \/ Parse
  <2>1. pc \notin {"call", "exit", "done"} /\ pc' \notin {"exit", "done"}
    BY <1>2 DEF cmdline_init, AddOption, OptionsAdded, Parse, ParseInit, ParseOK, AddArg,
       Help, Version, UnknownOption, RefusedOption, IsOption, InArgv, HandleOption, Return
  <2>2. step = "result" BY <2>1 DEF WorkInv
  <2>3. Registered'
    <3>1. CASE cmdline_init \/ AddOption
      BY <3>1 DEF cmdline_init, AddOption, Registered
    <3>2. CASE OptionsAdded
      <4> SUFFICES ASSUME IsMain PROVE DOMAIN option_list' = DOMAIN table'
        BY <1>1 DEF Registered
      <4>1. /\ DOMAIN table = 1..4
            /\ \A k \in DOMAIN table : table[k].type \in OptionTypes
        BY DEF IsMain, main_cmdline_options, Switch, OptionTypes
      <4>2. /\ Len(option_list) \in Nat /\ DOMAIN option_list = 1..Len(option_list)
            /\ \A k \in DOMAIN option_list : k \in DOMAIN table
        BY DEF CmdInv, TypeOK
      <4>3. Len(option_list) + 1 \notin DOMAIN table BY <3>2, <4>1 DEF OptionsAdded
      <4>4. DOMAIN option_list = DOMAIN table BY <4>1, <4>2, <4>3
      <4> QED BY <1>0, <3>2, <4>4 DEF OptionsAdded, options
    <3>3. CASE Parse
      <4>1. UNCHANGED option_list /\ pc \notin {"init", "add"}
        BY <3>3 DEF Parse, ParseInit, ParseOK, AddArg, Help, Version, UnknownOption,
           RefusedOption, IsOption, InArgv, HandleOption, Return, options
      <4> QED BY <1>0, <1>1, <4>1 DEF WorkInv, Registered
    <3> QED BY <1>2, <3>1, <3>2, <3>3
  <2>4. infile' = NULL /\ outfile' = NULL /\ step' = "result" /\ command' = "none"
    BY <1>0, <2>2 DEF WorkInv
  <2>5. FilesAre(infile, outfile)' BY <2>4 DEF FilesAre
  <2> QED BY <2>1, <2>3, <2>4, <2>5 DEF WorkInv
<1>3. CASE cmdline_exit
  <2>1. pc = "exit" /\ pc' = "done" /\ UNCHANGED <<option_list, result>>
    BY <1>3 DEF cmdline_exit, options
  <2>2. /\ PlainWords' = PlainWords
        /\ CommandIs(command)' <=> CommandIs(command)
        /\ StatusIs(retval)' <=> StatusIs(retval)
        /\ FilesAre(infile, outfile)' <=> FilesAre(infile, outfile)
    BY <1>0, <2>1, WordsMean DEF CommandIs, StatusIs, FilesAre
  <2>3. Registered' BY <1>0, <1>1, <2>1 DEF WorkInv, Registered
  <2> QED BY <1>0, <1>1, <2>1, <2>2, <2>3 DEF WorkInv
<1> QED BY <1>2, <1>3 DEF ParseStep

\* A command that runs was asked for.
LEMMA SomeCommand ==
  ASSUME WorkInv, step \in {"command", "read", "unzip"}
  PROVE  result = "OK" /\ (Asks(1) \/ Asks(3) \/ Asks(4)) /\ CommandIs(command)
BY DEF WorkInv, CommandIs

LEMMA WorkInvNext ==
  CmdInv /\ ResultInv /\ CmdInv' /\ WorkInv /\ [MainNext]_<<vars, workVars>> => WorkInv'
<1> SUFFICES ASSUME CmdInv, ResultInv, CmdInv', WorkInv, [MainNext]_<<vars, workVars>>
             PROVE  WorkInv'
  OBVIOUS
<1>1. CASE ParseStep BY <1>1, ParserWorks
<1>2. CASE HandleResult
  <2>1. /\ IsMain /\ pc = "call" /\ step = "result" /\ UNCHANGED <<pc, cmdlineVars>>
        /\ infile' = NULL /\ outfile' = NULL /\ command = "none"
    BY <1>2 DEF HandleResult, Working, WorkInv
  <2>2. FilesAre(NULL, NULL) BY DEF FilesAre
  <2>3. CASE /\ result # "OK" /\ Ended(result # "ERROR") /\ UNCHANGED command
    <3>1. step' = "ended" /\ StatusIs(retval') BY <2>3 DEF Ended, StatusIs
    <3> QED BY <2>1, <2>2, <2>3, <3>1, CommandGoesOn
  <2>4. CASE result = "OK" /\ Chosen(target) = "none" /\ Ended(TRUE) /\ UNCHANGED command
    <3>1. ~Asks(1) /\ ~Asks(3) /\ ~Asks(4) BY <2>1, <2>4, MainParsed DEF Chosen
    <3>2. CommandIs(command') BY <2>1, <2>4, <3>1 DEF CommandIs
    <3>3. step' = "ended" /\ StatusIs(retval') BY <2>4, <3>1 DEF Ended, StatusIs
    <3> QED BY <2>1, <2>2, <3>2, <3>3, CommandGoesOn
  <2>5. CASE /\ result = "OK" /\ Chosen(target) # "none" /\ command' = Chosen(target)
             /\ step' = "command"
    <3>1. /\ target["opt_zipdisk_info"] = 1 <=> Asks(1)
          /\ target["opt_zipdisk_unzip"] = 1 <=> Asks(3)
          /\ target["opt_d64_dir"] = 1 <=> Asks(4)
      BY <2>1, <2>5, MainParsed
    <3>2. CommandIs(Chosen(target)) BY <3>1 DEF CommandIs, Chosen
    <3>3. command' \in {"info", "unzip", "dir"} BY <2>5 DEF Chosen
    <3> QED BY <2>1, <2>2, <2>5, <3>2, <3>3, CommandGoesOn
  <2> QED BY <1>2, <2>3, <2>4, <2>5 DEF HandleResult
<1>3. CASE \E ok \in BOOLEAN : Info(ok) \/ Dir(ok)
  <2>1. PICK ok \in BOOLEAN : Info(ok) \/ Dir(ok) BY <1>3
  <2>2. /\ IsMain /\ pc = "call" /\ step = "command" /\ step' = "ended"
        /\ UNCHANGED <<pc, cmdlineVars>> /\ UNCHANGED <<command, outfile>>
        /\ infile' = Argument(0) /\ (infile' = NULL => retval' = "FAILURE")
    BY <2>1 DEF Info, Dir, Working, Ended
  <2>3. result = "OK" /\ (Asks(1) \/ Asks(3) \/ Asks(4)) /\ CommandIs(command)
    BY <2>2, SomeCommand
  <2>4. infile' # NULL => PlainWords # {} /\ infile' = First(PlainWords)
    BY <2>2, <2>3, ArgumentsAre
  <2>5. StatusIs(retval') BY <2>2, <2>3, <2>4 DEF StatusIs
  <2>6. FilesAre(infile', outfile') BY <2>2, <2>4 DEF FilesAre, WorkInv
  <2> QED BY <2>2, <2>3, <2>5, <2>6, CommandGoesOn
<1>4. CASE UnzipNoFile
  <2>1. /\ IsMain /\ pc = "call" /\ step = "command" /\ step' = "ended"
        /\ UNCHANGED <<pc, cmdlineVars>> /\ UNCHANGED <<command, infile, outfile>>
        /\ retval' = "FAILURE"
    BY <1>4 DEF UnzipNoFile, Working, Ended
  <2>2. result = "OK" /\ (Asks(1) \/ Asks(3) \/ Asks(4)) /\ CommandIs(command)
    BY <2>1, SomeCommand
  <2>3. StatusIs(retval') BY <2>1, <2>2 DEF StatusIs
  <2>4. FilesAre(infile', outfile') BY <2>1 DEF WorkInv
  <2> QED BY <2>1, <2>2, <2>3, <2>4, CommandGoesOn
<1>5. CASE UnzipNames
  <2>1. /\ IsMain /\ pc = "call" /\ step = "command" /\ command = "unzip"
        /\ UNCHANGED <<pc, cmdlineVars>> /\ UNCHANGED <<command, retval>>
        /\ infile' = Argument(0) /\ Argument(0) # NULL
        /\ OutfileGiven \/ OutfileMade \/ OutfileCrash
    BY <1>5 DEF UnzipNames, Working
  <2>2. result = "OK" /\ CommandIs(command) BY <2>1, SomeCommand
  <2>3. /\ PlainWords # {} /\ Argument(0) = First(PlainWords)
        /\ Argument(1) # NULL =>
             /\ Cardinality(PlainWords) # 1
             /\ Argument(1) = First(PlainWords \ {Min(PlainWords)})
        /\ Argument(1) = NULL => Cardinality(PlainWords) = 1
    BY <2>1, <2>2, ArgumentsAre
  <2>4. step' \in {"read", "crash"} BY <2>1 DEF OutfileGiven, OutfileMade, OutfileCrash
  <2>5. FilesAre(infile', outfile')
    <3>1. CASE OutfileGiven BY <2>1, <2>3, <3>1 DEF OutfileGiven, FilesAre
    <3>2. CASE OutfileMade BY <2>1, <2>3, <3>2 DEF OutfileMade, FilesAre
    <3>3. CASE OutfileCrash BY <2>1, <2>3, <3>3 DEF OutfileCrash, FilesAre, WorkInv
    <3> QED BY <2>1, <3>1, <3>2, <3>3
  <2> QED BY <2>1, <2>2, <2>3, <2>4, <2>5, CommandGoesOn
<1>6. CASE \E ok \in BOOLEAN : UnzipRead(ok) \/ Unzip(ok)
  <2>1. /\ IsMain /\ pc = "call" /\ step \in {"read", "unzip"} /\ step' \in {"unzip", "ended"}
        /\ UNCHANGED <<pc, cmdlineVars>> /\ UNCHANGED <<command, infile, outfile>>
    BY <1>6 DEF UnzipRead, Unzip, Working, Ended
  <2>2. result = "OK" /\ (Asks(1) \/ Asks(3) \/ Asks(4)) /\ CommandIs(command)
    BY <2>1, SomeCommand
  <2>3. PlainWords # {} /\ command' \in {"info", "unzip", "dir"} BY <2>1 DEF WorkInv
  <2>4. StatusIs(retval') BY <2>2, <2>3 DEF StatusIs
  <2>5. FilesAre(infile', outfile') BY <2>1 DEF WorkInv
  <2> QED BY <2>1, <2>2, <2>3, <2>4, <2>5, CommandGoesOn
<1>7. CASE Leave \/ OtherProgram \/ UNCHANGED <<vars, workVars>>
  <2>1. /\ UNCHANGED <<table, argv, option_list, result>>
        /\ UNCHANGED <<step, command, infile, outfile, retval>>
        /\ \/ UNCHANGED pc
           \/ pc = "call" /\ pc' = "exit" /\ (IsMain => step = "ended")
    BY <1>7 DEF Leave, OtherProgram, Working, Call, vars, workVars, input, options
  <2>2. /\ IsMain' <=> IsMain
        /\ PlainWords' = PlainWords
        /\ CommandIs(command)' <=> CommandIs(command)
        /\ StatusIs(retval)' <=> StatusIs(retval)
        /\ FilesAre(infile, outfile)' <=> FilesAre(infile, outfile)
    BY <2>1, WordsMean DEF CommandIs, StatusIs, FilesAre
  <2>3. Registered' BY <2>1, <2>2 DEF WorkInv, Registered
  <2> QED BY <2>1, <2>2, <2>3 DEF WorkInv
<1> QED BY <1>1, <1>2, <1>3, <1>4, <1>5, <1>6, <1>7 DEF MainNext, Work

LEMMA WorkInvariant == MainSpec => []WorkInv
BY ParsedInvariant, WorkInvInit, WorkInvNext, PTL DEF MainSpec

\* For every command line zipcode-conv runs the command that was asked for,
\* and info before unzip before dir where it was more than one.
THEOREM RunsCommandAsked == MainSpec => []CommandAsAsked
<1>1. WorkInv => CommandAsAsked BY DEF WorkInv, CommandAsAsked, CommandIs
<1> QED BY <1>1, WorkInvariant, PTL

\* It reads the first plain word, and writes the second or a name made from
\* the first.
THEOREM NamesFilesGiven == MainSpec => []FilesAsNamed
<1>1. WorkInv => FilesAsNamed BY DEF WorkInv, FilesAsNamed, FilesAre
<1> QED BY <1>1, WorkInvariant, PTL

\* And its exit status says what is known of the command line alone.
THEOREM ExitsExactly == MainSpec => []StatusExact
<1>1. WorkInv => StatusExact BY DEF WorkInv, StatusExact, StatusIs
<1> QED BY <1>1, WorkInvariant, PTL
===============================================================================
