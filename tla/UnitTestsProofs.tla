--------------------------- MODULE UnitTestsProofs ---------------------------
(***************************************************************************)
(* Proofs about UnitTests: for every suite, every command line and every   *)
(* outcome of the callbacks, the runner calls them in order, stops where   *)
(* it should, counts what they counted, and exits with the verdict.        *)
(***************************************************************************)
EXTENDS UnitTests, SetInduction, FiniteSetTheorems, SequenceTheorems, TLAPS

-------------------------------------------------------------------------------
(* Sums over finite sets.                                                  *)

\* The element a sum takes next, and the equation that MapThenSumSet solves.
Pick(s) == CHOOSE x \in s : TRUE

SumsTo(g, h, A) ==
  g = [s \in SUBSET A |-> IF s = {} THEN 0 ELSE h[Pick(s)] + g[s \ {Pick(s)}]]

SumOver(h, A) == MapThenSumSet(LAMBDA x : h[x], A)

LEMMA PickIn == \A s : s # {} => Pick(s) \in s
BY DEF Pick

\* A finite set comes to nothing when its elements are taken one by one.
LEMMA SetBySet ==
  ASSUME NEW A, IsFiniteSet(A), NEW T \in SUBSET (SUBSET A), {} \in T,
         \A s \in SUBSET A : s # {} /\ (\A x \in s : s \ {x} \in T) => s \in T
  PROVE  T = SUBSET A
<1> DEFINE N == {n \in Nat : \A s \in SUBSET A : Cardinality(s) = n => s \in T}
<1>1. \A s \in SUBSET A : IsFiniteSet(s) /\ Cardinality(s) \in Nat
  BY FS_Subset, FS_CardinalityType
<1>2. 0 \in N BY <1>1, FS_EmptySet
<1>3. ASSUME NEW n \in N PROVE n + 1 \in N
  <2> SUFFICES ASSUME NEW s \in SUBSET A, Cardinality(s) = n + 1 PROVE s \in T
    OBVIOUS
  <2>1. n \in Nat /\ n + 1 # 0 OBVIOUS
  <2>2. s # {} BY <2>1, FS_EmptySet
  <2>3. ASSUME NEW x \in s PROVE s \ {x} \in T
    <3>1. IsFiniteSet(s) BY <1>1
    <3>2. Cardinality(s \ {x}) = Cardinality(s) - 1 BY <3>1, FS_RemoveElement
    <3>3. Cardinality(s \ {x}) = n BY <2>1, <3>2
    <3> QED BY <3>3
  <2> QED BY <2>2, <2>3
<1>4. N = Nat
  <2> HIDE DEF N
  <2>1. N \subseteq Nat BY DEF N
  <2> QED BY <1>2, <1>3, <2>1, SetInduction
<1>5. ASSUME NEW s \in SUBSET A PROVE s \in T
  <2>1. Cardinality(s) \in N BY <1>1, <1>4
  <2> QED BY <2>1
<1> QED BY <1>5

LEMMA SumExists ==
  ASSUME NEW A, IsFiniteSet(A), NEW h \in [A -> Nat]
  PROVE  \E g \in [SUBSET A -> Nat] : SumsTo(g, h, A)
<1> DEFINE Small(n) == {s \in SUBSET A : Cardinality(s) <= n}
           Is(g, s) == g[s] = IF s = {} THEN 0 ELSE h[Pick(s)] + g[s \ {Pick(s)}]
           N == {n \in Nat : \E g \in [Small(n) -> Nat] : \A s \in Small(n) : Is(g, s)}
<1>1. \A s \in SUBSET A : IsFiniteSet(s) /\ Cardinality(s) \in Nat
  BY FS_Subset, FS_CardinalityType
<1>2. ASSUME NEW s \in SUBSET A, s # {}
      PROVE  /\ s \ {Pick(s)} \in SUBSET A /\ Pick(s) \in A
             /\ Cardinality(s \ {Pick(s)}) = Cardinality(s) - 1
  <2>1. Pick(s) \in s BY <1>2, PickIn
  <2> QED BY <1>1, <2>1, FS_RemoveElement
<1>3. 0 \in N
  <2> DEFINE g == [s \in Small(0) |-> 0]
  <2>1. \A s \in Small(0) : s = {} BY <1>1, FS_EmptySet
  <2>2. g \in [Small(0) -> Nat] OBVIOUS
  <2>3. \A s \in Small(0) : Is(g, s) BY <2>1
  <2> HIDE DEF g, Is, Small
  <2> QED BY <2>2, <2>3
<1>4. ASSUME NEW n \in N PROVE n + 1 \in N
  <2>1. PICK g \in [Small(n) -> Nat] : \A s \in Small(n) : Is(g, s) OBVIOUS
  <2>2. n \in Nat /\ n + 1 \in Nat OBVIOUS
  <2> DEFINE f == [s \in Small(n + 1) |->
                     IF Cardinality(s) <= n THEN g[s]
                     ELSE h[Pick(s)] + g[s \ {Pick(s)}]]
  <2>3. ASSUME NEW s \in Small(n + 1), ~(Cardinality(s) <= n)
        PROVE  /\ s # {} /\ Pick(s) \in A /\ s \ {Pick(s)} \in Small(n)
               /\ s \ {Pick(s)} \in Small(n + 1)
               /\ Cardinality(s \ {Pick(s)}) <= n
    <3>1. s \in SUBSET A /\ Cardinality(s) = n + 1 BY <1>1, <2>2, <2>3
    <3>2. Cardinality({}) = 0 /\ n + 1 # 0 BY <2>2, FS_EmptySet
    <3>3. s # {} BY <3>1, <3>2
    <3> QED BY <1>2, <2>2, <3>1, <3>3
  <2>4. ASSUME NEW s \in Small(n + 1) PROVE f[s] \in Nat
    <3>1. CASE Cardinality(s) <= n BY <3>1
    <3>2. CASE ~(Cardinality(s) <= n)
      <4>1. h[Pick(s)] \in Nat /\ g[s \ {Pick(s)}] \in Nat BY <2>3, <3>2
      <4> QED BY <3>2, <4>1
    <3> QED BY <3>1, <3>2
  <2>5. f \in [Small(n + 1) -> Nat]
    <3> HIDE DEF Small
    <3> QED BY <2>4
  <2>6. ASSUME NEW s \in Small(n + 1) PROVE Is(f, s)
    <3>1. CASE Cardinality(s) <= n
      <4>1. s \in Small(n) /\ s \in SUBSET A BY <3>1
      <4>2. f[s] = g[s] BY <3>1
      <4>3. CASE s = {} BY <2>1, <4>1, <4>2, <4>3
      <4>4. CASE s # {}
        <5>1. /\ s \ {Pick(s)} \in SUBSET A
              /\ Cardinality(s \ {Pick(s)}) = Cardinality(s) - 1
              /\ Cardinality(s) \in Nat
          BY <1>1, <1>2, <4>1, <4>4
        <5>2. Cardinality(s \ {Pick(s)}) <= n /\ Cardinality(s \ {Pick(s)}) <= n + 1
          BY <2>2, <3>1, <5>1
        <5>3. f[s \ {Pick(s)}] = g[s \ {Pick(s)}] BY <5>1, <5>2
        <5> QED BY <2>1, <4>1, <4>2, <4>4, <5>3
      <4> QED BY <4>3, <4>4
    <3>2. CASE ~(Cardinality(s) <= n)
      <4>1. f[s] = h[Pick(s)] + g[s \ {Pick(s)}] /\ s # {} BY <2>3, <3>2
      <4>2. f[s \ {Pick(s)}] = g[s \ {Pick(s)}] BY <2>3, <3>2
      <4> QED BY <4>1, <4>2
    <3> QED BY <3>1, <3>2
  <2> HIDE DEF f, Is, Small
  <2> QED BY <2>2, <2>5, <2>6
<1>5. N = Nat
  <2> HIDE DEF N
  <2>1. N \subseteq Nat BY DEF N
  <2> QED BY <1>3, <1>4, <2>1, SetInduction
<1>6. Cardinality(A) \in N BY <1>1, <1>5
<1>7. PICK g \in [Small(Cardinality(A)) -> Nat] : \A s \in Small(Cardinality(A)) : Is(g, s)
  BY <1>6
<1>8. Small(Cardinality(A)) = SUBSET A BY FS_Subset
<1>9. g \in [SUBSET A -> Nat] /\ \A s \in SUBSET A : Is(g, s) BY <1>7, <1>8
<1>10. g = [s \in SUBSET A |-> IF s = {} THEN 0 ELSE h[Pick(s)] + g[s \ {Pick(s)}]]
  BY <1>9
<1> QED BY <1>9, <1>10 DEF SumsTo

LEMMA SumIs ==
  ASSUME NEW A, IsFiniteSet(A), NEW h \in [A -> Nat], NEW g, SumsTo(g, h, A),
         NEW B \in SUBSET A
  PROVE  SumOver(h, B) = g[B]
<1> DEFINE c == CHOOSE f : SumsTo(f, h, B)
           r == [s \in SUBSET B |-> g[s]]
<1>1. SumOver(h, B) = c[B]
  BY DEF SumOver, MapThenSumSet, MapThenFoldSet, SumsTo, Pick
<1>2. ASSUME NEW s \in SUBSET B, s # {}
      PROVE  Pick(s) \in s /\ s \ {Pick(s)} \in SUBSET B
  BY <1>2, PickIn
<1>3. \A s \in SUBSET A : g[s] = IF s = {} THEN 0 ELSE h[Pick(s)] + g[s \ {Pick(s)}]
  <2>1. PICK e : e = [s \in SUBSET A |->
                        IF s = {} THEN 0 ELSE h[Pick(s)] + g[s \ {Pick(s)}]]
    OBVIOUS
  <2>2. g = e BY <2>1 DEF SumsTo
  <2>3. \A s \in SUBSET A : e[s] = IF s = {} THEN 0 ELSE h[Pick(s)] + g[s \ {Pick(s)}]
    BY <2>1
  <2> QED BY <2>2, <2>3
<1>4. SumsTo(r, h, B)
  <2>1. ASSUME NEW s \in SUBSET B
        PROVE  r[s] = IF s = {} THEN 0 ELSE h[Pick(s)] + r[s \ {Pick(s)}]
    <3>1. s \in SUBSET A /\ r[s] = g[s] OBVIOUS
    <3>2. s # {} => r[s \ {Pick(s)}] = g[s \ {Pick(s)}] BY <1>2
    <3> QED BY <1>3, <3>1, <3>2
  <2> QED BY <2>1 DEF SumsTo
<1>5. SumsTo(c, h, B)
  <2>1. \E f : SumsTo(f, h, B) BY <1>4
  <2> QED BY <2>1
<1> HIDE DEF c
<1>6. \A s \in SUBSET B : c[s] = IF s = {} THEN 0 ELSE h[Pick(s)] + c[s \ {Pick(s)}]
  <2>1. PICK e : e = [s \in SUBSET B |->
                        IF s = {} THEN 0 ELSE h[Pick(s)] + c[s \ {Pick(s)}]]
    OBVIOUS
  <2>2. c = e BY <1>5, <2>1 DEF SumsTo
  <2>3. \A s \in SUBSET B : e[s] = IF s = {} THEN 0 ELSE h[Pick(s)] + c[s \ {Pick(s)}]
    BY <2>1
  <2> QED BY <2>2, <2>3
<1> DEFINE T == {s \in SUBSET B : c[s] = g[s]}
<1>7. T = SUBSET B
  <2>1. {} \in T BY <1>3, <1>6
  <2>2. ASSUME NEW s \in SUBSET B, s # {}, \A x \in s : s \ {x} \in T PROVE s \in T
    BY <1>3, <1>6, <2>2, PickIn
  <2>3. IsFiniteSet(B) BY FS_Subset
  <2>4. T \in SUBSET (SUBSET B) OBVIOUS
  <2> HIDE DEF T
  <2> QED BY <2>1, <2>2, <2>3, <2>4, SetBySet
<1>8. c[B] = g[B] BY <1>7
<1> QED BY <1>1, <1>8

LEMMA SumStep ==
  ASSUME NEW A, IsFiniteSet(A), NEW h \in [A -> Nat]
  PROVE  /\ SumOver(h, {}) = 0
         /\ \A B \in SUBSET A :
              /\ SumOver(h, B) \in Nat
              /\ B # {} => SumOver(h, B) = h[Pick(B)] + SumOver(h, B \ {Pick(B)})
<1>1. PICK g \in [SUBSET A -> Nat] : SumsTo(g, h, A) BY SumExists
<1>2. \A B \in SUBSET A : SumOver(h, B) = g[B] BY <1>1, SumIs
<1>3. \A s \in SUBSET A : g[s] = IF s = {} THEN 0 ELSE h[Pick(s)] + g[s \ {Pick(s)}]
  <2>1. PICK e : e = [s \in SUBSET A |->
                        IF s = {} THEN 0 ELSE h[Pick(s)] + g[s \ {Pick(s)}]]
    OBVIOUS
  <2>2. g = e BY <1>1, <2>1 DEF SumsTo
  <2>3. \A s \in SUBSET A : e[s] = IF s = {} THEN 0 ELSE h[Pick(s)] + g[s \ {Pick(s)}]
    BY <2>1
  <2> QED BY <2>2, <2>3
<1> QED BY <1>1, <1>2, <1>3

\* Whatever the order in which the elements are taken.
LEMMA SumRemove ==
  ASSUME NEW A, IsFiniteSet(A), NEW h \in [A -> Nat], NEW B \in SUBSET A, NEW y \in B
  PROVE  SumOver(h, B) = h[y] + SumOver(h, B \ {y})
<1> DEFINE T == {s \in SUBSET A : \A x \in s : SumOver(h, s) = h[x] + SumOver(h, s \ {x})}
<1>1. {} \in T OBVIOUS
<1>2. ASSUME NEW s \in SUBSET A, s # {}, \A x \in s : s \ {x} \in T PROVE s \in T
  <2> DEFINE S(u) == SumOver(h, u)
  <2>1. PICK c : c = Pick(s) OBVIOUS
  <2>2. c \in s /\ S(s) = h[c] + S(s \ {c})
    BY <1>2, <2>1, PickIn, SumStep
  <2>3. ASSUME NEW x \in s, x # c PROVE S(s) = h[x] + S(s \ {x})
    <3>1. S(s \ {c}) = h[x] + S((s \ {c}) \ {x}) BY <1>2, <2>2, <2>3
    <3>2. S(s \ {x}) = h[c] + S((s \ {x}) \ {c}) BY <1>2, <2>2, <2>3
    <3>3. (s \ {x}) \ {c} = (s \ {c}) \ {x} OBVIOUS
    <3>4. h[x] \in Nat /\ h[c] \in Nat BY <2>2
    <3>5. S((s \ {c}) \ {x}) \in Nat /\ S(s \ {c}) \in Nat /\ S(s \ {x}) \in Nat
      <4>1. (s \ {c}) \ {x} \in SUBSET A /\ s \ {c} \in SUBSET A /\ s \ {x} \in SUBSET A
        OBVIOUS
      <4> QED BY <4>1, SumStep
    <3> HIDE DEF S
    <3> QED BY <2>2, <3>1, <3>2, <3>3, <3>4, <3>5
  <2> QED BY <2>2, <2>3
<1>3. T = SUBSET A
  <2> HIDE DEF T
  <2>1. T \in SUBSET (SUBSET A) BY DEF T
  <2> QED BY <1>1, <1>2, <2>1, SetBySet
<1>4. B \in T BY <1>3
<1> QED BY <1>4

LEMMA SumUnion ==
  ASSUME NEW A, IsFiniteSet(A), NEW h \in [A -> Nat], NEW B \in SUBSET A,
         NEW C \in SUBSET A, B \cap C = {}
  PROVE  SumOver(h, B \cup C) = SumOver(h, B) + SumOver(h, C)
<1> DEFINE S(u) == SumOver(h, u)
           T == {s \in SUBSET C : S(B \cup s) = S(B) + S(s)}
<1>1. \A s \in SUBSET A : S(s) \in Nat BY SumStep
<1>2. {} \in T
  <2>1. S({}) = 0 /\ B \cup {} = B BY SumStep
  <2>2. S(B) \in Nat BY <1>1
  <2> HIDE DEF S
  <2> QED BY <2>1, <2>2
<1>3. ASSUME NEW s \in SUBSET C, s # {}, \A x \in s : s \ {x} \in T PROVE s \in T
  <2>1. PICK x : x \in s BY <1>3
  <2>2. S(B \cup (s \ {x})) = S(B) + S(s \ {x}) BY <1>3, <2>1
  <2>3. /\ B \cup s \in SUBSET A /\ s \in SUBSET A /\ x \in B \cup s
        /\ (B \cup s) \ {x} = B \cup (s \ {x}) /\ s \ {x} \in SUBSET A
    BY <2>1
  <2>4. S(B \cup s) = h[x] + S(B \cup (s \ {x})) BY <2>3, SumRemove
  <2>5. S(s) = h[x] + S(s \ {x}) BY <2>1, <2>3, SumRemove
  <2>6. h[x] \in Nat /\ S(B) \in Nat /\ S(s \ {x}) \in Nat BY <1>1, <2>3
  <2> HIDE DEF S
  <2> QED BY <2>2, <2>4, <2>5, <2>6
<1>4. T = SUBSET C
  <2>1. T \in SUBSET (SUBSET C) /\ IsFiniteSet(C) BY FS_Subset
  <2> HIDE DEF T
  <2> QED BY <1>2, <1>3, <2>1, SetBySet
<1>5. C \in T BY <1>4
<1> QED BY <1>5

SameOn(h, k, B) == \A x \in B : h[x] = k[x]

LEMMA SumSame ==
  ASSUME NEW A, IsFiniteSet(A), NEW h \in [A -> Nat],
         NEW D, IsFiniteSet(D), NEW k \in [D -> Nat],
         NEW B \in SUBSET A, B \in SUBSET D, SameOn(h, k, B)
  PROVE  SumOver(h, B) = SumOver(k, B)
<1> DEFINE T == {s \in SUBSET B : SumOver(h, s) = SumOver(k, s)}
<1>1. {} \in T
  <2>1. SumOver(h, {}) = 0 BY SumStep
  <2>2. SumOver(k, {}) = 0 BY SumStep
  <2> QED BY <2>1, <2>2
<1>2. ASSUME NEW s \in SUBSET B, s # {}, \A x \in s : s \ {x} \in T PROVE s \in T
  <2>1. PICK x : x \in s /\ h[x] = k[x] BY <1>2 DEF SameOn
  <2>2. SumOver(h, s \ {x}) = SumOver(k, s \ {x}) BY <1>2, <2>1
  <2>3. s \in SUBSET A /\ s \in SUBSET D OBVIOUS
  <2>4. SumOver(h, s) = h[x] + SumOver(h, s \ {x}) BY <2>1, <2>3, SumRemove
  <2>5. SumOver(k, s) = k[x] + SumOver(k, s \ {x}) BY <2>1, <2>3, SumRemove
  <2> QED BY <2>1, <2>2, <2>4, <2>5
<1>3. T = SUBSET B
  <2>1. T \in SUBSET (SUBSET B) /\ IsFiniteSet(B) BY FS_Subset
  <2> HIDE DEF T
  <2> QED BY <1>1, <1>2, <2>1, SetBySet
<1>4. B \in T BY <1>3
<1> QED BY <1>4

-------------------------------------------------------------------------------
(* Where the runner is.                                                    *)

Mods == [name : Words, setup : BOOLEAN, teardown : BOOLEAN, tests : Seq(BOOLEAN)]
Kinds == {"module", "setup", "test", "teardown"}
LogEntries == [kind : Kinds, module : Nat, test : Nat, ok : BOOLEAN, total : Nat, passed : Nat]

RunTypes ==
  /\ suite \in Seq(Mods) /\ modules \in Seq(Mods)
  /\ all \in BOOLEAN /\ m \in Nat /\ t \in Nat
  /\ tests \in [total : Nat, passed : Nat]
  /\ cummulative \in [modules : Nat, total : Nat, passed : Nat]
  /\ log \in Seq(LogEntries)

Running == {"next", "setup", "test", "crash"}

\* Which modules are run: all of them, or the first with the name.
Asked ==
  IF all THEN RunsAll ELSE RunsOne /\ Named # {} /\ m = Min(Named)

RunPlace ==
  /\ ustep \in Running \cup {"register", "result", "ended", "exit"}
  /\ ustep \in {"register", "exit"} => pc = "init"
  /\ ustep = "result" => pc \notin {"exit", "done"}
  /\ ustep = "ended" => pc \in {"call", "exit", "done"}
  /\ ustep \in {"register", "result", "exit"} =>
       log = <<>> /\ ~all /\ cummulative = [modules |-> 0, total |-> 0, passed |-> 0]
  /\ ustep \in Running => pc = "call" /\ Asked
  /\ ustep \in {"next", "crash"} => all
  /\ ustep = "next" => m \in 1..(Len(modules) + 1)
  /\ ustep = "crash" => m = Len(modules) + 1
  /\ ustep \in {"setup", "test"} => m \in DOMAIN modules
  /\ ustep = "test" => t \in 1..(Len(Module.tests) + 1)

RunInv == RunTypes /\ RunPlace

LEMMA ParserBeside ==
  ASSUME ParseStep
  PROVE  /\ UNCHANGED unitVars
         /\ pc \in {"init", "add", "parse", "args", "exit"}
         /\ pc = "exit" => pc' = "done" /\ UNCHANGED <<result, target>>
         /\ pc # "exit" => pc' \in {"add", "parse", "args", "call"}
<1>1. UNCHANGED unitVars BY DEF ParseStep
<1>2. CASE cmdline_init BY <1>1, <1>2 DEF cmdline_init
<1>3. CASE AddOption BY <1>1, <1>3 DEF AddOption
<1>4. CASE OptionsAdded BY <1>1, <1>4 DEF OptionsAdded
<1>5. CASE Parse
  BY <1>1, <1>5 DEF Parse, ParseInit, ParseOK, AddArg, Help, Version, UnknownOption,
                    RefusedOption, HandleOption, IsOption, InArgv, Return
<1>6. CASE cmdline_exit BY <1>1, <1>6 DEF cmdline_exit
<1> QED BY <1>2, <1>3, <1>4, <1>5, <1>6 DEF ParseStep

LEMMA NamedFirst ==
  ASSUME modules \in Seq(Mods)
  PROVE  /\ Named # {} => Min(Named) \in Named
         /\ Named \subseteq DOMAIN modules
         /\ unit_module_find_by_name(target["opt_run_module"]) =
              IF Named = {} THEN 0 ELSE Min(Named)
<1>1. Named \in SUBSET Nat
  <2>1. DOMAIN modules \subseteq Nat OBVIOUS
  <2> QED BY <2>1 DEF Named
<1>2. Named # {} => Min(Named) \in Named BY <1>1, MinIsLeast
<1> QED BY <1>2 DEF Named, unit_module_find_by_name

\* What is added to the log.
LEMMA EntryTyped ==
  ASSUME RunTypes, NEW kind \in Kinds, NEW k \in Nat, NEW ok \in BOOLEAN,
         NEW n \in [total : Nat, passed : Nat]
  PROVE  Entry(kind, k, ok, n) \in LogEntries
BY DEF Entry, LogEntries, RunTypes

LEMMA NothingTyped == Nothing \in [total : Nat, passed : Nat]
BY DEF Nothing

\* Sequences of one and of two elements.
LEMMA Short ==
  ASSUME NEW S, NEW e \in S, NEW f \in S
  PROVE  /\ <<e>> \in Seq(S) /\ Len(<<e>>) = 1 /\ DOMAIN <<e>> = {1} /\ <<e>>[1] = e
         /\ << >> \in Seq(S) /\ Len(<< >>) = 0 /\ DOMAIN << >> = {}
         /\ Len(<<e>> \o <<f>>) = 2 /\ DOMAIN (<<e>> \o <<f>>) = {1, 2}
         /\ (<<e>> \o <<f>>)[1] = e /\ (<<e>> \o <<f>>)[2] = f
         /\ <<e>> \o << >> = <<e>>
<1>1. /\ <<e>> \in Seq(S) /\ Len(<<e>>) = 1 /\ DOMAIN <<e>> = {1} /\ <<e>>[1] = e
      /\ << >> \in Seq(S) /\ Len(<< >>) = 0 /\ DOMAIN << >> = {}
      /\ <<e>> \o << >> = <<e>>
  OBVIOUS
<1> DEFINE a == <<e>>
           b == <<f>>
<1>2. a \in Seq(S) /\ Len(a) = 1 /\ a[1] = e OBVIOUS
<1>3. b \in Seq(S) /\ Len(b) = 1 /\ b[1] = f OBVIOUS
<1> HIDE DEF a, b
<1> DEFINE s == a \o b
<1>4. /\ s \in Seq(S) /\ Len(s) = Len(a) + Len(b)
      /\ \A k \in 1..(Len(a) + Len(b)) : s[k] = IF k <= Len(a) THEN a[k] ELSE b[k - Len(a)]
  BY <1>2, <1>3, ConcatProperties
<1>5. s = <<e>> \o <<f>> BY DEF a, b
<1> HIDE DEF s
<1>6. \A k \in 1..2 : s[k] = IF k <= 1 THEN a[k] ELSE b[k - 1] BY <1>2, <1>3, <1>4
<1>7. Len(s) = 2 /\ s[1] = e /\ s[2] = f BY <1>2, <1>3, <1>4, <1>6
<1>8. DOMAIN s = {1, 2}
  <2>1. DOMAIN s = 1..Len(s) BY <1>4
  <2> QED BY <1>7, <2>1
<1> QED BY <1>1, <1>5, <1>7, <1>8

\* The types as facts of their own, for the provers.
LEMMA LogTyped == ASSUME RunTypes PROVE log \in Seq(LogEntries)
BY DEF RunTypes

LEMMA ModulesTyped == ASSUME RunTypes PROVE suite \in Seq(Mods) /\ modules \in Seq(Mods)
BY DEF RunTypes

LEMMA NumbersTyped ==
  ASSUME RunTypes
  PROVE  /\ m \in Nat /\ t \in Nat
         /\ tests \in [total : Nat, passed : Nat]
         /\ cummulative \in [modules : Nat, total : Nat, passed : Nat]
BY DEF RunTypes

LEMMA Returns ==
  ASSUME NEW ok \in BOOLEAN, ExecReturns(ok)
  PROVE  \/ all /\ ok /\ m' = m + 1 /\ ustep' = "next" /\ status' = status
         \/ /\ ~(all /\ ok) /\ ustep' = "ended" /\ m' = m
            /\ status' = IF ok THEN "SUCCESS" ELSE "FAILURE"
BY DEF ExecReturns, End

LEMMA RunInvInit == UnitInit => RunInv
<1> SUFFICES ASSUME UnitInit PROVE RunInv
  OBVIOUS
<1>1. suite \in Seq(Mods) BY SuitesAssumption DEF UnitInit, Mods
<1>2. modules \in Seq(Mods) /\ log \in Seq(LogEntries) BY DEF UnitInit
<1>3. /\ tests \in [total : Nat, passed : Nat]
      /\ cummulative \in [modules : Nat, total : Nat, passed : Nat]
      /\ all \in BOOLEAN /\ m \in Nat /\ t \in Nat
  BY DEF UnitInit
<1>4. RunTypes BY <1>1, <1>2, <1>3 DEF RunTypes
<1>5. RunPlace BY DEF UnitInit, Init, RunPlace, Running
<1> QED BY <1>4, <1>5 DEF RunInv

\* What unit_module_init adds to the log.
SetupLog(ok) ==
  <<Entry("module", 0, TRUE, Nothing)>>
    \o (IF Module.setup THEN <<Entry("setup", 0, ok, Nothing)>> ELSE <<>>)

TeardownLog(ok) == IF Module.teardown THEN <<Entry("teardown", 0, ok, Nothing)>> ELSE <<>>

LEMMA CallbackLogs ==
  ASSUME RunTypes, NEW ok \in BOOLEAN
  PROVE  /\ SetupLog(ok) \in Seq(LogEntries)
         /\ Setup(ok) => log' = log \o SetupLog(ok)
         /\ TeardownLog(ok) \in Seq(LogEntries)
         /\ Teardown(ok) => log' = log \o TeardownLog(ok)
<1>1. PICK e \in Seq(LogEntries) : e = <<Entry("module", 0, TRUE, Nothing)>>
  <2>1. Entry("module", 0, TRUE, Nothing) \in LogEntries
    BY EntryTyped, NothingTyped DEF Kinds
  <2> QED BY <2>1, Short
<1>2. PICK f \in Seq(LogEntries) :
        f = IF Module.setup THEN <<Entry("setup", 0, ok, Nothing)>> ELSE <<>>
  <2>1. Entry("setup", 0, ok, Nothing) \in LogEntries
    BY EntryTyped, NothingTyped DEF Kinds
  <2>2. <<Entry("setup", 0, ok, Nothing)>> \in Seq(LogEntries) BY <2>1, Short
  <2>3. << >> \in Seq(LogEntries) OBVIOUS
  <2> QED BY <2>2, <2>3
<1>3. SetupLog(ok) = e \o f BY <1>1, <1>2 DEF SetupLog
<1>4. e \o f \in Seq(LogEntries) OBVIOUS
<1>5. ASSUME Setup(ok) PROVE log' = log \o SetupLog(ok)
  <2>1. log' = (log \o e) \o f BY <1>1, <1>2, <1>5 DEF Setup
  <2>2. log \in Seq(LogEntries) BY LogTyped
  <2>3. (log \o e) \o f = log \o (e \o f) BY <1>1, <1>2, <2>2, ConcatAssociative
  <2> QED BY <1>3, <2>1, <2>3
<1>6. TeardownLog(ok) \in Seq(LogEntries)
  <2>1. Entry("teardown", 0, ok, Nothing) \in LogEntries
    BY EntryTyped, NothingTyped DEF Kinds
  <2>2. <<Entry("teardown", 0, ok, Nothing)>> \in Seq(LogEntries) BY <2>1, Short
  <2>3. << >> \in Seq(LogEntries) OBVIOUS
  <2> QED BY <2>2, <2>3 DEF TeardownLog
<1>7. Teardown(ok) => log' = log \o TeardownLog(ok) BY DEF Teardown, TeardownLog
<1> QED BY <1>3, <1>4, <1>5, <1>6, <1>7

LEMMA RunTypesNext == RunInv /\ [UnitNext]_<<vars, unitVars>> => RunTypes'
<1> SUFFICES ASSUME RunInv, [UnitNext]_<<vars, unitVars>> PROVE RunTypes'
  OBVIOUS
<1>0. RunTypes /\ RunPlace BY DEF RunInv
<1>1. ASSUME UNCHANGED unitVars PROVE RunTypes'
  BY <1>0, <1>1 DEF unitVars, runVars, RunTypes
<1>2. CASE Register
  <2>1. UNCHANGED <<suite, runVars>> /\ Len(modules) < Len(suite)
    BY <1>2 DEF Register
  <2>2. PICK e \in Mods : e = suite[Len(modules) + 1]
    <3>1. suite \in Seq(Mods) /\ modules \in Seq(Mods) BY <1>0, ModulesTyped
    <3>2. Len(modules) + 1 \in DOMAIN suite BY <2>1, <3>1
    <3> QED BY <3>1, <3>2
  <2>3. modules' \in Seq(Mods)
    <3>1. modules \in Seq(Mods) BY <1>0, ModulesTyped
    <3>2. CASE modules' = modules BY <3>1, <3>2
    <3>3. CASE modules' = Append(modules, e) BY <3>1, <3>3
    <3> QED BY <1>2, <2>2, <3>2, <3>3 DEF Register
  <2> QED BY <1>0, <2>1, <2>3 DEF RunTypes, runVars
<1>3. CASE Registered \/ RunNone \/ NextModule
  BY <1>0, <1>3 DEF Registered, RunNone, NextModule, RunTypes, runVars
<1>4. CASE RunOne
  <2>1. unit_module_find_by_name(target["opt_run_module"]) \in Nat
    <3>1. modules \in Seq(Mods) BY <1>0, ModulesTyped
    <3>2. DOMAIN modules \subseteq Nat BY <3>1
    <3> QED BY <3>1, <3>2, NamedFirst
  <2>2. UNCHANGED <<suite, modules, all, t, tests, cummulative, log>>
    BY <1>4 DEF RunOne, runVars
  <2>3. m' \in Nat BY <1>0, <1>4, <2>1, NumbersTyped DEF RunOne, runVars
  <2> QED BY <1>0, <2>2, <2>3 DEF RunTypes
<1>5. CASE RunAll BY <1>0, <1>5 DEF RunAll, RunTypes
<1>6. ASSUME NEW ok \in BOOLEAN, Setup(ok) PROVE RunTypes'
  <2>1. log' \in Seq(LogEntries)
    <3>1. log' = log \o SetupLog(ok) /\ SetupLog(ok) \in Seq(LogEntries)
      BY <1>0, <1>6, CallbackLogs
    <3>2. log \in Seq(LogEntries) BY <1>0, LogTyped
    <3> QED BY <3>1, <3>2
  <2>2. cummulative' \in [modules : Nat, total : Nat, passed : Nat]
    <3>1. PICK c \in [modules : Nat, total : Nat, passed : Nat] : c = cummulative
      BY <1>0, NumbersTyped
    <3>2. cummulative' = c \/ cummulative' = [c EXCEPT !.modules = @ + 1]
      BY <1>6, <3>1 DEF Setup
    <3> QED BY <3>2
  <2>3. m' \in Nat
    <3>1. m' \in {m, m + 1} BY <1>6, Returns DEF Setup
    <3> QED BY <1>0, <3>1, NumbersTyped
  <2>4. t' \in {t, 1} /\ UNCHANGED <<suite, modules, all>> /\ tests' = Nothing
    BY <1>6 DEF Setup, CountsReset
  <2>5. t' \in Nat BY <1>0, <2>4, NumbersTyped
  <2> QED BY <1>0, <2>1, <2>2, <2>3, <2>4, <2>5, NothingTyped DEF RunTypes
<1>7. ASSUME NEW ok \in BOOLEAN, NEW n \in Counts, Test(ok, n) PROVE RunTypes'
  <2>1. n \in [total : Nat, passed : Nat] BY CountsAssumption
  <2>2. PICK e \in LogEntries : e = Entry("test", t, ok, n)
    BY <1>0, <2>1, NumbersTyped, EntryTyped DEF Kinds
  <2>3. log' \in Seq(LogEntries)
    <3>1. log' = Append(log, e) BY <1>7, <2>2 DEF Test
    <3>2. log \in Seq(LogEntries) BY <1>0, LogTyped
    <3> QED BY <3>1, <3>2
  <2>4. tests' \in [total : Nat, passed : Nat]
    BY <1>0, <1>7, <2>1, NumbersTyped DEF Test
  <2>5. m' \in Nat
    <3>1. m' \in {m, m + 1} BY <1>7, Returns DEF Test
    <3> QED BY <1>0, <3>1, NumbersTyped
  <2>6. t' \in {t, t + 1} /\ UNCHANGED <<suite, modules, all, cummulative>>
    BY <1>7 DEF Test
  <2>7. t' \in Nat BY <1>0, <2>6, NumbersTyped
  <2> QED BY <1>0, <2>3, <2>4, <2>5, <2>6, <2>7 DEF RunTypes
<1>8. ASSUME NEW ok \in BOOLEAN, Teardown(ok) PROVE RunTypes'
  <2>1. log' \in Seq(LogEntries)
    <3>1. log' = log \o TeardownLog(ok) /\ TeardownLog(ok) \in Seq(LogEntries)
      BY <1>0, <1>8, CallbackLogs
    <3>2. log \in Seq(LogEntries) BY <1>0, LogTyped
    <3> QED BY <3>1, <3>2
  <2>2. cummulative' \in [modules : Nat, total : Nat, passed : Nat]
    <3>1. PICK c \in [modules : Nat, total : Nat, passed : Nat] : c = cummulative
      BY <1>0, NumbersTyped
    <3>2. PICK n \in [total : Nat, passed : Nat] : n = tests BY <1>0, NumbersTyped
    <3>3. PICK x \in Nat, y \in Nat : x = c.total + n.total /\ y = c.passed + n.passed
      OBVIOUS
    <3>4. cummulative' = [c EXCEPT !.total = x, !.passed = y]
      BY <1>8, <3>1, <3>2, <3>3 DEF Teardown
    <3> QED BY <3>4
  <2>3. m' \in Nat
    <3>1. m' \in {m, m + 1} BY <1>8, Returns DEF Teardown
    <3> QED BY <1>0, <3>1, NumbersTyped
  <2>4. UNCHANGED <<suite, modules, all, t, tests>> BY <1>8 DEF Teardown
  <2> QED BY <1>0, <2>1, <2>2, <2>3, <2>4 DEF RunTypes
<1>9. CASE ParseStep \/ Leave BY <1>1, <1>9 DEF ParseStep, Leave
<1>10. CASE UNCHANGED <<vars, unitVars>> BY <1>1, <1>10
<1> QED BY <1>2, <1>3, <1>4, <1>5, <1>6, <1>7, <1>8, <1>9, <1>10 DEF UnitNext

\* A step of the runner leaves the command line as it is.
RunStep ==
  \/ Register \/ Registered \/ RunNone \/ RunOne \/ RunAll \/ NextModule
  \/ \E ok \in BOOLEAN : Setup(ok) \/ Teardown(ok) \/ \E n \in Counts : Test(ok, n)

LEMMA RunStepKeeps == ASSUME RunStep PROVE UNCHANGED <<vars, suite>>
BY DEF RunStep, Register, Registered, RunNone, RunOne, RunAll, NextModule, Setup, Teardown, Test

LEMMA SameModules ==
  ASSUME UNCHANGED <<vars, modules>>
  PROVE  /\ Named' = Named /\ (RunsOne' <=> RunsOne) /\ (RunsAll' <=> RunsAll)
         /\ pc' = pc /\ result' = result
BY DEF vars, Named, RunsOne, RunsAll, Given

LEMMA RunPlaceNext == RunInv /\ [UnitNext]_<<vars, unitVars>> => RunPlace'
<1> SUFFICES ASSUME RunInv, [UnitNext]_<<vars, unitVars>> PROVE RunPlace'
  OBVIOUS
<1>0. RunTypes /\ RunPlace BY DEF RunInv
<1>a. modules \in Seq(Mods) BY <1>0, ModulesTyped
<1>b. Len(modules) \in Nat /\ DOMAIN modules = 1..Len(modules) BY <1>a
<1>1. ASSUME UNCHANGED unitVars, UNCHANGED vars PROVE RunPlace'
  <2>1. UNCHANGED <<ustep, log, cummulative, all, m, t, modules>>
    BY <1>1 DEF unitVars, runVars
  <2>2. Asked' <=> Asked BY <1>1, <2>1, SameModules DEF Asked
  <2>3. pc' = pc BY <1>1 DEF vars
  <2>4. Module' = Module BY <2>1 DEF Module
  <2> QED BY <1>0, <2>1, <2>2, <2>3, <2>4 DEF RunPlace
<1>2. CASE ParseStep
  <2>1. UNCHANGED unitVars /\ ustep \notin {"register", "exit"} BY <1>2 DEF ParseStep
  <2>2. UNCHANGED <<ustep, log, cummulative, all, m, t, modules>>
    BY <2>1 DEF unitVars, runVars
  <2>3. ustep \in {"result", "ended"}
    BY <1>0, <1>2, <2>1, ParserBeside DEF RunPlace, Running
  <2>4. CASE ustep = "result"
    <3>1. pc \in {"init", "add", "parse", "args"}
      BY <1>0, <1>2, <2>4, ParserBeside DEF RunPlace
    <3>2. pc' \in {"add", "parse", "args", "call"} BY <1>2, <3>1, ParserBeside
    <3> QED BY <1>0, <2>2, <2>4, <3>2 DEF RunPlace, Running
  <2>5. CASE ustep = "ended"
    <3>1. pc = "exit" BY <1>0, <1>2, <2>5, ParserBeside DEF RunPlace
    <3>2. pc' = "done" BY <1>2, <3>1, ParserBeside
    <3> QED BY <2>2, <2>5, <3>2 DEF RunPlace, Running
  <2> QED BY <2>3, <2>4, <2>5
<1>3. CASE Leave
  <2>1. UNCHANGED unitVars /\ ustep = "ended" /\ pc' = "exit"
    BY <1>3 DEF Leave, Working, Call
  <2>2. ustep' = "ended" BY <2>1 DEF unitVars
  <2> QED BY <2>1, <2>2 DEF RunPlace, Running
<1>4. CASE Register \/ Registered
  <2>1. ustep = "register" /\ ustep' \in {"register", "exit", "result"}
        /\ UNCHANGED <<vars, runVars>>
    BY <1>4 DEF Register, Registered
  <2>2. pc' = "init" /\ log' = <<>> /\ ~all'
        /\ cummulative' = [modules |-> 0, total |-> 0, passed |-> 0]
    BY <1>0, <2>1 DEF RunPlace, vars, runVars
  <2> QED BY <2>1, <2>2 DEF RunPlace, Running
<1>5. CASE RunNone
  <2>1. ustep' = "ended" /\ pc = "call" /\ pc' = pc BY <1>5 DEF RunNone, End, Working, vars
  <2> QED BY <2>1 DEF RunPlace, Running
<1>6. CASE RunOne
  <2>1. /\ pc = "call" /\ ustep = "result" /\ RunsOne /\ UNCHANGED <<vars, suite, modules>>
    BY <1>6 DEF RunOne, Working
  <2>2. PICK k : k = unit_module_find_by_name(target["opt_run_module"]) OBVIOUS
  <2>3. CASE k = 0
    <3>1. ustep' = "ended" BY <1>6, <2>2, <2>3 DEF RunOne, End
    <3>2. pc' = "call" BY <2>1 DEF vars
    <3> QED BY <3>1, <3>2 DEF RunPlace, Running
  <2>4. CASE k # 0
    <3>1. m' = k /\ ustep' = "setup" /\ all' = all BY <1>6, <2>2, <2>4 DEF RunOne
    <3>2. Named # {} /\ k = Min(Named) /\ k \in DOMAIN modules
      BY <1>a, <2>2, <2>4, NamedFirst
    <3>3. ~all' BY <1>0, <2>1, <3>1 DEF RunPlace
    <3>4. Asked' /\ pc' = "call"
      BY <2>1, <3>1, <3>2, <3>3, SameModules DEF Asked
    <3> QED BY <2>1, <3>1, <3>2, <3>4 DEF RunPlace, Running
  <2> QED BY <2>3, <2>4
<1>7. CASE RunAll
  <2>1. /\ pc = "call" /\ RunsAll /\ UNCHANGED <<vars, modules>>
        /\ all' /\ m' = 1 /\ ustep' = "next"
    BY <1>7 DEF RunAll, Working
  <2>2. Asked' /\ pc' = "call" BY <2>1, SameModules DEF Asked
  <2> QED BY <1>b, <2>1, <2>2 DEF RunPlace, Running
<1>8. CASE NextModule
  <2>1. /\ pc = "call" /\ ustep = "next" /\ UNCHANGED <<vars, modules>>
        /\ UNCHANGED <<all, m>>
        /\ ustep' = IF m \in DOMAIN modules THEN "setup" ELSE "crash"
    BY <1>8 DEF NextModule, Working, runVars
  <2>2. Asked' /\ pc' = "call" /\ all'
    BY <1>0, <2>1, SameModules DEF Asked, RunPlace, Running
  <2>3. m \in 1..(Len(modules) + 1) BY <1>0, <2>1 DEF RunPlace
  <2> QED BY <1>b, <2>1, <2>2, <2>3 DEF RunPlace, Running
<1>9. ASSUME NEW ok \in BOOLEAN, ExecReturns(ok), UNCHANGED <<vars, modules, all>>,
             pc = "call", ustep \in {"setup", "test"}
      PROVE  RunPlace'
  <2>1. Asked /\ m \in DOMAIN modules BY <1>0, <1>9 DEF RunPlace, Running
  <2>2. pc' = "call" BY <1>9, SameModules
  <2>3. CASE ustep' = "ended" BY <2>2, <2>3 DEF RunPlace, Running
  <2>4. CASE all /\ m' = m + 1 /\ ustep' = "next"
    <3>1. Asked' BY <1>9, <2>1, <2>4, SameModules DEF Asked
    <3>2. m' \in 1..(Len(modules) + 1) BY <1>b, <2>1, <2>4
    <3> QED BY <1>9, <2>2, <2>4, <3>1, <3>2 DEF RunPlace, Running
  <2> QED BY <1>9, <2>3, <2>4, Returns
<1>10. ASSUME pc = "call", ustep \in {"setup", "test"}, UNCHANGED <<vars, modules, all, m>>,
              ustep' = "test", t' \in 1..(Len(Module.tests) + 1)
       PROVE  RunPlace'
  <2>1. Asked /\ m \in DOMAIN modules BY <1>0, <1>10 DEF RunPlace, Running
  <2>2. Asked' /\ pc' = "call" BY <1>10, <2>1, SameModules DEF Asked
  <2>3. Module' = Module BY <1>10 DEF Module
  <2> QED BY <1>10, <2>1, <2>2, <2>3 DEF RunPlace, Running
<1>11. ASSUME ustep \in {"setup", "test"} PROVE Len(Module.tests) \in Nat
  <2>1. m \in DOMAIN modules BY <1>0, <1>11 DEF RunPlace
  <2>2. Module \in Mods BY <1>a, <2>1 DEF Module
  <2>3. Module.tests \in Seq(BOOLEAN) BY <2>2 DEF Mods
  <2> QED BY <2>3
<1>12. ASSUME NEW ok \in BOOLEAN, Setup(ok) PROVE RunPlace'
  <2>1. /\ pc = "call" /\ ustep = "setup" /\ UNCHANGED <<vars, modules, all>>
        /\ \/ t' = 1 /\ ustep' = "test" /\ m' = m
           \/ ExecReturns(FALSE)
    BY <1>12 DEF Setup, Working
  <2>2. CASE ExecReturns(FALSE)
    <3>1. FALSE \in BOOLEAN OBVIOUS
    <3> QED BY <1>9, <2>1, <2>2, <3>1
  <2>3. CASE t' = 1 /\ ustep' = "test" /\ m' = m
    <3>1. 1 \in 1..(Len(Module.tests) + 1) BY <1>11, <2>1
    <3> QED BY <1>10, <2>1, <2>3, <3>1
  <2> QED BY <2>1, <2>2, <2>3
<1>13. ASSUME NEW ok \in BOOLEAN, NEW n \in Counts, Test(ok, n) PROVE RunPlace'
  <2>1. /\ pc = "call" /\ ustep = "test" /\ UNCHANGED <<vars, modules, all>>
        /\ t <= Len(Module.tests)
        /\ \/ t' = t + 1 /\ ustep' = ustep /\ m' = m
           \/ ExecReturns(FALSE)
    BY <1>13 DEF Test, Working
  <2>2. t \in 1..(Len(Module.tests) + 1) BY <1>0, <2>1 DEF RunPlace
  <2>3. t + 1 \in 1..(Len(Module.tests) + 1) BY <1>11, <2>1, <2>2
  <2> QED BY <1>9, <1>10, <2>1, <2>3
<1>14. ASSUME NEW ok \in BOOLEAN, Teardown(ok) PROVE RunPlace'
  <2>1. pc = "call" /\ ustep = "test" /\ UNCHANGED <<vars, modules, all>> /\ ExecReturns(ok)
    BY <1>14 DEF Teardown, Working
  <2> QED BY <1>9, <2>1
<1>15. CASE UNCHANGED <<vars, unitVars>> BY <1>1, <1>15
<1> QED
  BY <1>2, <1>3, <1>4, <1>5, <1>6, <1>7, <1>8, <1>12, <1>13, <1>14, <1>15 DEF UnitNext

-------------------------------------------------------------------------------
(* The verdict.                                                            *)

\* What a step adds to the log, and whether its last entry ends the run.
Adds(x, bad) ==
  /\ x \in Seq(LogEntries)
  /\ log' = log \o x
  /\ \A k \in 1..(Len(x) - 1) : ~Ends(x[k])
  /\ (\E k \in DOMAIN x : Ends(x[k])) <=> bad

GoesOn(bad) ==
  \/ ~bad /\ ustep' \in {"next", "test"} /\ status' = status
  \/ ustep' = "ended" /\ status' = IF bad THEN "FAILURE" ELSE "SUCCESS"

LEMMA SetupAdds ==
  ASSUME RunTypes, NEW ok \in BOOLEAN, Setup(ok)
  PROVE  Adds(SetupLog(ok), ~ok) /\ GoesOn(~ok)
<1>1. SetupLog(ok) \in Seq(LogEntries) /\ log' = log \o SetupLog(ok) BY CallbackLogs
<1>2. ~Module.setup => ok BY DEF Setup
<1>3. PICK e \in LogEntries : e = Entry("module", 0, TRUE, Nothing)
  BY EntryTyped, NothingTyped DEF Kinds
<1>4. PICK f \in LogEntries : f = Entry("setup", 0, ok, Nothing)
  BY EntryTyped, NothingTyped DEF Kinds
<1>5. ~Ends(e) /\ (Ends(f) <=> ~ok) BY <1>3, <1>4 DEF Entry, Ends
<1>6. ASSUME Module.setup PROVE Adds(SetupLog(ok), ~ok)
  <2>1. PICK x : x = SetupLog(ok) OBVIOUS
  <2>2. x = <<e>> \o <<f>> BY <1>3, <1>4, <1>6, <2>1 DEF SetupLog
  <2>3. Len(x) = 2 /\ DOMAIN x = {1, 2} /\ x[1] = e /\ x[2] = f BY <2>2, Short
  <2>4. \A k \in 1..(Len(x) - 1) : ~Ends(x[k]) BY <1>5, <2>3
  <2>5. (\E k \in DOMAIN x : Ends(x[k])) <=> ~ok BY <1>5, <2>3
  <2> QED BY <1>1, <2>1, <2>4, <2>5 DEF Adds
<1>7. ASSUME ~Module.setup PROVE Adds(SetupLog(ok), ~ok)
  <2>1. PICK x : x = SetupLog(ok) OBVIOUS
  <2>2. x = <<e>> \o << >> BY <1>3, <1>7, <2>1 DEF SetupLog
  <2>3. Len(x) = 1 /\ DOMAIN x = {1} /\ x[1] = e BY <2>2, Short
  <2>4. \A k \in 1..(Len(x) - 1) : ~Ends(x[k]) BY <2>3
  <2>5. (\E k \in DOMAIN x : Ends(x[k])) <=> ~ok BY <1>2, <1>5, <1>7, <2>3
  <2> QED BY <1>1, <2>1, <2>4, <2>5 DEF Adds
<1>8. GoesOn(~ok)
  <2>1. CASE ok BY <2>1 DEF Setup, GoesOn, ExecReturns
  <2>2. CASE ~ok
    <3>1. ExecReturns(FALSE) BY <2>2 DEF Setup
    <3> QED BY <2>2, <3>1, Returns DEF GoesOn
  <2> QED BY <2>1, <2>2
<1> QED BY <1>6, <1>7, <1>8

LEMMA TestAdds ==
  ASSUME RunTypes, NEW ok \in BOOLEAN, NEW n \in Counts, Test(ok, n)
  PROVE  Adds(<<Entry("test", t, ok, n)>>, Fatal(t, ok)) /\ GoesOn(Fatal(t, ok))
<1>1. PICK e \in LogEntries : e = Entry("test", t, ok, n)
  BY CountsAssumption, NumbersTyped, EntryTyped DEF Kinds
<1>2. Ends(e) <=> Fatal(t, ok) BY <1>1 DEF Entry, Ends, Fatal, Module
<1>3. log' = log \o <<e>>
  <2>1. log' = Append(log, e) BY <1>1 DEF Test
  <2>2. log \in Seq(LogEntries) BY LogTyped
  <2> QED BY <2>1, <2>2
<1>4. <<e>> \in Seq(LogEntries) BY Short
<1>5. Adds(<<e>>, Fatal(t, ok)) BY <1>2, <1>3, <1>4 DEF Adds
<1>6. CASE Fatal(t, ok)
  <2>1. ExecReturns(FALSE) BY <1>6 DEF Test
  <2>2. GoesOn(TRUE) BY <2>1, Returns DEF GoesOn
  <2> QED BY <1>1, <1>5, <1>6, <2>1, Returns DEF GoesOn
<1>7. CASE ~Fatal(t, ok)
  <2>1. ustep = "test" /\ ustep' = ustep /\ status' = status BY <1>7 DEF Test, Working
  <2> QED BY <1>1, <1>5, <1>7, <2>1 DEF GoesOn
<1> QED BY <1>6, <1>7

LEMMA TeardownAdds ==
  ASSUME RunTypes, NEW ok \in BOOLEAN, Teardown(ok)
  PROVE  Adds(TeardownLog(ok), ~ok) /\ GoesOn(~ok)
<1>1. TeardownLog(ok) \in Seq(LogEntries) /\ log' = log \o TeardownLog(ok)
  BY CallbackLogs
<1>2. ~Module.teardown => ok BY DEF Teardown
<1>3. PICK f \in LogEntries : f = Entry("teardown", 0, ok, Nothing)
  BY EntryTyped, NothingTyped DEF Kinds
<1>4. Ends(f) <=> ~ok BY <1>3 DEF Entry, Ends
<1>5. ASSUME Module.teardown PROVE Adds(TeardownLog(ok), ~ok)
  <2>1. PICK x : x = TeardownLog(ok) OBVIOUS
  <2>2. x = <<f>> BY <1>3, <1>5, <2>1 DEF TeardownLog
  <2>3. Len(x) = 1 /\ DOMAIN x = {1} /\ x[1] = f BY <2>2, Short
  <2>4. \A k \in 1..(Len(x) - 1) : ~Ends(x[k]) BY <2>3
  <2>5. (\E k \in DOMAIN x : Ends(x[k])) <=> ~ok BY <1>4, <2>3
  <2> QED BY <1>1, <2>1, <2>4, <2>5 DEF Adds
<1>6. ASSUME ~Module.teardown PROVE Adds(TeardownLog(ok), ~ok)
  <2>1. PICK x : x = TeardownLog(ok) OBVIOUS
  <2>2. x = << >> BY <1>6, <2>1 DEF TeardownLog
  <2>3. Len(x) = 0 /\ DOMAIN x = {} BY <2>2, Short
  <2>4. \A k \in 1..(Len(x) - 1) : ~Ends(x[k]) BY <2>3
  <2>5. (\E k \in DOMAIN x : Ends(x[k])) <=> ~ok BY <1>2, <1>6, <2>3
  <2> QED BY <1>1, <2>1, <2>4, <2>5 DEF Adds
<1>7. GoesOn(~ok)
  <2>1. ExecReturns(ok) BY DEF Teardown
  <2> QED BY <2>1, Returns DEF GoesOn
<1> QED BY <1>5, <1>6, <1>7

Verdict ==
  /\ \A k \in 1..(Len(log) - 1) : ~Ends(log[k])
  /\ ustep \in Running => \A k \in DOMAIN log : ~Ends(log[k])
  /\ ustep = "ended" =>
       (status = "FAILURE" <=> \/ result = "ERROR"
                               \/ RunsOne /\ Named = {}
                               \/ \E k \in DOMAIN log : Ends(log[k]))

LEMMA VerdictAdds ==
  ASSUME RunInv, Verdict, ustep \in Running, UNCHANGED <<vars, modules>>,
         NEW x, NEW bad \in BOOLEAN, Adds(x, bad), GoesOn(bad)
  PROVE  Verdict'
<1>0. log \in Seq(LogEntries) /\ x \in Seq(LogEntries) BY LogTyped DEF RunInv, Adds
<1>1. \A e : Ends(e)' <=> Ends(e) BY DEF Ends
<1>2. /\ DOMAIN log = 1..Len(log) /\ Len(log) \in Nat
      /\ DOMAIN x = 1..Len(x) /\ Len(x) \in Nat
      /\ Len(log') = Len(log) + Len(x) /\ DOMAIN log' = 1..(Len(log) + Len(x))
      /\ \A k \in 1..Len(log) : log'[k] = log[k]
      /\ \A k \in 1..Len(x) : log'[Len(log) + k] = x[k]
  BY <1>0 DEF Adds
<1>3. \A k \in 1..Len(log) : ~Ends(log[k]) BY <1>2 DEF Verdict
<1>4. ASSUME NEW k \in 1..(Len(log) + Len(x)), Ends(log'[k])
      PROVE  bad /\ k = Len(log) + Len(x)
  <2>1. k \notin 1..Len(log) BY <1>2, <1>3, <1>4
  <2>2. PICK j \in 1..Len(x) : k = Len(log) + j
    <3>1. k - Len(log) \in 1..Len(x) /\ k = Len(log) + (k - Len(log)) BY <1>2, <2>1
    <3> QED BY <3>1
  <2>3. Ends(x[j]) BY <1>2, <1>4, <2>2
  <2>4. j \notin 1..(Len(x) - 1) BY <2>3 DEF Adds
  <2>5. bad BY <1>2, <2>3 DEF Adds
  <2> QED BY <1>2, <2>2, <2>4, <2>5
<1>5. ASSUME bad PROVE \E k \in DOMAIN log' : Ends(log'[k])
  <2>1. PICK j \in 1..Len(x) : Ends(x[j]) BY <1>2, <1>5 DEF Adds
  <2>2. Len(log) + j \in 1..(Len(log) + Len(x)) BY <1>2
  <2> QED BY <1>2, <2>1, <2>2
<1>6. result # "ERROR" /\ ~(RunsOne /\ Named = {})
  <2>1. Asked BY DEF RunInv, RunPlace
  <2> QED BY <2>1 DEF Asked, RunsAll, RunsOne
<1>7. \A k \in 1..(Len(log') - 1) : ~Ends(log'[k]) BY <1>2, <1>4
<1>8. CASE ~bad /\ ustep' \in {"next", "test"}
  <2>1. \A k \in DOMAIN log' : ~Ends(log'[k]) BY <1>2, <1>4, <1>8
  <2> QED BY <1>1, <1>7, <1>8, <2>1 DEF Verdict, Running
<1>9. CASE ustep' = "ended" /\ status' = IF bad THEN "FAILURE" ELSE "SUCCESS"
  <2>1. (\E k \in DOMAIN log' : Ends(log'[k])) <=> bad BY <1>2, <1>4, <1>5
  <2>2. result' # "ERROR" /\ ~(RunsOne' /\ Named' = {}) BY <1>6, SameModules
  <2> QED BY <1>1, <1>7, <1>9, <2>1, <2>2 DEF Verdict, Running
<1> QED BY <1>8, <1>9 DEF GoesOn

\* Before anything is run.
LEMMA NothingLogged ==
  ASSUME RunInv, ustep \in {"register", "result"}
  PROVE  log = <<>> /\ Len(log) = 0 /\ DOMAIN log = {}
BY DEF RunInv, RunPlace

LEMMA VerdictNext ==
  RunInv /\ Verdict /\ [UnitNext]_<<vars, unitVars>> => Verdict'
<1> SUFFICES ASSUME RunInv, Verdict, [UnitNext]_<<vars, unitVars>> PROVE Verdict'
  OBVIOUS
<1>0. RunTypes /\ RunPlace BY DEF RunInv
<1>a. \A e : UNCHANGED modules => (Ends(e)' <=> Ends(e)) BY DEF Ends
<1>1. ASSUME UNCHANGED unitVars, UNCHANGED <<result, target>> PROVE Verdict'
  <2>1. UNCHANGED <<ustep, log, status, modules, result, target>>
    BY <1>1 DEF unitVars, runVars
  <2>2. (RunsOne' <=> RunsOne) /\ Named' = Named BY <2>1 DEF RunsOne, Named, Given
  <2> QED BY <1>a, <2>1, <2>2 DEF Verdict
<1>2. CASE ParseStep
  <2>1. UNCHANGED unitVars /\ ustep \notin {"register", "exit"} BY <1>2 DEF ParseStep
  <2>2. ustep \in {"result", "ended"}
    BY <1>0, <1>2, <2>1, ParserBeside DEF RunPlace, Running
  <2>3. CASE ustep = "result"
    <3>1. log' = <<>> /\ ustep' = "result" BY <2>1, <2>3, NothingLogged DEF unitVars, runVars
    <3> QED BY <3>1 DEF Verdict, Running
  <2>4. CASE ustep = "ended"
    <3>1. pc = "exit" BY <1>0, <1>2, <2>4, ParserBeside DEF RunPlace
    <3> QED BY <1>1, <1>2, <3>1, ParserBeside
  <2> QED BY <2>2, <2>3, <2>4
<1>3. CASE Leave
  <2>1. UNCHANGED unitVars /\ UNCHANGED <<result, target>> BY <1>3 DEF Leave, Call
  <2> QED BY <1>1, <2>1
<1>4. CASE Register \/ Registered \/ RunAll
  <2>1. /\ ustep \in {"register", "result"} /\ log' = log
        /\ ustep' \in {"register", "exit", "result", "next"}
    BY <1>4 DEF Register, Registered, RunAll, Working, runVars
  <2>2. log' = <<>> BY <2>1, NothingLogged
  <2> QED BY <2>1, <2>2 DEF Verdict
<1>5. CASE RunNone
  <2>1. /\ ustep = "result" /\ UNCHANGED <<vars, modules, log>> /\ ~RunsOne
        /\ ustep' = "ended"
        /\ status' = IF result # "ERROR" THEN "SUCCESS" ELSE "FAILURE"
    BY <1>5 DEF RunNone, Working, End, runVars
  <2>2. log' = <<>> BY <2>1, NothingLogged
  <2>3. result' = result /\ ~RunsOne' BY <2>1, SameModules
  <2> QED BY <2>1, <2>2, <2>3 DEF Verdict, Running
<1>6. CASE RunOne
  <2>1. ustep = "result" /\ UNCHANGED <<vars, modules, log>> /\ RunsOne
    BY <1>6 DEF RunOne, Working, runVars
  <2>2. log' = <<>> BY <2>1, NothingLogged
  <2>3. PICK k : k = unit_module_find_by_name(target["opt_run_module"]) OBVIOUS
  <2>4. CASE k # 0
    <3>1. ustep' = "setup" BY <1>6, <2>3, <2>4 DEF RunOne
    <3> QED BY <2>2, <3>1 DEF Verdict, Running
  <2>5. CASE k = 0
    <3>1. ustep' = "ended" /\ status' = "FAILURE" BY <1>6, <2>3, <2>5 DEF RunOne, End
    <3>2. modules \in Seq(Mods) BY <1>0, ModulesTyped
    <3>3. Named = {}
      <4>1. 0 \notin DOMAIN modules BY <3>2
      <4> QED BY <2>3, <2>5, <3>2, <4>1, NamedFirst
    <3>4. RunsOne' /\ Named' = {} BY <2>1, <3>3, SameModules
    <3> QED BY <2>2, <3>1, <3>4 DEF Verdict, Running
  <2> QED BY <2>4, <2>5
<1>7. CASE NextModule
  <2>1. ustep = "next" /\ UNCHANGED <<vars, modules, log, status>> /\ ustep' \in {"setup", "crash"}
    BY <1>7 DEF NextModule, Working, runVars
  <2> QED BY <1>a, <2>1 DEF Verdict, Running
<1>8. ASSUME NEW ok \in BOOLEAN, Setup(ok) PROVE Verdict'
  <2>1. ustep \in Running /\ UNCHANGED <<vars, modules>>
    BY <1>8 DEF Setup, Working, Running
  <2>2. (~ok) \in BOOLEAN OBVIOUS
  <2> QED BY <1>0, <1>8, <2>1, <2>2, SetupAdds, VerdictAdds
<1>9. ASSUME NEW ok \in BOOLEAN, Teardown(ok) PROVE Verdict'
  <2>1. ustep \in Running /\ UNCHANGED <<vars, modules>>
    BY <1>9 DEF Teardown, Working, Running
  <2>2. (~ok) \in BOOLEAN OBVIOUS
  <2> QED BY <1>0, <1>9, <2>1, <2>2, TeardownAdds, VerdictAdds
<1>10. ASSUME NEW ok \in BOOLEAN, NEW n \in Counts, Test(ok, n) PROVE Verdict'
  <2>1. ustep \in Running /\ UNCHANGED <<vars, modules>> /\ Fatal(t, ok) \in BOOLEAN
    BY <1>10 DEF Test, Working, Running, Fatal
  <2> QED BY <1>0, <1>10, <2>1, TestAdds, VerdictAdds
<1>11. CASE UNCHANGED <<vars, unitVars>> BY <1>1, <1>11 DEF vars
<1> QED
  BY <1>2, <1>3, <1>4, <1>5, <1>6, <1>7, <1>8, <1>9, <1>10, <1>11 DEF UnitNext

LEMMA Runs == UnitSpec => [](RunInv /\ Verdict)
<1>1. UnitInit => RunInv /\ Verdict
  <2>1. UnitInit => Verdict BY DEF UnitInit, Verdict, Running
  <2> QED BY <2>1, RunInvInit
<1>2. RunInv /\ Verdict /\ [UnitNext]_<<vars, unitVars>> => RunInv' /\ Verdict'
  BY RunTypesNext, RunPlaceNext, VerdictNext DEF RunInv
<1> QED BY <1>1, <1>2, PTL DEF UnitSpec

\* The status the unit test program exits with is a failure exactly when the
\* command line was wrong, the module was not there, or what failed has ended
\* the run (main of unit_tests.c, unit_module_exec).
THEOREM ExitsWithVerdict == UnitSpec => []VerdictExact
<1>1. RunInv /\ Verdict => VerdictExact
  <2> SUFFICES ASSUME RunPlace, Verdict, pc = "done" PROVE VerdictExact
    BY DEF RunInv, VerdictExact
  <2>1. ustep = "ended" BY DEF RunPlace, Running
  <2> QED BY <2>1 DEF Verdict, VerdictExact
<1> QED BY <1>1, Runs, PTL

-------------------------------------------------------------------------------
(* Sequences put one behind the other.                                     *)

FlattensTo(f, s) == f = [k \in 1..Len(s) |-> IF k = 1 THEN s[k] ELSE f[k - 1] \o s[k]]

LEMMA FlattenExists ==
  ASSUME NEW S, NEW s \in Seq(Seq(S))
  PROVE  \E f \in [1..Len(s) -> Seq(S)] : FlattensTo(f, s)
<1> DEFINE Is(f, k) == f[k] = IF k = 1 THEN s[k] ELSE f[k - 1] \o s[k]
           N == {n \in Nat : n <= Len(s) =>
                   \E f \in [1..n -> Seq(S)] : \A k \in 1..n : Is(f, k)}
<1>1. Len(s) \in Nat /\ \A k \in 1..Len(s) : s[k] \in Seq(S) OBVIOUS
<1>2. 0 \in N
  <2> DEFINE f == [k \in 1..0 |-> << >>]
  <2>1. f \in [1..0 -> Seq(S)] /\ \A k \in 1..0 : Is(f, k) OBVIOUS
  <2> HIDE DEF f, Is
  <2> QED BY <2>1
<1>3. ASSUME NEW n \in N PROVE n + 1 \in N
  <2>0. n \in Nat /\ n + 1 \in Nat OBVIOUS
  <2> SUFFICES ASSUME n + 1 <= Len(s)
               PROVE  \E g \in [1..(n + 1) -> Seq(S)] : \A k \in 1..(n + 1) : Is(g, k)
    <3> HIDE DEF Is
    <3> QED BY <2>0
  <2>1. n \in Nat /\ n <= Len(s) BY <1>1, <2>0
  <2>2. PICK f \in [1..n -> Seq(S)] : \A k \in 1..n : Is(f, k) BY <2>1
  <2>3. PICK e \in Seq(S) : e = IF n = 0 THEN s[n + 1] ELSE f[n] \o s[n + 1]
    <3>1. s[n + 1] \in Seq(S) BY <1>1, <2>1
    <3>2. CASE n = 0 BY <3>1, <3>2
    <3>3. CASE n # 0
      <4>1. f[n] \in Seq(S) BY <2>1, <3>3
      <4>2. f[n] \o s[n + 1] \in Seq(S) BY <3>1, <4>1, ConcatProperties
      <4> QED BY <3>3, <4>2
    <3> QED BY <3>2, <3>3
  <2> DEFINE g == [k \in 1..(n + 1) |-> IF k <= n THEN f[k] ELSE e]
  <2>4. g \in [1..(n + 1) -> Seq(S)] BY <2>1
  <2>5. ASSUME NEW k \in 1..(n + 1) PROVE Is(g, k)
    <3>1. CASE k <= n
      <4>1. k \in 1..n /\ (k # 1 => k - 1 \in 1..(n + 1) /\ k - 1 <= n) BY <2>1, <3>1
      <4> QED BY <2>2, <3>1, <4>1
    <3>2. CASE k = n + 1
      <4>1. ~(k <= n) /\ (k = 1 <=> n = 0) /\ k - 1 = n BY <2>1, <3>2
      <4>2. g[k] = e BY <4>1
      <4>3. n # 0 => g[n] = f[n] BY <2>1
      <4> QED BY <2>3, <3>2, <4>1, <4>2, <4>3
    <3> QED BY <2>1, <3>1, <3>2
  <2> HIDE DEF g
  <2> QED BY <2>4, <2>5
<1>4. N = Nat
  <2> HIDE DEF N
  <2>1. N \subseteq Nat BY DEF N
  <2> QED BY <1>2, <1>3, <2>1, SetInduction
<1>5. Len(s) \in N BY <1>1, <1>4
<1>6. PICK f \in [1..Len(s) -> Seq(S)] : \A k \in 1..Len(s) : Is(f, k) BY <1>1, <1>5
<1>7. f = [k \in 1..Len(s) |-> IF k = 1 THEN s[k] ELSE f[k - 1] \o s[k]] BY <1>6
<1> QED BY <1>7 DEF FlattensTo

LEMMA FlattensEach ==
  ASSUME NEW s, NEW f, FlattensTo(f, s)
  PROVE  \A k \in 1..Len(s) : f[k] = IF k = 1 THEN s[k] ELSE f[k - 1] \o s[k]
<1>1. PICK e : e = [k \in 1..Len(s) |-> IF k = 1 THEN s[k] ELSE f[k - 1] \o s[k]] OBVIOUS
<1>2. f = e BY <1>1 DEF FlattensTo
<1>3. \A k \in 1..Len(s) : e[k] = IF k = 1 THEN s[k] ELSE f[k - 1] \o s[k] BY <1>1
<1> QED BY <1>2, <1>3

Agree(s, r, n) == \A k \in 1..n : s[k] = r[k]

\* Two that agree on the first n sequences agree on what these make.
LEMMA FlattenSame ==
  ASSUME NEW s, NEW f, FlattensTo(f, s), NEW r, NEW g, FlattensTo(g, r),
         Len(s) \in Nat, Len(r) \in Nat,
         NEW n \in Nat, n <= Len(s), n <= Len(r), Agree(s, r, n)
  PROVE  Agree(f, g, n)
<1> DEFINE N == {k \in Nat : k \in 1..n => f[k] = g[k]}
<1>1. \A k \in 1..n : f[k] = IF k = 1 THEN s[k] ELSE f[k - 1] \o s[k]
  <2>1. \A k \in 1..n : k \in 1..Len(s) OBVIOUS
  <2> QED BY <2>1, FlattensEach
<1>2. \A k \in 1..n : g[k] = IF k = 1 THEN r[k] ELSE g[k - 1] \o r[k]
  <2>1. \A k \in 1..n : k \in 1..Len(r) OBVIOUS
  <2> QED BY <2>1, FlattensEach
<1>3. 0 \in N OBVIOUS
<1>4. ASSUME NEW k \in N PROVE k + 1 \in N
  <2> SUFFICES ASSUME k + 1 \in 1..n PROVE f[k + 1] = g[k + 1]
    OBVIOUS
  <2>1. k \in Nat /\ (k + 1) - 1 = k /\ (k + 1 = 1 <=> k = 0) /\ s[k + 1] = r[k + 1] BY DEF Agree
  <2>2. k # 0 => f[k] = g[k] BY <2>1
  <2>3. f[k + 1] = IF k = 0 THEN s[k + 1] ELSE f[k] \o s[k + 1] BY <1>1, <2>1
  <2>4. g[k + 1] = IF k = 0 THEN r[k + 1] ELSE g[k] \o r[k + 1] BY <1>2, <2>1
  <2> QED BY <2>1, <2>2, <2>3, <2>4
<1>5. N = Nat
  <2> HIDE DEF N
  <2>1. N \subseteq Nat BY DEF N
  <2> QED BY <1>3, <1>4, <2>1, SetInduction
<1> QED BY <1>5 DEF Agree

LEMMA FlattenIs ==
  ASSUME NEW S, NEW s \in Seq(Seq(S)), NEW f, FlattensTo(f, s), Len(s) # 0
  PROVE  FlattenSeq(s) = f[Len(s)]
<1> DEFINE c == CHOOSE g : FlattensTo(g, s)
<1>1. FlattenSeq(s) = c[Len(s)] BY DEF FlattenSeq, FlattensTo
<1>2. FlattensTo(c, s) OBVIOUS
<1> HIDE DEF c
<1>3. Len(s) \in Nat /\ Len(s) \in 1..Len(s) OBVIOUS
<1>4. c[Len(s)] = f[Len(s)]
  <2>1. Agree(s, s, Len(s)) BY DEF Agree
  <2>2. Agree(c, f, Len(s)) BY <1>2, <1>3, <2>1, FlattenSame
  <2> QED BY <1>3, <2>2 DEF Agree
<1> QED BY <1>1, <1>4

LEMMA FlattenNext ==
  ASSUME NEW S, NEW s \in Seq(Seq(S)), NEW e \in Seq(S)
  PROVE  /\ FlattenSeq(Append(s, e)) = FlattenSeq(s) \o e
         /\ FlattenSeq(s) \in Seq(S)
         /\ Len(s) = 0 => FlattenSeq(s) = << >>
<1>0. PICK r : r = Append(s, e) OBVIOUS
<1>1. r = Append(s, e) /\ r \in Seq(Seq(S)) BY <1>0
<1>2. /\ Len(s) \in Nat /\ Len(r) = Len(s) + 1 /\ r[Len(s) + 1] = e
      /\ \A k \in 1..Len(s) : r[k] = s[k]
  BY <1>1
<1>3. PICK f \in [1..Len(s) -> Seq(S)] : FlattensTo(f, s) BY FlattenExists
<1>4. PICK g \in [1..Len(r) -> Seq(S)] : FlattensTo(g, r) BY <1>1, FlattenExists
<1>5. FlattenSeq(r) = g[Len(r)]
  <2>1. Len(r) # 0 BY <1>2
  <2> QED BY <1>1, <1>4, <2>1, FlattenIs
<1>6. g[Len(r)] = IF Len(s) = 0 THEN e ELSE g[Len(s)] \o e
  <2>1. /\ Len(r) \in 1..Len(r) /\ r[Len(r)] = e /\ (Len(r) = 1 <=> Len(s) = 0)
        /\ Len(r) - 1 = Len(s)
    BY <1>2
  <2> QED BY <1>4, <2>1, FlattensEach
<1>7. CASE Len(s) = 0
  <2>1. s = << >> /\ FlattenSeq(s) = s
    <3>1. s = << >> BY <1>7
    <3> QED BY <1>7, <3>1 DEF FlattenSeq
  <2>2. << >> \o e = e BY ConcatEmptySeq
  <2>3. FlattenSeq(r) = FlattenSeq(s) \o e BY <1>5, <1>6, <1>7, <2>1, <2>2
  <2>4. << >> \in Seq(S) OBVIOUS
  <2> QED BY <1>1, <2>1, <2>3, <2>4
<1>8. CASE Len(s) # 0
  <2>1. FlattenSeq(s) = f[Len(s)] BY <1>3, <1>8, FlattenIs
  <2>2. Len(s) \in 1..Len(s) /\ Len(s) <= Len(s) /\ Len(s) <= Len(r) BY <1>2, <1>8
  <2>3. \A k \in 1..Len(s) : f[k] = g[k]
    <3>1. Agree(s, r, Len(s)) BY <1>2 DEF Agree
    <3>2. Len(s) \in Nat /\ Len(r) \in Nat BY <1>2
    <3>3. FlattensTo(f, s) /\ FlattensTo(g, r) BY <1>3, <1>4
    <3>4. PICK n \in Nat : n = Len(s) BY <3>2
    <3>5. Agree(s, r, n) /\ n <= Len(s) /\ n <= Len(r) BY <2>2, <3>1, <3>4
    <3>6. Agree(f, g, n) BY <3>2, <3>3, <3>5, FlattenSame
    <3> QED BY <3>4, <3>6 DEF Agree
  <2>4. f[Len(s)] \in Seq(S) BY <2>2
  <2> QED BY <1>1, <1>5, <1>6, <1>8, <2>1, <2>2, <2>3, <2>4
<1> QED BY <1>7, <1>8

-------------------------------------------------------------------------------
(* Prefixes of sequences over S.                                           *)

Begins(S, s, u) == s \in Seq(S) /\ \E r \in Seq(S) : u = s \o r

LEMMA BeginsPrefix ==
  ASSUME NEW S, NEW s, NEW u, Begins(S, s, u)
  PROVE  IsPrefix(s, u) /\ u \in Seq(S)
<1>1. PICK r \in Seq(S) : u = s \o r BY DEF Begins
<1>2. s \in Seq(S) BY DEF Begins
<1>3. u \in Seq(S) /\ Len(u) = Len(s) + Len(r) /\ Len(s) \in Nat /\ Len(r) \in Nat
      /\ \A k \in 1..(Len(s) + Len(r)) : u[k] = IF k <= Len(s) THEN s[k] ELSE r[k - Len(s)]
  BY <1>1, <1>2, ConcatProperties
<1>4. Len(s) <= Len(u) BY <1>3
<1>5. /\ SubSeq(s, 1, Len(s)) \in Seq(S) /\ Len(SubSeq(s, 1, Len(s))) = Len(s)
      /\ \A k \in 1..Len(s) : SubSeq(s, 1, Len(s))[k] = s[k]
  BY <1>2, <1>3
<1>6. /\ SubSeq(u, 1, Len(s)) \in Seq(S) /\ Len(SubSeq(u, 1, Len(s))) = Len(s)
      /\ \A k \in 1..Len(s) : SubSeq(u, 1, Len(s))[k] = u[k]
  BY <1>3, <1>4
<1>7. \A k \in 1..Len(s) : u[k] = s[k] BY <1>3
<1>8. SubSeq(s, 1, Len(s)) = SubSeq(u, 1, Len(s))
  <2>1. PICK x \in Seq(S) : /\ x = SubSeq(s, 1, Len(s)) /\ Len(x) = Len(s) 
                           /\ \A k \in 1..Len(s) : x[k] = s[k] BY <1>5
  <2>2. PICK y \in Seq(S) : /\ y = SubSeq(u, 1, Len(s)) /\ Len(y) = Len(s) 
                           /\ \A k \in 1..Len(s) : y[k] = s[k] BY <1>6, <1>7
  <2>3. x = y BY <2>1, <2>2, SeqEqual
  <2> QED BY <2>1, <2>2, <2>3
<1> QED BY <1>3, <1>4, <1>8 DEF IsPrefix

LEMMA BeginsConcat ==
  ASSUME NEW S, NEW s \in Seq(S), NEW r \in Seq(S)
  PROVE  Begins(S, s, s \o r) /\ Begins(S, s, s) /\ Begins(S, << >>, s)
<1>1. Begins(S, s, s \o r) BY DEF Begins
<1>2. << >> \in Seq(S) /\ s \o << >> = s /\ << >> \o s = s BY ConcatEmptySeq
<1> QED BY <1>1, <1>2 DEF Begins

LEMMA BeginsTrans ==
  ASSUME NEW S, NEW s, NEW u, NEW v, Begins(S, s, u), Begins(S, u, v)
  PROVE  Begins(S, s, v)
<1>1. PICK a \in Seq(S) : u = s \o a BY DEF Begins
<1>2. PICK b \in Seq(S) : v = u \o b BY DEF Begins
<1>3. s \in Seq(S) /\ a \o b \in Seq(S) BY ConcatProperties DEF Begins
<1>4. v = s \o (a \o b) BY <1>1, <1>2, <1>3, ConcatAssociative
<1> QED BY <1>3, <1>4 DEF Begins

LEMMA BeginsBehind ==
  ASSUME NEW S, NEW p \in Seq(S), NEW s, NEW u, Begins(S, s, u)
  PROVE  Begins(S, p \o s, p \o u)
<1>1. PICK a \in Seq(S) : u = s \o a BY DEF Begins
<1>2. s \in Seq(S) /\ p \o s \in Seq(S) BY ConcatProperties DEF Begins
<1>3. p \o u = (p \o s) \o a BY <1>1, <1>2, ConcatAssociative
<1> QED BY <1>2, <1>3 DEF Begins

-------------------------------------------------------------------------------
(* What is done, and what is to be done.                                   *)

Steps == Kinds \X Nat \X Nat

Opening(k) ==
  <<<<"module", k, 0>>>> \o (IF modules[k].setup THEN <<<<"setup", k, 0>>>> ELSE <<>>)

TestsTo(k, n) == [j \in 1..n |-> <<"test", k, j>>]

Closing(k) == IF modules[k].teardown THEN <<<<"teardown", k, 0>>>> ELSE <<>>

\* The module's script before its test n + 1.
Part(k, n) == Opening(k) \o TestsTo(k, n)

\* The scripts of the modules before k.
Before(k) == FlattenSeq([n \in 1..(k - 1) |-> Script(n)])

DoneOf(x) == [k \in DOMAIN x |-> <<x[k].kind, x[k].module, x[k].test>>]

LEMMA Parts ==
  ASSUME modules \in Seq(Mods), NEW k \in DOMAIN modules
  PROVE  /\ Len(modules[k].tests) \in Nat
         /\ Script(k) = Part(k, Len(modules[k].tests)) \o Closing(k)
         /\ Opening(k) \in Seq(Steps) /\ Closing(k) \in Seq(Steps) /\ Script(k) \in Seq(Steps)
         /\ Part(k, 0) = Opening(k)
         /\ \A n \in Nat : /\ Part(k, n) \in Seq(Steps)
                           /\ Part(k, n + 1) = Part(k, n) \o <<<<"test", k, n + 1>>>>
<1>1. modules[k] \in Mods /\ k \in Nat OBVIOUS
<1>2. /\ modules[k].tests \in Seq(BOOLEAN) /\ Len(modules[k].tests) \in Nat
      /\ DOMAIN modules[k].tests = 1..Len(modules[k].tests)
  BY <1>1 DEF Mods
<1>3. /\ <<"module", k, 0>> \in Steps /\ <<"setup", k, 0>> \in Steps
      /\ <<"teardown", k, 0>> \in Steps /\ \A j \in Nat : <<"test", k, j>> \in Steps
  BY <1>1 DEF Steps, Kinds
<1>4. Opening(k) \in Seq(Steps)
  <2>1. PICK a \in Seq(Steps) : a = <<<<"module", k, 0>>>> BY <1>3, Short
  <2>2. PICK b \in Seq(Steps) :
          b = IF modules[k].setup THEN <<<<"setup", k, 0>>>> ELSE <<>>
    <3>1. <<<<"setup", k, 0>>>> \in Seq(Steps) BY <1>3, Short
    <3>2. << >> \in Seq(Steps) OBVIOUS
    <3> QED BY <3>1, <3>2
  <2>3. a \o b \in Seq(Steps) OBVIOUS
  <2> QED BY <2>1, <2>2, <2>3 DEF Opening
<1>5. Closing(k) \in Seq(Steps)
  <2>1. <<<<"teardown", k, 0>>>> \in Seq(Steps) BY <1>3, Short
  <2>2. << >> \in Seq(Steps) OBVIOUS
  <2> QED BY <2>1, <2>2 DEF Closing
<1>6. ASSUME NEW n \in Nat
      PROVE  TestsTo(k, n) \in Seq(Steps) /\ Len(TestsTo(k, n)) = n
  BY <1>3 DEF TestsTo
<1>7. ASSUME NEW n \in Nat
      PROVE  TestsTo(k, n + 1) = TestsTo(k, n) \o <<<<"test", k, n + 1>>>>
  <2>1. PICK e \in Steps : e = <<"test", k, n + 1>>
    <3>1. n + 1 \in Nat OBVIOUS
    <3> QED BY <1>3, <3>1
  <2>2. PICK a \in Seq(Steps) : a = TestsTo(k, n) /\ Len(a) = n BY <1>6
  <2>3. PICK b \in Seq(Steps) : b = TestsTo(k, n + 1) /\ Len(b) = n + 1 BY <1>6
  <2>4. b = Append(a, e)
    <3>1. \A j \in 1..n : a[j] = <<"test", k, j>> BY <2>2 DEF TestsTo
    <3>2. \A j \in 1..(n + 1) : b[j] = <<"test", k, j>> BY <2>3 DEF TestsTo
    <3>3. PICK c \in Seq(Steps) : /\ c = Append(a, e) /\ Len(c) = n + 1 /\ c[n + 1] = e
                                 /\ \A j \in 1..n : c[j] = a[j]
      <4>1. PICK c : c = Append(a, e) OBVIOUS
      <4>2. c \in Seq(Steps) /\ Len(c) = n + 1 /\ c[n + 1] = e BY <2>2, <4>1
      <4>3. \A j \in 1..n : c[j] = a[j] BY <2>2, <4>1
      <4> QED BY <4>1, <4>2, <4>3
    <3>4. ASSUME NEW j \in 1..(n + 1) PROVE b[j] = c[j]
      <4>1. CASE j = n + 1 BY <2>1, <3>2, <3>3, <4>1
      <4>2. CASE j # n + 1
        <5>1. j \in 1..n BY <4>2
        <5> QED BY <3>1, <3>2, <3>3, <5>1
      <4> QED BY <4>1, <4>2
    <3> QED BY <2>3, <3>3, <3>4, SeqEqual
  <2>5. Append(a, e) = a \o <<e>> OBVIOUS
  <2> QED BY <2>1, <2>2, <2>3, <2>4, <2>5
<1>8. Part(k, 0) = Opening(k)
  <2>1. TestsTo(k, 0) = << >> BY <1>6
  <2> QED BY <1>4, <2>1, ConcatEmptySeq DEF Part
<1>9. ASSUME NEW n \in Nat
      PROVE  /\ Part(k, n) \in Seq(Steps)
             /\ Part(k, n + 1) = Part(k, n) \o <<<<"test", k, n + 1>>>>
  <2>1. Part(k, n) \in Seq(Steps) BY <1>4, <1>6, ConcatProperties DEF Part
  <2>2. <<<<"test", k, n + 1>>>> \in Seq(Steps) BY <1>3, Short
  <2>3. Part(k, n + 1) = Opening(k) \o (TestsTo(k, n) \o <<<<"test", k, n + 1>>>>)
    BY <1>7 DEF Part
  <2>4. PICK a \in Seq(Steps), b \in Seq(Steps), c \in Seq(Steps) :
          a = Opening(k) /\ b = TestsTo(k, n) /\ c = <<<<"test", k, n + 1>>>>
    BY <1>4, <1>6, <2>2
  <2>5. (a \o b) \o c = a \o (b \o c) BY ConcatAssociative
  <2>6. Part(k, n) = a \o b BY <2>4 DEF Part
  <2> QED BY <2>1, <2>3, <2>4, <2>5, <2>6
<1>10. Script(k) = Part(k, Len(modules[k].tests)) \o Closing(k)
  <2>1. TestsTo(k, Len(modules[k].tests)) = [n \in DOMAIN modules[k].tests |-> <<"test", k, n>>]
    BY <1>2 DEF TestsTo
  <2> QED BY <2>1 DEF Part, Opening, Closing, Script
<1>11. Script(k) \in Seq(Steps) BY <1>2, <1>5, <1>9, <1>10, ConcatProperties
<1> QED BY <1>2, <1>4, <1>5, <1>8, <1>9, <1>10, <1>11

LEMMA BeforeNext ==
  ASSUME modules \in Seq(Mods)
  PROVE  /\ Before(1) = << >>
         /\ \A k \in 1..(Len(modules) + 1) : Before(k) \in Seq(Steps)
         /\ \A k \in DOMAIN modules : Before(k + 1) = Before(k) \o Script(k)
<1>1. Len(modules) \in Nat /\ DOMAIN modules = 1..Len(modules) OBVIOUS
<1> DEFINE S(k) == [n \in 1..(k - 1) |-> Script(n)]
<1>2. ASSUME NEW k \in 1..(Len(modules) + 1)
      PROVE  S(k) \in Seq(Seq(Steps)) /\ Len(S(k)) = k - 1
  <2>1. ASSUME NEW n \in 1..(k - 1) PROVE Script(n) \in Seq(Steps)
    <3>1. n \in DOMAIN modules BY <1>1
    <3> QED BY <3>1, Parts
  <2>2. k - 1 \in Nat BY <1>1
  <2> QED BY <2>1, <2>2
<1>3. \A k : Before(k) = FlattenSeq(S(k)) BY DEF Before
<1>4. ASSUME NEW k \in DOMAIN modules PROVE S(k + 1) = Append(S(k), Script(k))
  <2>1. PICK a : a = S(k) OBVIOUS
  <2>2. PICK b : b = S(k + 1) OBVIOUS
  <2>3. PICK e \in Seq(Steps) : e = Script(k) BY Parts
  <2>4. k \in 1..(Len(modules) + 1) /\ k + 1 \in 1..(Len(modules) + 1)
        /\ (k + 1) - 1 = k /\ k \in Nat
    BY <1>1
  <2>5. a \in Seq(Seq(Steps)) /\ Len(a) = k - 1 /\ b \in Seq(Seq(Steps)) /\ Len(b) = k
    BY <1>2, <2>1, <2>2, <2>4
  <2>6. PICK c : c = Append(a, e) OBVIOUS
  <2>7. /\ c \in Seq(Seq(Steps)) /\ Len(c) = k /\ c[k] = e
        /\ \A n \in 1..(k - 1) : c[n] = a[n]
    BY <2>4, <2>5, <2>6
  <2>8. \A n \in 1..(k - 1) : a[n] = Script(n) BY <2>1
  <2>9. \A n \in 1..k : b[n] = Script(n) BY <2>2, <2>4
  <2> HIDE DEF S
  <2>10. ASSUME NEW n \in 1..k PROVE b[n] = c[n]
    <3>1. CASE n = k BY <2>3, <2>7, <2>9, <3>1
    <3>2. CASE n # k
      <4>1. n \in 1..(k - 1) BY <2>4, <3>2
      <4> QED BY <2>7, <2>8, <2>9, <4>1
    <3> QED BY <3>1, <3>2
  <2>11. b = c BY <2>5, <2>7, <2>10, SeqEqual
  <2> QED BY <2>1, <2>2, <2>3, <2>6, <2>11
<1> HIDE DEF S
<1>5. ASSUME NEW k \in 1..(Len(modules) + 1)
      PROVE  Before(k) \in Seq(Steps) /\ (k = 1 => Before(k) = << >>)
  <2>1. S(k) \in Seq(Seq(Steps)) /\ (k = 1 => Len(S(k)) = 0) BY <1>2
  <2>2. << >> \in Seq(Steps) OBVIOUS
  <2> QED BY <1>3, <2>1, <2>2, FlattenNext
<1>6. ASSUME NEW k \in DOMAIN modules PROVE Before(k + 1) = Before(k) \o Script(k)
  <2>1. k \in 1..(Len(modules) + 1) BY <1>1
  <2>2. S(k) \in Seq(Seq(Steps)) /\ Script(k) \in Seq(Steps) BY <1>2, <2>1, Parts
  <2>3. FlattenSeq(Append(S(k), Script(k))) = FlattenSeq(S(k)) \o Script(k)
    BY <2>2, FlattenNext
  <2> QED BY <1>3, <1>4, <2>3
<1>7. 1 \in 1..(Len(modules) + 1) BY <1>1
<1> QED BY <1>5, <1>6, <1>7

LEMMA BeforeBegins ==
  ASSUME modules \in Seq(Mods), NEW k \in 1..(Len(modules) + 1)
  PROVE  Begins(Steps, Before(k), Before(Len(modules) + 1))
<1>1. Len(modules) \in Nat /\ DOMAIN modules = 1..Len(modules) OBVIOUS
<1> DEFINE N == {n \in Nat : k + n <= Len(modules) + 1 => Begins(Steps, Before(k), Before(k + n))}
<1>2. 0 \in N
  <2>1. k + 0 = k OBVIOUS
  <2>2. Before(k) \in Seq(Steps) BY BeforeNext
  <2> QED BY <2>1, <2>2, BeginsConcat
<1>3. ASSUME NEW n \in N PROVE n + 1 \in N
  <2> SUFFICES ASSUME k + (n + 1) <= Len(modules) + 1
               PROVE  Begins(Steps, Before(k), Before(k + (n + 1)))
    OBVIOUS
  <2>1. n \in Nat /\ k + n <= Len(modules) + 1 /\ k + n \in DOMAIN modules
        /\ k + (n + 1) = (k + n) + 1 /\ k + n \in 1..(Len(modules) + 1)
    BY <1>1
  <2>2. Begins(Steps, Before(k), Before(k + n)) BY <2>1
  <2>3. PICK j \in DOMAIN modules : j = k + n BY <2>1
  <2>4. Before(j + 1) = Before(j) \o Script(j) BY BeforeNext
  <2>5. Before(j) \in Seq(Steps) /\ Script(j) \in Seq(Steps) BY <2>1, <2>3, BeforeNext, Parts
  <2>6. Begins(Steps, Before(j), Before(j + 1)) BY <2>4, <2>5, BeginsConcat
  <2> QED BY <2>1, <2>2, <2>3, <2>6, BeginsTrans
<1>4. N = Nat
  <2> HIDE DEF N
  <2>1. N \subseteq Nat BY DEF N
  <2> QED BY <1>2, <1>3, <2>1, SetInduction
<1>5. PICK n \in Nat : k + n = Len(modules) + 1
  <2>1. Len(modules) + 1 - k \in Nat /\ k + (Len(modules) + 1 - k) = Len(modules) + 1 BY <1>1
  <2> QED BY <2>1
<1>6. n \in N BY <1>4
<1>7. Len(modules) + 1 <= Len(modules) + 1 BY <1>1
<1> QED BY <1>5, <1>6, <1>7

\* The scripts of the modules run before this one.
Prior == IF all THEN Before(m) ELSE << >>

LEMMA WholeScripts ==
  ASSUME modules \in Seq(Mods)
  PROVE  /\ WholeScript \in Seq(Steps)
         /\ RunsAll => WholeScript = Before(Len(modules) + 1)
         /\ RunsOne /\ Named # {} => WholeScript = Script(Min(Named))
         /\ ~RunsAll /\ ~(RunsOne /\ Named # {}) => WholeScript = << >>
<1>1. Len(modules) \in Nat /\ DOMAIN modules = 1..Len(modules) OBVIOUS
<1>2. RunsOne => ~RunsAll BY DEF RunsAll
<1>3. RunsAll => WholeScript = Before(Len(modules) + 1)
  <2>1. (Len(modules) + 1) - 1 = Len(modules) BY <1>1
  <2> QED BY <1>1, <2>1 DEF WholeScript, Before
<1>4. RunsOne /\ Named # {} => WholeScript = Script(Min(Named)) BY <1>2 DEF WholeScript
<1>5. ~RunsAll /\ ~(RunsOne /\ Named # {}) => WholeScript = << >> BY DEF WholeScript
<1>6. Before(Len(modules) + 1) \in Seq(Steps)
  <2>1. Len(modules) + 1 \in 1..(Len(modules) + 1) BY <1>1
  <2> QED BY <2>1, BeforeNext
<1>7. Named # {} => Script(Min(Named)) \in Seq(Steps) BY NamedFirst, Parts
<1>8. << >> \in Seq(Steps) OBVIOUS
<1> QED BY <1>3, <1>4, <1>5, <1>6, <1>7, <1>8

LEMMA PriorScript ==
  ASSUME modules \in Seq(Mods), Asked, m \in DOMAIN modules
  PROVE  /\ Prior \in Seq(Steps)
         /\ Begins(Steps, Prior \o Script(m), WholeScript)
         /\ all => Prior \o Script(m) = Before(m + 1)
         /\ ~all => Prior \o Script(m) = WholeScript
<1>1. Len(modules) \in Nat /\ DOMAIN modules = 1..Len(modules) OBVIOUS
<1>2. Script(m) \in Seq(Steps) BY Parts
<1>3. CASE all
  <2>1. Prior = Before(m) /\ RunsAll BY <1>3 DEF Prior, Asked
  <2>2. m \in 1..(Len(modules) + 1) /\ m + 1 \in 1..(Len(modules) + 1) BY <1>1
  <2>3. Before(m) \in Seq(Steps) /\ Before(m + 1) = Before(m) \o Script(m)
    BY <2>2, BeforeNext
  <2>4. WholeScript = Before(Len(modules) + 1) BY <2>1, WholeScripts
  <2> QED BY <1>3, <2>1, <2>2, <2>3, <2>4, BeforeBegins
<1>4. CASE ~all
  <2>1. Prior = << >> /\ RunsOne /\ Named # {} /\ m = Min(Named)
    BY <1>4 DEF Prior, Asked
  <2>2. WholeScript = Script(m) BY <2>1, WholeScripts
  <2>3. << >> \o Script(m) = Script(m) BY <1>2, ConcatEmptySeq
  <2>4. << >> \in Seq(Steps) OBVIOUS
  <2> QED BY <1>2, <1>4, <2>1, <2>2, <2>3, <2>4, BeginsConcat
<1> QED BY <1>3, <1>4

-------------------------------------------------------------------------------
(* The order.                                                              *)

Scripted ==
  /\ Begins(Steps, Done, WholeScript)
  /\ ustep \in {"next", "crash"} => Done = Before(m)
  /\ ustep = "setup" => Done = Prior
  /\ ustep = "test" => Done = Prior \o Part(m, t - 1)
  /\ ustep = "ended" => Done = WholeScript \/ Ends(Last(log))

LEMMA DoneAdds ==
  ASSUME RunTypes, NEW x, NEW bad \in BOOLEAN, Adds(x, bad)
  PROVE  /\ Done \in Seq(Steps) /\ DoneOf(x) \in Seq(Steps)
         /\ Done' = Done \o DoneOf(x)
         /\ bad => Ends(Last(log'))
<1>1. log \in Seq(LogEntries) /\ x \in Seq(LogEntries) /\ log' = log \o x
  BY LogTyped DEF Adds
<1>2. /\ DOMAIN log = 1..Len(log) /\ Len(log) \in Nat
      /\ DOMAIN x = 1..Len(x) /\ Len(x) \in Nat
      /\ Len(log') = Len(log) + Len(x) /\ DOMAIN log' = 1..(Len(log) + Len(x))
      /\ \A k \in 1..Len(log) : log'[k] = log[k]
      /\ \A k \in 1..Len(x) : log'[Len(log) + k] = x[k]
  BY <1>1
<1>3. \A e \in LogEntries : <<e.kind, e.module, e.test>> \in Steps
  BY DEF LogEntries, Steps
<1>4. Done \in Seq(Steps) /\ Len(Done) = Len(log) BY <1>1, <1>2, <1>3 DEF Done
<1>5. DoneOf(x) \in Seq(Steps) /\ Len(DoneOf(x)) = Len(x) BY <1>1, <1>2, <1>3 DEF DoneOf
<1>6. Done' = Done \o DoneOf(x)
  <2>1. PICK a \in Seq(Steps), b \in Seq(Steps) :
          a = Done /\ b = DoneOf(x) /\ Len(a) = Len(log) /\ Len(b) = Len(x)
    BY <1>4, <1>5
  <2>2. PICK c : c = Done' OBVIOUS
  <2>3. log' \in Seq(LogEntries) BY <1>1, ConcatProperties
  <2>4. c \in Seq(Steps) /\ Len(c) = Len(log) + Len(x)
    BY <1>2, <1>3, <2>2, <2>3 DEF Done
  <2>5. /\ a \o b \in Seq(Steps) /\ Len(a \o b) = Len(log) + Len(x)
        /\ \A k \in 1..(Len(log) + Len(x)) :
             (a \o b)[k] = IF k <= Len(log) THEN a[k] ELSE b[k - Len(log)]
    <3>1. /\ a \o b \in Seq(Steps) /\ Len(a \o b) = Len(a) + Len(b)
          /\ \A k \in 1..(Len(a) + Len(b)) :
               (a \o b)[k] = IF k <= Len(a) THEN a[k] ELSE b[k - Len(a)]
      BY ConcatProperties
    <3>2. Len(a) = Len(log) /\ Len(b) = Len(x) BY <2>1
    <3> QED BY <3>1, <3>2
  <2>6. PICK d \in Seq(Steps) : d = a \o b BY <2>5
  <2>7. ASSUME NEW k \in 1..(Len(log) + Len(x)) PROVE c[k] = d[k]
    <3>1. c[k] = <<log'[k].kind, log'[k].module, log'[k].test>> BY <1>2, <2>2 DEF Done
    <3>2. CASE k <= Len(log)
      <4>1. k \in 1..Len(log) BY <1>2, <3>2
      <4>2. a[k] = <<log[k].kind, log[k].module, log[k].test>> BY <1>2, <2>1, <4>1 DEF Done
      <4> QED BY <1>2, <2>5, <2>6, <3>1, <3>2, <4>1, <4>2
    <3>3. CASE ~(k <= Len(log))
      <4>1. PICK j \in 1..Len(x) : j = k - Len(log) /\ k = Len(log) + j BY <1>2, <3>3
      <4>2. b[j] = <<x[j].kind, x[j].module, x[j].test>> BY <1>2, <2>1 DEF DoneOf
      <4>3. log'[k] = x[j] BY <1>2, <4>1
      <4> QED BY <2>5, <2>6, <3>1, <3>3, <4>1, <4>2, <4>3
    <3> QED BY <3>2, <3>3
  <2>8. c = d BY <2>4, <2>5, <2>6, <2>7, SeqEqual
  <2> QED BY <2>1, <2>2, <2>6, <2>8
<1>7. ASSUME bad PROVE Ends(Last(log'))
  <2>1. PICK j \in 1..Len(x) : Ends(x[j]) BY <1>2, <1>7 DEF Adds
  <2>2. j = Len(x)
    <3>1. j \notin 1..(Len(x) - 1) BY <2>1 DEF Adds
    <3>2. Len(x) \in Nat BY <1>2
    <3> QED BY <3>1, <3>2
  <2>3. log'[Len(log')] = x[j] BY <1>2, <2>2
  <2> QED BY <2>1, <2>3 DEF Last
<1> QED BY <1>4, <1>5, <1>6, <1>7

\* What each callback adds to what is done.
LEMMA AddsToDone ==
  ASSUME RunTypes, m \in DOMAIN modules, NEW ok \in BOOLEAN
  PROVE  /\ DoneOf(SetupLog(ok)) = Opening(m)
         /\ DoneOf(TeardownLog(ok)) = Closing(m)
         /\ \A n : DoneOf(<<Entry("test", t, ok, n)>>) = <<<<"test", m, t>>>>
<1>0. m \in Nat /\ t \in Nat BY NumbersTyped
<1>1. DoneOf(SetupLog(ok)) = Opening(m)
  <2>1. PICK e \in LogEntries : e = Entry("module", 0, TRUE, Nothing)
    BY EntryTyped, NothingTyped DEF Kinds
  <2>2. PICK f \in LogEntries : f = Entry("setup", 0, ok, Nothing)
    BY EntryTyped, NothingTyped DEF Kinds
  <2>3. /\ e.kind = "module" /\ e.module = m /\ e.test = 0
        /\ f.kind = "setup" /\ f.module = m /\ f.test = 0
    BY <2>1, <2>2 DEF Entry
  <2>4. PICK a \in Steps : a = <<"module", m, 0>> BY <1>0 DEF Steps, Kinds
  <2>5. PICK b \in Steps : b = <<"setup", m, 0>> BY <1>0 DEF Steps, Kinds
  <2>6. PICK x : x = SetupLog(ok) OBVIOUS
  <2>7. PICK y : y = Opening(m) OBVIOUS
  <2>8. x \in Seq(LogEntries) /\ y \in Seq(Steps) BY <2>6, <2>7, CallbackLogs, ModulesTyped, Parts
  <2>9. CASE Module.setup
    <3>1. x = <<e>> \o <<f>> BY <2>1, <2>2, <2>6, <2>9 DEF SetupLog
    <3>2. y = <<a>> \o <<b>> BY <2>4, <2>5, <2>7, <2>9 DEF Opening, Module
    <3>3. Len(x) = 2 /\ DOMAIN x = {1, 2} /\ x[1] = e /\ x[2] = f BY <3>1, Short
    <3>4. Len(y) = 2 /\ DOMAIN y = {1, 2} /\ y[1] = a /\ y[2] = b BY <3>2, Short
    <3>5. PICK z : z = DoneOf(x) OBVIOUS
    <3>6. z = [k \in {1, 2} |-> <<x[k].kind, x[k].module, x[k].test>>] 
      BY <3>3, <3>5 DEF DoneOf
    <3>7. z[1] = a /\ z[2] = b BY <2>3, <2>4, <2>5, <3>3, <3>6
    <3>8. y = [k \in {1, 2} |-> y[k]] BY <2>8, <3>4
    <3>9. z = y BY <3>4, <3>6, <3>7, <3>8
    <3> QED BY <2>6, <2>7, <3>5, <3>9
  <2>10. CASE ~Module.setup
    <3>1. x = <<e>> \o << >> BY <2>1, <2>6, <2>10 DEF SetupLog
    <3>2. y = <<a>> \o << >> BY <2>4, <2>7, <2>10 DEF Opening, Module
    <3>3. Len(x) = 1 /\ DOMAIN x = {1} /\ x[1] = e BY <3>1, Short
    <3>4. Len(y) = 1 /\ DOMAIN y = {1} /\ y[1] = a BY <3>2, Short
    <3>5. PICK z : z = DoneOf(x) OBVIOUS
    <3>6. z = [k \in {1} |-> <<x[k].kind, x[k].module, x[k].test>>] BY <3>3, <3>5 DEF DoneOf
    <3>7. z[1] = a BY <2>3, <2>4, <3>3, <3>6
    <3>8. y = [k \in {1} |-> y[k]] BY <2>8, <3>4
    <3>9. z = y BY <3>4, <3>6, <3>7, <3>8
    <3> QED BY <2>6, <2>7, <3>5, <3>9
  <2> QED BY <2>9, <2>10
<1>2. DoneOf(TeardownLog(ok)) = Closing(m)
  <2>1. PICK e \in LogEntries : e = Entry("teardown", 0, ok, Nothing)
    BY EntryTyped, NothingTyped DEF Kinds
  <2>2. e.kind = "teardown" /\ e.module = m /\ e.test = 0 BY <2>1 DEF Entry
  <2>3. CASE Module.teardown
    <3>1. TeardownLog(ok) = <<e>> BY <2>1, <2>3 DEF TeardownLog
    <3>2. Closing(m) = <<<<"teardown", m, 0>>>> BY <2>3 DEF Closing, Module
    <3>3. DoneOf(<<e>>) = <<<<"teardown", m, 0>>>> BY <2>2 DEF DoneOf
    <3> QED BY <3>1, <3>2, <3>3
  <2>4. CASE ~Module.teardown
    <3>1. TeardownLog(ok) = << >> BY <2>4 DEF TeardownLog
    <3>2. Closing(m) = << >> BY <2>4 DEF Closing, Module
    <3>3. DoneOf(<< >>) = << >> BY DEF DoneOf
    <3> QED BY <3>1, <3>2, <3>3
  <2> QED BY <2>3, <2>4
<1>3. ASSUME NEW n PROVE DoneOf(<<Entry("test", t, ok, n)>>) = <<<<"test", m, t>>>>
  <2>1. PICK e : e = Entry("test", t, ok, n) OBVIOUS
  <2>2. e.kind = "test" /\ e.module = m /\ e.test = t BY <2>1 DEF Entry
  <2>3. DoneOf(<<e>>) = <<<<"test", m, t>>>> BY <2>2 DEF DoneOf
  <2> QED BY <2>1, <2>3
<1> QED BY <1>1, <1>2, <1>3

LEMMA SameScripts ==
  ASSUME UNCHANGED <<modules, target, result>>
  PROVE  /\ WholeScript' = WholeScript
         /\ \A k : Before(k)' = Before(k)
         /\ \A k, n : Part(k, n)' = Part(k, n)
         /\ \A e : Ends(e)' <=> Ends(e)
<1>1. \A k : Script(k)' = Script(k) BY DEF Script
<1>2. \A k : Before(k)' = Before(k) BY <1>1 DEF Before
<1>3. \A k, n : Part(k, n)' = Part(k, n) BY DEF Part, Opening, TestsTo
<1>4. RunsAll' <=> RunsAll BY DEF RunsAll, RunsOne, Given
<1>5. (RunsOne' <=> RunsOne) /\ Named' = Named BY DEF RunsOne, Given, Named
<1>6. WholeScript' = WholeScript BY <1>1, <1>4, <1>5 DEF WholeScript
<1> QED BY <1>2, <1>3, <1>6 DEF Ends

LEMMA PartBegins ==
  ASSUME modules \in Seq(Mods), NEW k \in DOMAIN modules
  PROVE  \A n \in 0..Len(modules[k].tests) : Begins(Steps, Part(k, n), Script(k))
<1>1. PICK l \in Nat : l = Len(modules[k].tests) BY Parts
<1>2. /\ Script(k) = Part(k, l) \o Closing(k) /\ Closing(k) \in Seq(Steps)
      /\ \A n \in Nat : /\ Part(k, n) \in Seq(Steps)
                        /\ Part(k, n + 1) = Part(k, n) \o <<<<"test", k, n + 1>>>>
  BY <1>1, Parts
<1> DEFINE N == {j \in Nat : j <= l => Begins(Steps, Part(k, l - j), Script(k))}
<1>3. 0 \in N
  <2>0. l - 0 = l OBVIOUS
  <2>1. Part(k, l) \in Seq(Steps) BY <1>2
  <2> QED BY <1>2, <2>0, <2>1, BeginsConcat
<1>4. ASSUME NEW j \in N PROVE j + 1 \in N
  <2> SUFFICES ASSUME j + 1 <= l PROVE Begins(Steps, Part(k, l - (j + 1)), Script(k))
    OBVIOUS
  <2>1. PICK n \in Nat : n = l - (j + 1) OBVIOUS
  <2>2. j \in Nat /\ j <= l /\ l - j = n + 1 BY <2>1
  <2>3. Begins(Steps, Part(k, n + 1), Script(k)) BY <2>2
  <2>4. <<<<"test", k, n + 1>>>> \in Seq(Steps)
    <3>1. k \in Nat /\ n + 1 \in Nat OBVIOUS
    <3>2. <<"test", k, n + 1>> \in Steps BY <3>1 DEF Steps, Kinds
    <3> QED BY <3>2, Short
  <2>5. Begins(Steps, Part(k, n), Part(k, n + 1)) BY <1>2, <2>4, BeginsConcat
  <2> QED BY <2>1, <2>3, <2>5, BeginsTrans
<1>5. N = Nat
  <2> HIDE DEF N
  <2>1. N \subseteq Nat BY DEF N
  <2> QED BY <1>3, <1>4, <2>1, SetInduction
<1>6. ASSUME NEW n \in 0..l PROVE Begins(Steps, Part(k, n), Script(k))
  <2>1. l - n \in Nat /\ l - n <= l /\ l - (l - n) = n OBVIOUS
  <2> QED BY <1>5, <2>1
<1> QED BY <1>1, <1>6

\* The runner is in a module, and does the next thing of its script.
LEMMA ScriptedAdds ==
  ASSUME RunInv, Scripted, NEW ok \in BOOLEAN,
         Setup(ok) \/ Teardown(ok) \/ \E n \in Counts : Test(ok, n)
  PROVE  Scripted'
<1>0. RunTypes /\ RunPlace /\ modules \in Seq(Mods) BY ModulesTyped DEF RunInv
<1>1. /\ ustep \in {"setup", "test"} /\ UNCHANGED <<vars, modules, all>>
      /\ UNCHANGED <<modules, target, result>>
  BY DEF Setup, Teardown, Test, Working, vars
<1>2. Asked /\ m \in DOMAIN modules BY <1>0, <1>1 DEF RunPlace, Running
<1>3. /\ Prior \in Seq(Steps)
      /\ Begins(Steps, Prior \o Script(m), WholeScript)
      /\ all => Prior \o Script(m) = Before(m + 1)
      /\ ~all => Prior \o Script(m) = WholeScript
  BY <1>0, <1>2, PriorScript
<1>4. PICK l \in Nat : l = Len(modules[m].tests) BY <1>0, <1>2, Parts
<1>5. /\ Script(m) = Part(m, l) \o Closing(m)
      /\ Opening(m) \in Seq(Steps) /\ Closing(m) \in Seq(Steps)
      /\ Part(m, 0) = Opening(m)
      /\ \A n \in Nat : /\ Part(m, n) \in Seq(Steps)
                        /\ Part(m, n + 1) = Part(m, n) \o <<<<"test", m, n + 1>>>>
  BY <1>0, <1>2, <1>4, Parts
<1>6. \A n \in 0..l : Begins(Steps, Part(m, n), Script(m))
  BY <1>0, <1>2, <1>4, PartBegins
<1>7. ASSUME NEW s, Begins(Steps, s, Script(m)) PROVE Begins(Steps, Prior \o s, WholeScript)
  <2>1. Begins(Steps, Prior \o s, Prior \o Script(m)) BY <1>3, <1>7, BeginsBehind
  <2> QED BY <1>3, <2>1, BeginsTrans
<1>8. m' = m => Prior' = Prior BY <1>1, SameScripts DEF Prior
<1>9. CASE Setup(ok)
  <2>1. Adds(SetupLog(ok), ~ok) BY <1>0, <1>9, SetupAdds
  <2>2. (~ok) \in BOOLEAN OBVIOUS
  <2>3. Done' = Done \o Opening(m) /\ (~ok => Ends(Last(log')))
    BY <1>0, <1>2, <2>1, <2>2, DoneAdds, AddsToDone
  <2>4. ustep = "setup" BY <1>9 DEF Setup, Working
  <2>5. Done' = Prior \o Part(m, 0) BY <1>5, <2>3, <2>4 DEF Scripted
  <2>6. Begins(Steps, Done', WholeScript)
    <3>1. 0 \in 0..l OBVIOUS
    <3> QED BY <1>6, <1>7, <2>5, <3>1
  <2>7. CASE ok
    <3>1. ustep' = "test" /\ t' = 1 /\ m' = m BY <1>9, <2>7 DEF Setup, ExecReturns
    <3>2. Prior' = Prior BY <1>8, <3>1
    <3>3. Part(m, t - 1)' = Part(m, 0) BY <1>1, <3>1, SameScripts
    <3>4. Done' = Prior' \o Part(m, t - 1)' BY <2>5, <3>2, <3>3
    <3> QED BY <1>1, <2>6, <3>1, <3>4, SameScripts DEF Scripted
  <2>8. CASE ~ok
    <3>1. ExecReturns(FALSE) BY <1>9, <2>8 DEF Setup
    <3>2. ustep' = "ended" BY <3>1, Returns
    <3>3. Ends(Last(log))' BY <1>1, <2>3, <2>8, SameScripts
    <3> QED BY <1>1, <2>6, <3>2, <3>3, SameScripts DEF Scripted
  <2> QED BY <2>7, <2>8
<1>10. ASSUME NEW n \in Counts, Test(ok, n) PROVE Scripted'
  <2>1. Adds(<<Entry("test", t, ok, n)>>, Fatal(t, ok)) BY <1>0, <1>10, TestAdds
  <2>2. Fatal(t, ok) \in BOOLEAN BY DEF Fatal
  <2>3. Done' = Done \o <<<<"test", m, t>>>> /\ (Fatal(t, ok) => Ends(Last(log')))
    BY <1>0, <1>2, <2>1, <2>2, DoneAdds, AddsToDone
  <2>4. ustep = "test" /\ t <= l BY <1>4, <1>10 DEF Test, Working, Module
  <2>5. t \in 1..l
    <3>1. t \in 1..(l + 1) BY <1>0, <1>4, <2>4 DEF RunPlace, Module
    <3> QED BY <2>4, <3>1
  <2>6. Part(m, t) = Part(m, t - 1) \o <<<<"test", m, t>>>>
        /\ Part(m, t - 1) \in Seq(Steps)
    <3>1. t - 1 \in Nat /\ (t - 1) + 1 = t BY <2>5
    <3>2. Part(m, (t - 1) + 1) = Part(m, t - 1) \o <<<<"test", m, (t - 1) + 1>>>>
      BY <1>5, <3>1
    <3> QED BY <1>5, <3>1, <3>2
  <2>7. Done' = Prior \o Part(m, t)
    <3>1. Done = Prior \o Part(m, t - 1) BY <2>4 DEF Scripted
    <3>2. <<<<"test", m, t>>>> \in Seq(Steps)
      <4>1. <<"test", m, t>> \in Steps BY <1>0, NumbersTyped DEF Steps, Kinds
      <4> QED BY <4>1, Short
    <3>3. (Prior \o Part(m, t - 1)) \o <<<<"test", m, t>>>> =
            Prior \o (Part(m, t - 1) \o <<<<"test", m, t>>>>)
      BY <1>3, <2>6, <3>2, ConcatAssociative
    <3> QED BY <2>3, <2>6, <3>1, <3>3
  <2>8. Begins(Steps, Done', WholeScript)
    <3>1. t \in 0..l BY <2>5
    <3> QED BY <1>6, <1>7, <2>7, <3>1
  <2>9. CASE ~Fatal(t, ok)
    <3>1. ustep' = "test" /\ t' = t + 1 /\ m' = m
      BY <1>10, <2>4, <2>9 DEF Test
    <3>2. Prior' = Prior BY <1>8, <3>1
    <3>3. Part(m, t - 1)' = Part(m, t)
      <4>1. t' - 1 = t BY <2>5, <3>1
      <4> QED BY <1>1, <3>1, <4>1, SameScripts
    <3>4. Done' = Prior' \o Part(m, t - 1)' BY <2>7, <3>2, <3>3
    <3> QED BY <1>1, <2>8, <3>1, <3>4, SameScripts DEF Scripted
  <2>10. CASE Fatal(t, ok)
    <3>1. ExecReturns(FALSE) BY <1>10, <2>10 DEF Test
    <3>2. ustep' = "ended" BY <3>1, Returns
    <3>3. Ends(Last(log))' BY <1>1, <2>3, <2>10, SameScripts
    <3> QED BY <1>1, <2>8, <3>2, <3>3, SameScripts DEF Scripted
  <2> QED BY <2>9, <2>10
<1>11. CASE Teardown(ok)
  <2>1. Adds(TeardownLog(ok), ~ok) BY <1>0, <1>11, TeardownAdds
  <2>2. (~ok) \in BOOLEAN OBVIOUS
  <2>3. Done' = Done \o Closing(m) /\ (~ok => Ends(Last(log')))
    BY <1>0, <1>2, <2>1, <2>2, DoneAdds, AddsToDone
  <2>4. ustep = "test" /\ t > l BY <1>4, <1>11 DEF Teardown, Working, Module
  <2>5. t - 1 = l
    <3>1. t \in 1..(l + 1) BY <1>0, <1>4, <2>4 DEF RunPlace, Module
    <3> QED BY <2>4, <3>1
  <2>6. Done' = Prior \o Script(m)
    <3>1. Done = Prior \o Part(m, l) BY <2>4, <2>5 DEF Scripted
    <3>2. (Prior \o Part(m, l)) \o Closing(m) = Prior \o (Part(m, l) \o Closing(m))
      BY <1>3, <1>5, ConcatAssociative
    <3> QED BY <1>5, <2>3, <3>1, <3>2
  <2>7. Begins(Steps, Done', WholeScript) BY <1>3, <2>6
  <2>8. ExecReturns(ok) BY <1>11 DEF Teardown
  <2>9. CASE all /\ ok /\ ustep' = "next" /\ m' = m + 1
    <3>1. Before(m)' = Before(m + 1) BY <1>1, <2>9, SameScripts
    <3>2. Done' = Before(m)' BY <1>3, <2>6, <2>9, <3>1
    <3> QED BY <1>1, <2>7, <2>9, <3>2, SameScripts DEF Scripted
  <2>10. CASE ~(all /\ ok) /\ ustep' = "ended"
    <3>1. Done' = WholeScript' \/ Ends(Last(log))'
      BY <1>1, <1>3, <2>3, <2>6, <2>10, SameScripts
    <3> QED BY <1>1, <2>7, <2>10, <3>1, SameScripts DEF Scripted
  <2> QED BY <2>8, <2>9, <2>10, Returns
<1> QED BY <1>9, <1>10, <1>11

\* Nothing is done before a module is run.
LEMMA NothingDone ==
  ASSUME modules \in Seq(Mods), log = << >>
  PROVE  Done = << >> /\ Begins(Steps, Done, WholeScript)
<1>1. Done = << >> BY DEF Done
<1>2. WholeScript \in Seq(Steps) BY WholeScripts
<1> QED BY <1>1, <1>2, BeginsConcat

LEMMA ScriptedNext ==
  RunInv /\ Scripted /\ [UnitNext]_<<vars, unitVars>> => Scripted'
<1> SUFFICES ASSUME RunInv, Scripted, [UnitNext]_<<vars, unitVars>> PROVE Scripted'
  OBVIOUS
<1>0. RunTypes /\ RunPlace /\ modules \in Seq(Mods) BY ModulesTyped DEF RunInv
<1>a. RunTypes' /\ modules' \in Seq(Mods)
  <2>1. RunTypes' BY RunTypesNext
  <2> QED BY <2>1 DEF RunTypes
<1>b. Len(modules) \in Nat /\ DOMAIN modules = 1..Len(modules) BY <1>0
<1>c. log' = << >> => Done' = << >> /\ Begins(Steps, Done, WholeScript)'
  <2>1. (modules \in Seq(Mods) /\ log = << >> =>
           Done = << >> /\ Begins(Steps, Done, WholeScript))'
    BY NothingDone, PTL
  <2> QED BY <1>a, <2>1
<1>1. ASSUME UNCHANGED unitVars, UNCHANGED <<result, target>> PROVE Scripted'
  <2>1. UNCHANGED <<ustep, log, modules, result, target, m, t, all>>
    BY <1>1 DEF unitVars, runVars
  <2>2. Done' = Done BY <2>1 DEF Done
  <2>3. Prior' = Prior BY <2>1, SameScripts DEF Prior
  <2>4. UNCHANGED <<modules, target, result>> BY <2>1
  <2> QED BY <2>1, <2>2, <2>3, <2>4, SameScripts DEF Scripted
<1>2. CASE ParseStep
  <2>1. UNCHANGED unitVars /\ ustep \notin {"register", "exit"} BY <1>2 DEF ParseStep
  <2>2. ustep \in {"result", "ended"}
    BY <1>0, <1>2, <2>1, ParserBeside DEF RunPlace, Running
  <2>3. CASE ustep = "result"
    <3>1. log' = <<>> /\ ustep' = "result" BY <2>1, <2>3, NothingLogged DEF unitVars, runVars
    <3> QED BY <1>c, <3>1 DEF Scripted
  <2>4. CASE ustep = "ended"
    <3>1. pc = "exit" BY <1>0, <1>2, <2>4, ParserBeside DEF RunPlace
    <3> QED BY <1>1, <1>2, <3>1, ParserBeside
  <2> QED BY <2>2, <2>3, <2>4
<1>3. CASE Leave
  <2>1. UNCHANGED unitVars /\ UNCHANGED <<result, target>> BY <1>3 DEF Leave, Call
  <2> QED BY <1>1, <2>1
<1>4. CASE Register \/ Registered
  <2>1. ustep = "register" /\ log' = log /\ ustep' \in {"register", "exit", "result"}
    BY <1>4 DEF Register, Registered, runVars
  <2>2. log' = << >> BY <2>1, NothingLogged
  <2> QED BY <1>c, <2>1, <2>2 DEF Scripted
<1>5. CASE RunAll
  <2>1. ustep = "result" /\ log' = log /\ ustep' = "next" /\ m' = 1
    BY <1>5 DEF RunAll, Working
  <2>2. log' = << >> BY <2>1, NothingLogged
  <2>3. (Before(1) = << >>)'
    <3>1. (modules \in Seq(Mods) => Before(1) = << >>)' BY BeforeNext, PTL
    <3> QED BY <1>a, <3>1
  <2>4. Before(m)' = Before(1)' BY <2>1 DEF Before
  <2> QED BY <1>c, <2>1, <2>2, <2>3, <2>4 DEF Scripted
<1>6. CASE RunNone
  <2>1. /\ ustep = "result" /\ UNCHANGED <<vars, modules, log>> /\ ~RunsOne /\ ~RunsAll
        /\ ustep' = "ended"
    BY <1>6 DEF RunNone, Working, End, runVars
  <2>2. log' = << >> BY <2>1, NothingLogged
  <2>3. WholeScript = << >> BY <1>0, <2>1, WholeScripts
  <2>4. WholeScript' = << >> BY <2>1, <2>3, SameScripts DEF vars
  <2> QED BY <1>c, <2>1, <2>2, <2>4 DEF Scripted
<1>7. CASE RunOne
  <2>1. ustep = "result" /\ UNCHANGED <<vars, modules, log>> /\ RunsOne
    BY <1>7 DEF RunOne, Working, runVars
  <2>2. log' = <<>> BY <2>1, NothingLogged
  <2>3. PICK k : k = unit_module_find_by_name(target["opt_run_module"]) OBVIOUS
  <2>4. CASE k # 0
    <3>1. ustep' = "setup" /\ all' = all BY <1>7, <2>3, <2>4 DEF RunOne
    <3>2. ~all' BY <1>0, <2>1, <3>1 DEF RunPlace
    <3>3. Prior' = << >> BY <3>2 DEF Prior
    <3> QED BY <1>c, <2>2, <3>1, <3>3 DEF Scripted
  <2>5. CASE k = 0
    <3>1. ustep' = "ended" BY <1>7, <2>3, <2>5 DEF RunOne, End
    <3>2. Named = {}
      <4>1. 0 \notin DOMAIN modules BY <1>b
      <4> QED BY <1>0, <2>3, <2>5, <4>1, NamedFirst
    <3>3. ~RunsAll BY <2>1 DEF RunsAll
    <3>4. WholeScript = << >> BY <1>0, <3>2, <3>3, WholeScripts
    <3>5. WholeScript' = << >> BY <2>1, <3>4, SameScripts DEF vars
    <3> QED BY <1>c, <2>2, <3>1, <3>5 DEF Scripted
  <2> QED BY <2>4, <2>5
<1>8. CASE NextModule
  <2>1. /\ ustep = "next" /\ UNCHANGED <<vars, modules, log, all, m>>
        /\ ustep' \in {"setup", "crash"} /\ all
    BY <1>0, <1>8 DEF NextModule, Working, runVars, RunPlace
  <2>2. UNCHANGED <<modules, target, result>> BY <2>1 DEF vars
  <2>3. Done' = Done /\ Prior' = Before(m) /\ Before(m)' = Before(m)
    <3>1. Done' = Done BY <2>1 DEF Done
    <3>2. Before(m)' = Before(m) BY <2>1, <2>2, SameScripts
    <3>3. Prior' = Before(m)' BY <2>1 DEF Prior
    <3> QED BY <3>1, <3>2, <3>3
  <2> QED BY <2>1, <2>2, <2>3, SameScripts DEF Scripted
<1>9. ASSUME NEW ok \in BOOLEAN, Setup(ok) \/ Teardown(ok) \/ \E n \in Counts : Test(ok, n)
      PROVE  Scripted'
  BY <1>9, ScriptedAdds
<1>10. CASE UNCHANGED <<vars, unitVars>> BY <1>1, <1>10 DEF vars
<1> QED
  BY <1>2, <1>3, <1>4, <1>5, <1>6, <1>7, <1>8, <1>9, <1>10 DEF UnitNext

\* The callbacks are called as the modules and their tests are listed, each
\* once, up to what fails fatally and no further (unit_module_run_all,
\* unit_module_exec).
THEOREM CallsInOrder == UnitSpec => []RunsInOrder
<1>1. UnitInit => Scripted
  <2> SUFFICES ASSUME UnitInit PROVE Scripted
    OBVIOUS
  <2>1. log = << >> /\ modules \in Seq(Mods) /\ ustep = "register"
    <3>1. modules = << >> BY DEF UnitInit
    <3>2. << >> \in Seq(Mods) OBVIOUS
    <3> QED BY <3>1, <3>2 DEF UnitInit
  <2> QED BY <2>1, NothingDone DEF Scripted
<1>2. RunInv /\ Verdict /\ Scripted => RunsInOrder
  <2> SUFFICES ASSUME RunInv, Verdict, Scripted PROVE RunsInOrder
    OBVIOUS
  <2>1. IsPrefix(Done, WholeScript) BY BeginsPrefix DEF Scripted
  <2>2. \A k \in 1..(Len(log) - 1) : ~Ends(log[k]) BY DEF Verdict
  <2>3. ASSUME ustep = "crash" PROVE Done = WholeScript
    <3>1. m = Len(modules) + 1 /\ RunsAll BY <2>3 DEF RunInv, RunPlace, Running, Asked
    <3> QED BY <2>3, <3>1, ModulesTyped, WholeScripts DEF Scripted, RunInv
  <2> QED BY <2>1, <2>2, <2>3 DEF RunsInOrder, Scripted
<1> QED BY <1>1, <1>2, ScriptedNext, Runs, PTL DEF UnitSpec

-------------------------------------------------------------------------------
(* The counters.                                                           *)

Totals == [k \in DOMAIN log |-> log[k].total]
Passes == [k \in DOMAIN log |-> log[k].passed]

\* The tests of the modules in M, and what they counted.
TestsIn(M) == {k \in DOMAIN log : log[k].kind = "test" /\ log[k].module \in M}
TotalIn(M) == SumOver(Totals, TestsIn(M))
PassedIn(M) == SumOver(Passes, TestsIn(M))

ModulesBegun == {k \in DOMAIN log : log[k].kind = "module"}
SetupsFailed == {k \in DOMAIN log : log[k].kind = "setup" /\ ~log[k].ok}

NotCut == {k \in Nat : ~CutShort(k)}

Counting ==
  /\ cummulative.modules = Cardinality(ModulesBegun) - Cardinality(SetupsFailed)
  /\ ustep \in Running => \A k \in DOMAIN log : log[k].module <= m
  /\ ustep \in {"next", "setup", "crash"} =>
       /\ \A k \in DOMAIN log : log[k].module < m
       /\ cummulative.total = TotalIn(Nat) /\ cummulative.passed = PassedIn(Nat)
  /\ ustep = "test" =>
       /\ cummulative.total = TotalIn(Nat \ {m}) /\ cummulative.passed = PassedIn(Nat \ {m})
       /\ tests.total = TotalIn({m}) /\ tests.passed = PassedIn({m})
  /\ ustep = "ended" =>
       cummulative.total = TotalIn(NotCut) /\ cummulative.passed = PassedIn(NotCut)

LEMMA LogFacts ==
  ASSUME RunTypes
  PROVE  /\ DOMAIN log = 1..Len(log) /\ Len(log) \in Nat /\ IsFiniteSet(DOMAIN log)
         /\ Totals \in [DOMAIN log -> Nat] /\ Passes \in [DOMAIN log -> Nat]
         /\ \A k \in DOMAIN log : log[k].module \in Nat /\ log[k].ok \in BOOLEAN
         /\ \A M : TestsIn(M) \in SUBSET DOMAIN log
<1>1. log \in Seq(LogEntries) BY LogTyped
<1>2. DOMAIN log = 1..Len(log) /\ Len(log) \in Nat BY <1>1
<1>3. \A k \in DOMAIN log : log[k] \in LogEntries BY <1>1
<1>4. IsFiniteSet(DOMAIN log) BY <1>2, FS_Interval
<1> QED BY <1>2, <1>3, <1>4 DEF Totals, Passes, LogEntries, TestsIn

LEMMA TotalIs ==
  ASSUME RunTypes, NEW B \in SUBSET DOMAIN log
  PROVE  MapThenSumSet(LAMBDA k : log[k].total, B) = SumOver(Totals, B)
<1> DEFINE h == [k \in B |-> log[k].total]
           Solves(g) == g = [s \in SUBSET B |-> IF s = {} THEN 0
                                                ELSE log[Pick(s)].total + g[s \ {Pick(s)}]]
           c == CHOOSE g : Solves(g)
<1>1. MapThenSumSet(LAMBDA k : log[k].total, B) = c[B]
  BY DEF MapThenSumSet, MapThenFoldSet, Pick
<1>2. IsFiniteSet(B) /\ h \in [B -> Nat]
  <2>1. \A k \in B : Totals[k] \in Nat BY LogFacts
  <2> QED BY <2>1, LogFacts, FS_Subset DEF Totals
<1>3. \A s \in SUBSET B : s # {} => h[Pick(s)] = log[Pick(s)].total
  <2>1. \A s \in SUBSET B : s # {} => Pick(s) \in B BY PickIn
  <2> QED BY <2>1
<1>4. ASSUME NEW g PROVE Solves(g) <=> SumsTo(g, h, B)
  <2>1. [s \in SUBSET B |-> IF s = {} THEN 0 ELSE log[Pick(s)].total + g[s \ {Pick(s)}]] =
          [s \in SUBSET B |-> IF s = {} THEN 0 ELSE h[Pick(s)] + g[s \ {Pick(s)}]]
    <3> HIDE DEF h
    <3> QED BY <1>3
  <2> QED BY <2>1 DEF SumsTo
<1>5. \E g : Solves(g)
  <2> HIDE DEF Solves, h
  <2> QED BY <1>2, <1>4, SumExists
<1>6. Solves(c)
  <2> HIDE DEF Solves
  <2> QED BY <1>5
<1> HIDE DEF Solves, c
<1>7. SumsTo(c, h, B) BY <1>4, <1>6
<1>8. SumOver(h, B) = c[B]
  <2> HIDE DEF h
  <2>1. B \in SUBSET B OBVIOUS
  <2> QED BY <1>2, <1>7, <2>1, SumIs
<1>9. SumOver(Totals, B) = SumOver(h, B)
  <2>1. SameOn(Totals, h, B) BY DEF Totals, SameOn
  <2> HIDE DEF h
  <2>2. /\ IsFiniteSet(DOMAIN log) /\ Totals \in [DOMAIN log -> Nat]
        /\ B \in SUBSET B
    BY LogFacts
  <2> QED BY <1>2, <2>1, <2>2, SumSame
<1> QED BY <1>1, <1>8, <1>9

LEMMA PassedIs ==
  ASSUME RunTypes, NEW B \in SUBSET DOMAIN log
  PROVE  MapThenSumSet(LAMBDA k : log[k].passed, B) = SumOver(Passes, B)
<1> DEFINE h == [k \in B |-> log[k].passed]
           Solves(g) == g = [s \in SUBSET B |-> IF s = {} THEN 0
                                                ELSE log[Pick(s)].passed + g[s \ {Pick(s)}]]
           c == CHOOSE g : Solves(g)
<1>1. MapThenSumSet(LAMBDA k : log[k].passed, B) = c[B]
  BY DEF MapThenSumSet, MapThenFoldSet, Pick
<1>2. IsFiniteSet(B) /\ h \in [B -> Nat]
  <2>1. \A k \in B : Passes[k] \in Nat BY LogFacts
  <2> QED BY <2>1, LogFacts, FS_Subset DEF Passes
<1>3. \A s \in SUBSET B : s # {} => h[Pick(s)] = log[Pick(s)].passed
  <2>1. \A s \in SUBSET B : s # {} => Pick(s) \in B BY PickIn
  <2> QED BY <2>1
<1>4. ASSUME NEW g PROVE Solves(g) <=> SumsTo(g, h, B)
  <2>1. [s \in SUBSET B |-> IF s = {} THEN 0 ELSE log[Pick(s)].passed + g[s \ {Pick(s)}]] =
          [s \in SUBSET B |-> IF s = {} THEN 0 ELSE h[Pick(s)] + g[s \ {Pick(s)}]]
    <3> HIDE DEF h
    <3> QED BY <1>3
  <2> QED BY <2>1 DEF SumsTo
<1>5. \E g : Solves(g)
  <2> HIDE DEF Solves, h
  <2> QED BY <1>2, <1>4, SumExists
<1>6. Solves(c)
  <2> HIDE DEF Solves
  <2> QED BY <1>5
<1> HIDE DEF Solves, c
<1>7. SumsTo(c, h, B) BY <1>4, <1>6
<1>8. SumOver(h, B) = c[B]
  <2> HIDE DEF h
  <2>1. B \in SUBSET B OBVIOUS
  <2> QED BY <1>2, <1>7, <2>1, SumIs
<1>9. SumOver(Passes, B) = SumOver(h, B)
  <2>1. SameOn(Passes, h, B) BY DEF Passes, SameOn
  <2> HIDE DEF h
  <2>2. /\ IsFiniteSet(DOMAIN log) /\ Passes \in [DOMAIN log -> Nat]
        /\ B \in SUBSET B
    BY LogFacts
  <2> QED BY <1>2, <2>1, <2>2, SumSame
<1> QED BY <1>1, <1>8, <1>9

Grows(x) == x \in Seq(LogEntries) /\ log' = log \o x

\* The log grows by x: how its entries are those of x and of the log before.
LEMMA LogGrows ==
  ASSUME RunTypes, NEW x, Grows(x)
  PROVE  /\ log' \in Seq(LogEntries)
         /\ Len(log) \in Nat /\ Len(x) \in Nat /\ DOMAIN x = 1..Len(x)
         /\ DOMAIN log = 1..Len(log) /\ DOMAIN log' = 1..(Len(log) + Len(x))
         /\ \A k \in DOMAIN log : k \in DOMAIN log' /\ log'[k] = log[k]
         /\ \A k \in DOMAIN x : Len(log) + k \in DOMAIN log' /\ log'[Len(log) + k] = x[k]
         /\ \A k \in DOMAIN log' : k \notin DOMAIN log =>
              \E j \in DOMAIN x : k = Len(log) + j /\ log'[k] = x[j]
<1>1. log \in Seq(LogEntries) BY LogTyped
<1>2. /\ DOMAIN log = 1..Len(log) /\ Len(log) \in Nat
      /\ DOMAIN x = 1..Len(x) /\ Len(x) \in Nat
      /\ log' \in Seq(LogEntries)
      /\ Len(log') = Len(log) + Len(x) /\ DOMAIN log' = 1..(Len(log) + Len(x))
      /\ \A k \in 1..Len(log) : log'[k] = log[k]
      /\ \A k \in 1..Len(x) : log'[Len(log) + k] = x[k]
  BY <1>1 DEF Grows
<1>3. ASSUME NEW k \in DOMAIN log', k \notin DOMAIN log
      PROVE  \E j \in DOMAIN x : k = Len(log) + j /\ log'[k] = x[j]
  <2>1. k - Len(log) \in DOMAIN x /\ k = Len(log) + (k - Len(log)) BY <1>2, <1>3
  <2> QED BY <1>2, <2>1
<1> QED BY <1>2, <1>3

LogWellFormed ==
  /\ IsFiniteSet(DOMAIN log) /\ Totals \in [DOMAIN log -> Nat]
  /\ Passes \in [DOMAIN log -> Nat] /\ \A M : TestsIn(M) \in SUBSET DOMAIN log
  /\ \A k \in DOMAIN log : log[k].module \in Nat

LEMMA TypesSuffice == RunTypes => LogWellFormed
BY LogFacts DEF LogWellFormed

LEMMA LogFactsNext ==
  ASSUME RunTypes'
  PROVE  /\ IsFiniteSet(DOMAIN log') /\ Totals' \in [DOMAIN log' -> Nat]
         /\ Passes' \in [DOMAIN log' -> Nat] /\ \A M : TestsIn(M)' \in SUBSET DOMAIN log'
         /\ \A k \in DOMAIN log' : log'[k].module \in Nat
<1>1. LogWellFormed' BY TypesSuffice, PTL
<1> QED BY <1>1 DEF LogWellFormed

NoTest(x) == \A k \in DOMAIN x : x[k].kind # "test"

\* What is not a test leaves the sums as they are.
LEMMA SumsKept ==
  ASSUME RunTypes, RunTypes', NEW x, Grows(x), NoTest(x)
  PROVE  \A M : /\ TestsIn(M)' = TestsIn(M)
                /\ TotalIn(M)' = TotalIn(M) /\ PassedIn(M)' = PassedIn(M)
<1>1. /\ \A k \in DOMAIN log : k \in DOMAIN log' /\ log'[k] = log[k]
      /\ \A k \in DOMAIN log' : k \notin DOMAIN log =>
              \E j \in DOMAIN x : k = Len(log) + j /\ log'[k] = x[j]
  BY LogGrows
<1>2. \A k \in DOMAIN log' : k \notin DOMAIN log => log'[k].kind # "test" BY <1>1 DEF NoTest
<1>3. \A M : TestsIn(M)' = TestsIn(M) BY <1>1, <1>2 DEF TestsIn
<1>4. /\ IsFiniteSet(DOMAIN log) /\ Totals \in [DOMAIN log -> Nat]
      /\ Passes \in [DOMAIN log -> Nat] /\ \A M : TestsIn(M) \in SUBSET DOMAIN log
  BY LogFacts
<1>5. /\ IsFiniteSet(DOMAIN log') /\ Totals' \in [DOMAIN log' -> Nat]
      /\ Passes' \in [DOMAIN log' -> Nat] /\ \A M : TestsIn(M)' \in SUBSET DOMAIN log'
  BY LogFactsNext
<1>6. \A k \in DOMAIN log : Totals'[k] = Totals[k] /\ Passes'[k] = Passes[k]
  BY <1>1 DEF Totals, Passes
<1>7. ASSUME NEW M PROVE TotalIn(M)' = TotalIn(M) /\ PassedIn(M)' = PassedIn(M)
  <2>1. PICK B \in SUBSET DOMAIN log : B = TestsIn(M) BY <1>4
  <2>2. B \in SUBSET DOMAIN log' /\ TestsIn(M)' = B BY <1>1, <1>3, <2>1
  <2>3. SumOver(Totals, B) = SumOver(Totals', B)
    <3>1. PICK D : D = DOMAIN log OBVIOUS
    <3>2. PICK E : E = DOMAIN log' OBVIOUS
    <3>3. PICK h \in [D -> Nat] : h = Totals BY <1>4, <3>1
    <3>4. PICK g \in [E -> Nat] : g = Totals' BY <1>5, <3>2
    <3>5. IsFiniteSet(D) /\ IsFiniteSet(E) BY <1>4, <1>5, <3>1, <3>2
    <3>6. B \in SUBSET D /\ B \in SUBSET E BY <2>2, <3>1, <3>2
    <3>7. SameOn(h, g, B) BY <1>6, <3>3, <3>4 DEF SameOn
    <3>8. SumOver(h, B) = SumOver(g, B) BY <3>3, <3>4, <3>5, <3>6, <3>7, SumSame
    <3> QED BY <3>3, <3>4, <3>8
  <2>4. SumOver(Passes, B) = SumOver(Passes', B)
    <3>1. PICK D : D = DOMAIN log OBVIOUS
    <3>2. PICK E : E = DOMAIN log' OBVIOUS
    <3>3. PICK h \in [D -> Nat] : h = Passes BY <1>4, <3>1
    <3>4. PICK g \in [E -> Nat] : g = Passes' BY <1>5, <3>2
    <3>5. IsFiniteSet(D) /\ IsFiniteSet(E) BY <1>4, <1>5, <3>1, <3>2
    <3>6. B \in SUBSET D /\ B \in SUBSET E BY <2>2, <3>1, <3>2
    <3>7. SameOn(h, g, B) BY <1>6, <3>3, <3>4 DEF SameOn
    <3>8. SumOver(h, B) = SumOver(g, B) BY <3>3, <3>4, <3>5, <3>6, <3>7, SumSame
    <3> QED BY <3>3, <3>4, <3>8
  <2> QED BY <2>1, <2>2, <2>3, <2>4 DEF TotalIn, PassedIn
<1> QED BY <1>3, <1>7

\* A test adds what it counted to the sums of its module.
LEMMA SumsAdd ==
  ASSUME RunTypes, RunTypes', NEW e \in LogEntries, Grows(<<e>>), e.kind = "test"
  PROVE  \A M : /\ TotalIn(M)' = TotalIn(M) + (IF e.module \in M THEN e.total ELSE 0)
                /\ PassedIn(M)' = PassedIn(M) + (IF e.module \in M THEN e.passed ELSE 0)
<1> DEFINE last == Len(log) + 1
<1>0. <<e>> \in Seq(LogEntries) /\ Len(<<e>>) = 1 /\ DOMAIN <<e>> = {1} /\ <<e>>[1] = e
  BY Short
<1>1. /\ Len(log) \in Nat /\ DOMAIN log = 1..Len(log)
      /\ \A k \in DOMAIN log : k \in DOMAIN log' /\ log'[k] = log[k]
      /\ last \in DOMAIN log' /\ log'[last] = e
      /\ \A k \in DOMAIN log' : k \notin DOMAIN log => k = last
  <2>1. PICK x : x = <<e>> OBVIOUS
  <2>2. Grows(x) /\ DOMAIN x = {1} /\ x[1] = e
    BY <1>0, <2>1
  <2> QED BY <2>2, LogGrows
<1>2. last \notin DOMAIN log BY <1>1
<1> HIDE DEF last
<1>3. ASSUME NEW M
      PROVE  TestsIn(M)' = IF e.module \in M THEN TestsIn(M) \cup {last} ELSE TestsIn(M)
  BY <1>1, <1>2 DEF TestsIn
<1>4. /\ IsFiniteSet(DOMAIN log) /\ Totals \in [DOMAIN log -> Nat]
      /\ Passes \in [DOMAIN log -> Nat] /\ \A M : TestsIn(M) \in SUBSET DOMAIN log
  BY LogFacts
<1>5. /\ IsFiniteSet(DOMAIN log') /\ Totals' \in [DOMAIN log' -> Nat]
      /\ Passes' \in [DOMAIN log' -> Nat]
  BY LogFactsNext
<1>6. /\ \A k \in DOMAIN log : Totals'[k] = Totals[k] /\ Passes'[k] = Passes[k]
      /\ Totals'[last] = e.total /\ Passes'[last] = e.passed
  BY <1>1 DEF Totals, Passes
<1>7. ASSUME NEW M
      PROVE  /\ TotalIn(M)' = TotalIn(M) + (IF e.module \in M THEN e.total ELSE 0)
             /\ PassedIn(M)' = PassedIn(M) + (IF e.module \in M THEN e.passed ELSE 0)
  <2>1. PICK B \in SUBSET DOMAIN log : B = TestsIn(M) BY <1>4
  <2>2. B \in SUBSET DOMAIN log' BY <1>1
  <2>3. SumOver(Totals, B) = SumOver(Totals', B)
    <3>1. PICK D : D = DOMAIN log OBVIOUS
    <3>2. PICK E : E = DOMAIN log' OBVIOUS
    <3>3. PICK h \in [D -> Nat] : h = Totals BY <1>4, <3>1
    <3>4. PICK g \in [E -> Nat] : g = Totals' BY <1>5, <3>2
    <3>5. IsFiniteSet(D) /\ IsFiniteSet(E) BY <1>4, <1>5, <3>1, <3>2
    <3>6. B \in SUBSET D /\ B \in SUBSET E BY <2>2, <3>1, <3>2
    <3>7. SameOn(h, g, B) BY <1>6, <3>3, <3>4 DEF SameOn
    <3>8. SumOver(h, B) = SumOver(g, B) BY <3>3, <3>4, <3>5, <3>6, <3>7, SumSame
    <3> QED BY <3>3, <3>4, <3>8
  <2>4. SumOver(Passes, B) = SumOver(Passes', B)
    <3>1. PICK D : D = DOMAIN log OBVIOUS
    <3>2. PICK E : E = DOMAIN log' OBVIOUS
    <3>3. PICK h \in [D -> Nat] : h = Passes BY <1>4, <3>1
    <3>4. PICK g \in [E -> Nat] : g = Passes' BY <1>5, <3>2
    <3>5. IsFiniteSet(D) /\ IsFiniteSet(E) BY <1>4, <1>5, <3>1, <3>2
    <3>6. B \in SUBSET D /\ B \in SUBSET E BY <2>2, <3>1, <3>2
    <3>7. SameOn(h, g, B) BY <1>6, <3>3, <3>4 DEF SameOn
    <3>8. SumOver(h, B) = SumOver(g, B) BY <3>3, <3>4, <3>5, <3>6, <3>7, SumSame
    <3> QED BY <3>3, <3>4, <3>8
  <2>5. SumOver(Totals, B) \in Nat /\ SumOver(Passes, B) \in Nat BY <1>4, SumStep
  <2>6. CASE e.module \in M
    <3>1. PICK C \in SUBSET DOMAIN log' : C = B \cup {last} BY <1>1, <2>2
    <3>2. last \in C /\ C \ {last} = B BY <1>2, <3>1
    <3>3. SumOver(Totals', C) = Totals'[last] + SumOver(Totals', C \ {last})
      <4>1. PICK E : E = DOMAIN log' /\ IsFiniteSet(E) BY <1>5
      <4>2. PICK g \in [E -> Nat] : g = Totals' BY <1>5, <4>1
      <4>3. C \in SUBSET E BY <4>1
      <4>4. SumOver(g, C) = g[last] + SumOver(g, C \ {last})
        BY <3>2, <4>1, <4>2, <4>3, SumRemove
      <4> QED BY <4>2, <4>4
    <3>4. SumOver(Passes', C) = Passes'[last] + SumOver(Passes', C \ {last})
      <4>1. PICK E : E = DOMAIN log' /\ IsFiniteSet(E) BY <1>5
      <4>2. PICK g \in [E -> Nat] : g = Passes' BY <1>5, <4>1
      <4>3. C \in SUBSET E BY <4>1
      <4>4. SumOver(g, C) = g[last] + SumOver(g, C \ {last})
        BY <3>2, <4>1, <4>2, <4>3, SumRemove
      <4> QED BY <4>2, <4>4
    <3>5. e.total \in Nat /\ e.passed \in Nat BY DEF LogEntries
    <3>6. TotalIn(M)' = e.total + TotalIn(M) /\ PassedIn(M)' = e.passed + PassedIn(M)
      BY <1>3, <1>6, <2>1, <2>3, <2>4, <2>6, <3>1, <3>2, <3>3, <3>4 DEF TotalIn, PassedIn
    <3>7. TotalIn(M) \in Nat /\ PassedIn(M) \in Nat BY <2>1, <2>5 DEF TotalIn, PassedIn
    <3> QED BY <2>6, <3>5, <3>6, <3>7
  <2>7. CASE e.module \notin M
    <3>1. TotalIn(M)' = TotalIn(M) /\ PassedIn(M)' = PassedIn(M)
      BY <1>3, <2>1, <2>3, <2>4, <2>7 DEF TotalIn, PassedIn
    <3>2. TotalIn(M) \in Nat /\ PassedIn(M) \in Nat BY <2>1, <2>5 DEF TotalIn, PassedIn
    <3> QED BY <2>7, <3>1, <3>2
  <2> QED BY <2>6, <2>7
<1> QED BY <1>7

\* The sums of disjoint sets of modules.
LEMMA SumsOfBoth ==
  ASSUME RunTypes, NEW M, NEW K, M \cap K = {}
  PROVE  /\ TotalIn(M \cup K) = TotalIn(M) + TotalIn(K)
         /\ PassedIn(M \cup K) = PassedIn(M) + PassedIn(K)
<1>1. /\ IsFiniteSet(DOMAIN log) /\ Totals \in [DOMAIN log -> Nat]
      /\ Passes \in [DOMAIN log -> Nat]
      /\ TestsIn(M) \in SUBSET DOMAIN log /\ TestsIn(K) \in SUBSET DOMAIN log
  BY LogFacts
<1>2. TestsIn(M) \cap TestsIn(K) = {} /\ TestsIn(M \cup K) = TestsIn(M) \cup TestsIn(K)
  BY DEF TestsIn
<1> QED BY <1>1, <1>2, SumUnion DEF TotalIn, PassedIn

InModule(x) == \A k \in DOMAIN x : x[k].module = m
NoStart(x) == \A k \in DOMAIN x : x[k].kind \notin {"module", "setup"}

LEMMA StartsKept ==
  ASSUME RunTypes, NEW x, Grows(x), NoStart(x)
  PROVE  ModulesBegun' = ModulesBegun /\ SetupsFailed' = SetupsFailed
<1>1. /\ \A k \in DOMAIN log : k \in DOMAIN log' /\ log'[k] = log[k]
      /\ \A k \in DOMAIN log' : k \notin DOMAIN log =>
              \E j \in DOMAIN x : k = Len(log) + j /\ log'[k] = x[j]
  BY LogGrows
<1>2. \A k \in DOMAIN log' : k \notin DOMAIN log => log'[k].kind \notin {"module", "setup"}
  BY <1>1 DEF NoStart
<1> QED BY <1>1, <1>2 DEF ModulesBegun, SetupsFailed

\* No module was cut short before, and which are now.
LEMMA CutShortNext ==
  ASSUME RunTypes, Verdict, ustep \in Running, UNCHANGED modules, NEW x, Grows(x)
  PROVE  \A j : CutShort(j)' <=>
           \E k \in DOMAIN x : x[k].kind = "test" /\ x[k].module = j /\ Ends(x[k])
<1>1. /\ \A k \in DOMAIN log : k \in DOMAIN log' /\ log'[k] = log[k]
      /\ \A k \in DOMAIN x : Len(log) + k \in DOMAIN log' /\ log'[Len(log) + k] = x[k]
      /\ \A k \in DOMAIN log' : k \notin DOMAIN log =>
              \E j \in DOMAIN x : k = Len(log) + j /\ log'[k] = x[j]
  BY LogGrows
<1>2. \A e : Ends(e)' <=> Ends(e) BY DEF Ends
<1>3. \A k \in DOMAIN log : ~Ends(log[k]) BY DEF Verdict
<1>4. ASSUME NEW j, CutShort(j)'
      PROVE  \E k \in DOMAIN x : x[k].kind = "test" /\ x[k].module = j /\ Ends(x[k])
  <2>1. PICK n \in DOMAIN log' :
          log'[n].kind = "test" /\ log'[n].module = j /\ Ends(log'[n])
    BY <1>2, <1>4 DEF CutShort
  <2>2. n \notin DOMAIN log BY <1>1, <1>3, <2>1
  <2> QED BY <1>1, <2>1, <2>2
<1>5. ASSUME NEW j,
             NEW k \in DOMAIN x, x[k].kind = "test", x[k].module = j, Ends(x[k])
      PROVE  CutShort(j)'
  <2>1. PICK n \in DOMAIN log' : log'[n] = x[k] BY <1>1
  <2> QED BY <1>2, <1>5, <2>1 DEF CutShort
<1> QED BY <1>4, <1>5

\* What the callbacks add to the log.
LEMMA SetupGrows ==
  ASSUME RunTypes, NEW ok \in BOOLEAN, Setup(ok)
  PROVE  /\ Grows(SetupLog(ok)) /\ NoTest(SetupLog(ok)) /\ InModule(SetupLog(ok))
         /\ Cardinality(ModulesBegun') - Cardinality(SetupsFailed') =
              Cardinality(ModulesBegun) - Cardinality(SetupsFailed) + (IF ok THEN 1 ELSE 0)
<1>1. PICK x : x = SetupLog(ok) OBVIOUS
<1>2. Grows(x) BY <1>1, CallbackLogs DEF Grows
<1>3. PICK e \in LogEntries : e = Entry("module", 0, TRUE, Nothing)
  BY EntryTyped, NothingTyped DEF Kinds
<1>4. PICK f \in LogEntries : f = Entry("setup", 0, ok, Nothing)
  BY EntryTyped, NothingTyped DEF Kinds
<1>5. e.kind = "module" /\ e.module = m /\ f.kind = "setup" /\ f.module = m /\ f.ok = ok
  BY <1>3, <1>4 DEF Entry
<1>6. ~Module.setup => ok BY DEF Setup
<1>7. x[1] = e /\ ((DOMAIN x = {1, 2} /\ x[2] = f) \/ (DOMAIN x = {1} /\ ok))
  <2>1. CASE Module.setup
    <3>1. x = <<e>> \o <<f>> BY <1>1, <1>3, <1>4, <2>1 DEF SetupLog
    <3> QED BY <3>1, Short
  <2>2. CASE ~Module.setup
    <3>1. x = <<e>> \o << >> BY <1>1, <1>3, <2>2 DEF SetupLog
    <3>2. DOMAIN x = {1} /\ x[1] = e BY <3>1, Short
    <3> QED BY <1>6, <2>2, <3>2
  <2> QED BY <2>1, <2>2
<1>8. NoTest(x) /\ InModule(x) BY <1>5, <1>7 DEF NoTest, InModule
<1>9. /\ Len(log) \in Nat /\ DOMAIN log = 1..Len(log)
      /\ \A k \in DOMAIN log : k \in DOMAIN log' /\ log'[k] = log[k]
      /\ \A k \in DOMAIN x : Len(log) + k \in DOMAIN log' /\ log'[Len(log) + k] = x[k]
      /\ \A k \in DOMAIN log' : k \notin DOMAIN log =>
              \E j \in DOMAIN x : k = Len(log) + j /\ log'[k] = x[j]
  BY <1>2, LogGrows
<1>10. PICK a \in Nat : a = Len(log) + 1 BY <1>9
<1>11. PICK b \in Nat : b = Len(log) + 2 BY <1>9
<1>12. a \notin DOMAIN log /\ b \notin DOMAIN log /\ a # b BY <1>9, <1>10, <1>11
<1>13. /\ a \in DOMAIN log' /\ log'[a] = e
       /\ ~ok => b \in DOMAIN log' /\ log'[b] = f
       /\ \A k \in DOMAIN log' : k \notin DOMAIN log => k = a \/ (k = b /\ log'[k] = f)
  BY <1>7, <1>9, <1>10, <1>11
<1>14. ModulesBegun' = ModulesBegun \cup {a}
  BY <1>5, <1>9, <1>13 DEF ModulesBegun
<1>15. SetupsFailed' = IF ok THEN SetupsFailed ELSE SetupsFailed \cup {b}
  BY <1>5, <1>9, <1>13 DEF SetupsFailed
<1>16. /\ IsFiniteSet(ModulesBegun) /\ IsFiniteSet(SetupsFailed)
       /\ a \notin ModulesBegun /\ b \notin SetupsFailed
  <2>1. ModulesBegun \subseteq DOMAIN log /\ SetupsFailed \subseteq DOMAIN log
    BY DEF ModulesBegun, SetupsFailed
  <2> QED BY <1>12, <2>1, LogFacts, FS_Subset
<1>17. /\ Cardinality(ModulesBegun) \in Nat /\ Cardinality(SetupsFailed) \in Nat
       /\ Cardinality(ModulesBegun \cup {a}) = Cardinality(ModulesBegun) + 1
       /\ Cardinality(SetupsFailed \cup {b}) = Cardinality(SetupsFailed) + 1
  BY <1>16, FS_CardinalityType, FS_AddElement
<1>18. Cardinality(ModulesBegun') - Cardinality(SetupsFailed') =
         Cardinality(ModulesBegun) - Cardinality(SetupsFailed) + (IF ok THEN 1 ELSE 0)
  BY <1>14, <1>15, <1>17
<1> QED BY <1>1, <1>2, <1>8, <1>18

LEMMA TestGrows ==
  ASSUME RunTypes, NEW ok \in BOOLEAN, NEW n \in Counts, Test(ok, n)
  PROVE  \E e \in LogEntries :
           /\ e = Entry("test", t, ok, n) /\ e.kind = "test" /\ e.module = m
           /\ e.total = n.total /\ e.passed = n.passed
           /\ Grows(<<e>>) /\ NoStart(<<e>>) /\ InModule(<<e>>)
           /\ Ends(e) <=> Fatal(t, ok)
<1>1. PICK e \in LogEntries : e = Entry("test", t, ok, n)
  BY CountsAssumption, NumbersTyped, EntryTyped DEF Kinds
<1>2. /\ e.kind = "test" /\ e.module = m /\ e.total = n.total /\ e.passed = n.passed
      /\ Ends(e) <=> Fatal(t, ok)
  BY <1>1 DEF Entry, Ends, Fatal, Module
<1>3. <<e>> \in Seq(LogEntries) /\ DOMAIN <<e>> = {1} /\ <<e>>[1] = e BY Short
<1>4. log' = log \o <<e>>
  <2>1. log' = Append(log, e) BY <1>1 DEF Test
  <2>2. log \in Seq(LogEntries) BY LogTyped
  <2> QED BY <2>1, <2>2
<1>5. Grows(<<e>>) BY <1>3, <1>4 DEF Grows
<1>6. NoStart(<<e>>) /\ InModule(<<e>>) BY <1>2, <1>3 DEF NoStart, InModule
<1> QED BY <1>1, <1>2, <1>5, <1>6

LEMMA TeardownGrows ==
  ASSUME RunTypes, NEW ok \in BOOLEAN, Teardown(ok)
  PROVE  /\ Grows(TeardownLog(ok)) /\ NoTest(TeardownLog(ok))
         /\ NoStart(TeardownLog(ok)) /\ InModule(TeardownLog(ok))
<1>1. PICK x : x = TeardownLog(ok) OBVIOUS
<1>2. Grows(x) BY <1>1, CallbackLogs DEF Grows
<1>3. PICK e \in LogEntries : e = Entry("teardown", 0, ok, Nothing)
  BY EntryTyped, NothingTyped DEF Kinds
<1>4. e.kind = "teardown" /\ e.module = m BY <1>3 DEF Entry
<1>5. x = <<e>> \/ x = << >> BY <1>1, <1>3 DEF TeardownLog
<1>6. DOMAIN x = {} \/ (DOMAIN x = {1} /\ x[1] = e) BY <1>5, Short
<1> QED BY <1>1, <1>2, <1>4, <1>6 DEF NoTest, NoStart, InModule

\* A log without tests.
LEMMA NoSums ==
  ASSUME RunTypes, NEW M, TestsIn(M) = {}
  PROVE  TotalIn(M) = 0 /\ PassedIn(M) = 0
BY LogFacts, SumStep DEF TotalIn, PassedIn

LEMMA EmptyLog ==
  ASSUME log = << >>
  PROVE  /\ Cardinality(ModulesBegun) - Cardinality(SetupsFailed) = 0
         /\ \A M : TestsIn(M) = {}
         /\ DOMAIN log = {}
<1>1. DOMAIN log = {} OBVIOUS
<1>2. ModulesBegun = {} /\ SetupsFailed = {} BY <1>1 DEF ModulesBegun, SetupsFailed
<1> QED BY <1>1, <1>2, FS_EmptySet DEF TestsIn

LEMMA SumsTyped ==
  ASSUME RunTypes PROVE \A M : TotalIn(M) \in Nat /\ PassedIn(M) \in Nat
BY LogFacts, SumStep DEF TotalIn, PassedIn

LEMMA ModulesStayBelow ==
  ASSUME RunTypes, \A k \in DOMAIN log : log[k].module <= m, NEW x, Grows(x), InModule(x)
  PROVE  \A k \in DOMAIN log' : log'[k].module <= m
<1>1. /\ \A k \in DOMAIN log : k \in DOMAIN log' /\ log'[k] = log[k]
      /\ \A k \in DOMAIN log' : k \notin DOMAIN log =>
              \E j \in DOMAIN x : k = Len(log) + j /\ log'[k] = x[j]
  BY LogGrows
<1>2. m <= m BY NumbersTyped
<1> QED BY <1>1, <1>2 DEF InModule

LEMMA CountingSetup ==
  ASSUME RunInv, RunTypes', Verdict, Counting, NEW ok \in BOOLEAN, Setup(ok)
  PROVE  Counting'
<1>0. RunTypes /\ ustep = "setup" /\ ustep \in Running /\ UNCHANGED modules
  BY DEF RunInv, Setup, Working, Running
<1>1. PICK x : x = SetupLog(ok) OBVIOUS
<1>2. /\ Grows(x) /\ NoTest(x) /\ InModule(x)
      /\ Cardinality(ModulesBegun') - Cardinality(SetupsFailed') =
           Cardinality(ModulesBegun) - Cardinality(SetupsFailed) + (IF ok THEN 1 ELSE 0)
  BY <1>0, <1>1, SetupGrows
<1>3. \A M : /\ TestsIn(M)' = TestsIn(M)
             /\ TotalIn(M)' = TotalIn(M) /\ PassedIn(M)' = PassedIn(M)
  BY <1>0, <1>2, SumsKept
<1>4. /\ \A k \in DOMAIN log : log[k].module < m
      /\ cummulative.total = TotalIn(Nat) /\ cummulative.passed = PassedIn(Nat)
      /\ cummulative.modules = Cardinality(ModulesBegun) - Cardinality(SetupsFailed)
  BY <1>0 DEF Counting
<1>5. \A k \in DOMAIN log : log[k].module \in Nat /\ log[k].module # m /\ log[k].module <= m
  BY <1>0, <1>4, LogFacts, NumbersTyped
<1>6. PICK c \in [modules : Nat, total : Nat, passed : Nat] : c = cummulative
  BY <1>0, NumbersTyped
<1>7. CASE ok
  <2>1. /\ ustep' = "test" /\ m' = m /\ tests' = [total |-> 0, passed |-> 0]
        /\ cummulative' = [c EXCEPT !.modules = @ + 1]
    BY <1>6, <1>7 DEF Setup, ExecReturns, CountsReset, Nothing
  <2>2. /\ cummulative'.modules = c.modules + 1 /\ cummulative'.total = c.total
        /\ cummulative'.passed = c.passed
    BY <2>1
  <2>3. cummulative'.modules = Cardinality(ModulesBegun') - Cardinality(SetupsFailed')
    BY <1>2, <1>4, <1>6, <1>7, <2>2
  <2>4. TestsIn({m}) = {} /\ TestsIn(Nat \ {m}) = TestsIn(Nat) BY <1>5 DEF TestsIn
  <2>5. TotalIn({m}) = 0 /\ PassedIn({m}) = 0 BY <1>0, <2>4, NoSums
  <2>6. TotalIn(Nat \ {m}) = TotalIn(Nat) /\ PassedIn(Nat \ {m}) = PassedIn(Nat)
    BY <2>4 DEF TotalIn, PassedIn
  <2>7. /\ cummulative'.total = TotalIn(Nat \ {m}) /\ cummulative'.passed = PassedIn(Nat \ {m})
        /\ tests'.total = TotalIn({m}) /\ tests'.passed = PassedIn({m})
    BY <1>4, <1>6, <2>1, <2>2, <2>5, <2>6
  <2>8. /\ TotalIn(Nat \ {m})' = TotalIn(Nat \ {m}) /\ PassedIn(Nat \ {m})' = PassedIn(Nat \ {m})
        /\ TotalIn({m})' = TotalIn({m}) /\ PassedIn({m})' = PassedIn({m})
    BY <1>3, <2>1
  <2>9. \A k \in DOMAIN log' : log'[k].module <= m BY <1>0, <1>2, <1>5, ModulesStayBelow
  <2> QED BY <2>1, <2>3, <2>7, <2>8, <2>9 DEF Counting, Running
<1>8. CASE ~ok
  <2>1. cummulative' = c BY <1>6, <1>8 DEF Setup
  <2>2. ustep' = "ended"
    <3>1. ExecReturns(FALSE) BY <1>8 DEF Setup
    <3> QED BY <3>1, Returns
  <2>3. cummulative'.modules = Cardinality(ModulesBegun') - Cardinality(SetupsFailed')
    <3>1. Cardinality(ModulesBegun) - Cardinality(SetupsFailed) \in Int BY <1>4, <1>6
    <3> QED BY <1>2, <1>4, <1>6, <1>8, <2>1, <3>1
  <2>4. \A j : ~CutShort(j)' BY <1>0, <1>2, CutShortNext DEF NoTest
  <2>5. NotCut' = Nat BY <2>4 DEF NotCut
  <2>6. TotalIn(NotCut)' = TotalIn(Nat)' /\ PassedIn(NotCut)' = PassedIn(Nat)'
    BY <2>5 DEF TotalIn, PassedIn, TestsIn
  <2> QED BY <1>3, <1>4, <1>6, <2>1, <2>2, <2>3, <2>6 DEF Counting, Running
<1> QED BY <1>7, <1>8

LEMMA CountingTest ==
  ASSUME RunInv, RunTypes', Verdict, Counting, NEW ok \in BOOLEAN, NEW n \in Counts, Test(ok, n)
  PROVE  Counting'
<1>0. RunTypes /\ ustep = "test" /\ ustep \in Running /\ UNCHANGED <<modules, cummulative>>
  BY DEF RunInv, Test, Working, Running
<1>1. PICK e \in LogEntries :
        /\ e = Entry("test", t, ok, n) /\ e.kind = "test" /\ e.module = m
        /\ e.total = n.total /\ e.passed = n.passed
        /\ Grows(<<e>>) /\ NoStart(<<e>>) /\ InModule(<<e>>)
        /\ Ends(e) <=> Fatal(t, ok)
  BY <1>0, TestGrows
<1>2. DOMAIN <<e>> = {1} /\ <<e>>[1] = e BY Short
<1>3. \A M : /\ TotalIn(M)' = TotalIn(M) + (IF e.module \in M THEN e.total ELSE 0)
             /\ PassedIn(M)' = PassedIn(M) + (IF e.module \in M THEN e.passed ELSE 0)
  BY <1>0, <1>1, SumsAdd
<1>4. /\ \A k \in DOMAIN log : log[k].module <= m
      /\ cummulative.modules = Cardinality(ModulesBegun) - Cardinality(SetupsFailed)
      /\ cummulative.total = TotalIn(Nat \ {m}) /\ cummulative.passed = PassedIn(Nat \ {m})
      /\ tests.total = TotalIn({m}) /\ tests.passed = PassedIn({m})
  BY <1>0 DEF Counting
<1>5. cummulative'.modules = Cardinality(ModulesBegun') - Cardinality(SetupsFailed')
  BY <1>0, <1>1, <1>4, StartsKept
<1>6. ASSUME NEW K, K = Nat \ {m}
      PROVE  /\ TotalIn(K)' = TotalIn(K) /\ PassedIn(K)' = PassedIn(K)
  <2>1. m \notin K BY <1>6
  <2>2. TotalIn(K) \in Nat /\ PassedIn(K) \in Nat BY <1>0, SumsTyped
  <2>3. TotalIn(K)' = TotalIn(K) + 0 /\ PassedIn(K)' = PassedIn(K) + 0
    BY <1>1, <1>3, <2>1
  <2> QED BY <2>2, <2>3
<1>7. CASE ~Fatal(t, ok)
  <2>1. ustep' = "test" /\ m' = m BY <1>0, <1>7 DEF Test
  <2>2. tests'.total = tests.total + n.total /\ tests'.passed = tests.passed + n.passed
    BY DEF Test
  <2>3. TotalIn({m})' = TotalIn({m}) + n.total /\ PassedIn({m})' = PassedIn({m}) + n.passed
    BY <1>1, <1>3, <2>1
  <2>4. TotalIn(Nat \ {m})' = TotalIn(Nat \ {m}) /\ PassedIn(Nat \ {m})' = PassedIn(Nat \ {m})
    BY <1>6, <2>1
  <2>5. \A k \in DOMAIN log' : log'[k].module <= m BY <1>0, <1>1, <1>4, ModulesStayBelow
  <2> QED BY <1>0, <1>4, <1>5, <2>1, <2>2, <2>3, <2>4, <2>5 DEF Counting, Running
<1>8. CASE Fatal(t, ok)
  <2>1. ustep' = "ended"
    <3>1. ExecReturns(FALSE) BY <1>8 DEF Test
    <3> QED BY <3>1, Returns
  <2>2. \A j : CutShort(j)' <=> j = m
    <3>1. PICK x : x = <<e>> OBVIOUS
    <3>2. \A j : CutShort(j)' <=>
            \E k \in DOMAIN x : x[k].kind = "test" /\ x[k].module = j /\ Ends(x[k])
      BY <1>0, <1>1, <3>1, CutShortNext
    <3>3. DOMAIN x = {1} /\ x[1] = e BY <1>2, <3>1
    <3> QED BY <1>1, <1>8, <3>2, <3>3
  <2>3. PICK K : K = Nat \ {m} OBVIOUS
  <2>4. NotCut' = K BY <2>2, <2>3 DEF NotCut
  <2>5. TotalIn(NotCut)' = TotalIn(K)' /\ PassedIn(NotCut)' = PassedIn(K)'
    BY <2>4 DEF TotalIn, PassedIn, TestsIn
  <2>6. TotalIn(NotCut)' = TotalIn(K) /\ PassedIn(NotCut)' = PassedIn(K)
    BY <1>6, <2>3, <2>5
  <2> QED BY <1>0, <1>4, <1>5, <2>1, <2>3, <2>6 DEF Counting, Running
<1> QED BY <1>7, <1>8

LEMMA CountingTeardown ==
  ASSUME RunInv, RunTypes', Verdict, Counting, NEW ok \in BOOLEAN, Teardown(ok)
  PROVE  Counting'
<1>0. RunTypes /\ ustep = "test" /\ ustep \in Running /\ UNCHANGED modules
  BY DEF RunInv, Teardown, Working, Running
<1>1. PICK x : x = TeardownLog(ok) OBVIOUS
<1>2. Grows(x) /\ NoTest(x) /\ NoStart(x) /\ InModule(x) BY <1>0, <1>1, TeardownGrows
<1>3. \A M : TotalIn(M)' = TotalIn(M) /\ PassedIn(M)' = PassedIn(M)
  BY <1>0, <1>2, SumsKept
<1>4. /\ \A k \in DOMAIN log : log[k].module <= m
      /\ cummulative.modules = Cardinality(ModulesBegun) - Cardinality(SetupsFailed)
      /\ cummulative.total = TotalIn(Nat \ {m}) /\ cummulative.passed = PassedIn(Nat \ {m})
      /\ tests.total = TotalIn({m}) /\ tests.passed = PassedIn({m})
  BY <1>0 DEF Counting
<1>5. PICK c \in [modules : Nat, total : Nat, passed : Nat] : c = cummulative
  BY <1>0, NumbersTyped
<1>6. cummulative' = [c EXCEPT !.total = @ + tests.total, !.passed = @ + tests.passed]
  BY <1>5 DEF Teardown
<1>7. /\ cummulative'.modules = c.modules
      /\ cummulative'.total = c.total + tests.total
      /\ cummulative'.passed = c.passed + tests.passed
  BY <1>6
<1>8. TotalIn(Nat) = TotalIn(Nat \ {m}) + TotalIn({m})
      /\ PassedIn(Nat) = PassedIn(Nat \ {m}) + PassedIn({m})
  <2>1. (Nat \ {m}) \cap {m} = {} /\ (Nat \ {m}) \cup {m} = Nat BY <1>0, NumbersTyped
  <2>2. /\ TotalIn((Nat \ {m}) \cup {m}) = TotalIn(Nat \ {m}) + TotalIn({m})
        /\ PassedIn((Nat \ {m}) \cup {m}) = PassedIn(Nat \ {m}) + PassedIn({m})
    BY <1>0, <2>1, SumsOfBoth
  <2> QED BY <2>1, <2>2
<1>9. cummulative'.total = TotalIn(Nat) /\ cummulative'.passed = PassedIn(Nat)
  BY <1>4, <1>5, <1>7, <1>8
<1>10. cummulative'.modules = Cardinality(ModulesBegun') - Cardinality(SetupsFailed')
  BY <1>0, <1>2, <1>4, <1>5, <1>7, StartsKept
<1>11. \A k \in DOMAIN log' : log'[k].module <= m BY <1>0, <1>2, <1>4, ModulesStayBelow
<1>12. ExecReturns(ok) BY DEF Teardown
<1>13. CASE ustep' = "next" /\ m' = m + 1
  <2>1. ASSUME NEW k \in DOMAIN log' PROVE log'[k].module < m' /\ log'[k].module <= m'
    <3>1. log'[k].module \in Nat /\ m \in Nat BY <1>0, LogFactsNext, NumbersTyped
    <3> QED BY <1>11, <1>13, <3>1
  <2> QED BY <1>3, <1>9, <1>10, <1>13, <2>1 DEF Counting, Running
<1>14. CASE ustep' = "ended"
  <2>1. \A j : ~CutShort(j)' BY <1>0, <1>2, CutShortNext DEF NoTest
  <2>2. NotCut' = Nat BY <2>1 DEF NotCut
  <2>3. TotalIn(NotCut)' = TotalIn(Nat)' /\ PassedIn(NotCut)' = PassedIn(Nat)'
    BY <2>2 DEF TotalIn, PassedIn, TestsIn
  <2> QED BY <1>3, <1>9, <1>10, <1>14, <2>3 DEF Counting, Running
<1> QED BY <1>12, <1>13, <1>14, Returns

\* Counters at nothing, and an empty log.
LEMMA CountingZero ==
  ASSUME RunTypes, log = << >>, cummulative = [modules |-> 0, total |-> 0, passed |-> 0],
         ustep # "test"
  PROVE  Counting
<1>1. /\ Cardinality(ModulesBegun) - Cardinality(SetupsFailed) = 0
      /\ \A M : TestsIn(M) = {}
      /\ DOMAIN log = {}
  BY EmptyLog
<1>2. \A M : TotalIn(M) = 0 /\ PassedIn(M) = 0 BY <1>1, NoSums
<1>3. cummulative.modules = 0 /\ cummulative.total = 0 /\ cummulative.passed = 0 OBVIOUS
<1> QED BY <1>1, <1>2, <1>3 DEF Counting

\* A state in which nothing has been counted.
Uncounted ==
  /\ RunTypes /\ log = << >> /\ cummulative = [modules |-> 0, total |-> 0, passed |-> 0]
  /\ ustep # "test"

LEMMA UncountedCounts == Uncounted => Counting
BY CountingZero DEF Uncounted

LEMMA CountingNext ==
  RunInv /\ Verdict /\ Counting /\ [UnitNext]_<<vars, unitVars>> => Counting'
<1> SUFFICES ASSUME RunInv, Verdict, Counting, [UnitNext]_<<vars, unitVars>>
             PROVE  Counting'
  OBVIOUS
<1>0. RunTypes' BY RunTypesNext
<1>a. Uncounted' => Counting' BY UncountedCounts, PTL
<1>1. ASSUME UNCHANGED unitVars PROVE Counting'
  <2>1. UNCHANGED <<modules, ustep, m, tests, cummulative, log>> BY <1>1 DEF unitVars, runVars
  <2>2. ModulesBegun' = ModulesBegun /\ SetupsFailed' = SetupsFailed
    BY <2>1 DEF ModulesBegun, SetupsFailed
  <2>3. \A M : TotalIn(M)' = TotalIn(M) /\ PassedIn(M)' = PassedIn(M)
    BY <2>1 DEF TotalIn, PassedIn, TestsIn, Totals, Passes
  <2>4. NotCut' = NotCut BY <2>1 DEF NotCut, CutShort, Ends
  <2>5. TotalIn(NotCut)' = TotalIn(NotCut) /\ PassedIn(NotCut)' = PassedIn(NotCut)
    BY <2>1, <2>4 DEF TotalIn, PassedIn, TestsIn, Totals, Passes
  <2>6. /\ TotalIn({m})' = TotalIn({m}) /\ PassedIn({m})' = PassedIn({m})
        /\ TotalIn(Nat \ {m})' = TotalIn(Nat \ {m}) /\ PassedIn(Nat \ {m})' = PassedIn(Nat \ {m})
    BY <2>1, <2>3
  <2> QED BY <2>1, <2>2, <2>3, <2>5, <2>6 DEF Counting
<1>2. CASE ParseStep \/ Leave BY <1>1, <1>2 DEF ParseStep, Leave
<1>3. CASE Register \/ Registered \/ RunAll \/ RunNone
  <2>1. ustep \in {"register", "result"} /\ UNCHANGED <<log, cummulative>> /\ ustep' # "test"
    BY <1>3 DEF Register, Registered, RunAll, RunNone, Working, End, runVars
  <2>2. log = << >> /\ cummulative = [modules |-> 0, total |-> 0, passed |-> 0]
    BY <2>1 DEF RunInv, RunPlace
  <2> QED BY <1>0, <1>a, <2>1, <2>2 DEF Uncounted
<1>4. CASE RunOne
  <2>1. ustep = "result" /\ UNCHANGED <<log, cummulative>> /\ ustep' # "test"
    BY <1>4 DEF RunOne, Working, End, runVars
  <2>2. log = << >> /\ cummulative = [modules |-> 0, total |-> 0, passed |-> 0]
    BY <2>1 DEF RunInv, RunPlace
  <2> QED BY <1>0, <1>a, <2>1, <2>2 DEF Uncounted
<1>5. CASE NextModule
  <2>1. /\ ustep = "next" /\ ustep' \in {"setup", "crash"}
        /\ UNCHANGED <<modules, m, tests, cummulative, log>>
    BY <1>5 DEF NextModule, Working, runVars
  <2>2. ModulesBegun' = ModulesBegun /\ SetupsFailed' = SetupsFailed
    BY <2>1 DEF ModulesBegun, SetupsFailed
  <2>3. TotalIn(Nat)' = TotalIn(Nat) /\ PassedIn(Nat)' = PassedIn(Nat)
    BY <2>1 DEF TotalIn, PassedIn, TestsIn, Totals, Passes
  <2> QED BY <2>1, <2>2, <2>3 DEF Counting, Running
<1>6. ASSUME NEW ok \in BOOLEAN, Setup(ok) PROVE Counting' BY <1>0, <1>6, CountingSetup
<1>7. ASSUME NEW ok \in BOOLEAN, Teardown(ok) PROVE Counting'
  BY <1>0, <1>7, CountingTeardown
<1>8. ASSUME NEW ok \in BOOLEAN, NEW n \in Counts, Test(ok, n) PROVE Counting'
  BY <1>0, <1>8, CountingTest
<1>9. CASE UNCHANGED <<vars, unitVars>> BY <1>1, <1>9
<1> QED BY <1>2, <1>3, <1>4, <1>5, <1>6, <1>7, <1>8, <1>9 DEF UnitNext

\* The counters over all modules are the modules whose setup went well and the
\* sums of what their tests counted, but for a module that was cut short
\* (unit_module_exec, unit_module_init, unit_module_exit).
THEOREM CountsWhatRan == UnitSpec => []CountsExact
<1>1. UnitInit => Counting
  <2>1. UnitInit => Uncounted BY RunInvInit DEF UnitInit, Uncounted, RunInv
  <2> QED BY <2>1, UncountedCounts
<1>2. RunInv /\ Verdict /\ Counting => CountsExact
  <2> SUFFICES ASSUME RunInv, Verdict, Counting, ustep \in {"next", "ended", "crash"}
               PROVE  CountsExact
    BY DEF CountsExact
  <2>0. RunTypes BY DEF RunInv
  <2> DEFINE counted == {k \in DOMAIN log : log[k].kind = "test" /\ ~CutShort(log[k].module)}
  <2>1. counted = TestsIn(NotCut) BY <2>0, LogFacts DEF TestsIn, NotCut
  <2>2. cummulative.total = TotalIn(NotCut) /\ cummulative.passed = PassedIn(NotCut)
    <3>1. CASE ustep = "ended" BY <3>1 DEF Counting
    <3>2. CASE ustep \in {"next", "crash"}
      <4>1. \A j : ~CutShort(j) BY <3>2 DEF Verdict, Running, CutShort
      <4>2. NotCut = Nat BY <4>1 DEF NotCut
      <4> QED BY <3>2, <4>2 DEF Counting
    <3> QED BY <3>1, <3>2
  <2>3. counted \in SUBSET DOMAIN log OBVIOUS
  <2>4. MapThenSumSet(LAMBDA k : log[k].total, counted) = SumOver(Totals, counted)
    <3> HIDE DEF counted
    <3> QED BY <2>0, <2>3, TotalIs
  <2>5. MapThenSumSet(LAMBDA k : log[k].passed, counted) = SumOver(Passes, counted)
    <3> HIDE DEF counted
    <3> QED BY <2>0, <2>3, PassedIs
  <2>6. /\ cummulative.total = MapThenSumSet(LAMBDA k : log[k].total, counted)
        /\ cummulative.passed = MapThenSumSet(LAMBDA k : log[k].passed, counted)
    BY <2>1, <2>2, <2>4, <2>5 DEF TotalIn, PassedIn
  <2>7. cummulative.modules = Cardinality(ModulesBegun) - Cardinality(SetupsFailed)
    BY DEF Counting
  <2> QED BY <2>6, <2>7 DEF CountsExact, ModulesBegun, SetupsFailed
<1> QED BY <1>1, <1>2, CountingNext, Runs, PTL DEF UnitSpec
===============================================================================
