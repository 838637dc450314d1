------------------------------ MODULE TestRunner ------------------------------
(***************************************************************************)
(* The test runner of main.cpp: test cases register themselves before main *)
(* runs, the command line selects some of them, they are run category by   *)
(* category until one fails, and the process answers with an exit status.  *)
(* A test case is abstracted to what its call may come to; names are model *)
(* strings, and the substring tests of the selection a relation on them.   *)
(* Progress output and the layout of tables are left out.                  *)
(***************************************************************************)
EXTENDS Integers, Sequences, SequencesExt, FiniteSets

CONSTANTS
  Units,        \* translation unit -> its test cases, in the order they register
  category,     \* test case -> name of its category, "" for a sanity test
  group_name,   \* test case -> name of its group
  SortedNames,  \* all the names, in string order: that of std::map
  Patterns,     \* strings the options may hold
  Occurs,       \* <<pattern, name>>: the name contains the pattern
  Options,      \* the command lines considered
  MaxLeak       \* bound: |T::instance_count| stays within it

Tests == UNION {ToSet(Units[u]) : u \in DOMAIN Units}

NameSet == ToSet(SortedNames)

ASSUME RunnerAssumption ==
  /\ \A u \in DOMAIN Units : Units[u] \in Seq(Tests) /\ IsInjective(Units[u])
  /\ \A u, w \in DOMAIN Units : u # w => ToSet(Units[u]) \cap ToSet(Units[w]) = {}
  /\ category \in [Tests -> NameSet] /\ group_name \in [Tests -> NameSet]
  /\ IsInjective(SortedNames)
  /\ Occurs \subseteq Patterns \X NameSet
  /\ Options \subseteq [include_category : SUBSET Patterns,
                        exclude_category : SUBSET Patterns,
                        include_group : SUBSET Patterns,
                        exclude_group : SUBSET Patterns]
  /\ MaxLeak \in Nat

\* Of strings: "" comes before every other name, and contains no pattern.
ASSUME EmptyNameAssumption ==
  /\ SortedNames \in Seq(NameSet)
  /\ \A i \in DOMAIN SortedNames : SortedNames[i] = "" => i = 1
  /\ \A sub \in {"perf", "info"} : <<sub, "">> \notin Occurs

VARIABLES
  pc,            \* "static", "main", "organize", "perform", "report",
                 \* "exit", or "usage" when the command line asks for no run
  initialized,   \* units whose static constructors have run
  first_avail,   \* the list of registered test cases, last registered first
  options,       \* the four vectors of patterns
  listed,        \* how many of the list organize_test_cases has looked at
  g_test_table,  \* category -> group -> test cases, in the order of the list
  cats_left,     \* keys the loop over g_test_table has still to visit
  cat,           \* the category it is in
  groups_left,   \* keys the loop over the category has still to visit
  tests_left,    \* test cases of the group that are still to be called
  ran,           \* history: calls made and what they came to
  instance_count,\* T::instance_count
  pool_clean,    \* the global pool holds no object
  ret            \* "none", then the status: 0, -1, or that of a process that died

selection == <<initialized, first_avail, options>>
table == <<listed, g_test_table>>
loops == <<cats_left, cat, groups_left, tests_left>>
leaks == <<instance_count, pool_clean>>
vars == <<pc, selection, table, loops, ran, leaks, ret>>

-----------------------------------------------------------------------------
(* Static initialization: the order of the units is the linker's.               *)

NoTable == [c \in {} |-> <<>>]

\* The constructors of TestCase in one unit, each putting itself at the front.
RegisterUnit(u) ==
  /\ pc = "static"
  /\ u \notin initialized
  /\ initialized' = initialized \cup {u}
  /\ first_avail' = Reverse(Units[u]) \o first_avail
  /\ UNCHANGED <<pc, options, table, loops, ran, leaks, ret>>

-----------------------------------------------------------------------------
(* main.                                                                        *)

EnterMain ==
  /\ pc = "static"
  /\ initialized = DOMAIN Units
  /\ pc' = "main"
  /\ UNCHANGED <<selection, table, loops, ran, leaks, ret>>

\* The command line is accepted.
ParseOk(o) ==
  /\ pc = "main"
  /\ options' = o
  /\ pc' = "organize"
  /\ UNCHANGED <<initialized, first_avail, table, loops, ran, leaks, ret>>

\* --help, even among erroneous arguments, or else an error: main returns before
\* any test is run and any leak is looked for.
ParseStops ==
  /\ pc = "main"
  /\ ret' \in {"success", "failure"}
  /\ pc' = "usage"
  /\ UNCHANGED <<selection, table, loops, ran, leaks>>

is_matched(name, tbl) == \E sub \in tbl : <<sub, name>> \in Occurs

\* Mutant: sanity tests are selected like all the others.
SelectedNoExemption(t) ==
  /\ is_matched(category[t], options.include_category)
  /\ ~ is_matched(category[t], options.exclude_category)
  /\ options.include_group = {} \/ is_matched(group_name[t], options.include_group)
  /\ ~ is_matched(group_name[t], options.exclude_group)

Selected(t) ==
  \/ category[t] = ""
  \/ /\ is_matched(category[t], options.include_category)
     /\ ~ is_matched(category[t], options.exclude_category)
     /\ \/ options.include_group = {}
        \/ is_matched(group_name[t], options.include_group)
     /\ ~ is_matched(group_name[t], options.exclude_group)

IsTabular(name) == is_matched(name, {"perf", "info"})

\* What a map holds at a key; operator[] makes an entry where there is none.
At(map, key, none) == IF key \in DOMAIN map THEN map[key] ELSE none
Put(map, key, value) == [k \in DOMAIN map \cup {key} |-> IF k = key THEN value ELSE map[k]]

push_back(t) ==
  LET groups == At(g_test_table, category[t], NoTable)
      tests == At(groups, group_name[t], <<>>)
  IN  Put(g_test_table, category[t], Put(groups, group_name[t], Append(tests, t)))

\* One test case of the list.
organize_test_cases ==
  /\ pc = "organize" /\ listed < Len(first_avail)
  /\ LET t == first_avail[listed + 1]
     IN  g_test_table' = IF Selected(t) THEN push_back(t) ELSE g_test_table
  /\ listed' = listed + 1
  /\ UNCHANGED <<pc, selection, loops, ran, leaks, ret>>

Organized ==
  /\ pc = "organize" /\ listed = Len(first_avail)
  /\ cats_left' = DOMAIN g_test_table
  /\ pc' = "perform"
  /\ UNCHANGED <<selection, table, cat, groups_left, tests_left, ran, leaks, ret>>

-----------------------------------------------------------------------------
(* perform_test_cases: a loop over the categories, in it one over the groups,   *)
(* in it one over the tests or, in a table, the front test.  A map is visited    *)
(* in the order of its keys.  A call returns 0 or another number or throws a     *)
(* std::exception, and may leave T objects behind, destroy some twice or leave   *)
(* objects in the pool.                                                         *)

Precedes(n, m) == \E i, j \in DOMAIN SortedNames : i < j /\ SortedNames[i] = n /\ SortedNames[j] = m
IsLeast(n, S) == n \in S /\ \A m \in S \ {n} : Precedes(n, m)

NextCategory ==
  /\ pc = "perform" /\ groups_left = {} /\ tests_left = <<>>
  /\ \E c \in cats_left :
       /\ IsLeast(c, cats_left)
       /\ cats_left' = cats_left \ {c}
       /\ cat' = c
       /\ groups_left' = DOMAIN g_test_table[c]
  /\ UNCHANGED <<pc, selection, table, tests_left, ran, leaks, ret>>

\* Mutant: every test of a group of a tabular category is called.
CalledAll(g) == IF IsTabular(cat) /\ g = "" THEN <<>> ELSE g_test_table[cat][g]

\* Of a group: every test, or in a table the front test if the group has a name.
Called(g) ==
  LET tests == g_test_table[cat][g]
  IN  IF ~ IsTabular(cat) THEN tests
      ELSE IF g = "" \/ tests = <<>> THEN <<>> ELSE <<Head(tests)>>

NextGroup ==
  /\ pc = "perform" /\ tests_left = <<>>
  /\ \E g \in groups_left :
       /\ IsLeast(g, groups_left)
       /\ groups_left' = groups_left \ {g}
       /\ tests_left' = Called(g)
  /\ UNCHANGED <<pc, selection, table, cats_left, cat, ran, leaks, ret>>

Call(result) ==
  /\ pc = "perform"
  /\ tests_left # <<>>
  /\ tests_left' = Tail(tests_left)
  /\ ran' = Append(ran, [test |-> Head(tests_left), result |-> result])
  /\ \E leak \in {-1, 0, 1} :
       /\ instance_count + leak \in -MaxLeak .. MaxLeak
       /\ instance_count' = instance_count + leak
  /\ pool_clean' \in {pool_clean, FALSE}
  /\ UNCHANGED <<selection, table, cats_left, cat, groups_left>>

\* A result that is not 0 fails a common test; in a table it is just printed.
Fails(result) ==
  \/ result = "throws"
  \/ result = "nonzero" /\ ~ IsTabular(cat)

CallPasses(result) ==
  /\ Call(result)
  /\ ~ Fails(result)
  /\ UNCHANGED <<pc, ret>>

\* The exception ends the loop over the categories: nothing more is run.
CallFails(result) ==
  /\ Call(result)
  /\ Fails(result)
  /\ ret' = "failure"
  /\ pc' = "report"

\* std::terminate in a test: neither the failure nor the leaks are reported.
CallTerminates ==
  /\ Call("terminates")
  /\ ret' = "terminated"
  /\ pc' = "exit"

AllCalled ==
  /\ pc = "perform" /\ cats_left = {} /\ groups_left = {} /\ tests_left = <<>>
  /\ ret' = "success"
  /\ pc' = "report"
  /\ UNCHANGED <<selection, table, loops, ran, leaks>>

\* Mutant: an object destroyed twice is not seen.
CheckLeaksPositive ==
  /\ pc = "report"
  /\ ret' = IF instance_count > 0 \/ ~ pool_clean THEN "failure" ELSE ret
  /\ pc' = "exit"
  /\ UNCHANGED <<selection, table, loops, ran, leaks>>

\* The checks for undestroyed T objects and for objects left in the pool.
CheckLeaks ==
  /\ pc = "report"
  /\ ret' = IF instance_count # 0 \/ ~ pool_clean THEN "failure" ELSE ret
  /\ pc' = "exit"
  /\ UNCHANGED <<selection, table, loops, ran, leaks>>

-----------------------------------------------------------------------------
Exited == pc \in {"exit", "usage"} /\ UNCHANGED vars

NoOptions == [include_category |-> {}, exclude_category |-> {},
              include_group |-> {}, exclude_group |-> {}]

Init ==
  /\ pc = "static"
  /\ initialized = {}
  /\ first_avail = <<>>
  /\ options = NoOptions
  /\ listed = 0
  /\ g_test_table = NoTable
  /\ cats_left = {} /\ cat = "" /\ groups_left = {} /\ tests_left = <<>>
  /\ ran = <<>>
  /\ instance_count = 0
  /\ pool_clean = TRUE
  /\ ret = "none"

Next ==
  \/ \E u \in DOMAIN Units : RegisterUnit(u)
  \/ EnterMain
  \/ \E o \in Options : ParseOk(o)
  \/ ParseStops
  \/ organize_test_cases \/ Organized
  \/ NextCategory \/ NextGroup
  \/ \E r \in {"zero", "nonzero", "throws"} : CallPasses(r) \/ CallFails(r)
  \/ CallTerminates
  \/ AllCalled
  \/ CheckLeaks
  \/ Exited

Spec == Init /\ [][Next]_vars

-----------------------------------------------------------------------------
(* Properties.                                                                  *)

RanTests == {ran[i].test : i \in DOMAIN ran}

\* t is after u in the order the two have registered in.
RegisteredAfter(t, u) ==
  \E i, j \in DOMAIN first_avail : i < j /\ first_avail[i] = t /\ first_avail[j] = u

\* What the options ask for, told of each test alone: a selected test of a common
\* category, and the last registered of the selected ones of a tabular group.
Wanted ==
  {t \in Tests :
     /\ Selected(t)
     /\ IsTabular(category[t]) =>
          /\ group_name[t] # ""
          /\ ~ \E u \in Tests : /\ category[u] = category[t]
                                /\ group_name[u] = group_name[t]
                                /\ Selected(u) /\ RegisteredAfter(u, t)}

\* A session that reports success has run each wanted test once and nothing else,
\* whatever order the units have registered in (main.cpp:97 and 147).
SuccessRunsEverythingOnce ==
  pc = "exit" /\ ret = "success" =>
    /\ RanTests = Wanted
    /\ \A i, j \in DOMAIN ran : ran[i].test = ran[j].test => i = j

\* No option keeps a sanity test from being run, and no other test is run before
\* every sanity test has returned 0 (main.cpp:98 and the order of the map).
SanityFirst ==
  (\E t \in RanTests : category[t] # "") =>
    \A s \in Tests : category[s] = "" =>
      \E i \in DOMAIN ran : ran[i].test = s /\ ran[i].result = "zero"

BadRun(r) ==
  \/ r.result \in {"throws", "terminates"}
  \/ r.result = "nonzero" /\ ~ IsTabular(category[r.test])

\* Once a test has failed no other is called: a session shows one failure at most.
StopsAtFirstFailure ==
  [][(\E i \in DOMAIN ran : BadRun(ran[i])) => ran' = ran]_vars

\* The status is 0 exactly when no call failed and nothing is seen to be left over.
ExitStatusIsHonest ==
  pc = "exit" =>
    (ret = "success" <=> /\ \A i \in DOMAIN ran : ~ BadRun(ran[i])
                         /\ instance_count = 0
                         /\ pool_clean)

\* README.md:67-70: by default g_include_test_category is {"brute"}, so that a run
\* without options includes the brute-force tests.
DefaultRunsBruteTests ==
  pc = "exit" /\ ret = "success" /\ options = NoOptions =>
    {t \in Tests : is_matched(category[t], {"brute"})} \subseteq RanTests

=============================================================================
