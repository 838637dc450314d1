--------------------------- MODULE TestRunnerProofs ---------------------------
(***************************************************************************)
(* Theorems about TestRunner, for any units, names, options and outcomes.   *)
(* The table is related to the list as far as organize_test_cases has       *)
(* looked at it, the calls to the table as far as the three loops have got. *)
(***************************************************************************)
EXTENDS TestRunner, SequenceTheorems, TLAPS

Results == {"zero", "nonzero", "throws", "terminates"}

-----------------------------------------------------------------------------
(* The invariant.                                                              *)

TypeInv ==
  /\ pc \in {"static", "main", "organize", "perform", "report", "exit", "usage"}
  /\ ran \in Seq([test : Tests, result : Results])
  /\ instance_count \in Int /\ pool_clean \in BOOLEAN
  /\ pc \in {"static", "main", "organize", "usage"} => ran = <<>>

\* The list holds each test of the units initialized once.
ListInv ==
  /\ initialized \subseteq DOMAIN Units
  /\ pc # "static" => initialized = DOMAIN Units
  /\ first_avail \in Seq(Tests)
  /\ IsInjective(first_avail)
  /\ ToSet(first_avail) = UNION {ToSet(Units[u]) : u \in initialized}

Looked == {first_avail[i] : i \in 1 .. listed}

\* A group holds selected tests of its own, in the order of the list.
GroupOk(c, g) ==
  LET tests == g_test_table[c][g] IN
  /\ tests \in Seq(Tests) /\ tests # <<>>
  /\ \A i \in DOMAIN tests :
       /\ tests[i] \in Looked /\ Selected(tests[i])
       /\ category[tests[i]] = c /\ group_name[tests[i]] = g
  /\ \A i, j \in DOMAIN tests : i < j => RegisteredAfter(tests[i], tests[j])

Entered(t) ==
  /\ category[t] \in DOMAIN g_test_table
  /\ group_name[t] \in DOMAIN g_test_table[category[t]]
  /\ t \in ToSet(g_test_table[category[t]][group_name[t]])

TableInv ==
  /\ listed \in 0 .. Len(first_avail)
  /\ pc \in {"static", "main"} => listed = 0
  /\ pc \in {"perform", "report", "exit"} => listed = Len(first_avail)
  /\ \A c \in DOMAIN g_test_table : \A g \in DOMAIN g_test_table[c] : GroupOk(c, g)
  /\ \A t \in Looked : Selected(t) => Entered(t)

\* What is to be called, by the table.
Due(t) ==
  /\ t \in Tests /\ Selected(t)
  /\ IsTabular(category[t]) =>
       group_name[t] # "" /\ t = Head(g_test_table[category[t]][group_name[t]])

Pending(t) ==
  \/ category[t] \in cats_left
  \/ category[t] = cat /\ group_name[t] \in groups_left
  \/ t \in ToSet(tests_left)

Inside == groups_left # {} \/ tests_left # <<>>

LoopInv ==
  /\ cats_left \subseteq DOMAIN g_test_table
  /\ groups_left # {} => cat \in DOMAIN g_test_table /\ groups_left \subseteq DOMAIN g_test_table[cat]
  /\ Inside => cat \notin cats_left
  /\ Inside /\ cat # "" => "" \notin cats_left
  /\ tests_left \in Seq(Tests) /\ IsInjective(tests_left)
  /\ \A t \in ToSet(tests_left) : Due(t) /\ category[t] = cat /\ group_name[t] \notin groups_left

CallInv ==
  /\ \A t \in Tests : Due(t) => (t \in RanTests <=> ~ Pending(t))
  /\ \A t \in RanTests : Due(t)

Once == \A i, j \in DOMAIN ran : ran[i].test = ran[j].test => i = j

NoneBad == \A i \in DOMAIN ran : ~ BadRun(ran[i])

EndInv ==
  /\ pc = "perform" => NoneBad
  /\ pc = "report" => (ret = "success" <=> NoneBad)
  /\ pc \in {"report", "exit"} /\ ret = "success" => RanTests = {t \in Tests : Due(t)}

\* The loops have not begun.
IdleInv ==
  pc \in {"static", "main", "organize"} =>
    cats_left = {} /\ groups_left = {} /\ tests_left = <<>>

RunInv == Once /\ EndInv /\ SanityFirst /\ ExitStatusIsHonest

IInv ==
  /\ TypeInv /\ ListInv /\ TableInv /\ IdleInv /\ RunInv
  /\ pc = "perform" => LoopInv /\ CallInv

-----------------------------------------------------------------------------
(* Sequences.                                                                  *)

LEMMA AppendSet ==
  ASSUME NEW S, NEW s \in Seq(S), NEW e \in S
  PROVE  ToSet(Append(s, e)) = ToSet(s) \cup {e}
<1> QED  BY AppendProperties DEF ToSet

LEMMA FirstAndRest ==
  ASSUME NEW S, NEW s \in Seq(S), s # <<>>
  PROVE  /\ Head(s) \in S /\ Tail(s) \in Seq(S)
         /\ ToSet(s) = {Head(s)} \cup ToSet(Tail(s))
         /\ IsInjective(s) => IsInjective(Tail(s)) /\ Head(s) \notin ToSet(Tail(s))
<1>1. /\ Head(s) = s[1] /\ Head(s) \in S /\ Tail(s) \in Seq(S)
      /\ Len(s) \in Nat \ {0} /\ Len(Tail(s)) = Len(s) - 1
      /\ DOMAIN s = 1 .. Len(s) /\ DOMAIN Tail(s) = 1 .. (Len(s) - 1)
      /\ \A i \in 1 .. (Len(s) - 1) : Tail(s)[i] = s[i + 1]
  OBVIOUS
<1>2. ToSet(s) = {Head(s)} \cup ToSet(Tail(s))
  <2>1. ASSUME NEW x \in ToSet(s) PROVE x \in {Head(s)} \cup ToSet(Tail(s))
    <3>1. PICK i \in 1 .. Len(s) : x = s[i]
      BY <1>1 DEF ToSet
    <3>2. CASE i = 1
      BY <1>1, <3>1, <3>2
    <3>3. CASE i # 1
      <4>1. i - 1 \in 1 .. (Len(s) - 1) /\ Tail(s)[i - 1] = s[i]
        BY <1>1, <3>3
      <4> QED  BY <4>1, <3>1, <1>1 DEF ToSet
    <3> QED  BY <3>2, <3>3
  <2>2. ASSUME NEW x \in ToSet(Tail(s)) PROVE x \in ToSet(s)
    <3>1. PICK i \in 1 .. (Len(s) - 1) : x = Tail(s)[i]
      BY <1>1 DEF ToSet
    <3>2. i + 1 \in 1 .. Len(s) /\ x = s[i + 1]
      BY <3>1, <1>1
    <3> QED  BY <3>2, <1>1 DEF ToSet
  <2>3. Head(s) \in ToSet(s)
    BY <1>1 DEF ToSet
  <2> QED  BY <2>1, <2>2, <2>3
<1>3. ASSUME IsInjective(s)
      PROVE  IsInjective(Tail(s)) /\ Head(s) \notin ToSet(Tail(s))
  BY <1>1, <1>3 DEF IsInjective, ToSet
<1> QED  BY <1>1, <1>2, <1>3

LEMMA JoinReversed ==
  ASSUME NEW S, NEW s \in Seq(S), NEW r \in Seq(S)
  PROVE  /\ Reverse(s) \o r \in Seq(S)
         /\ ToSet(Reverse(s) \o r) = ToSet(s) \cup ToSet(r)
         /\ IsInjective(s) /\ IsInjective(r) /\ ToSet(s) \cap ToSet(r) = {}
              => IsInjective(Reverse(s) \o r)
<1> DEFINE q == Reverse(s)
           j == q \o r
<1>1. /\ q \in Seq(S) /\ Len(q) = Len(s)
      /\ \A i \in 1 .. Len(s) : q[i] = s[(Len(s) - i) + 1]
  BY DEF Reverse
<1>2. /\ j \in Seq(S) /\ Len(j) = Len(s) + Len(r)
      /\ \A i \in 1 .. Len(s) : j[i] = s[(Len(s) - i) + 1]
      /\ \A i \in (Len(s) + 1) .. (Len(s) + Len(r)) : j[i] = r[i - Len(s)]
  <2> HIDE DEF q
  <2>1. j \in Seq(S) /\ Len(j) = Len(s) + Len(r)
    <3>1. q \in Seq(S) /\ Len(q) = Len(s)
      BY <1>1
    <3> QED  BY <3>1
  <2>2. ASSUME NEW i \in 1 .. Len(s) PROVE j[i] = s[(Len(s) - i) + 1]
    BY <1>1, ConcatProperties
  <2>3. ASSUME NEW i \in (Len(s) + 1) .. (Len(s) + Len(r)) PROVE j[i] = r[i - Len(s)]
    BY <1>1
  <2> QED  BY <2>1, <2>2, <2>3
<1> HIDE DEF q, j
<1>3. DOMAIN s = 1 .. Len(s) /\ DOMAIN r = 1 .. Len(r) /\ DOMAIN j = 1 .. (Len(s) + Len(r))
      /\ Len(s) \in Nat /\ Len(r) \in Nat
  BY <1>2
<1>4. ToSet(j) = ToSet(s) \cup ToSet(r)
  <2>1. ASSUME NEW x \in ToSet(j) PROVE x \in ToSet(s) \cup ToSet(r)
    <3>1. PICK i \in 1 .. (Len(s) + Len(r)) : x = j[i]
      BY <1>3 DEF ToSet
    <3>2. CASE i <= Len(s)
      <4>1. (Len(s) - i) + 1 \in 1 .. Len(s) /\ x = s[(Len(s) - i) + 1]
        BY <1>2, <1>3, <3>1, <3>2
      <4> QED  BY <4>1, <1>3 DEF ToSet
    <3>3. CASE i > Len(s)
      <4>1. i - Len(s) \in 1 .. Len(r) /\ x = r[i - Len(s)]
        BY <1>2, <1>3, <3>1, <3>3
      <4> QED  BY <4>1, <1>3 DEF ToSet
    <3> QED  BY <3>2, <3>3, <1>3
  <2>2. ASSUME NEW x \in ToSet(s) PROVE x \in ToSet(j)
    <3>1. PICK i \in 1 .. Len(s) : x = s[i]
      BY <1>3 DEF ToSet
    <3> DEFINE k == (Len(s) - i) + 1
    <3>2. k \in 1 .. Len(s) /\ (Len(s) - k) + 1 = i /\ k \in DOMAIN j
      BY <1>3
    <3>3. j[k] = s[(Len(s) - k) + 1]
      BY <3>2, <1>2
    <3> HIDE DEF k
    <3> QED  BY <3>1, <3>2, <3>3 DEF ToSet
  <2>3. ASSUME NEW x \in ToSet(r) PROVE x \in ToSet(j)
    <3>1. PICK i \in 1 .. Len(r) : x = r[i]
      BY <1>3 DEF ToSet
    <3>2. Len(s) + i \in (Len(s) + 1) .. (Len(s) + Len(r)) /\ j[Len(s) + i] = r[i]
      BY <1>2, <1>3
    <3> QED  BY <3>1, <3>2, <1>3 DEF ToSet
  <2> QED  BY <2>1, <2>2, <2>3
<1>5. ASSUME IsInjective(s), IsInjective(r), ToSet(s) \cap ToSet(r) = {},
             NEW a \in 1 .. (Len(s) + Len(r)), NEW b \in 1 .. (Len(s) + Len(r)), j[a] = j[b]
      PROVE  a = b
  <2>1. CASE a <= Len(s) /\ b <= Len(s)
    <3>1. (Len(s) - a) + 1 \in DOMAIN s /\ (Len(s) - b) + 1 \in DOMAIN s
      BY <1>3, <2>1
    <3>2. s[(Len(s) - a) + 1] = s[(Len(s) - b) + 1]
      BY <1>2, <1>3, <1>5, <2>1
    <3>3. (Len(s) - a) + 1 = (Len(s) - b) + 1
      BY <3>1, <3>2, <1>5 DEF IsInjective
    <3> QED  BY <3>3, <1>3
  <2>2. CASE a > Len(s) /\ b > Len(s)
    <3>1. a - Len(s) \in DOMAIN r /\ b - Len(s) \in DOMAIN r
      BY <1>3, <2>2
    <3>a. a \in (Len(s) + 1) .. (Len(s) + Len(r)) /\ b \in (Len(s) + 1) .. (Len(s) + Len(r))
      BY <1>3, <2>2
    <3>2. r[a - Len(s)] = r[b - Len(s)]
      BY <3>a, <1>2, <1>5
    <3>3. a - Len(s) = b - Len(s)
      BY <3>1, <3>2, <1>5 DEF IsInjective
    <3> QED  BY <3>3, <1>3
  <2>3. ASSUME NEW c \in 1 .. Len(s), NEW d \in (Len(s) + 1) .. (Len(s) + Len(r)), j[c] = j[d]
        PROVE  FALSE
    <3>1. (Len(s) - c) + 1 \in DOMAIN s /\ d - Len(s) \in DOMAIN r
      BY <1>3
    <3>2. s[(Len(s) - c) + 1] = r[d - Len(s)]
      BY <1>2, <1>3, <2>3
    <3> QED  BY <3>1, <3>2, <1>5 DEF ToSet
  <2>4. CASE a <= Len(s) /\ b > Len(s)
    BY <2>3, <2>4, <1>3, <1>5
  <2>5. CASE a > Len(s) /\ b <= Len(s)
    BY <2>3, <2>5, <1>3, <1>5
  <2> QED  BY <2>1, <2>2, <2>4, <2>5, <1>3
<1>6. IsInjective(s) /\ IsInjective(r) /\ ToSet(s) \cap ToSet(r) = {} => IsInjective(j)
  BY <1>5, <1>3 DEF IsInjective
<1> QED  BY <1>2, <1>4, <1>6 DEF j, q

-----------------------------------------------------------------------------
(* What an action leaves as it was.                                            *)

LEMMA ListKept ==
  ASSUME ListInv, UNCHANGED selection, pc' # "static" => initialized = DOMAIN Units
  PROVE  ListInv'
BY DEF ListInv, selection

LEMMA DueKept ==
  ASSUME UNCHANGED <<selection, table>>
  PROVE  /\ Looked' = Looked
         /\ \A t : Selected(t)' <=> Selected(t)
         /\ \A t : Due(t)' <=> Due(t)
         /\ \A t : Entered(t)' <=> Entered(t)
         /\ \A t, u : RegisteredAfter(t, u)' <=> RegisteredAfter(t, u)
<1> USE DEF selection, table
<1>1. Looked' = Looked
  BY DEF Looked
<1>2. ASSUME NEW t PROVE Selected(t)' <=> Selected(t)
  BY DEF Selected, is_matched
<1>3. ASSUME NEW t PROVE Due(t)' <=> Due(t)
  BY <1>2 DEF Due
<1>4. ASSUME NEW t PROVE Entered(t)' <=> Entered(t)
  BY DEF Entered
<1>5. ASSUME NEW t, NEW u PROVE RegisteredAfter(t, u)' <=> RegisteredAfter(t, u)
  BY DEF RegisteredAfter
<1> QED  BY <1>1, <1>2, <1>3, <1>4, <1>5

LEMMA TableKept ==
  ASSUME TableInv, UNCHANGED <<selection, table>>,
         pc' \in {"static", "main"} => listed = 0,
         pc' \in {"perform", "report", "exit"} => listed = Len(first_avail)
  PROVE  TableInv'
<1> USE DEF selection, table
<1>1. ASSUME NEW c \in DOMAIN g_test_table, NEW g \in DOMAIN g_test_table[c]
      PROVE  GroupOk(c, g)'
  <2>1. GroupOk(c, g)
    BY DEF TableInv
  <2> QED  BY <2>1, DueKept DEF GroupOk
<1>2. ASSUME NEW t \in Looked, Selected(t)' PROVE Entered(t)'
  BY <1>2, DueKept DEF TableInv
<1>3. Looked' = Looked
  BY DueKept
<1> QED  BY <1>1, <1>2, <1>3 DEF TableInv

LEMMA HistoryKept ==
  ASSUME UNCHANGED ran
  PROVE  /\ RanTests' = RanTests
         /\ Once' <=> Once
         /\ NoneBad' <=> NoneBad
         /\ SanityFirst' <=> SanityFirst
<1>1. RanTests' = RanTests
  BY DEF RanTests
<1>2. Once' <=> Once
  BY DEF Once
<1>3. NoneBad' <=> NoneBad
  BY DEF NoneBad, BadRun
<1>4. SanityFirst' <=> SanityFirst
  BY <1>1 DEF SanityFirst
<1> QED  BY <1>1, <1>2, <1>3, <1>4

-----------------------------------------------------------------------------
(* The initial state and the steps before the tests are organized.             *)

LEMMA InitIInv == Init => IInv
<1> SUFFICES ASSUME Init PROVE IInv
  OBVIOUS
<1>1. /\ pc = "static" /\ initialized = {} /\ first_avail = <<>> /\ listed = 0
      /\ cats_left = {} /\ groups_left = {} /\ tests_left = <<>>
      /\ ran = <<>> /\ instance_count = 0
  BY DEF Init
<1>2. g_test_table = NoTable /\ pool_clean = TRUE
  BY DEF Init
<1>3. TypeInv
  <2>1. pool_clean \in BOOLEAN
    BY <1>2
  <2> QED  BY <1>1, <2>1 DEF TypeInv
<1>4. ListInv
  BY <1>1 DEF ListInv, IsInjective, ToSet
<1>5. TableInv
  <2>1. Looked = {}
    BY <1>1 DEF Looked
  <2>2. DOMAIN g_test_table = {}
    BY <1>2 DEF NoTable
  <2> QED  BY <1>1, <2>1, <2>2 DEF TableInv
<1>6. IdleInv
  BY <1>1 DEF IdleInv
<1>7. RunInv
  BY <1>1 DEF RunInv, Once, EndInv, SanityFirst, ExitStatusIsHonest, RanTests
<1> QED  BY <1>1, <1>3, <1>4, <1>5, <1>6, <1>7 DEF IInv

LEMMA RegisterUnitIInv ==
  ASSUME IInv, NEW u \in DOMAIN Units, RegisterUnit(u)
  PROVE  IInv'
<1> USE DEF RegisterUnit, table, loops, leaks
<1>1. TypeInv'
  BY DEF IInv, TypeInv
<1>2. ListInv'
  <2>1. Units[u] \in Seq(Tests) /\ IsInjective(Units[u])
    BY RunnerAssumption
  <2>2. ToSet(Units[u]) \cap ToSet(first_avail) = {}
    BY RunnerAssumption DEF IInv, ListInv
  <2>3. /\ first_avail' \in Seq(Tests)
        /\ ToSet(first_avail') = ToSet(Units[u]) \cup ToSet(first_avail)
        /\ IsInjective(first_avail')
    BY <2>1, <2>2, JoinReversed DEF IInv, ListInv
  <2> QED  BY <2>3 DEF IInv, ListInv
<1>3. TableInv'
  <2>1. Looked = {} /\ Looked' = {} /\ listed' = 0 /\ pc' = "static"
    BY DEF IInv, TableInv, Looked
  <2>2. \A c \in DOMAIN g_test_table : DOMAIN g_test_table[c] = {}
    <3>1. SUFFICES ASSUME NEW c \in DOMAIN g_test_table, NEW g \in DOMAIN g_test_table[c]
                   PROVE  FALSE
      OBVIOUS
    <3>2. GroupOk(c, g)
      BY DEF IInv, TableInv
    <3> QED  BY <3>2, <2>1 DEF GroupOk
  <2>3. listed' \in 0 .. Len(first_avail')
    BY <1>2, <2>1 DEF ListInv
  <2> QED  BY <2>1, <2>2, <2>3 DEF TableInv
<1>4. IdleInv'
  BY DEF IInv, IdleInv
<1>5. RunInv'
  BY HistoryKept DEF IInv, RunInv, EndInv, ExitStatusIsHonest
<1> QED  BY <1>1, <1>2, <1>3, <1>4, <1>5 DEF IInv

\* EnterMain and ParseStops.
LEMMA PrologueIInv ==
  ASSUME IInv, EnterMain \/ ParseStops
  PROVE  IInv'
<1> USE DEF EnterMain, ParseStops, selection, table, loops, leaks
<1>1. TypeInv'
  BY DEF IInv, TypeInv
<1>2. ListInv'
  BY ListKept DEF IInv, ListInv
<1>3. TableInv'
  BY TableKept DEF IInv, TableInv
<1>4. IdleInv'
  BY DEF IInv, IdleInv
<1>5. RunInv'
  BY HistoryKept DEF IInv, RunInv, EndInv, ExitStatusIsHonest
<1> QED  BY <1>1, <1>2, <1>3, <1>4, <1>5 DEF IInv

LEMMA ParseOkIInv ==
  ASSUME IInv, NEW o \in Options, ParseOk(o)
  PROVE  IInv'
<1> USE DEF ParseOk, table, loops, leaks
<1>1. TypeInv'
  BY DEF IInv, TypeInv
<1>2. ListInv'
  BY DEF IInv, ListInv
<1>3. TableInv'
  <2>1. Looked = {} /\ Looked' = {} /\ listed' = 0 /\ pc' = "organize"
    BY DEF IInv, TableInv, Looked
  <2>2. \A c \in DOMAIN g_test_table : DOMAIN g_test_table[c] = {}
    <3>1. SUFFICES ASSUME NEW c \in DOMAIN g_test_table, NEW g \in DOMAIN g_test_table[c]
                   PROVE  FALSE
      OBVIOUS
    <3>2. GroupOk(c, g)
      BY DEF IInv, TableInv
    <3> QED  BY <3>2, <2>1 DEF GroupOk
  <2> QED  BY <2>1, <2>2 DEF IInv, TableInv
<1>4. IdleInv'
  BY DEF IInv, IdleInv
<1>5. RunInv'
  BY HistoryKept DEF IInv, RunInv, EndInv, ExitStatusIsHonest
<1> QED  BY <1>1, <1>2, <1>3, <1>4, <1>5 DEF IInv

-----------------------------------------------------------------------------
(* organize_test_cases.                                                        *)

\* The group a test belongs to, as found when the test is looked at.
Group(t) == At(At(g_test_table, category[t], NoTable), group_name[t], <<>>)

\* The test is put into its group, the other groups stay as they were.
LEMMA PushBack ==
  ASSUME NEW t, g_test_table' = push_back(t)
  PROVE  /\ DOMAIN g_test_table' = DOMAIN g_test_table \cup {category[t]}
         /\ group_name[t] \in DOMAIN g_test_table'[category[t]]
         /\ g_test_table'[category[t]][group_name[t]] = Append(Group(t), t)
         /\ \A c \in DOMAIN g_test_table : \A g \in DOMAIN g_test_table[c] :
              g \in DOMAIN g_test_table'[c]
         /\ \A c \in DOMAIN g_test_table' : \A g \in DOMAIN g_test_table'[c] :
              c # category[t] \/ g # group_name[t] =>
                /\ c \in DOMAIN g_test_table /\ g \in DOMAIN g_test_table[c]
                /\ g_test_table'[c][g] = g_test_table[c][g]
<1> DEFINE groups == At(g_test_table, category[t], NoTable)
<1>1. DOMAIN groups = IF category[t] \in DOMAIN g_test_table
                      THEN DOMAIN g_test_table[category[t]] ELSE {}
  BY DEF At, NoTable
<1>2. category[t] \in DOMAIN g_test_table => groups = g_test_table[category[t]]
  BY DEF At
<1>3. g_test_table' = Put(g_test_table, category[t],
                          Put(groups, group_name[t], Append(Group(t), t)))
  BY DEF push_back, Group
<1> HIDE DEF groups
<1>4. DOMAIN g_test_table' = DOMAIN g_test_table \cup {category[t]}
  BY <1>3 DEF Put
<1>5. g_test_table'[category[t]] = Put(groups, group_name[t], Append(Group(t), t))
  BY <1>3 DEF Put
<1>6. /\ DOMAIN g_test_table'[category[t]] = DOMAIN groups \cup {group_name[t]}
      /\ g_test_table'[category[t]][group_name[t]] = Append(Group(t), t)
      /\ \A g \in DOMAIN groups \ {group_name[t]} : g_test_table'[category[t]][g] = groups[g]
  BY <1>5 DEF Put
<1>7. \A c \in DOMAIN g_test_table \ {category[t]} : g_test_table'[c] = g_test_table[c]
  BY <1>3 DEF Put
<1> QED  BY <1>1, <1>2, <1>4, <1>6, <1>7

LEMMA PushBackElsewhere ==
  ASSUME NEW t, g_test_table' = push_back(t),
         NEW c \in DOMAIN g_test_table', NEW g \in DOMAIN g_test_table'[c],
         c # category[t] \/ g # group_name[t]
  PROVE  g_test_table'[c][g] = g_test_table[c][g]
<1> QED  BY PushBack

LEMMA RegisteredAfterOrder ==
  ASSUME ListInv
  PROVE  /\ \A t : ~ RegisteredAfter(t, t)
         /\ \A t, u : RegisteredAfter(t, u) => ~ RegisteredAfter(u, t)
<1>1. DOMAIN first_avail = 1 .. Len(first_avail)
  BY DEF ListInv
<1> QED  BY <1>1 DEF ListInv, IsInjective, RegisteredAfter

\* The test case looked at is not in its group yet: what main.cpp:104 asserts.
LEMMA NotYetLooked ==
  ASSUME ListInv, TableInv, listed < Len(first_avail)
  PROVE  /\ first_avail[listed + 1] \in Tests \ Looked
         /\ \A u \in Looked : RegisteredAfter(u, first_avail[listed + 1])
<1>1. /\ listed \in Nat /\ listed + 1 \in DOMAIN first_avail
      /\ \A i \in 1 .. listed : i \in DOMAIN first_avail
      /\ first_avail \in Seq(Tests)
  BY DEF ListInv, TableInv
<1>2. first_avail[listed + 1] \in Tests
  BY <1>1
<1>3. ASSUME NEW u \in Looked
      PROVE  u # first_avail[listed + 1] /\ RegisteredAfter(u, first_avail[listed + 1])
  <2>1. PICK i \in 1 .. listed : u = first_avail[i]
    BY DEF Looked
  <2>2. i \in DOMAIN first_avail /\ i # listed + 1 /\ i < listed + 1
    BY <1>1
  <2>3. u # first_avail[listed + 1]
    BY <2>1, <2>2, <1>1 DEF ListInv, IsInjective
  <2> QED  BY <2>1, <2>2, <2>3, <1>1 DEF RegisteredAfter
<1> QED  BY <1>2, <1>3

LEMMA OrganizeTableInv ==
  ASSUME IInv, organize_test_cases
  PROVE  TableInv'
<1>0. PICK t : t = first_avail[listed + 1]
  OBVIOUS
<1>1. /\ pc = "organize" /\ pc' = pc /\ listed < Len(first_avail) /\ listed' = listed + 1
      /\ UNCHANGED selection
      /\ g_test_table' = IF Selected(t) THEN push_back(t) ELSE g_test_table
  BY <1>0 DEF organize_test_cases
<1>2. /\ listed \in Nat /\ Len(first_avail) \in Nat
      /\ t \in Tests \ Looked
      /\ \A u \in Looked : RegisteredAfter(u, t)
  BY <1>0, <1>1, NotYetLooked DEF IInv, ListInv, TableInv
<1>3. Looked' = Looked \cup {t}
  <2>1. 1 .. listed' = (1 .. listed) \cup {listed + 1}
    BY <1>1, <1>2
  <2> QED  BY <2>1, <1>0, <1>1 DEF Looked, selection
<1>4. /\ \A u : Selected(u)' <=> Selected(u)
      /\ \A u, w : RegisteredAfter(u, w)' <=> RegisteredAfter(u, w)
  <2>1. ASSUME NEW u PROVE Selected(u)' <=> Selected(u)
    BY <1>1 DEF Selected, is_matched, selection
  <2>2. ASSUME NEW u, NEW w PROVE RegisteredAfter(u, w)' <=> RegisteredAfter(u, w)
    BY <1>1 DEF RegisteredAfter, selection
  <2> QED  BY <2>1, <2>2
<1>5. /\ listed' \in 0 .. Len(first_avail')
      /\ pc' \notin {"static", "main", "perform", "report", "exit"}
  BY <1>1, <1>2 DEF selection
<1>6. ASSUME NEW c \in DOMAIN g_test_table, NEW g \in DOMAIN g_test_table[c],
             c \in DOMAIN g_test_table', g \in DOMAIN g_test_table'[c],
             g_test_table'[c][g] = g_test_table[c][g]
      PROVE  GroupOk(c, g)'
  <2>1. GroupOk(c, g)
    BY DEF IInv, TableInv
  <2> QED  BY <2>1, <1>3, <1>4, <1>6 DEF GroupOk
<1>7. CASE ~ Selected(t)
  <2>1. g_test_table' = g_test_table
    BY <1>1, <1>7
  <2>2. \A u \in Looked' : Selected(u)' => Entered(u)'
    BY <2>1, <1>3, <1>4, <1>7 DEF IInv, TableInv, Entered
  <2>3. \A c \in DOMAIN g_test_table' : \A g \in DOMAIN g_test_table'[c] : GroupOk(c, g)'
    BY <2>1, <1>6
  <2> QED  BY <2>2, <2>3, <1>5 DEF TableInv
<1>8. CASE Selected(t)
  <2> DEFINE c == category[t]
             g == group_name[t]
  <2>1. g_test_table' = push_back(t)
    BY <1>1, <1>8
  <2>2. /\ Group(t) \in Seq(Tests)
        /\ \A i \in DOMAIN Group(t) :
             /\ Group(t)[i] \in Looked /\ Selected(Group(t)[i])
             /\ category[Group(t)[i]] = c /\ group_name[Group(t)[i]] = g
        /\ \A i, j \in DOMAIN Group(t) : i < j => RegisteredAfter(Group(t)[i], Group(t)[j])
    <3>1. CASE c \in DOMAIN g_test_table /\ g \in DOMAIN g_test_table[c]
      <4>1. Group(t) = g_test_table[c][g]
        BY <3>1 DEF Group, At
      <4>2. GroupOk(c, g)
        BY <3>1 DEF IInv, TableInv
      <4> QED  BY <4>1, <4>2 DEF GroupOk
    <3>2. CASE ~ (c \in DOMAIN g_test_table /\ g \in DOMAIN g_test_table[c])
      <4>1. Group(t) = <<>>
        BY <3>2 DEF Group, At, NoTable
      <4> QED  BY <4>1
    <3> QED  BY <3>1, <3>2
  <2>3. GroupOk(c, g)'
    <3> DEFINE l == Append(Group(t), t)
               n == Len(Group(t))
    <3>1. /\ l \in Seq(Tests) /\ l # <<>> /\ n \in Nat
          /\ DOMAIN l = 1 .. (n + 1) /\ DOMAIN Group(t) = 1 .. n
          /\ l[n + 1] = t /\ \A i \in 1 .. n : l[i] = Group(t)[i]
      BY <1>2, <2>2, AppendProperties
    <3>2. g_test_table'[c][g] = l
      BY <2>1, PushBack
    <3> HIDE DEF l, n
    <3>3. ASSUME NEW i \in 1 .. (n + 1)
          PROVE  /\ l[i] \in Looked' /\ Selected(l[i])
                 /\ category[l[i]] = c /\ group_name[l[i]] = g
      <4>1. CASE i = n + 1
        BY <4>1, <3>1, <1>3, <1>8
      <4>2. CASE i \in 1 .. n
        BY <4>2, <3>1, <2>2, <1>3
      <4> QED  BY <4>1, <4>2, <3>1
    <3>4. ASSUME NEW i \in 1 .. (n + 1), NEW j \in 1 .. (n + 1), i < j
          PROVE  RegisteredAfter(l[i], l[j])
      <4>1. i \in 1 .. n
        BY <3>4, <3>1
      <4>2. CASE j = n + 1
        BY <4>1, <4>2, <3>1, <2>2, <1>2
      <4>3. CASE j \in 1 .. n
        BY <4>1, <4>3, <3>1, <3>4, <2>2
      <4> QED  BY <4>2, <4>3, <3>1
    <3> QED  BY <3>1, <3>2, <3>3, <3>4, <1>4 DEF GroupOk
  <2>4. ASSUME NEW d \in DOMAIN g_test_table', NEW h \in DOMAIN g_test_table'[d]
        PROVE  GroupOk(d, h)'
    <3>1. CASE d = c /\ h = g
      BY <2>3, <3>1
    <3>2. CASE d # c \/ h # g
      <4>1. /\ d \in DOMAIN g_test_table /\ h \in DOMAIN g_test_table[d]
            /\ g_test_table'[d][h] = g_test_table[d][h]
        BY <2>1, <3>2, PushBack
      <4> QED  BY <4>1, <1>6
    <3> QED  BY <3>1, <3>2
  <2>5. ASSUME NEW u \in Looked', Selected(u)' PROVE Entered(u)'
    <3> DEFINE d == category[u]
               h == group_name[u]
    <3>1. CASE u = t
      <4>1. /\ c \in DOMAIN g_test_table' /\ g \in DOMAIN g_test_table'[c]
            /\ g_test_table'[c][g] = Append(Group(t), t)
        <5>1. DOMAIN g_test_table' = DOMAIN g_test_table \cup {c}
          BY <2>1, PushBack
        <5>2. g \in DOMAIN g_test_table'[c]
          BY <2>1, PushBack
        <5>3. g_test_table'[c][g] = Append(Group(t), t)
          BY <2>1, PushBack
        <5> QED  BY <5>1, <5>2, <5>3
      <4>2. t \in ToSet(Append(Group(t), t))
        BY <1>2, <2>2, AppendSet
      <4> QED  BY <4>1, <4>2, <3>1 DEF Entered
    <3>2. CASE u # t
      <4>1. Entered(u)
        BY <3>2, <2>5, <1>3, <1>4 DEF IInv, TableInv
      <4>2. d \in DOMAIN g_test_table' /\ h \in DOMAIN g_test_table'[d]
        <5>1. d \in DOMAIN g_test_table /\ h \in DOMAIN g_test_table[d]
          BY <4>1 DEF Entered
        <5>2. DOMAIN g_test_table' = DOMAIN g_test_table \cup {c}
          BY <2>1, PushBack
        <5>3. h \in DOMAIN g_test_table'[d]
          BY <5>1, <2>1, PushBack
        <5> QED  BY <5>1, <5>2, <5>3
      <4>3. CASE d # c \/ h # g
        <5>1. g_test_table'[d][h] = g_test_table[d][h]
          BY ONLY <4>2, <4>3, <2>1, PushBackElsewhere, Zenon
        <5>2. u \in ToSet(g_test_table'[d][h])
          BY <4>1, <5>1 DEF Entered
        <5> QED  BY <5>2, <4>2 DEF Entered
      <4>4. CASE d = c /\ h = g
        <5>1. g_test_table'[d][h] = Append(Group(t), t)
          BY <4>4, <2>1, PushBack
        <5>2. u \in ToSet(Group(t))
          BY <4>1, <4>4 DEF Entered, Group, At
        <5>3. u \in ToSet(Append(Group(t), t))
          BY <5>2, <1>2, <2>2, AppendSet
        <5> QED  BY <5>1, <5>3, <4>2 DEF Entered
      <4> QED  BY <4>3, <4>4
    <3> QED  BY <3>1, <3>2
  <2> QED  BY <2>4, <2>5, <1>5 DEF TableInv
<1> QED  BY <1>7, <1>8

LEMMA OrganizeIInv ==
  ASSUME IInv, organize_test_cases
  PROVE  IInv'
<1>1. TableInv'
  BY OrganizeTableInv
<1> USE DEF organize_test_cases, loops, leaks
<1>2. TypeInv'
  BY DEF IInv, TypeInv
<1>3. ListInv'
  BY ListKept DEF IInv, ListInv
<1>4. IdleInv'
  BY DEF IInv, IdleInv
<1>5. RunInv'
  BY HistoryKept DEF IInv, RunInv, EndInv, ExitStatusIsHonest
<1> QED  BY <1>1, <1>2, <1>3, <1>4, <1>5 DEF IInv

-----------------------------------------------------------------------------
(* The loops.                                                                  *)

\* When the whole list has been looked at, each selected test is in its group.
LEMMA AllEntered ==
  ASSUME ListInv, TableInv, pc # "static", listed = Len(first_avail)
  PROVE  /\ Looked = Tests
         /\ \A t \in Tests : Selected(t) => Entered(t)
<1>1. initialized = DOMAIN Units
  BY DEF ListInv
<1>2. DOMAIN first_avail = 1 .. Len(first_avail)
  BY DEF ListInv
<1>3. Looked = ToSet(first_avail)
  BY <1>2 DEF Looked, ToSet
<1>4. Looked = Tests
  BY <1>1, <1>3 DEF ListInv, Tests
<1> QED  BY <1>4 DEF TableInv

\* No name comes before that of the sanity tests.
LEMMA EmptyNameIsFirst ==
  /\ \A n : ~ Precedes(n, "")
  /\ ~ IsTabular("")
<1>1. DOMAIN SortedNames = 1 .. Len(SortedNames) /\ Len(SortedNames) \in Nat
  <2>1. SortedNames \in Seq(NameSet)
    BY EmptyNameAssumption
  <2> QED  BY <2>1
<1>2. ASSUME NEW n, Precedes(n, "") PROVE FALSE
  <2>1. PICK i, j \in DOMAIN SortedNames : i < j /\ SortedNames[j] = ""
    BY <1>2 DEF Precedes
  <2>2. j = 1
    BY <2>1, EmptyNameAssumption
  <2>3. i \in 1 .. Len(SortedNames)
    BY <1>1
  <2>4. i \in Int /\ 1 <= i
    BY <2>3, <1>1
  <2>5. i < 1
    BY <2>1, <2>2
  <2> QED  BY <2>4, <2>5
<1>3. ~ IsTabular("")
  BY EmptyNameAssumption DEF IsTabular, is_matched
<1> QED  BY <1>2, <1>3

\* A group's tests differ from each other.
LEMMA GroupInjective ==
  ASSUME ListInv, NEW c, NEW g, GroupOk(c, g)
  PROVE  IsInjective(g_test_table[c][g])
<1>1. DOMAIN g_test_table[c][g] = 1 .. Len(g_test_table[c][g])
  BY DEF GroupOk
<1>2. ASSUME NEW i \in DOMAIN g_test_table[c][g], NEW j \in DOMAIN g_test_table[c][g],
             i < j
      PROVE  g_test_table[c][g][i] # g_test_table[c][g][j]
  BY <1>2, RegisteredAfterOrder DEF GroupOk
<1> QED  BY <1>1, <1>2 DEF IsInjective

LEMMA OrganizedIInv ==
  ASSUME IInv, Organized
  PROVE  IInv'
<1> USE DEF Organized, leaks
<1>1. TypeInv'
  BY DEF IInv, TypeInv
<1>2. ListInv'
  BY ListKept DEF IInv, ListInv
<1>3. TableInv'
  BY TableKept DEF IInv, TableInv
<1>4. IdleInv'
  BY DEF IdleInv
<1>5. RunInv'
  <2>1. NoneBad
    BY DEF NoneBad, IInv, TypeInv
  <2> QED  BY <2>1, HistoryKept DEF IInv, RunInv, EndInv, ExitStatusIsHonest
<1>6. /\ cats_left' = DOMAIN g_test_table /\ groups_left' = {} /\ tests_left' = <<>>
      /\ g_test_table' = g_test_table /\ RanTests' = {} /\ pc' = "perform"
  BY DEF IInv, TypeInv, IdleInv, RanTests, table
<1>7. LoopInv'
  BY <1>6 DEF LoopInv, Inside, IsInjective, ToSet
<1>8. CallInv'
  <2>1. ASSUME NEW t \in Tests, Due(t)' PROVE Pending(t)'
    <3>1. Due(t)
      BY <2>1, DueKept
    <3>2. Entered(t)
      BY <3>1, AllEntered DEF IInv, Due
    <3> QED  BY <3>2, <1>6 DEF Entered, Pending
  <2> QED  BY <2>1, <1>6 DEF CallInv
<1> QED  BY <1>1, <1>2, <1>3, <1>4, <1>5, <1>7, <1>8 DEF IInv

LEMMA NextCategoryIInv ==
  ASSUME IInv, NextCategory
  PROVE  IInv'
<1> USE DEF leaks
<1>1. /\ pc = "perform" /\ pc' = "perform" /\ groups_left = {}
      /\ tests_left = <<>> /\ tests_left' = <<>>
      /\ UNCHANGED <<selection, table, ran, leaks, ret>>
  BY DEF NextCategory
<1>2. PICK c \in cats_left :
        /\ IsLeast(c, cats_left)
        /\ cats_left' = cats_left \ {c} /\ cat' = c /\ groups_left' = DOMAIN g_test_table[c]
  BY DEF NextCategory
<1>3. TypeInv'
  BY <1>1 DEF IInv, TypeInv
<1>4. ListInv'
  BY <1>1, ListKept DEF IInv, ListInv
<1>5. TableInv'
  BY <1>1, TableKept DEF IInv, TableInv
<1>6. IdleInv'
  BY <1>1 DEF IdleInv
<1>7. RunInv'
  BY <1>1, HistoryKept DEF IInv, RunInv, EndInv, ExitStatusIsHonest
<1>8. LoopInv'
  <2>1. c \in DOMAIN g_test_table /\ cats_left' \subseteq DOMAIN g_test_table
    BY <1>1, <1>2 DEF IInv, LoopInv
  <2>2. c # "" => "" \notin cats_left
    BY <1>2, EmptyNameIsFirst DEF IsLeast
  <2>3. g_test_table' = g_test_table
    BY <1>1 DEF table
  <2>4. ToSet(tests_left') = {} /\ IsInjective(tests_left') /\ tests_left' \in Seq(Tests)
    BY <1>1 DEF IsInjective, ToSet
  <2> QED  BY <1>2, <2>1, <2>2, <2>3, <2>4 DEF LoopInv
<1>9. CallInv'
  <2>1. ASSUME NEW t \in Tests, Due(t) PROVE Pending(t)' <=> Pending(t)
    <3>1. Entered(t)
      BY <1>1, <2>1, AllEntered DEF IInv, TableInv, Due
    <3> QED  BY <1>1, <1>2, <3>1 DEF Entered, Pending
  <2>2. RanTests' = RanTests
    BY <1>1, HistoryKept
  <2> QED  BY <2>1, <2>2, <1>1, DueKept DEF IInv, CallInv
<1> QED  BY <1>1, <1>3, <1>4, <1>5, <1>6, <1>7, <1>8, <1>9 DEF IInv

LEMMA NextGroupIInv ==
  ASSUME IInv, NextGroup
  PROVE  IInv'
<1> USE DEF leaks
<1>1. /\ pc = "perform" /\ pc' = "perform" /\ tests_left = <<>>
      /\ UNCHANGED <<selection, table, cats_left, cat, ran, leaks, ret>>
  BY DEF NextGroup
<1>2. PICK g \in groups_left :
        groups_left' = groups_left \ {g} /\ tests_left' = Called(g)
  BY DEF NextGroup
<1>3. TypeInv'
  BY <1>1 DEF IInv, TypeInv
<1>4. ListInv'
  BY <1>1, ListKept DEF IInv, ListInv
<1>5. TableInv'
  BY <1>1, TableKept DEF IInv, TableInv
<1>6. IdleInv'
  BY <1>1 DEF IdleInv
<1>7. RunInv'
  BY <1>1, HistoryKept DEF IInv, RunInv, EndInv, ExitStatusIsHonest
<1> DEFINE tests == g_test_table[cat][g]
<1>8. /\ cat \in DOMAIN g_test_table /\ groups_left \subseteq DOMAIN g_test_table[cat]
      /\ cat \notin cats_left /\ (cat # "" => "" \notin cats_left)
      /\ cats_left \subseteq DOMAIN g_test_table
  BY <1>1, <1>2 DEF IInv, LoopInv, Inside
<1>9. GroupOk(cat, g)
  BY <1>2, <1>8 DEF IInv, TableInv
<1>10. /\ tests \in Seq(Tests) /\ tests # <<>> /\ IsInjective(tests)
       /\ Head(tests) \in Tests /\ Head(tests) \in ToSet(tests)
       /\ \A t \in ToSet(tests) : /\ t \in Tests /\ Selected(t)
                                  /\ category[t] = cat /\ group_name[t] = g
  <2>1. tests \in Seq(Tests) /\ tests # <<>> /\ IsInjective(tests)
    BY <1>9, GroupInjective DEF IInv, GroupOk
  <2>2. Head(tests) \in Tests /\ Head(tests) \in ToSet(tests)
    BY <2>1, FirstAndRest
  <2>3. ASSUME NEW t \in ToSet(tests)
        PROVE  t \in Tests /\ Selected(t) /\ category[t] = cat /\ group_name[t] = g
    BY <1>9, <2>1 DEF GroupOk, ToSet
  <2> QED  BY <2>1, <2>2, <2>3
<1>11. /\ tests_left' \in Seq(Tests) /\ IsInjective(tests_left')
       /\ \A t : t \in ToSet(tests_left') <=>
                   Due(t) /\ category[t] = cat /\ group_name[t] = g
  <2>1. ASSUME NEW t, Due(t), category[t] = cat, group_name[t] = g
        PROVE  t \in ToSet(tests)
    <3>1. Entered(t)
      BY <1>1, <2>1, AllEntered DEF IInv, TableInv, Due
    <3> QED  BY <2>1, <3>1 DEF Entered
  <2> HIDE DEF tests
  <2>2. CASE ~ IsTabular(cat)
    <3>1. tests_left' = tests
      BY <1>2, <2>2 DEF Called, tests
    <3> QED  BY <3>1, <1>10, <2>1, <2>2 DEF Due
  <2>3. CASE IsTabular(cat) /\ g = ""
    <3>1. tests_left' = <<>>
      BY <1>2, <2>3 DEF Called
    <3>2. ToSet(tests_left') = {} /\ IsInjective(tests_left')
      BY <3>1 DEF ToSet, IsInjective
    <3>3. ASSUME NEW t, Due(t), category[t] = cat, group_name[t] = g PROVE FALSE
      BY <2>3, <3>3 DEF Due
    <3> QED  BY <3>1, <3>2, <3>3
  <2>4. CASE IsTabular(cat) /\ g # ""
    <3>1. tests_left' = <<Head(tests)>>
      BY <1>2, <1>10, <2>4 DEF Called, tests
    <3>2. ToSet(tests_left') = {Head(tests)} /\ IsInjective(tests_left')
      BY <3>1 DEF ToSet, IsInjective
    <3>3. tests_left' \in Seq(Tests)
      BY <3>1, <1>10
    <3>4. ASSUME NEW t
          PROVE  t = Head(tests) <=> Due(t) /\ category[t] = cat /\ group_name[t] = g
      <4>1. t = Head(tests) => Due(t) /\ category[t] = cat /\ group_name[t] = g
        BY <1>10, <2>4 DEF Due, tests
      <4>2. Due(t) /\ category[t] = cat /\ group_name[t] = g => t = Head(tests)
        BY <2>4 DEF Due, tests
      <4> QED  BY <4>1, <4>2
    <3> QED  BY <3>2, <3>3, <3>4
  <2> QED  BY <2>2, <2>3, <2>4
<1>12. LoopInv'
  <2>1. g_test_table' = g_test_table
    BY <1>1 DEF table
  <2>2. \A t \in ToSet(tests_left') :
          Due(t)' /\ category[t] = cat' /\ group_name[t] \notin groups_left'
    BY <1>1, <1>2, <1>11, DueKept
  <2> QED  BY <1>1, <1>2, <1>8, <1>11, <2>1, <2>2 DEF LoopInv, Inside
<1>13. CallInv'
  <2>1. ASSUME NEW t \in Tests, Due(t) PROVE Pending(t)' <=> Pending(t)
    <3>1. ToSet(tests_left) = {}
      BY <1>1 DEF ToSet
    <3> QED  BY <1>1, <1>2, <1>11, <2>1, <3>1 DEF Pending
  <2>2. RanTests' = RanTests
    BY <1>1, HistoryKept
  <2> QED  BY <2>1, <2>2, <1>1, DueKept DEF IInv, CallInv
<1> QED  BY <1>1, <1>3, <1>4, <1>5, <1>6, <1>7, <1>12, <1>13 DEF IInv

-----------------------------------------------------------------------------
(* The calls.                                                                  *)

\* What every call keeps, whatever it comes to.
LEMMA CallKeeps ==
  ASSUME IInv, NEW r \in Results, Call(r), pc' # "static",
         pc' \in {"perform", "report", "exit"}
  PROVE  /\ TypeInv' /\ ListInv' /\ TableInv' /\ Once' /\ SanityFirst'
         /\ LoopInv' /\ CallInv'
         /\ NoneBad' <=> ~ BadRun([test |-> Head(tests_left), result |-> r])
         /\ category[Head(tests_left)] = cat
<1> DEFINE x == Head(tests_left)
           rec == [test |-> x, result |-> r]
<1>1. /\ pc = "perform" /\ tests_left # <<>> /\ tests_left' = Tail(tests_left)
      /\ ran' = Append(ran, rec)
      /\ UNCHANGED <<selection, table, cats_left, cat, groups_left>>
  BY DEF Call
<1>2. /\ tests_left \in Seq(Tests) /\ IsInjective(tests_left)
      /\ cat \notin cats_left /\ (cat # "" => "" \notin cats_left)
      /\ \A t \in ToSet(tests_left) : Due(t) /\ category[t] = cat /\ group_name[t] \notin groups_left
  BY <1>1 DEF IInv, LoopInv, Inside
<1>3. /\ x \in Tests /\ tests_left' \in Seq(Tests) /\ IsInjective(tests_left')
      /\ ToSet(tests_left) = {x} \cup ToSet(tests_left') /\ x \notin ToSet(tests_left')
  BY <1>1, <1>2, FirstAndRest
<1>4. Due(x) /\ category[x] = cat /\ group_name[x] \notin groups_left
  BY <1>2, <1>3
<1>5. ran \in Seq([test : Tests, result : Results]) /\ NoneBad
  BY <1>1 DEF IInv, TypeInv, RunInv, EndInv
<1> HIDE DEF x
<1>6. rec \in [test : Tests, result : Results]
  BY <1>3
<1>7. /\ ran' \in Seq([test : Tests, result : Results])
      /\ Len(ran) \in Nat
      /\ DOMAIN ran = 1 .. Len(ran) /\ DOMAIN ran' = 1 .. (Len(ran) + 1)
      /\ ran'[Len(ran) + 1] = rec /\ \A i \in 1 .. Len(ran) : ran'[i] = ran[i]
  <2> HIDE DEF rec
  <2> QED  BY <1>1, <1>5, <1>6, AppendProperties
<1>8. rec.test = x /\ rec.result = r
  OBVIOUS
<1> HIDE DEF rec
<1>9. TypeInv'
  <2>1. instance_count' \in Int
    BY DEF Call, IInv, TypeInv
  <2>2. pool_clean \in BOOLEAN /\ pool_clean' \in {pool_clean, FALSE}
    BY Zenon DEF Call, IInv, TypeInv
  <2>3. pool_clean' \in BOOLEAN
    BY <2>2, Zenon
  <2> QED  BY <1>7, <2>1, <2>3 DEF TypeInv
<1>10. ListInv'
  BY <1>1, ListKept DEF IInv, ListInv
<1>11. TableInv'
  BY <1>1, TableKept DEF IInv, TableInv
<1>12. RanTests' = RanTests \cup {x}
  <2>1. ASSUME NEW t \in RanTests' PROVE t \in RanTests \cup {x}
    <3>1. PICK i \in 1 .. (Len(ran) + 1) : t = ran'[i].test
      BY <1>7 DEF RanTests
    <3>2. CASE i = Len(ran) + 1
      BY <3>1, <3>2, <1>7, <1>8
    <3>3. CASE i \in 1 .. Len(ran)
      BY <3>1, <3>3, <1>7 DEF RanTests
    <3> QED  BY <3>2, <3>3, <1>7
  <2>2. ASSUME NEW t \in RanTests PROVE t \in RanTests'
    <3>1. PICK i \in 1 .. Len(ran) : t = ran[i].test
      BY <1>7 DEF RanTests
    <3>2. i \in 1 .. (Len(ran) + 1)
      BY <1>7
    <3> QED  BY <3>1, <3>2, <1>7 DEF RanTests
  <2>3. x \in RanTests'
    <3>1. Len(ran) + 1 \in 1 .. (Len(ran) + 1)
      BY <1>7
    <3> QED  BY <3>1, <1>7, <1>8 DEF RanTests
  <2> QED  BY <2>1, <2>2, <2>3
<1>13. Pending(x) /\ x \notin RanTests
  <2>1. Pending(x)
    BY <1>3 DEF Pending
  <2> QED  BY <2>1, <1>1, <1>3, <1>4 DEF IInv, CallInv
<1>14. Once'
  <2>1. ASSUME NEW i \in 1 .. (Len(ran) + 1), NEW j \in 1 .. (Len(ran) + 1),
               ran'[i].test = ran'[j].test
        PROVE  i = j
    <3>1. \A k \in 1 .. Len(ran) : ran'[k].test # x
      BY <1>7, <1>13 DEF RanTests
    <3>2. CASE i \in 1 .. Len(ran) /\ j \in 1 .. Len(ran)
      BY <2>1, <3>2, <1>7 DEF IInv, RunInv, Once
    <3>3. CASE i = Len(ran) + 1 \/ j = Len(ran) + 1
      BY <2>1, <3>1, <3>3, <1>7, <1>8
    <3> QED  BY <3>2, <3>3, <1>7
  <2> QED  BY <2>1, <1>7 DEF Once
<1>15. NoneBad' <=> ~ BadRun(rec)
  <2>1. \A i \in 1 .. Len(ran) : ~ BadRun(ran'[i])
    BY <1>5, <1>7 DEF NoneBad
  <2>2. NoneBad' <=> \A i \in 1 .. (Len(ran) + 1) : ~ BadRun(ran'[i])
    BY <1>7 DEF NoneBad, BadRun
  <2>3. 1 .. (Len(ran) + 1) = (1 .. Len(ran)) \cup {Len(ran) + 1}
    BY <1>7
  <2> QED  BY <2>1, <2>2, <2>3, <1>7
<1>16. LoopInv'
  <2>1. g_test_table' = g_test_table
    BY <1>1 DEF table
  <2>2. \A t \in ToSet(tests_left') :
          Due(t)' /\ category[t] = cat' /\ group_name[t] \notin groups_left'
    BY <1>1, <1>2, <1>3, DueKept
  <2>3. /\ cats_left \subseteq DOMAIN g_test_table
        /\ groups_left # {} =>
             cat \in DOMAIN g_test_table /\ groups_left \subseteq DOMAIN g_test_table[cat]
    BY <1>1 DEF IInv, LoopInv
  <2> QED  BY <1>1, <1>2, <1>3, <2>1, <2>2, <2>3 DEF LoopInv
<1>17. CallInv'
  <2>1. ASSUME NEW t \in Tests, Due(t) PROVE Pending(t)' <=> Pending(t) /\ t # x
    BY <1>1, <1>2, <1>3, <1>4 DEF Pending
  <2>2. ASSUME NEW t \in Tests, Due(t) PROVE t \in RanTests' <=> ~ Pending(t)'
    BY <2>1, <2>2, <1>1, <1>12 DEF IInv, CallInv
  <2>3. \A t \in RanTests' : Due(t)
    BY <1>1, <1>4, <1>12 DEF IInv, CallInv
  <2> QED  BY <2>2, <2>3, <1>1, DueKept DEF CallInv
<1>18. SanityFirst'
  <2>1. SUFFICES ASSUME NEW t \in RanTests', category[t] # "",
                        NEW s \in Tests, category[s] = ""
                 PROVE  \E i \in DOMAIN ran' : ran'[i].test = s /\ ran'[i].result = "zero"
    BY DEF SanityFirst
  <2>2. \E i \in 1 .. Len(ran) : ran[i].test = s /\ ran[i].result = "zero"
    <3>1. CASE t \in RanTests
      BY <2>1, <3>1, <1>7 DEF IInv, RunInv, SanityFirst
    <3>2. CASE t = x
      <4>1. Due(s)
        BY <2>1, EmptyNameIsFirst DEF Due, Selected
      <4>2. ~ Pending(s)
        BY <2>1, <3>2, <1>2, <1>4 DEF Pending
      <4>3. s \in RanTests
        BY <4>1, <4>2, <1>1 DEF IInv, CallInv
      <4>4. PICK i \in 1 .. Len(ran) : ran[i].test = s
        BY <4>3, <1>7 DEF RanTests
      <4>5. ran[i].result \in Results /\ ~ BadRun(ran[i])
        <5>1. ran[i] \in [test : Tests, result : Results]
          BY <1>5, ElementOfSeq
        <5>2. ~ BadRun(ran[i])
          BY <1>5, <1>7 DEF NoneBad
        <5> QED  BY <5>1, <5>2
      <4>6. ~ IsTabular(category[ran[i].test])
        BY <2>1, <4>4, EmptyNameIsFirst
      <4> QED  BY <4>4, <4>5, <4>6 DEF BadRun, Results
    <3> QED  BY <3>1, <3>2, <1>12
  <2>3. PICK i \in 1 .. Len(ran) : ran[i].test = s /\ ran[i].result = "zero"
    BY <2>2
  <2>4. i \in DOMAIN ran' /\ ran'[i] = ran[i]
    BY <1>7
  <2> QED  BY <2>3, <2>4
<1> QED  BY <1>4, <1>9, <1>10, <1>11, <1>14, <1>15, <1>16, <1>17, <1>18 DEF x, rec

LEMMA CallIInv ==
  ASSUME IInv, NEW r \in Results,
         \/ r \in {"zero", "nonzero", "throws"} /\ (CallPasses(r) \/ CallFails(r))
         \/ r = "terminates" /\ CallTerminates
  PROVE  IInv'
<1> DEFINE rec == [test |-> Head(tests_left), result |-> r]
<1>1. Call(r) /\ pc = "perform" /\ pc' \in {"perform", "report", "exit"}
  BY DEF CallPasses, CallFails, CallTerminates, Call
<1>2. /\ TypeInv' /\ ListInv' /\ TableInv' /\ Once' /\ SanityFirst'
      /\ LoopInv' /\ CallInv'
      /\ NoneBad' <=> ~ BadRun(rec)
      /\ category[Head(tests_left)] = cat
  BY <1>1, CallKeeps
<1>3. BadRun(rec) <=> Fails(r) \/ r = "terminates"
  BY <1>2 DEF BadRun, Fails
<1>4. IdleInv'
  BY <1>1 DEF IdleInv
<1>5. /\ pc' = "perform" => ~ Fails(r) /\ r # "terminates"
      /\ pc' = "report" => ret' # "success" /\ Fails(r)
      /\ pc' = "exit" => ret' # "success" /\ r = "terminates"
  BY <1>1 DEF CallPasses, CallFails, CallTerminates
<1>6. RunInv'
  <2>1. EndInv'
    BY <1>1, <1>2, <1>3, <1>5 DEF EndInv
  <2>2. ExitStatusIsHonest'
    <3>1. ~ NoneBad' => ~ \A i \in DOMAIN ran' : ~ BadRun(ran'[i])
      BY DEF NoneBad, BadRun
    <3> QED  BY <1>2, <1>3, <1>5, <3>1 DEF ExitStatusIsHonest, BadRun
  <2> QED  BY <1>2, <2>1, <2>2 DEF RunInv
<1> QED  BY <1>2, <1>4, <1>6 DEF IInv

-----------------------------------------------------------------------------
(* The end of the session.                                                     *)

LEMMA AllCalledIInv ==
  ASSUME IInv, AllCalled
  PROVE  IInv'
<1> USE DEF AllCalled, loops, leaks
<1>1. TypeInv'
  BY DEF IInv, TypeInv
<1>2. ListInv'
  BY ListKept DEF IInv, ListInv
<1>3. TableInv'
  BY TableKept DEF IInv, TableInv
<1>4. IdleInv'
  BY DEF IdleInv
<1>5. RanTests = {t \in Tests : Due(t)}
  <2>1. \A t : ~ Pending(t)
    BY DEF Pending, ToSet
  <2> QED  BY <2>1 DEF IInv, CallInv, Due
<1>6. RanTests' = {t \in Tests : Due(t)'}
  BY <1>5, HistoryKept, DueKept
<1>7. RunInv'
  <2>1. NoneBad'
    BY HistoryKept DEF IInv, RunInv, EndInv
  <2> QED  BY <1>6, <2>1, HistoryKept DEF IInv, RunInv, EndInv, ExitStatusIsHonest
<1> QED  BY <1>1, <1>2, <1>3, <1>4, <1>7 DEF IInv

LEMMA CheckLeaksIInv ==
  ASSUME IInv, CheckLeaks
  PROVE  IInv'
<1> USE DEF CheckLeaks, loops, leaks
<1>1. TypeInv'
  BY DEF IInv, TypeInv
<1>2. ListInv'
  BY ListKept DEF IInv, ListInv
<1>3. TableInv'
  BY TableKept DEF IInv, TableInv
<1>4. IdleInv'
  BY DEF IdleInv
<1>5. EndInv'
  <2>1. SUFFICES ASSUME ret' = "success" PROVE RanTests' = {t \in Tests : Due(t)'}
    BY DEF EndInv
  <2>2. RanTests = {t \in Tests : Due(t)}
    BY <2>1 DEF IInv, RunInv, EndInv
  <2> QED  BY <2>2, HistoryKept, DueKept
<1>6. ExitStatusIsHonest'
  <2>1. ret = "success" <=> NoneBad
    BY DEF IInv, RunInv, EndInv
  <2>2. ret' = "success" <=> NoneBad /\ instance_count = 0 /\ pool_clean
    BY <2>1
  <2>3. NoneBad <=> \A i \in DOMAIN ran' : ~ BadRun(ran'[i])
    BY DEF NoneBad, BadRun
  <2> QED  BY <2>2, <2>3 DEF ExitStatusIsHonest, BadRun
<1>7. RunInv'
  BY <1>5, <1>6, HistoryKept DEF IInv, RunInv
<1> QED  BY <1>1, <1>2, <1>3, <1>4, <1>7 DEF IInv

LEMMA StutterIInv ==
  ASSUME IInv, UNCHANGED vars
  PROVE  IInv'
<1> USE DEF vars, loops, leaks
<1>1. TypeInv'
  BY DEF IInv, TypeInv
<1>2. ListInv'
  BY ListKept DEF IInv, ListInv
<1>3. TableInv'
  BY TableKept DEF IInv, TableInv
<1>4. IdleInv'
  BY DEF IInv, IdleInv
<1>5. RunInv'
  <2>1. EndInv'
    BY HistoryKept, DueKept DEF IInv, RunInv, EndInv
  <2>2. ExitStatusIsHonest'
    BY DEF IInv, RunInv, ExitStatusIsHonest, BadRun
  <2> QED  BY <2>1, <2>2, HistoryKept DEF IInv, RunInv
<1>6. pc = "perform" => LoopInv' /\ CallInv'
  <2>1. SUFFICES ASSUME pc = "perform" PROVE LoopInv' /\ CallInv'
    OBVIOUS
  <2>2. LoopInv'
    BY <2>1, DueKept DEF IInv, LoopInv, Inside, table
  <2>3. CallInv'
    BY <2>1, DueKept, HistoryKept DEF IInv, CallInv, Pending
  <2> QED  BY <2>2, <2>3
<1> QED  BY <1>1, <1>2, <1>3, <1>4, <1>5, <1>6 DEF IInv

-----------------------------------------------------------------------------
(* The theorems.                                                               *)

\* The invariant holds in every state of every session.
THEOREM Invariance == Spec => []IInv
<1>1. IInv /\ [Next]_vars => IInv'
  <2> SUFFICES ASSUME IInv, [Next]_vars PROVE IInv'
    OBVIOUS
  <2>1. ASSUME NEW u \in DOMAIN Units, RegisterUnit(u) PROVE IInv'
    BY <2>1, RegisterUnitIInv
  <2>2. CASE EnterMain \/ ParseStops
    BY <2>2, PrologueIInv
  <2>3. ASSUME NEW o \in Options, ParseOk(o) PROVE IInv'
    BY <2>3, ParseOkIInv
  <2>4. CASE organize_test_cases
    BY <2>4, OrganizeIInv
  <2>5. CASE Organized
    BY <2>5, OrganizedIInv
  <2>6. CASE NextCategory
    BY <2>6, NextCategoryIInv
  <2>7. CASE NextGroup
    BY <2>7, NextGroupIInv
  <2>8. ASSUME NEW r \in {"zero", "nonzero", "throws"}, CallPasses(r) \/ CallFails(r)
        PROVE  IInv'
    BY <2>8, CallIInv DEF Results
  <2>9. CASE CallTerminates
    BY <2>9, CallIInv DEF Results
  <2>10. CASE AllCalled
    BY <2>10, AllCalledIInv
  <2>11. CASE CheckLeaks
    BY <2>11, CheckLeaksIInv
  <2>12. CASE Exited \/ UNCHANGED vars
    BY <2>12, StutterIInv DEF Exited
  <2> QED
    BY <2>1, <2>2, <2>3, <2>4, <2>5, <2>6, <2>7, <2>8, <2>9, <2>10, <2>11, <2>12 DEF Next
<1> QED  BY <1>1, InitIInv, PTL DEF Spec

\* What the table makes of the list is what the options ask for of each test alone:
\* the front test of a group is the last registered of those selected for it.
LEMMA DueIsWanted ==
  ASSUME IInv, pc # "static", listed = Len(first_avail)
  PROVE  {t \in Tests : Due(t)} = Wanted
<1> DEFINE Rival(t, u) == /\ category[u] = category[t] /\ group_name[u] = group_name[t]
                          /\ Selected(u) /\ RegisteredAfter(u, t)
<1>1. ASSUME NEW t \in Tests, Selected(t)
      PROVE  t = Head(g_test_table[category[t]][group_name[t]]) <=>
               ~ \E u \in Tests : Rival(t, u)
  <2> DEFINE tests == g_test_table[category[t]][group_name[t]]
  <2>1. Entered(t)
    BY <1>1, AllEntered DEF IInv
  <2>2. GroupOk(category[t], group_name[t])
    BY <2>1 DEF IInv, TableInv, Entered
  <2>3. /\ tests \in Seq(Tests) /\ Len(tests) \in Nat \ {0}
        /\ DOMAIN tests = 1 .. Len(tests) /\ Head(tests) = tests[1]
        /\ \A i \in 1 .. Len(tests) : tests[i] \in Tests /\ Selected(tests[i])
             /\ category[tests[i]] = category[t] /\ group_name[tests[i]] = group_name[t]
        /\ \A i, j \in 1 .. Len(tests) : i < j => RegisteredAfter(tests[i], tests[j])
    <3>1. tests \in Seq(Tests) /\ tests # <<>>
      BY <2>2 DEF GroupOk
    <3>2. Len(tests) \in Nat \ {0} /\ DOMAIN tests = 1 .. Len(tests) /\ Head(tests) = tests[1]
      BY <3>1
    <3> QED  BY <2>2, <3>1, <3>2 DEF GroupOk
  <2>4. \A u \in Tests : Entered(u) /\ category[u] = category[t] /\ group_name[u] = group_name[t]
          => \E k \in 1 .. Len(tests) : u = tests[k]
    BY <2>3 DEF Entered, ToSet
  <2> HIDE DEF tests
  <2>5. 1 \in 1 .. Len(tests)
    BY <2>3
  <2>6. ASSUME t = Head(tests), NEW u \in Tests, Rival(t, u) PROVE FALSE
    <3>1. Entered(u)
      BY <2>6, AllEntered DEF IInv
    <3>2. PICK k \in 1 .. Len(tests) : u = tests[k]
      BY <2>4, <2>6, <3>1
    <3>3. CASE k = 1
      BY <2>3, <2>6, <3>2, <3>3, RegisteredAfterOrder DEF IInv
    <3>4. CASE k # 1
      <4>1. 1 < k
        BY <3>4, <2>3
      <4>2. RegisteredAfter(t, u)
        BY <2>3, <2>5, <2>6, <3>2, <4>1
      <4> QED  BY <4>2, <2>6, RegisteredAfterOrder DEF IInv
    <3> QED  BY <3>3, <3>4
  <2>7. ASSUME t # Head(tests) PROVE \E u \in Tests : Rival(t, u)
    <3>1. PICK k \in 1 .. Len(tests) : t = tests[k]
      BY <2>1, <2>4
    <3>2. 1 < k
      BY <2>3, <2>7, <3>1
    <3>3. Rival(t, tests[1]) /\ tests[1] \in Tests
      BY <2>3, <2>5, <3>1, <3>2
    <3> QED  BY <3>3
  <2> QED  BY <2>6, <2>7 DEF tests
<1> QED  BY <1>1 DEF Due, Wanted

\* A session that reports success has run what was asked for, each test once.
THEOREM EachOnce == Spec => []SuccessRunsEverythingOnce
<1>1. IInv => SuccessRunsEverythingOnce
  <2> SUFFICES ASSUME IInv, pc = "exit", ret = "success"
               PROVE  RanTests = Wanted /\ Once
    BY DEF SuccessRunsEverythingOnce, Once
  <2>1. listed = Len(first_avail)
    BY DEF IInv, TableInv
  <2> QED  BY <2>1, DueIsWanted DEF IInv, RunInv, EndInv
<1> QED  BY <1>1, Invariance, PTL

\* Sanity tests are never left out, and nothing else runs until they have passed.
THEOREM SanityComesFirst == Spec => []SanityFirst
<1>1. IInv => SanityFirst
  BY DEF IInv, RunInv
<1> QED  BY <1>1, Invariance, PTL

\* The exit status tells of every failed call and of everything left over.
THEOREM HonestStatus == Spec => []ExitStatusIsHonest
<1>1. IInv => ExitStatusIsHonest
  BY DEF IInv, RunInv
<1> QED  BY <1>1, Invariance, PTL

\* After a failed call no other is made.
THEOREM OneFailure == Spec => StopsAtFirstFailure
<1>1. IInv /\ [Next]_vars => [(\E i \in DOMAIN ran : BadRun(ran[i])) => ran' = ran]_vars
  <2> SUFFICES ASSUME IInv, Next, \E i \in DOMAIN ran : BadRun(ran[i])
               PROVE  ran' = ran
    OBVIOUS
  <2>1. pc # "perform"
    BY DEF IInv, RunInv, EndInv, NoneBad
  <2> QED  BY <2>1 DEF Next, RegisterUnit, EnterMain, ParseOk, ParseStops, organize_test_cases,
             Organized, NextCategory, NextGroup, CallPasses, CallFails, CallTerminates, Call,
             AllCalled, CheckLeaks, Exited, vars
<1> QED  BY <1>1, Invariance, PTL DEF Spec, StopsAtFirstFailure

\* What main.cpp:104 asserts: a test case looked at is not in its group yet.
NotInItsGroup ==
  pc = "organize" /\ listed < Len(first_avail) =>
    LET t == first_avail[listed + 1] IN
    category[t] \in DOMAIN g_test_table /\ group_name[t] \in DOMAIN g_test_table[category[t]]
      => t \notin ToSet(g_test_table[category[t]][group_name[t]])

\* The assertion of organize_test_cases never fails.
THEOREM AssertHolds == Spec => []NotInItsGroup
<1>1. IInv => NotInItsGroup
  <2> SUFFICES ASSUME IInv, listed < Len(first_avail) PROVE NotInItsGroup
    BY DEF NotInItsGroup
  <2>1. first_avail[listed + 1] \notin Looked
    BY NotYetLooked DEF IInv
  <2> QED  BY <2>1 DEF NotInItsGroup, IInv, TableInv, GroupOk, ToSet
<1> QED  BY <1>1, Invariance, PTL

=============================================================================
