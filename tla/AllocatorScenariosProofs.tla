---------------------- MODULE AllocatorScenariosProofs ----------------------
(***************************************************************************)
(* Theorems about AllocatorScenarios, for any addresses, containers and      *)
(* faults.  The map of uneq_allocator is the heap, however statements end.   *)
(* The tests are straight lines: what a program that is in one has come to   *)
(* is what its statements so far make of nothing (Trace), and what they make *)
(* is found by going through each test once, without an action in sight.    *)
(***************************************************************************)
EXTENDS AllocatorScenarios, SequenceTheorems, TLAPS

\* Giving blocks back takes them from both.
LEMMA DeallocateKeeps ==
  ASSUME MapIsHeap, NEW S, deallocate(S)
  PROVE  MapIsHeap'
BY DEF MapIsHeap, deallocate

\* A block that is noted is one whose address had no entry, or has lost it: what
\* insert keeps is never what another block has left.
LEMMA AllocateKeeps ==
  ASSUME MapIsHeap, NEW S, NEW b, NEW p, allocate(S, b, p),
         b \notin DOMAIN Without(heap, S)
  PROVE  MapIsHeap'
<1> DEFINE m == Without(heap, S)
<1>1. alloc_map' = [c \in DOMAIN m \cup {b} |-> IF c \in DOMAIN m THEN m[c] ELSE p]
  BY DEF MapIsHeap, allocate, insert
<1>2. heap' = [c \in DOMAIN m \cup {b} |-> IF c = b THEN p ELSE heap[c]]
  BY DEF allocate
<1>3. ASSUME NEW c \in DOMAIN m \cup {b}
      PROVE  (IF c \in DOMAIN m THEN m[c] ELSE p) = (IF c = b THEN p ELSE heap[c])
  <2>1. CASE c = b
    BY <2>1
  <2>2. CASE c # b
    <3>1. c \in DOMAIN m
      BY <2>2
    <3>2. m[c] = heap[c]
      BY <3>1 DEF Without
    <3> QED BY <2>2, <3>1, <3>2
  <2> QED BY <2>1, <2>2
<1> HIDE DEF m
<1> QED BY <1>1, <1>2, <1>3 DEF MapIsHeap

\* Neither what a statement gives back nor what is thrown at it separates them.
LEMMA FreesKeeps ==
  ASSUME MapIsHeap, NEW boxes, NEW S, Frees(boxes, S)
  PROVE  MapIsHeap'
<1>1. CASE deallocate(S)
  BY <1>1, DeallocateKeeps
<1>2. CASE Thrown(S)
  BY <1>2 DEF Thrown, memory, MapIsHeap
<1> QED BY <1>1, <1>2 DEF Frees

\* Nor what it takes, at a free address or one that it has just given back.
LEMMA FreesAndTakesKeeps ==
  ASSUME MapIsHeap, NEW boxes, NEW S, NEW x, NEW p, FreesAndTakes(boxes, S, x, p)
  PROVE  MapIsHeap'
<1>1. CASE Thrown(S)
  BY <1>1 DEF Thrown, memory, MapIsHeap
<1>2. CASE \E b \in (Blocks \ DOMAIN heap) \cup ({g[1] : g \in S} \cap {box[x].block}) :
             allocate(S, b, IF fault = "stateless" THEN 0 ELSE p)
  <2>1. PICK b \in (Blocks \ DOMAIN heap) \cup ({g[1] : g \in S} \cap {box[x].block}) :
               allocate(S, b, IF fault = "stateless" THEN 0 ELSE p)
    BY <1>2
  <2>2. b \notin DOMAIN Without(heap, S)
    <3>1. DOMAIN Without(heap, S) = DOMAIN heap \ {g[1] : g \in S}
      BY DEF Without
    <3>2. b \notin DOMAIN heap \/ b \in {g[1] : g \in S}
      BY <2>1
    <3> QED BY <3>1, <3>2
  <2> QED BY <2>1, <2>2, AllocateKeeps
<1> QED BY <1>1, <1>2 DEF FreesAndTakes

\* Nor the ways to fill a container and to move from one.
LEMMA FillsKeeps ==
  ASSUME MapIsHeap, NEW boxes, NEW x, NEW has, NEW by, NEW S, Fills(boxes, x, has, by, S)
  PROVE  MapIsHeap'
<1>1. CASE Frees(boxes, S)
  BY <1>1, FreesKeeps
<1>2. CASE FreesAndTakes(boxes, Held(x, by) \cup S, x, boxes[x].p)
  BY <1>2, FreesAndTakesKeeps
<1>3. CASE Frees([boxes EXCEPT ![x].block = None], Held(x, by) \cup S)
  BY <1>3, FreesKeeps
<1> QED BY <1>1, <1>2, <1>3 DEF Fills

LEMMA MovesKeeps ==
  ASSUME MapIsHeap, NEW x, NEW y, NEW p, NEW by,
         Takes(x, y, p, by) \/ MovesEach(x, y, p, by)
  PROVE  MapIsHeap'
<1>1. CASE Takes(x, y, p, by)
  BY <1>1, FreesKeeps DEF Takes
<1>2. CASE MovesEach(x, y, p, by)
  BY <1>2, FillsKeeps DEF MovesEach
<1> QED BY <1>1, <1>2

\* Destructors give back all or end the program.
LEMMA DestroysKeeps ==
  ASSUME MapIsHeap, NEW next, Destroys(next)
  PROVE  MapIsHeap'
<1>1. CASE deallocate(AllHeld)
  BY <1>1, DeallocateKeeps
<1>2. CASE UNCHANGED memory
  BY <1>2 DEF memory, MapIsHeap
<1> QED BY <1>1, <1>2 DEF Destroys

\* Whatever happens keeps them the same.
LEMMA MapKeeps ==
  ASSUME MapIsHeap, [Next]_vars
  PROVE  MapIsHeap'
<1>1. CASE construct
  BY <1>1, FreesKeeps DEF construct
<1>2. CASE push
  BY <1>2, FreesAndTakesKeeps DEF push
<1>3. CASE copy
  BY <1>3, FillsKeeps DEF copy
<1>4. CASE assign
  BY <1>4, FillsKeeps DEF assign
<1>5. CASE move
  BY <1>5, MovesKeeps DEF move
<1>6. CASE move_assign
  BY <1>6, MovesKeeps DEF move_assign
<1>7. CASE swap
  BY <1>7, FreesKeeps DEF swap
<1>8. CASE keep \/ count \/ VERIFY \/ UNCHANGED vars
  BY <1>8 DEF keep, count, VERIFY, vars, memory, MapIsHeap
<1>9. CASE VERIFYfails
  BY <1>9, DestroysKeeps DEF VERIFYfails
<1>10. CASE EndTest
  <2>1. CASE UNCHANGED memory
    BY <2>1 DEF memory, MapIsHeap
  <2>2. CASE Destroys(IF test = Len(Tests) THEN "passed" ELSE "running")
    BY <2>2, DestroysKeeps
  <2> QED BY <1>10, <2>1, <2>2 DEF EndTest
<1> QED BY <1>1, <1>2, <1>3, <1>4, <1>5, <1>6, <1>7, <1>8, <1>9, <1>10 DEF Next

\* The map of uneq_allocator is the base allocator's heap, with the personality
\* that every block went to, for any containers, faults and addresses.
THEOREM MapExact == Spec => []MapIsHeap
<1>1. Init => MapIsHeap
  BY DEF Init, MapIsHeap
<1>2. MapIsHeap /\ [Next]_vars => MapIsHeap'
  BY MapKeeps
<1> QED BY <1>1, <1>2, PTL DEF Spec

-----------------------------------------------------------------------------
(* What a statement acts on: the personalities, who the blocks have gone to,  *)
(* whether they are what the iterator points to, and the count.              *)

Nobody == -1
Other(x) == IF x = "v1" THEN "v2" ELSE "v1"
Owner(x) == IF Has(x) THEN alloc_map[box[x].block] ELSE Nobody

Now == [p |-> [x \in Names |-> box[x].p],
        own |-> [x \in Names |-> Owner(x)],
        here |-> [x \in Names |-> Has(x) /\ box[x].block = it],
        allocs |-> allocs]

\* Before the first statement of a test.
Blank == [p |-> [x \in Names |-> 0], own |-> [x \in Names |-> Nobody],
          here |-> [x \in Names |-> FALSE], allocs |-> 0]

\* Whoever has a block may give it back.
Fair(s) == \A x \in Names : s.own[x] \in {Nobody, s.p[x]}

\* Whom a block goes to that personality q takes.
Mark(q) == IF fault = "stateless" THEN 0 ELSE q

\* Of x alone.
Sets(g, h, x, v) == h[x] = v /\ h[Other(x)] = g[Other(x)]

\* x with personality p has been filled, what it has had given back by another.
Filling(s, t, x, o, p, by) ==
  LET gets == o # Nobody /\ fault # "loses"
      reuses == gets /\ s.own[x] # Nobody /\ p = s.p[x] /\ fault # "reallocates"
  IN  \/ /\ reuses
         /\ t.own[x] = s.own[x] /\ t.allocs = s.allocs
      \/ /\ gets /\ ~ (reuses /\ kind = "set") /\ s.own[x] \in {Nobody, by}
         /\ t.own[x] = Mark(p) /\ t.allocs = s.allocs + 1
      \/ /\ ~ gets /\ s.own[x] \in {Nobody, by}
         /\ t.own[x] = Nobody /\ t.allocs = s.allocs

\* x has got the block of the other, or a copy of its element.
Taking(s, t, x, by) ==
  /\ s.own[x] \in {Nobody, by}
  /\ t.own[x] = s.own[Other(x)] /\ t.own[Other(x)] = Nobody
  /\ t.here[x] = s.here[Other(x)] /\ t.allocs = s.allocs

MovingEach(s, t, x, p, by) ==
  /\ Filling(s, t, x, s.own[Other(x)], p, by)
  /\ s.own[x] = Nobody /\ s.here[Other(x)] => ~ t.here[x]
  /\ \/ kind # "set" /\ t.own[Other(x)] = s.own[Other(x)]
     \/ t.own[Other(x)] = Nobody

Moving(s, t, x, p, by) ==
  /\ t.p[x] = p
  /\ t.p[Other(x)] = IF fault = "resets_moved_from" THEN 0 ELSE s.p[Other(x)]
  /\ IF (p = s.p[Other(x)] \/ fault = "steals") /\ fault # "moves_each"
       THEN Taking(s, t, x, by) ELSE MovingEach(s, t, x, p, by)

CopyOf(st, selects, from) ==
  IF fault = "copies_allocator" THEN from
  ELSE IF fault = "default_allocator" THEN 0
  ELSE IF st.op = "copy_with" THEN st.p
  ELSE IF selects THEN from ELSE 0

\* What a statement does that neither throws nor fails.
Step(st, tr, s, t) ==
  LET x == st.x
      from == s.p[Other(x)]
  IN
  CASE st.op = "construct" ->
         Sets(s.p, t.p, x, st.p) /\ t.own = s.own /\ t.here = s.here /\ t.allocs = s.allocs
    [] st.op = "push" ->
         /\ t.p = s.p /\ Sets(s.own, t.own, x, Mark(s.p[x]))
         /\ t.here[Other(x)] = s.here[Other(x)]
    [] st.op \in {"copy", "copy_with"} ->
         LET p == CopyOf(st, tr.selects, from) IN
         /\ Sets(s.p, t.p, x, p) /\ t.own[Other(x)] = s.own[Other(x)]
         /\ Filling(s, t, x, s.own[Other(x)], p, p)
    [] st.op = "assign" ->
         LET p == IF Propagates(tr.copies) THEN from ELSE s.p[x] IN
         /\ Sets(s.p, t.p, x, p) /\ t.own[Other(x)] = s.own[Other(x)]
         /\ Filling(s, t, x, s.own[Other(x)], p, IF fault = "frees_late" THEN p ELSE s.p[x])
    [] st.op \in {"move", "move_with"} ->
         LET p == IF st.op = "move" \/ fault = "copies_allocator" THEN from ELSE st.p IN
         Moving(s, t, x, p, p)
    [] st.op = "move_assign" ->
         LET p == IF Propagates(tr.moves) THEN from ELSE s.p[x] IN
         Moving(s, t, x, p, IF fault = "frees_late" THEN p ELSE s.p[x])
    [] st.op = "swap" ->
         /\ t.own = [z \in Names |-> s.own[Other(z)]]
         /\ t.p = IF Propagates(tr.swaps) THEN [z \in Names |-> s.p[Other(z)]] ELSE s.p
    [] st.op = "keep" ->
         t.p = s.p /\ t.own = s.own /\ t.here["v1"] = (s.own["v1"] # Nobody)
    [] st.op = "count" -> t.p = s.p /\ t.own = s.own /\ t.allocs = 0
    [] st.op = "personality" -> t = s /\ s.p[x] = st.p
    [] st.op = "begin" -> t = s /\ (s.own[x] # Nobody => s.here[x])
    [] st.op = "counted" -> t = s /\ s.allocs = 0
    [] st.op = "absent" -> t = s /\ s.own[x] = Nobody
    [] st.op = "present" -> t = s /\ s.own[x] # Nobody

\* A statement that does nothing wrong with a container that does nothing wrong.
Ready(st, s) ==
  CASE st.op \in {"construct", "push", "keep", "count", "swap"} -> TRUE
    [] st.op \in {"copy", "copy_with", "move", "move_with"} ->
         s.own[st.x] = Nobody /\ s.own[st.y] \in {Nobody, s.p[st.y]}
    [] st.op \in {"assign", "move_assign"} -> Fair(s)
    [] st.op = "personality" -> s.p[st.x] = st.p
    [] st.op = "begin" -> s.here[st.x]
    [] st.op = "counted" -> s.allocs = 0
    [] st.op = "absent" -> s.own[st.x] = Nobody
    [] st.op = "present" -> s.own[st.x] # Nobody

-----------------------------------------------------------------------------
(* The invariant: the tests performed so far have come to where the program    *)
(* is, from nothing and step by step.                                       *)

TwoBoxes == {"copy", "copy_with", "assign", "move", "move_with", "move_assign", "swap"}
OneBox == {"construct", "push", "keep", "count", "personality", "begin", "counted", "absent", "present"}
Statement ==
  {st \in [op : TwoBoxes \cup OneBox, x : Names, y : Names, p : 0..2] :
     st.op \in TwoBoxes => st.y = Other(st.x)}
Test == [traits : [copies : BOOLEAN, moves : BOOLEAN, swaps : BOOLEAN, selects : BOOLEAN],
         body : Seq(Statement)]

Boxes == [Names -> [alive : BOOLEAN, p : 0..2, block : Blocks \cup {None}]]

TypeInv ==
  /\ kind \in Kinds /\ fault \in Faults
  /\ box \in Boxes
  /\ DOMAIN alloc_map \subseteq Blocks
  /\ alloc_map \in [DOMAIN alloc_map -> 0..2]
  /\ allocs \in Nat
  /\ test \in DOMAIN Tests /\ pos \in 1..Len(Tests[test].body) + 1
  /\ status \in {"running", "passed", "failed", "terminated"}

\* No block is held twice, or after it has been given back.
HeldInv ==
  /\ \A x \in Names : Has(x) => box[x].block \in DOMAIN alloc_map
  /\ Has("v1") => box["v1"].block # box["v2"].block

\* The n - 1 first statements of a test have been performed, from nothing.
Reaches(tr, body, w, n) ==
  tr[1] = Blank /\ \A i \in 1..n - 1 : Step(body[i], w, tr[i], tr[i + 1])

Trace(tr) == Reaches(tr, Tests[test].body, traits, pos) /\ tr[pos] = Now

Base == MapIsHeap /\ TypeInv /\ (status = "running" => HeldInv)
TraceInv == status = "running" => \E tr : Trace(tr)

\* Which test ends the session, for each fault that one does.
NoticedBy ==
  CASE fault = "stateless" -> 1 [] fault = "default_allocator" -> 2
    [] fault = "copies_allocator" -> 3 [] fault = "always_propagates" -> 4
    [] fault \in {"never_propagates", "frees_late"} -> 5
    [] fault \in {"moves_each", "resets_moved_from"} -> 6
    [] fault = "steals" -> 7 [] fault = "reallocates" -> 10 [] fault = "loses" -> 11

NoticedInv ==
  /\ FaultsNoticed
  /\ status = "running" /\ fault \notin Unseen => test <= NoticedBy

-----------------------------------------------------------------------------
(* Which statements there are.                                              *)

LEMMA Others ==
  /\ \A x \in Names : Other(x) \in Names /\ Other(x) # x /\ Other(Other(x)) = x
  /\ \A x, y \in Names : y # x => y = Other(x)
BY DEF Names, Other

LEMMA Joined ==
  ASSUME NEW S, NEW s \in Seq(S), NEW t \in Seq(S)
  PROVE  s \o t \in Seq(S)
OBVIOUS

LEMMA Statements ==
  /\ \A x \in Names, p \in 0..2 : Construct(x, p) \in Statement /\ Push(x) \in Statement /\ Verify(x, p) \in Statement
  /\ VerifyBegin \in Statement /\ Keep \in Statement
  /\ \A op \in TwoBoxes, x \in Names, p \in 0..2 : Do(op, x, Other(x), p) \in Statement
  /\ \A op \in OneBox, x \in Names : Do(op, x, x, 0) \in Statement
<1>1. \A op \in OneBox, x \in Names, p \in 0..2 : Do(op, x, x, p) \in Statement
  BY DEF Do, Statement, OneBox, TwoBoxes
<1>2. \A op \in TwoBoxes, x \in Names, p \in 0..2 : Do(op, x, Other(x), p) \in Statement
  BY Others DEF Do, Statement
<1>3. \A op \in OneBox, x \in Names : Do(op, x, x, 0) \in Statement
  BY <1>1
<1>4. \A x \in Names, p \in 0..2 : Construct(x, p) \in Statement /\ Push(x) \in Statement /\ Verify(x, p) \in Statement
  BY <1>1 DEF Construct, Push, Verify, OneBox
<1>5. VerifyBegin \in Statement /\ Keep \in Statement
  BY <1>1 DEF VerifyBegin, Keep, OneBox, Names
<1> QED BY <1>2, <1>3, <1>4, <1>5

LEMMA Bodies ==
  ASSUME NEW a \in Statement, NEW b \in Statement, NEW c \in Statement, NEW d \in Statement,
         NEW e \in Statement, NEW g \in Statement, NEW h \in Statement, NEW i \in Statement, NEW j \in Statement
  PROVE  /\ <<a, b, c, d, e>> \in Seq(Statement)
         /\ <<a, b, c, d, e, g, h>> \in Seq(Statement)
         /\ <<a, b, c, d, e, g, h, i>> \in Seq(Statement)
         /\ <<a, b, c, d, e, g, h, i, j>> \in Seq(Statement)
<1> HIDE DEF Statement
<1> QED OBVIOUS

LEMMA Traits ==
  /\ uneq \in [copies : BOOLEAN, moves : BOOLEAN, swaps : BOOLEAN, selects : BOOLEAN]
  /\ \A p \in BOOLEAN :
       propagating(p) \in [copies : BOOLEAN, moves : BOOLEAN, swaps : BOOLEAN, selects : BOOLEAN]
BY DEF uneq, propagating

LEMMA TestOf ==
  ASSUME NEW b \in Seq(Statement)
  PROVE  /\ [traits |-> uneq, body |-> b] \in Test
         /\ [traits |-> propagating(FALSE), body |-> b] \in Test
         /\ [traits |-> propagating(TRUE), body |-> b] \in Test
BY Traits DEF Test

LEMMA TestsOf ==
  /\ \A s \in Test : <<s>> \in Seq(Test)
  /\ \A s, t \in Test : <<s, t>> \in Seq(Test)
  /\ \A s, t, u \in Test : <<s, t, u>> \in Seq(Test)
<1> HIDE DEF Test
<1> QED OBVIOUS

LEMMA CopyTyped == Copy \in Seq(Test)
<1>1. /\ Construct("v1", 1) \in Statement /\ Push("v1") \in Statement
      /\ Verify("v1", 1) \in Statement /\ Verify("v2", 0) \in Statement
      /\ Verify("v2", 1) \in Statement /\ Verify("v2", 2) \in Statement
  BY Statements DEF Names
<1>2. Do("copy", "v2", "v1", 0) \in Statement /\ Do("copy_with", "v2", "v1", 2) \in Statement
  BY Statements DEF TwoBoxes, Names, Other
<1>3. /\ <<Construct("v1", 1), Push("v1"), Do("copy", "v2", "v1", 0), Verify("v1", 1), Verify("v2", 0)>> \in Seq(Statement)
      /\ <<Construct("v1", 1), Push("v1"), Do("copy", "v2", "v1", 0), Verify("v1", 1), Verify("v2", 1)>> \in Seq(Statement)
      /\ <<Construct("v1", 1), Push("v1"), Do("copy_with", "v2", "v1", 2), Verify("v1", 1), Verify("v2", 2)>> \in Seq(Statement)
  BY <1>1, <1>2, Bodies, Zenon
<1> QED BY <1>3, TestOf, TestsOf, Zenon DEF Copy

LEMMA PairTyped ==
  ASSUME NEW q \in {1, 2}
  PROVE  /\ Construct("v1", 1) \in Statement /\ Push("v1") \in Statement
         /\ Construct("v2", q) \in Statement /\ Push("v2") \in Statement
         /\ Verify("v1", q) \in Statement /\ Verify("v2", q) \in Statement
         /\ Keep \in Statement /\ VerifyBegin \in Statement
         /\ Do("move", "v2", "v1", 0) \in Statement /\ Do("move_with", "v2", "v1", 2) \in Statement
         /\ Do("assign", "v2", "v1", 0) \in Statement
         /\ Do("move_assign", "v2", "v1", 0) \in Statement /\ Do("move_assign", "v1", "v2", 0) \in Statement
         /\ Do("swap", "v1", "v2", 0) \in Statement
         /\ Do("count", "v1", "v1", 0) \in Statement /\ Do("counted", "v1", "v1", 0) \in Statement
         /\ Do("absent", "v1", "v1", 0) \in Statement /\ Do("present", "v2", "v2", 0) \in Statement
<1>1. /\ Construct("v1", 1) \in Statement /\ Push("v1") \in Statement
      /\ Construct("v2", q) \in Statement /\ Push("v2") \in Statement
      /\ Verify("v1", q) \in Statement /\ Verify("v2", q) \in Statement
      /\ Keep \in Statement /\ VerifyBegin \in Statement
  BY Statements DEF Names
<1>2. /\ Do("move", "v2", "v1", 0) \in Statement /\ Do("move_with", "v2", "v1", 2) \in Statement
      /\ Do("assign", "v2", "v1", 0) \in Statement
      /\ Do("move_assign", "v2", "v1", 0) \in Statement /\ Do("move_assign", "v1", "v2", 0) \in Statement
      /\ Do("swap", "v1", "v2", 0) \in Statement
  BY Statements DEF TwoBoxes, Names, Other
<1>3. /\ Do("count", "v1", "v1", 0) \in Statement /\ Do("counted", "v1", "v1", 0) \in Statement
      /\ Do("absent", "v1", "v1", 0) \in Statement /\ Do("present", "v2", "v2", 0) \in Statement
  BY Statements DEF OneBox, Names
<1> QED BY <1>1, <1>2, <1>3

LEMMA AssignTyped == CopyAssign \in Seq(Test) /\ MoveAssign \in Seq(Test)
<1>1. /\ <<Construct("v1", 1), Push("v1"), Construct("v2", 2), Push("v2"),
           Do("assign", "v2", "v1", 0), Verify("v1", 1), Verify("v2", 2)>> \in Seq(Statement)
      /\ <<Construct("v1", 1), Push("v1"), Construct("v2", 2), Push("v2"),
           Do("assign", "v2", "v1", 0), Verify("v1", 1), Verify("v2", 1)>> \in Seq(Statement)
      /\ <<Construct("v1", 1), Push("v1"), Construct("v2", 2), Push("v2"),
           Do("move_assign", "v2", "v1", 0), Verify("v1", 1), Verify("v2", 2)>> \in Seq(Statement)
      /\ <<Construct("v1", 1), Push("v1"), Keep, Construct("v2", 2), Push("v2"),
           Do("move_assign", "v2", "v1", 0), VerifyBegin, Verify("v1", 1), Verify("v2", 1)>> \in Seq(Statement)
  BY PairTyped, Bodies, Zenon
<1> QED BY <1>1, TestOf, TestsOf, Zenon DEF CopyAssign, MoveAssign

LEMMA MoveTyped == Move \in Seq(Test) /\ Swap \in Seq(Test)
<1>1. /\ <<Construct("v1", 1), Push("v1"), Keep, Do("move", "v2", "v1", 0),
           Verify("v1", 1), Verify("v2", 1), VerifyBegin>> \in Seq(Statement)
      /\ <<Construct("v1", 1), Push("v1"), Do("move_with", "v2", "v1", 2), Verify("v1", 1), Verify("v2", 2)>>
           \in Seq(Statement)
      /\ <<Construct("v1", 1), Push("v1"), Construct("v2", 2), Push("v2"),
           Do("swap", "v1", "v2", 0), Verify("v1", 1), Verify("v2", 2), Do("swap", "v1", "v2", 0)>> \in Seq(Statement)
      /\ <<Construct("v1", 1), Push("v1"), Construct("v2", 2), Push("v2"),
           Do("swap", "v1", "v2", 0), Verify("v1", 2), Verify("v2", 1)>> \in Seq(Statement)
  BY PairTyped, Bodies, Zenon
<1> QED BY <1>1, TestOf, TestsOf, Zenon DEF Move, Swap

\* Those of the container alone.
Special == CASE kind = "vector" -> <<MoveAssignEqual>>
             [] kind = "set" -> <<MoveAssignReuses, MoveCons>>
             [] OTHER -> << >>

LEMMA SpecialTyped == Special \in Seq(Test)
<1>1. MoveAssignEqual \in Test
  <2>1. <<Construct("v1", 1), Push("v1"), Keep, Construct("v2", 1), Push("v2"),
          Do("move_assign", "v2", "v1", 0), VerifyBegin, Verify("v1", 1), Verify("v2", 1)>> \in Seq(Statement)
    BY PairTyped, Bodies, Zenon
  <2> QED BY <2>1, TestOf, Zenon DEF MoveAssignEqual
<1>2. MoveAssignReuses \in Test
  <2>1. <<Construct("v1", 1), Push("v1"), Construct("v2", 2), Push("v2"), Do("count", "v1", "v1", 0),
          Do("move_assign", "v1", "v2", 0), Verify("v1", 1), Verify("v2", 2), Do("counted", "v1", "v1", 0)>>
            \in Seq(Statement)
    BY PairTyped, Bodies, Zenon
  <2> QED BY <2>1, TestOf, Zenon DEF MoveAssignReuses
<1>3. MoveCons \in Test
  <2>1. <<Construct("v1", 1), Push("v1"), Do("move_with", "v2", "v1", 2), Verify("v1", 1), Verify("v2", 2),
          Do("absent", "v1", "v1", 0), Do("present", "v2", "v2", 0)>> \in Seq(Statement)
    BY PairTyped, Bodies, Zenon
  <2> QED BY <2>1, TestOf, Zenon DEF MoveCons
<1> HIDE DEF Test
<1>4. << >> \in Seq(Test)
  OBVIOUS
<1> QED BY <1>1, <1>2, <1>3, <1>4, TestsOf, Zenon DEF Special

LEMMA TestsTyped == Tests \in Seq(Test)
<1>1. Tests = Copy \o CopyAssign \o Move \o MoveAssign \o Special \o Swap
  BY DEF Tests, Special
<1> QED BY <1>1, CopyTyped, AssignTyped, MoveTyped, SpecialTyped, Joined

-----------------------------------------------------------------------------
(* The tests, each in its place.                                              *)

LEMMA Lengths ==
  Len(Copy) = 3 /\ Len(CopyAssign) = 2 /\ Len(Move) = 2 /\ Len(MoveAssign) = 2 /\ Len(Swap) = 2
BY DEF Copy, CopyAssign, Move, MoveAssign, Swap

LEMMA Specials ==
  \/ Special = << >> /\ kind \notin {"vector", "set"}
  \/ Special = <<MoveAssignEqual>> /\ kind = "vector"
  \/ Special = <<MoveAssignReuses, MoveCons>> /\ kind = "set"
BY Zenon DEF Special

LEMMA SpecialLength ==
  /\ kind \notin {"vector", "set"} => Len(Special) = 0
  /\ kind = "vector" => Len(Special) = 1
  /\ kind = "set" => Len(Special) = 2
  /\ Len(Special) \in 0..2
BY Specials

LEMMA After ==
  ASSUME NEW S, NEW s \in Seq(S), NEW t \in Seq(S)
  PROVE  /\ Len(s \o t) = Len(s) + Len(t)
         /\ \A k \in 1..Len(s) : (s \o t)[k] = s[k]
         /\ \A k \in 1..Len(t) : (s \o t)[Len(s) + k] = t[k]
BY ConcatProperties

LEMMA Places ==
  /\ Len(Tests) = 11 + Len(Special) /\ DOMAIN Tests = 1..Len(Tests)
  /\ \A k \in 1..3 : Tests[k] = Copy[k]
  /\ \A k \in 1..2 : Tests[3 + k] = CopyAssign[k]
  /\ \A k \in 1..2 : Tests[5 + k] = Move[k]
  /\ \A k \in 1..2 : Tests[7 + k] = MoveAssign[k]
  /\ \A k \in 1..Len(Special) : Tests[9 + k] = Special[k]
  /\ \A k \in 1..2 : Tests[9 + Len(Special) + k] = Swap[k]
<1> DEFINE a == Copy \o CopyAssign
           b == a \o Move
           c == b \o MoveAssign
           d == c \o Special
<1>1. Tests = d \o Swap
  BY DEF Tests, Special
<1>2. /\ Copy \in Seq(Test) /\ CopyAssign \in Seq(Test) /\ Move \in Seq(Test)
      /\ MoveAssign \in Seq(Test) /\ Special \in Seq(Test) /\ Swap \in Seq(Test)
  BY CopyTyped, AssignTyped, MoveTyped, SpecialTyped
<1>3. a \in Seq(Test) /\ b \in Seq(Test) /\ c \in Seq(Test) /\ d \in Seq(Test) /\ d \o Swap \in Seq(Test)
  BY <1>2, Joined
<1>4. DOMAIN (d \o Swap) = 1..Len(d \o Swap)
  BY <1>3
<1>5. /\ Len(a) = Len(Copy) + Len(CopyAssign)
      /\ \A k \in 1..Len(Copy) : a[k] = Copy[k]
      /\ \A k \in 1..Len(CopyAssign) : a[Len(Copy) + k] = CopyAssign[k]
  BY <1>2, After
<1> HIDE DEF a
<1>6. /\ Len(b) = Len(a) + Len(Move)
      /\ \A k \in 1..Len(a) : b[k] = a[k]
      /\ \A k \in 1..Len(Move) : b[Len(a) + k] = Move[k]
  BY <1>2, <1>3, After
<1> HIDE DEF b
<1>7. /\ Len(c) = Len(b) + Len(MoveAssign)
      /\ \A k \in 1..Len(b) : c[k] = b[k]
      /\ \A k \in 1..Len(MoveAssign) : c[Len(b) + k] = MoveAssign[k]
  BY <1>2, <1>3, After
<1> HIDE DEF c
<1>8. /\ Len(d) = Len(c) + Len(Special)
      /\ \A k \in 1..Len(c) : d[k] = c[k]
      /\ \A k \in 1..Len(Special) : d[Len(c) + k] = Special[k]
  BY <1>2, <1>3, After
<1> HIDE DEF d
<1>9. /\ Len(Tests) = Len(d) + Len(Swap) /\ DOMAIN Tests = 1..Len(Tests)
      /\ \A k \in 1..Len(d) : Tests[k] = d[k]
      /\ \A k \in 1..Len(Swap) : Tests[Len(d) + k] = Swap[k]
  BY <1>1, <1>2, <1>3, <1>4, After
<1>10. Len(a) = 5 /\ Len(b) = 7 /\ Len(c) = 9 /\ Len(d) = 9 + Len(Special) /\ Len(Special) \in Nat
  BY ONLY <1>5, <1>6, <1>7, <1>8, Lengths, SpecialLength
<1>11. Len(Tests) = 11 + Len(Special)
  BY ONLY <1>9, <1>10, Lengths
<1>12. /\ \A k \in 1..3 : a[k] = Copy[k]
       /\ \A k \in 1..2 : a[3 + k] = CopyAssign[k]
  BY ONLY <1>5, Lengths
<1>13. /\ \A k \in 1..5 : b[k] = a[k]
       /\ \A k \in 1..2 : b[5 + k] = Move[k]
  BY ONLY <1>6, <1>10, Lengths
<1>14. /\ \A k \in 1..7 : c[k] = b[k]
       /\ \A k \in 1..2 : c[7 + k] = MoveAssign[k]
  BY ONLY <1>7, <1>10, Lengths
<1>15. /\ \A k \in 1..9 : d[k] = c[k]
       /\ \A k \in 1..Len(Special) : d[9 + k] = Special[k]
  BY ONLY <1>8, <1>10, Lengths
<1>16. /\ \A k \in 1..9 + Len(Special) : Tests[k] = d[k]
       /\ \A k \in 1..2 : Tests[9 + Len(Special) + k] = Swap[k]
  BY ONLY <1>9, <1>10, Lengths
<1>17. \A k \in 1..9 : Tests[k] = c[k]
  BY ONLY <1>15, <1>16, <1>10
<1>18. \A k \in 1..7 : Tests[k] = b[k]
  BY ONLY <1>14, <1>17
<1>19. \A k \in 1..5 : Tests[k] = a[k]
  BY ONLY <1>13, <1>18
<1>20. /\ \A k \in 1..3 : Tests[k] = Copy[k]
       /\ \A k \in 1..2 : Tests[3 + k] = CopyAssign[k]
       /\ \A k \in 1..2 : Tests[5 + k] = Move[k]
       /\ \A k \in 1..2 : Tests[7 + k] = MoveAssign[k]
       /\ \A k \in 1..Len(Special) : Tests[9 + k] = Special[k]
  BY ONLY <1>10, <1>12, <1>13, <1>14, <1>15, <1>16, <1>17, <1>18, <1>19
<1> QED BY <1>9, <1>11, <1>16, <1>20

-----------------------------------------------------------------------------
(* What the statements of the tests do to v1 and v2.                          *)

\* The personalities, and who the blocks have gone to.
Stands(s, p1, o1, p2, o2) ==
  s.p["v1"] = p1 /\ s.own["v1"] = o1 /\ s.p["v2"] = p2 /\ s.own["v2"] = o2

LEMMA ConstructDoes ==
  ASSUME NEW w, NEW s, NEW t, NEW p, NEW p1, NEW o1, NEW p2, NEW o2, Stands(s, p1, o1, p2, o2)
  PROVE  /\ Step(Construct("v1", p), w, s, t) => Stands(t, p, o1, p2, o2) /\ t.here = s.here
         /\ Step(Construct("v2", p), w, s, t) => Stands(t, p1, o1, p, o2) /\ t.here = s.here
BY DEF Step, Construct, Do, Sets, Other, Stands

LEMMA PushDoes ==
  ASSUME NEW w, NEW s, NEW t, NEW p1, NEW o1, NEW p2, NEW o2, Stands(s, p1, o1, p2, o2)
  PROVE  /\ Step(Push("v1"), w, s, t) => Stands(t, p1, Mark(p1), p2, o2) /\ t.here["v2"] = s.here["v2"]
         /\ Step(Push("v2"), w, s, t) => Stands(t, p1, o1, p2, Mark(p2)) /\ t.here["v1"] = s.here["v1"]
BY DEF Step, Push, Do, Sets, Other, Stands

LEMMA KeepDoes ==
  ASSUME NEW w, NEW s, NEW t, NEW p1, NEW o1, NEW p2, NEW o2, Stands(s, p1, o1, p2, o2),
         Step(Keep, w, s, t)
  PROVE  Stands(t, p1, o1, p2, o2) /\ (o1 # Nobody => t.here["v1"])
BY DEF Step, Keep, Do, Stands

LEMMA VerifyDoes ==
  ASSUME NEW w, NEW s, NEW t
  PROVE  /\ \A x, p : Step(Verify(x, p), w, s, t) => t = s /\ s.p[x] = p
         /\ Step(VerifyBegin, w, s, t) => t = s /\ (s.own["v2"] # Nobody => s.here["v2"])
         /\ Step(Do("counted", "v1", "v1", 0), w, s, t) => t = s /\ s.allocs = 0
         /\ Step(Do("absent", "v1", "v1", 0), w, s, t) => t = s /\ s.own["v1"] = Nobody
         /\ Step(Do("present", "v2", "v2", 0), w, s, t) => t = s /\ s.own["v2"] # Nobody
BY DEF Step, Verify, VerifyBegin, Do

LEMMA CountDoes ==
  ASSUME NEW w, NEW s, NEW t, NEW p1, NEW o1, NEW p2, NEW o2, Stands(s, p1, o1, p2, o2),
         Step(Do("count", "v1", "v1", 0), w, s, t)
  PROVE  Stands(t, p1, o1, p2, o2) /\ t.allocs = 0
BY DEF Step, Do, Stands

LEMMA CopyDoes ==
  ASSUME NEW w, NEW s, NEW t, NEW p1, NEW o1, NEW p2, NEW o2, Stands(s, p1, o1, p2, o2)
  PROVE  /\ Step(Do("copy", "v2", "v1", 0), w, s, t) =>
              LET p == CopyOf(Do("copy", "v2", "v1", 0), w.selects, p1)
              IN  Stands(t, p1, o1, p, t.own["v2"]) /\ Filling(s, t, "v2", o1, p, p)
         /\ Step(Do("copy_with", "v2", "v1", 2), w, s, t) =>
              LET p == CopyOf(Do("copy_with", "v2", "v1", 2), w.selects, p1)
              IN  Stands(t, p1, o1, p, t.own["v2"]) /\ Filling(s, t, "v2", o1, p, p)
BY DEF Step, Do, Sets, Other, Stands

LEMMA AssignDoes ==
  ASSUME NEW w, NEW s, NEW t, NEW p1, NEW o1, NEW p2, NEW o2, Stands(s, p1, o1, p2, o2),
         Step(Do("assign", "v2", "v1", 0), w, s, t)
  PROVE  LET p == IF Propagates(w.copies) THEN p1 ELSE p2
         IN  /\ Stands(t, p1, o1, p, t.own["v2"])
             /\ Filling(s, t, "v2", o1, p, IF fault = "frees_late" THEN p ELSE p2)
BY DEF Step, Do, Sets, Other, Stands

LEMMA MoveDoes ==
  ASSUME NEW w, NEW s, NEW t, NEW p1, NEW o1, NEW p2, NEW o2, Stands(s, p1, o1, p2, o2)
  PROVE  /\ Step(Do("move", "v2", "v1", 0), w, s, t) => Moving(s, t, "v2", p1, p1)
         /\ Step(Do("move_with", "v2", "v1", 2), w, s, t) =>
              LET p == IF fault = "copies_allocator" THEN p1 ELSE 2 IN Moving(s, t, "v2", p, p)
BY DEF Step, Do, Other, Stands

LEMMA MoveAssignDoes ==
  ASSUME NEW w, NEW s, NEW t, NEW p1, NEW o1, NEW p2, NEW o2, Stands(s, p1, o1, p2, o2),
         Step(Do("move_assign", "v2", "v1", 0), w, s, t)
  PROVE  LET p == IF Propagates(w.moves) THEN p1 ELSE p2
         IN  Moving(s, t, "v2", p, IF fault = "frees_late" THEN p ELSE p2)
BY DEF Step, Do, Other, Stands

LEMMA MoveAssignBackDoes ==
  ASSUME NEW w, NEW s, NEW t, NEW p1, NEW o1, NEW p2, NEW o2, Stands(s, p1, o1, p2, o2),
         Step(Do("move_assign", "v1", "v2", 0), w, s, t)
  PROVE  LET p == IF Propagates(w.moves) THEN p2 ELSE p1
         IN  Moving(s, t, "v1", p, IF fault = "frees_late" THEN p ELSE p1)
BY DEF Step, Do, Other, Stands

LEMMA SwapDoes ==
  ASSUME NEW w, NEW s, NEW t, NEW p1, NEW o1, NEW p2, NEW o2, Stands(s, p1, o1, p2, o2),
         Step(Do("swap", "v1", "v2", 0), w, s, t)
  PROVE  IF Propagates(w.swaps) THEN Stands(t, p2, o2, p1, o1) ELSE Stands(t, p1, o2, p2, o1)
BY DEF Step, Do, Other, Stands, Names

LEMMA Reached ==
  ASSUME NEW tr, NEW body, NEW w, NEW n \in Nat, NEW i \in Nat \ {0}, i < n, Reaches(tr, body, w, n)
  PROVE  Step(body[i], w, tr[i], tr[i + 1])
<1>1. i \in 1..n - 1
  OBVIOUS
<1> QED BY <1>1 DEF Reaches

LEMMA FilledOne ==
  ASSUME NEW tr, NEW body, NEW w, NEW n \in Nat, n >= 3, Reaches(tr, body, w, n),
         body[1] = Construct("v1", 1), body[2] = Push("v1")
  PROVE  Stands(tr[3], 1, Mark(1), 0, Nobody)
<1>1. Stands(tr[1], 0, Nobody, 0, Nobody)
  BY DEF Reaches, Stands, Blank, Names
<1>2. Step(Construct("v1", 1), w, tr[1], tr[2]) /\ Step(Push("v1"), w, tr[2], tr[3])
  <2>1. Step(body[1], w, tr[1], tr[1 + 1]) /\ Step(body[2], w, tr[2], tr[2 + 1])
    BY Reached
  <2> QED BY <2>1
<1>3. Stands(tr[2], 1, Nobody, 0, Nobody)
  BY <1>1, <1>2, ConstructDoes, Zenon
<1> QED BY <1>2, <1>3, PushDoes, Zenon

LEMMA FilledBoth ==
  ASSUME NEW tr, NEW body, NEW w, NEW n \in Nat, n >= 5, Reaches(tr, body, w, n), NEW q,
         body[1] = Construct("v1", 1), body[2] = Push("v1"), body[3] = Construct("v2", q), body[4] = Push("v2")
  PROVE  Stands(tr[5], 1, Mark(1), q, Mark(q))
<1>1. Stands(tr[3], 1, Mark(1), 0, Nobody)
  BY FilledOne
<1>2. Step(Construct("v2", q), w, tr[3], tr[4]) /\ Step(Push("v2"), w, tr[4], tr[5])
  <2>1. Step(body[3], w, tr[3], tr[3 + 1]) /\ Step(body[4], w, tr[4], tr[4 + 1])
    BY Reached
  <2> QED BY <2>1
<1>3. Stands(tr[4], 1, Mark(1), q, Nobody)
  BY <1>1, <1>2, ConstructDoes, Zenon
<1> QED BY <1>2, <1>3, PushDoes, Zenon

LEMMA Kept ==
  ASSUME NEW tr, NEW body, NEW w, NEW n \in Nat, n >= 4, Reaches(tr, body, w, n),
         body[1] = Construct("v1", 1), body[2] = Push("v1"), body[3] = Keep
  PROVE  Stands(tr[4], 1, Mark(1), 0, Nobody) /\ tr[4].here["v1"]
<1>1. Stands(tr[3], 1, Mark(1), 0, Nobody)
  BY FilledOne
<1>2. Step(Keep, w, tr[3], tr[4])
  <2>1. Step(body[3], w, tr[3], tr[3 + 1])
    BY Reached
  <2> QED BY <2>1
<1>3. Mark(1) # Nobody
  BY DEF Mark, Nobody
<1> QED BY <1>1, <1>2, <1>3, KeepDoes

LEMMA KeptBoth ==
  ASSUME NEW tr, NEW body, NEW w, NEW n \in Nat, n >= 6, Reaches(tr, body, w, n), NEW q,
         body[1] = Construct("v1", 1), body[2] = Push("v1"), body[3] = Keep,
         body[4] = Construct("v2", q), body[5] = Push("v2")
  PROVE  Stands(tr[6], 1, Mark(1), q, Mark(q)) /\ tr[6].here["v1"]
<1>1. Stands(tr[4], 1, Mark(1), 0, Nobody) /\ tr[4].here["v1"]
  BY Kept
<1>2. Step(Construct("v2", q), w, tr[4], tr[5]) /\ Step(Push("v2"), w, tr[5], tr[6])
  <2>1. Step(body[4], w, tr[4], tr[4 + 1]) /\ Step(body[5], w, tr[5], tr[5 + 1])
    BY Reached
  <2> QED BY <2>1
<1>3. Stands(tr[5], 1, Mark(1), q, Nobody) /\ tr[5].here = tr[4].here
  BY <1>1, <1>2, ConstructDoes
<1>4. Stands(tr[6], 1, Mark(1), q, Mark(q)) /\ tr[6].here["v1"] = tr[5].here["v1"]
  BY <1>2, <1>3, PushDoes
<1> QED BY <1>1, <1>3, <1>4

-----------------------------------------------------------------------------
(* No test alarms falsely.                                                    *)

LEMMA FillsFairly ==
  ASSUME fault = "none", NEW s, NEW t, NEW x, NEW o, o # Nobody, NEW p, NEW by, Filling(s, t, x, o, p, by),
         s.own[x] \in {Nobody, s.p[x]}
  PROVE  /\ t.own[x] = p
         /\ kind = "set" /\ s.own[x] # Nobody /\ p = s.p[x] => t.allocs = s.allocs
BY DEF Filling, Mark

LEMMA MovesFairly ==
  ASSUME fault = "none", NEW s, NEW t, NEW x, NEW p, NEW by, Moving(s, t, x, p, by),
         s.own[x] \in {Nobody, s.p[x]}, s.own[Other(x)] # Nobody
  PROVE  /\ t.p[x] = p /\ t.p[Other(x)] = s.p[Other(x)]
         /\ IF p = s.p[Other(x)]
              THEN /\ t.own[x] = s.own[Other(x)] /\ t.own[Other(x)] = Nobody
                   /\ t.here[x] = s.here[Other(x)]
              ELSE /\ t.own[x] = p /\ t.own[Other(x)] \in {Nobody, s.own[Other(x)]}
                   /\ kind = "set" => t.own[Other(x)] = Nobody
                   /\ kind = "set" /\ s.own[x] # Nobody /\ p = s.p[x] => t.allocs = s.allocs
<1>1. t.p[x] = p /\ t.p[Other(x)] = s.p[Other(x)]
  BY DEF Moving
<1>2. CASE p = s.p[Other(x)]
  BY <1>1, <1>2 DEF Moving, Taking
<1>3. CASE p # s.p[Other(x)]
  <2>1. MovingEach(s, t, x, p, by)
    BY <1>3 DEF Moving
  <2>2. Filling(s, t, x, s.own[Other(x)], p, by)
    BY <2>1 DEF MovingEach
  <2>3. t.own[x] = p /\ (kind = "set" /\ s.own[x] # Nobody /\ p = s.p[x] => t.allocs = s.allocs)
    BY <2>2, FillsFairly
  <2> QED BY <1>1, <1>3, <2>1, <2>3 DEF MovingEach
<1> QED BY <1>2, <1>3

LEMMA ReadyTo ==
  ASSUME NEW s
  PROVE  /\ \A x, p : Ready(Construct(x, p), s)
         /\ \A x : Ready(Push(x), s)
         /\ Ready(Keep, s)
         /\ Ready(Do("count", "v1", "v1", 0), s)
         /\ Ready(Do("swap", "v1", "v2", 0), s)
         /\ \A x, p : s.p[x] = p => Ready(Verify(x, p), s)
         /\ s.here["v2"] => Ready(VerifyBegin, s)
         /\ s.allocs = 0 => Ready(Do("counted", "v1", "v1", 0), s)
         /\ s.own["v1"] = Nobody => Ready(Do("absent", "v1", "v1", 0), s)
         /\ s.own["v2"] # Nobody => Ready(Do("present", "v2", "v2", 0), s)
BY DEF Ready, Construct, Push, Keep, Verify, VerifyBegin, Do

LEMMA ReadyForBoth ==
  ASSUME NEW s, NEW p1, NEW o1, NEW p2, NEW o2, Stands(s, p1, o1, p2, o2), o1 \in {Nobody, p1}
  PROVE  /\ \A op \in {"copy", "copy_with", "move", "move_with"} : \A p :
              o2 = Nobody => Ready(Do(op, "v2", "v1", p), s)
         /\ o2 \in {Nobody, p2} =>
              /\ Fair(s)
              /\ Ready(Do("assign", "v2", "v1", 0), s)
              /\ Ready(Do("move_assign", "v2", "v1", 0), s)
              /\ Ready(Do("move_assign", "v1", "v2", 0), s)
<1>1. ASSUME o2 \in {Nobody, p2} PROVE Fair(s)
  BY <1>1 DEF Fair, Stands, Names
<1>2. ASSUME NEW op \in {"copy", "copy_with", "move", "move_with"}, NEW p, o2 = Nobody
      PROVE  Ready(Do(op, "v2", "v1", p), s)
  BY <1>2 DEF Ready, Do, Stands
<1>3. ASSUME o2 \in {Nobody, p2}
      PROVE  /\ Ready(Do("assign", "v2", "v1", 0), s)
             /\ Ready(Do("move_assign", "v2", "v1", 0), s)
             /\ Ready(Do("move_assign", "v1", "v2", 0), s)
  BY <1>1, <1>3 DEF Ready, Do
<1> QED BY <1>1, <1>2, <1>3

\* Wherever a test with traits w has come to, its next statement does nothing
\* wrong, and at its end the containers may be destroyed.
Passes(w, body) ==
  \A tr : \A n \in 1..Len(body) + 1 :
    Reaches(tr, body, w, n) => IF n <= Len(body) THEN Ready(body[n], tr[n]) ELSE Fair(tr[n])

LEMMA CopyDoesFairly ==
  ASSUME fault = "none", NEW w, NEW s, NEW t, Stands(s, 1, 1, 0, Nobody)
  PROVE  /\ Step(Do("copy", "v2", "v1", 0), w, s, t) =>
              LET p == IF w.selects THEN 1 ELSE 0 IN Stands(t, 1, 1, p, p)
         /\ Step(Do("copy_with", "v2", "v1", 2), w, s, t) => Stands(t, 1, 1, 2, 2)
<1>1. ASSUME Step(Do("copy", "v2", "v1", 0), w, s, t), NEW p, p = (IF w.selects THEN 1 ELSE 0)
      PROVE  Stands(t, 1, 1, p, p)
  <2>1. CopyOf(Do("copy", "v2", "v1", 0), w.selects, 1) = p
    BY <1>1 DEF CopyOf, Do
  <2>2. Stands(t, 1, 1, p, t.own["v2"]) /\ Filling(s, t, "v2", 1, p, p)
    BY <1>1, <2>1, CopyDoes
  <2> QED BY <2>2, FillsFairly DEF Stands, Nobody
<1>2. ASSUME Step(Do("copy_with", "v2", "v1", 2), w, s, t)
      PROVE  Stands(t, 1, 1, 2, 2)
  <2>1. CopyOf(Do("copy_with", "v2", "v1", 2), w.selects, 1) = 2
    BY DEF CopyOf, Do
  <2>2. Stands(t, 1, 1, 2, t.own["v2"]) /\ Filling(s, t, "v2", 1, 2, 2)
    BY <1>2, <2>1, CopyDoes
  <2> QED BY <2>2, FillsFairly DEF Stands, Nobody
<1> QED BY <1>1, <1>2

LEMMA Verified ==
  ASSUME NEW tr, NEW body, NEW w, NEW n \in Nat, NEW i \in Nat \ {0}, i < n, Reaches(tr, body, w, n),
         NEW x, NEW p, body[i] = Verify(x, p)
  PROVE  tr[i + 1] = tr[i] /\ tr[i].p[x] = p
<1>1. Step(Verify(x, p), w, tr[i], tr[i + 1])
  BY Reached
<1> QED BY <1>1, VerifyDoes

\* The personalities that the last two statements look for.
Ends(s, p1, p2) == s.p["v1"] = p1 /\ s.p["v2"] = p2 /\ Fair(s)

\* A test that makes something of one container.
LEMMA OnePasses ==
  ASSUME fault = "none", NEW w, NEW st, NEW p1, NEW p2,
         \A s : Stands(s, 1, 1, 0, Nobody) => Ready(st, s),
         \A s, t : Stands(s, 1, 1, 0, Nobody) /\ Step(st, w, s, t) => Ends(t, p1, p2)
  PROVE  Passes(w, <<Construct("v1", 1), Push("v1"), st, Verify("v1", p1), Verify("v2", p2)>>)
<1> DEFINE body == <<Construct("v1", 1), Push("v1"), st, Verify("v1", p1), Verify("v2", p2)>>
<1> SUFFICES ASSUME NEW tr, NEW n \in 1..Len(body) + 1, Reaches(tr, body, w, n)
             PROVE  IF n <= Len(body) THEN Ready(body[n], tr[n]) ELSE Fair(tr[n])
  BY Zenon DEF Passes
<1>1. /\ Len(body) = 5 /\ body[1] = Construct("v1", 1) /\ body[2] = Push("v1") /\ body[3] = st
      /\ body[4] = Verify("v1", p1) /\ body[5] = Verify("v2", p2)
  OBVIOUS
<1> HIDE DEF body
<1>2. n \in 1..6
  BY <1>1
<1>3. n >= 3 => Stands(tr[3], 1, 1, 0, Nobody)
  <2>1. n >= 3 => Stands(tr[3], 1, Mark(1), 0, Nobody)
    BY <1>1, <1>2, FilledOne
  <2> QED BY <2>1 DEF Mark
<1>4. n >= 4 => Ends(tr[4], p1, p2)
  <2>1. n >= 4 => Step(body[3], w, tr[3], tr[3 + 1])
    BY <1>2, Reached
  <2> QED BY <1>1, <1>2, <1>3, <2>1
<1>5. n >= 5 => tr[5] = tr[4]
  <2>1. n >= 5 => tr[4 + 1] = tr[4]
    BY <1>1, <1>2, Verified
  <2> QED BY <2>1
<1>6. n >= 6 => tr[6] = tr[4]
  <2>1. n >= 6 => tr[5 + 1] = tr[5]
    BY <1>1, <1>2, Verified
  <2> QED BY <2>1, <1>5
<1>7. CASE n = 1 \/ n = 2
  <2>1. Ready(body[1], tr[1]) /\ Ready(body[2], tr[2])
    BY <1>1, ReadyTo
  <2> QED BY <1>1, <1>7, <2>1
<1>8. CASE n = 3
  BY <1>1, <1>3, <1>8
<1>9. CASE n = 4 \/ n = 5
  <2>1. n >= 4 => Ready(body[4], tr[4])
    BY <1>1, <1>4, ReadyTo DEF Ends
  <2>2. n >= 5 => Ready(body[5], tr[5])
    BY <1>1, <1>2, <1>4, <1>5, ReadyTo DEF Ends
  <2> QED BY <1>1, <1>9, <2>1, <2>2
<1>10. CASE n = 6
  BY <1>1, <1>4, <1>6, <1>10 DEF Ends
<1> QED BY <1>2, <1>7, <1>8, <1>9, <1>10

\* A test that makes something of two.
LEMMA TwoPasses ==
  ASSUME fault = "none", NEW w, NEW st, NEW p1, NEW p2,
         \A s : Stands(s, 1, 1, 2, 2) => Ready(st, s),
         \A s, t : Stands(s, 1, 1, 2, 2) /\ Step(st, w, s, t) => Ends(t, p1, p2)
  PROVE  Passes(w, <<Construct("v1", 1), Push("v1"), Construct("v2", 2), Push("v2"),
                     st, Verify("v1", p1), Verify("v2", p2)>>)
<1> DEFINE body == <<Construct("v1", 1), Push("v1"), Construct("v2", 2), Push("v2"),
                     st, Verify("v1", p1), Verify("v2", p2)>>
<1> SUFFICES ASSUME NEW tr, NEW n \in 1..Len(body) + 1, Reaches(tr, body, w, n)
             PROVE  IF n <= Len(body) THEN Ready(body[n], tr[n]) ELSE Fair(tr[n])
  BY Zenon DEF Passes
<1>1. /\ Len(body) = 7 /\ body[1] = Construct("v1", 1) /\ body[2] = Push("v1")
      /\ body[3] = Construct("v2", 2) /\ body[4] = Push("v2") /\ body[5] = st
      /\ body[6] = Verify("v1", p1) /\ body[7] = Verify("v2", p2)
  OBVIOUS
<1> HIDE DEF body
<1>2. n \in 1..8
  BY <1>1
<1>3. n >= 5 => Stands(tr[5], 1, 1, 2, 2)
  <2>1. n >= 5 => Stands(tr[5], 1, Mark(1), 2, Mark(2))
    BY <1>1, <1>2, FilledBoth
  <2> QED BY <2>1 DEF Mark
<1>4. n >= 6 => Ends(tr[6], p1, p2)
  <2>1. n >= 6 => Step(body[5], w, tr[5], tr[5 + 1])
    BY <1>2, Reached
  <2> QED BY <1>1, <1>2, <1>3, <2>1
<1>5. n >= 7 => tr[7] = tr[6]
  <2>1. n >= 7 => tr[6 + 1] = tr[6]
    BY <1>1, <1>2, Verified
  <2> QED BY <2>1
<1>6. n >= 8 => tr[8] = tr[6]
  <2>1. n >= 8 => tr[7 + 1] = tr[7]
    BY <1>1, <1>2, Verified
  <2> QED BY <2>1, <1>5
<1>7. CASE n \in 1..4
  <2>1. Ready(body[1], tr[1]) /\ Ready(body[2], tr[2]) /\ Ready(body[3], tr[3]) /\ Ready(body[4], tr[4])
    BY <1>1, ReadyTo
  <2> QED BY <1>1, <1>7, <2>1
<1>8. CASE n = 5
  BY <1>1, <1>3, <1>8
<1>9. CASE n = 6 \/ n = 7
  <2>1. n >= 6 => Ready(body[6], tr[6])
    BY <1>1, <1>4, ReadyTo DEF Ends
  <2>2. n >= 7 => Ready(body[7], tr[7])
    BY <1>1, <1>2, <1>4, <1>5, ReadyTo DEF Ends
  <2> QED BY <1>1, <1>9, <2>1, <2>2
<1>10. CASE n = 8
  BY <1>1, <1>4, <1>6, <1>10 DEF Ends
<1> QED BY <1>2, <1>7, <1>8, <1>9, <1>10

\* A test that moves v1, which the iterator points into, to v2.
LEMMA KeptPasses ==
  ASSUME fault = "none", NEW w, NEW q, q = (IF w.moves THEN 2 ELSE 1)
  PROVE  Passes(w, <<Construct("v1", 1), Push("v1"), Keep, Construct("v2", q), Push("v2"),
                     Do("move_assign", "v2", "v1", 0), VerifyBegin, Verify("v1", 1), Verify("v2", 1)>>)
<1> DEFINE body == <<Construct("v1", 1), Push("v1"), Keep, Construct("v2", q), Push("v2"),
                     Do("move_assign", "v2", "v1", 0), VerifyBegin, Verify("v1", 1), Verify("v2", 1)>>
<1> SUFFICES ASSUME NEW tr, NEW n \in 1..Len(body) + 1, Reaches(tr, body, w, n)
             PROVE  IF n <= Len(body) THEN Ready(body[n], tr[n]) ELSE Fair(tr[n])
  BY Zenon DEF Passes
<1>1. /\ Len(body) = 9 /\ body[1] = Construct("v1", 1) /\ body[2] = Push("v1") /\ body[3] = Keep
      /\ body[4] = Construct("v2", q) /\ body[5] = Push("v2") /\ body[6] = Do("move_assign", "v2", "v1", 0)
      /\ body[7] = VerifyBegin /\ body[8] = Verify("v1", 1) /\ body[9] = Verify("v2", 1)
  OBVIOUS
<1> HIDE DEF body
<1>2. n \in 1..10
  BY <1>1
<1>3. n >= 6 => Stands(tr[6], 1, 1, q, q) /\ tr[6].here["v1"]
  <2>1. n >= 6 => Stands(tr[6], 1, Mark(1), q, Mark(q)) /\ tr[6].here["v1"]
    BY <1>1, <1>2, KeptBoth
  <2> QED BY <2>1 DEF Mark
<1>4. n >= 7 => Stands(tr[7], 1, Nobody, 1, 1) /\ tr[7].here["v2"]
  <2> SUFFICES ASSUME n >= 7 PROVE Stands(tr[7], 1, Nobody, 1, 1) /\ tr[7].here["v2"]
    OBVIOUS
  <2>1. Step(Do("move_assign", "v2", "v1", 0), w, tr[6], tr[7])
    <3>1. Step(body[6], w, tr[6], tr[6 + 1])
      BY <1>2, Reached
    <3> QED BY <3>1, <1>1
  <2>2. (IF Propagates(w.moves) THEN 1 ELSE q) = 1
    BY DEF Propagates
  <2>3. Moving(tr[6], tr[7], "v2", 1, q)
    <3>1. fault # "frees_late"
      OBVIOUS
    <3> QED BY <1>2, <1>3, <2>1, <2>2, <3>1, MoveAssignDoes
  <2>4. Other("v2") = "v1" /\ 1 # Nobody
    BY DEF Other, Nobody
  <2>5. /\ tr[7].p["v2"] = 1 /\ tr[7].p["v1"] = 1
        /\ tr[7].own["v2"] = 1 /\ tr[7].own["v1"] = Nobody /\ tr[7].here["v2"] = tr[6].here["v1"]
    BY <1>2, <1>3, <2>3, <2>4, MovesFairly DEF Stands
  <2> QED BY <1>2, <1>3, <2>5 DEF Stands
<1>5. n >= 8 => tr[8] = tr[7]
  <2>1. n >= 8 => Step(body[7], w, tr[7], tr[7 + 1])
    BY <1>2, Reached
  <2> QED BY <1>1, <1>2, <2>1, VerifyDoes
<1>6. n >= 9 => tr[9] = tr[7]
  <2>1. n >= 9 => tr[8 + 1] = tr[8]
    BY <1>1, <1>2, Verified
  <2> QED BY <2>1, <1>5
<1>7. n >= 10 => tr[10] = tr[7]
  <2>1. n >= 10 => tr[9 + 1] = tr[9]
    BY <1>1, <1>2, Verified
  <2> QED BY <2>1, <1>6
<1>8. CASE n \in 1..5
  <2>1. /\ Ready(body[1], tr[1]) /\ Ready(body[2], tr[2]) /\ Ready(body[3], tr[3]) /\ Ready(body[4], tr[4])
        /\ Ready(body[5], tr[5])
    BY <1>1, ReadyTo
  <2> QED BY <1>1, <1>8, <2>1
<1>9. CASE n = 6
  BY <1>1, <1>3, <1>9, ReadyForBoth
<1>10. CASE n \in 7..9
  <2>1. Ready(body[7], tr[7])
    BY <1>1, <1>2, <1>4, <1>10, ReadyTo
  <2>2. n >= 8 => Ready(body[8], tr[8])
    BY <1>1, <1>2, <1>4, <1>5, ReadyTo DEF Stands
  <2>3. n >= 9 => Ready(body[9], tr[9])
    BY <1>1, <1>2, <1>4, <1>6, ReadyTo DEF Stands
  <2> QED BY <1>1, <1>10, <2>1, <2>2, <2>3
<1>11. CASE n = 10
  BY <1>1, <1>4, <1>7, <1>11, ReadyForBoth
<1> QED BY <1>2, <1>8, <1>9, <1>10, <1>11

LEMMA KeptMovePasses ==
  ASSUME fault = "none", NEW w
  PROVE  Passes(w, <<Construct("v1", 1), Push("v1"), Keep, Do("move", "v2", "v1", 0),
                     Verify("v1", 1), Verify("v2", 1), VerifyBegin>>)
<1> DEFINE body == <<Construct("v1", 1), Push("v1"), Keep, Do("move", "v2", "v1", 0),
                     Verify("v1", 1), Verify("v2", 1), VerifyBegin>>
<1> SUFFICES ASSUME NEW tr, NEW n \in 1..Len(body) + 1, Reaches(tr, body, w, n)
             PROVE  IF n <= Len(body) THEN Ready(body[n], tr[n]) ELSE Fair(tr[n])
  BY Zenon DEF Passes
<1>1. /\ Len(body) = 7 /\ body[1] = Construct("v1", 1) /\ body[2] = Push("v1") /\ body[3] = Keep
      /\ body[4] = Do("move", "v2", "v1", 0)
      /\ body[5] = Verify("v1", 1) /\ body[6] = Verify("v2", 1) /\ body[7] = VerifyBegin
  OBVIOUS
<1> HIDE DEF body
<1>2. n \in 1..8
  BY <1>1
<1>3. n >= 4 => Stands(tr[4], 1, 1, 0, Nobody) /\ tr[4].here["v1"]
  <2>1. n >= 4 => Stands(tr[4], 1, Mark(1), 0, Nobody) /\ tr[4].here["v1"]
    BY <1>1, <1>2, Kept
  <2> QED BY <2>1 DEF Mark
<1>4. n >= 5 => Stands(tr[5], 1, Nobody, 1, 1) /\ tr[5].here["v2"]
  <2> SUFFICES ASSUME n >= 5 PROVE Stands(tr[5], 1, Nobody, 1, 1) /\ tr[5].here["v2"]
    OBVIOUS
  <2>1. Step(Do("move", "v2", "v1", 0), w, tr[4], tr[5])
    <3>1. Step(body[4], w, tr[4], tr[4 + 1])
      BY <1>2, Reached
    <3> QED BY <3>1, <1>1
  <2>2. Moving(tr[4], tr[5], "v2", 1, 1)
    BY <1>2, <1>3, <2>1, MoveDoes
  <2>3. Other("v2") = "v1" /\ 1 # Nobody
    BY DEF Other, Nobody
  <2>4. /\ tr[5].p["v2"] = 1 /\ tr[5].p["v1"] = 1
        /\ tr[5].own["v2"] = 1 /\ tr[5].own["v1"] = Nobody /\ tr[5].here["v2"] = tr[4].here["v1"]
    BY <1>2, <1>3, <2>2, <2>3, MovesFairly DEF Stands
  <2> QED BY <1>2, <1>3, <2>4 DEF Stands
<1>5. n >= 6 => tr[6] = tr[5]
  <2>1. n >= 6 => tr[5 + 1] = tr[5]
    BY <1>1, <1>2, Verified
  <2> QED BY <2>1
<1>6. n >= 7 => tr[7] = tr[5]
  <2>1. n >= 7 => tr[6 + 1] = tr[6]
    BY <1>1, <1>2, Verified
  <2> QED BY <2>1, <1>5
<1>7. n >= 8 => tr[8] = tr[5]
  <2>1. n >= 8 => Step(body[7], w, tr[7], tr[7 + 1])
    BY <1>2, Reached
  <2> QED BY <1>1, <1>2, <1>6, <2>1, VerifyDoes
<1>8. CASE n \in 1..3
  <2>1. Ready(body[1], tr[1]) /\ Ready(body[2], tr[2]) /\ Ready(body[3], tr[3])
    BY <1>1, ReadyTo
  <2> QED BY <1>1, <1>8, <2>1
<1>9. CASE n = 4
  BY <1>1, <1>3, <1>9, ReadyForBoth
<1>10. CASE n \in 5..7
  <2>1. Ready(body[5], tr[5])
    BY <1>1, <1>4, <1>10, ReadyTo DEF Stands
  <2>2. n >= 6 => Ready(body[6], tr[6])
    BY <1>1, <1>2, <1>4, <1>5, ReadyTo DEF Stands
  <2>3. n >= 7 => Ready(body[7], tr[7])
    BY <1>1, <1>2, <1>4, <1>6, ReadyTo
  <2> QED BY <1>1, <1>10, <2>1, <2>2, <2>3
<1>11. CASE n = 8
  BY <1>1, <1>4, <1>7, <1>11, ReadyForBoth
<1> QED BY <1>2, <1>8, <1>9, <1>10, <1>11

\* A set has used the node that it has.
LEMMA ReusesPasses ==
  ASSUME fault = "none", kind = "set", NEW w, w.moves = FALSE
  PROVE  Passes(w, <<Construct("v1", 1), Push("v1"), Construct("v2", 2), Push("v2"), Do("count", "v1", "v1", 0),
                     Do("move_assign", "v1", "v2", 0), Verify("v1", 1), Verify("v2", 2),
                     Do("counted", "v1", "v1", 0)>>)
<1> DEFINE body == <<Construct("v1", 1), Push("v1"), Construct("v2", 2), Push("v2"), Do("count", "v1", "v1", 0),
                     Do("move_assign", "v1", "v2", 0), Verify("v1", 1), Verify("v2", 2),
                     Do("counted", "v1", "v1", 0)>>
<1> SUFFICES ASSUME NEW tr, NEW n \in 1..Len(body) + 1, Reaches(tr, body, w, n)
             PROVE  IF n <= Len(body) THEN Ready(body[n], tr[n]) ELSE Fair(tr[n])
  BY Zenon DEF Passes
<1>1. /\ Len(body) = 9 /\ body[1] = Construct("v1", 1) /\ body[2] = Push("v1")
      /\ body[3] = Construct("v2", 2) /\ body[4] = Push("v2") /\ body[5] = Do("count", "v1", "v1", 0)
      /\ body[6] = Do("move_assign", "v1", "v2", 0)
      /\ body[7] = Verify("v1", 1) /\ body[8] = Verify("v2", 2) /\ body[9] = Do("counted", "v1", "v1", 0)
  OBVIOUS
<1> HIDE DEF body
<1>2. n \in 1..10
  BY <1>1
<1>3. n >= 6 => Stands(tr[6], 1, 1, 2, 2) /\ tr[6].allocs = 0
  <2>1. n >= 5 => Stands(tr[5], 1, Mark(1), 2, Mark(2))
    BY <1>1, <1>2, FilledBoth
  <2>2. n >= 5 => Stands(tr[5], 1, 1, 2, 2)
    BY <2>1 DEF Mark
  <2>3. n >= 6 => Step(body[5], w, tr[5], tr[5 + 1])
    BY <1>2, Reached
  <2> QED BY <1>1, <1>2, <2>2, <2>3, CountDoes
<1>4. n >= 7 => Stands(tr[7], 1, 1, 2, Nobody) /\ tr[7].allocs = 0
  <2> SUFFICES ASSUME n >= 7 PROVE Stands(tr[7], 1, 1, 2, Nobody) /\ tr[7].allocs = 0
    OBVIOUS
  <2>1. Step(Do("move_assign", "v1", "v2", 0), w, tr[6], tr[7])
    <3>1. Step(body[6], w, tr[6], tr[6 + 1])
      BY <1>2, Reached
    <3> QED BY <3>1, <1>1
  <2>2. (IF Propagates(w.moves) THEN 2 ELSE 1) = 1
    BY DEF Propagates
  <2>3. Moving(tr[6], tr[7], "v1", 1, 1)
    <3>1. fault # "frees_late"
      OBVIOUS
    <3> QED BY <1>2, <1>3, <2>1, <2>2, <3>1, MoveAssignBackDoes
  <2>4. Other("v1") = "v2" /\ 1 # Nobody /\ 2 # Nobody
    BY DEF Other, Nobody
  <2>5. /\ tr[7].p["v1"] = 1 /\ tr[7].p["v2"] = 2
        /\ tr[7].own["v1"] = 1 /\ tr[7].own["v2"] = Nobody /\ tr[7].allocs = tr[6].allocs
    BY <1>2, <1>3, <2>3, <2>4, MovesFairly DEF Stands
  <2> QED BY <1>2, <1>3, <2>5 DEF Stands
<1>5. n >= 8 => tr[8] = tr[7]
  <2>1. n >= 8 => tr[7 + 1] = tr[7]
    BY <1>1, <1>2, Verified
  <2> QED BY <2>1
<1>6. n >= 9 => tr[9] = tr[7]
  <2>1. n >= 9 => tr[8 + 1] = tr[8]
    BY <1>1, <1>2, Verified
  <2> QED BY <2>1, <1>5
<1>7. n >= 10 => tr[10] = tr[7]
  <2>1. n >= 10 => Step(body[9], w, tr[9], tr[9 + 1])
    BY <1>2, Reached
  <2> QED BY <1>1, <1>2, <1>6, <2>1, VerifyDoes
<1>8. CASE n \in 1..5
  <2>1. /\ Ready(body[1], tr[1]) /\ Ready(body[2], tr[2]) /\ Ready(body[3], tr[3]) /\ Ready(body[4], tr[4])
        /\ Ready(body[5], tr[5])
    BY <1>1, ReadyTo
  <2> QED BY <1>1, <1>8, <2>1
<1>9. CASE n = 6
  BY <1>1, <1>3, <1>9, ReadyForBoth
<1>10. CASE n \in 7..9
  <2>1. Ready(body[7], tr[7])
    BY <1>1, <1>2, <1>4, <1>10, ReadyTo DEF Stands
  <2>2. n >= 8 => Ready(body[8], tr[8])
    BY <1>1, <1>2, <1>4, <1>5, ReadyTo DEF Stands
  <2>3. n >= 9 => Ready(body[9], tr[9])
    BY <1>1, <1>2, <1>4, <1>6, ReadyTo
  <2> QED BY <1>1, <1>10, <2>1, <2>2, <2>3
<1>11. CASE n = 10
  BY <1>1, <1>4, <1>7, <1>11, ReadyForBoth
<1> QED BY <1>2, <1>8, <1>9, <1>10, <1>11

\* A set has taken the node out of the one that it has moved from.
LEMMA ConsPasses ==
  ASSUME fault = "none", kind = "set", NEW w
  PROVE  Passes(w, <<Construct("v1", 1), Push("v1"), Do("move_with", "v2", "v1", 2), Verify("v1", 1),
                     Verify("v2", 2), Do("absent", "v1", "v1", 0), Do("present", "v2", "v2", 0)>>)
<1> DEFINE body == <<Construct("v1", 1), Push("v1"), Do("move_with", "v2", "v1", 2), Verify("v1", 1),
                     Verify("v2", 2), Do("absent", "v1", "v1", 0), Do("present", "v2", "v2", 0)>>
<1> SUFFICES ASSUME NEW tr, NEW n \in 1..Len(body) + 1, Reaches(tr, body, w, n)
             PROVE  IF n <= Len(body) THEN Ready(body[n], tr[n]) ELSE Fair(tr[n])
  BY Zenon DEF Passes
<1>1. /\ Len(body) = 7 /\ body[1] = Construct("v1", 1) /\ body[2] = Push("v1")
      /\ body[3] = Do("move_with", "v2", "v1", 2) /\ body[4] = Verify("v1", 1) /\ body[5] = Verify("v2", 2)
      /\ body[6] = Do("absent", "v1", "v1", 0) /\ body[7] = Do("present", "v2", "v2", 0)
  OBVIOUS
<1> HIDE DEF body
<1>2. n \in 1..8
  BY <1>1
<1>3. n >= 3 => Stands(tr[3], 1, 1, 0, Nobody)
  <2>1. n >= 3 => Stands(tr[3], 1, Mark(1), 0, Nobody)
    BY <1>1, <1>2, FilledOne
  <2> QED BY <2>1 DEF Mark
<1>4. n >= 4 => Stands(tr[4], 1, Nobody, 2, 2)
  <2> SUFFICES ASSUME n >= 4 PROVE Stands(tr[4], 1, Nobody, 2, 2)
    OBVIOUS
  <2>1. Step(Do("move_with", "v2", "v1", 2), w, tr[3], tr[4])
    <3>1. Step(body[3], w, tr[3], tr[3 + 1])
      BY <1>2, Reached
    <3> QED BY <3>1, <1>1
  <2>2. Moving(tr[3], tr[4], "v2", 2, 2)
    <3>1. fault # "copies_allocator"
      OBVIOUS
    <3> QED BY <1>2, <1>3, <2>1, <3>1, MoveDoes
  <2>3. Other("v2") = "v1" /\ 1 # Nobody
    BY DEF Other, Nobody
  <2>4. tr[4].p["v2"] = 2 /\ tr[4].p["v1"] = 1 /\ tr[4].own["v2"] = 2 /\ tr[4].own["v1"] = Nobody
    BY <1>2, <1>3, <2>2, <2>3, MovesFairly DEF Stands
  <2> QED BY <2>4 DEF Stands
<1>5. n >= 5 => tr[5] = tr[4]
  <2>1. n >= 5 => tr[4 + 1] = tr[4]
    BY <1>1, <1>2, Verified
  <2> QED BY <2>1
<1>6. n >= 6 => tr[6] = tr[4]
  <2>1. n >= 6 => tr[5 + 1] = tr[5]
    BY <1>1, <1>2, Verified
  <2> QED BY <2>1, <1>5
<1>7. n >= 7 => tr[7] = tr[4]
  <2>1. n >= 7 => Step(body[6], w, tr[6], tr[6 + 1])
    BY <1>2, Reached
  <2> QED BY <1>1, <1>2, <1>6, <2>1, VerifyDoes
<1>8. n >= 8 => tr[8] = tr[4]
  <2>1. n >= 8 => Step(body[7], w, tr[7], tr[7 + 1])
    BY <1>2, Reached
  <2> QED BY <1>1, <1>2, <1>7, <2>1, VerifyDoes
<1>9. CASE n = 1 \/ n = 2
  <2>1. Ready(body[1], tr[1]) /\ Ready(body[2], tr[2])
    BY <1>1, ReadyTo
  <2> QED BY <1>1, <1>9, <2>1
<1>10. CASE n = 3
  BY <1>1, <1>3, <1>10, ReadyForBoth
<1>11. CASE n \in 4..7
  <2>1. Ready(body[4], tr[4])
    BY <1>1, <1>4, <1>11, ReadyTo DEF Stands
  <2>2. n >= 5 => Ready(body[5], tr[5])
    BY <1>1, <1>2, <1>4, <1>5, ReadyTo DEF Stands
  <2>3. n >= 6 => Ready(body[6], tr[6])
    BY <1>1, <1>2, <1>4, <1>6, ReadyTo DEF Stands
  <2>4. n >= 7 => Ready(body[7], tr[7])
    BY <1>1, <1>2, <1>4, <1>7, ReadyTo DEF Stands, Nobody
  <2> QED BY <1>1, <1>11, <2>1, <2>2, <2>3, <2>4
<1>12. CASE n = 8
  BY <1>1, <1>4, <1>8, <1>12, ReadyForBoth
<1> QED BY <1>2, <1>9, <1>10, <1>11, <1>12

\* Allocators that stay have one another's blocks in between.
LEMMA SwapTwicePasses ==
  ASSUME fault = "none", NEW w, w.swaps = FALSE
  PROVE  Passes(w, <<Construct("v1", 1), Push("v1"), Construct("v2", 2), Push("v2"),
                     Do("swap", "v1", "v2", 0), Verify("v1", 1), Verify("v2", 2), Do("swap", "v1", "v2", 0)>>)
<1> DEFINE body == <<Construct("v1", 1), Push("v1"), Construct("v2", 2), Push("v2"),
                     Do("swap", "v1", "v2", 0), Verify("v1", 1), Verify("v2", 2), Do("swap", "v1", "v2", 0)>>
<1> SUFFICES ASSUME NEW tr, NEW n \in 1..Len(body) + 1, Reaches(tr, body, w, n)
             PROVE  IF n <= Len(body) THEN Ready(body[n], tr[n]) ELSE Fair(tr[n])
  BY Zenon DEF Passes
<1>1. /\ Len(body) = 8 /\ body[1] = Construct("v1", 1) /\ body[2] = Push("v1")
      /\ body[3] = Construct("v2", 2) /\ body[4] = Push("v2") /\ body[5] = Do("swap", "v1", "v2", 0)
      /\ body[6] = Verify("v1", 1) /\ body[7] = Verify("v2", 2) /\ body[8] = Do("swap", "v1", "v2", 0)
  OBVIOUS
<1> HIDE DEF body
<1>2. n \in 1..9
  BY <1>1
<1>a. ~ Propagates(w.swaps)
  BY DEF Propagates
<1>3. n >= 5 => Stands(tr[5], 1, 1, 2, 2)
  <2>1. n >= 5 => Stands(tr[5], 1, Mark(1), 2, Mark(2))
    BY <1>1, <1>2, FilledBoth
  <2> QED BY <2>1 DEF Mark
<1>4. n >= 6 => Stands(tr[6], 1, 2, 2, 1)
  <2>1. n >= 6 => Step(body[5], w, tr[5], tr[5 + 1])
    BY <1>2, Reached
  <2> QED BY <1>1, <1>2, <1>3, <1>a, <2>1, SwapDoes
<1>5. n >= 7 => tr[7] = tr[6]
  <2>1. n >= 7 => tr[6 + 1] = tr[6]
    BY <1>1, <1>2, Verified
  <2> QED BY <2>1
<1>6. n >= 8 => tr[8] = tr[6]
  <2>1. n >= 8 => tr[7 + 1] = tr[7]
    BY <1>1, <1>2, Verified
  <2> QED BY <2>1, <1>5
<1>7. n >= 9 => Stands(tr[9], 1, 1, 2, 2)
  <2>1. n >= 9 => Step(body[8], w, tr[8], tr[8 + 1])
    BY <1>2, Reached
  <2> QED BY <1>1, <1>2, <1>4, <1>6, <1>a, <2>1, SwapDoes
<1>8. CASE n \in 1..5
  <2>1. /\ Ready(body[1], tr[1]) /\ Ready(body[2], tr[2]) /\ Ready(body[3], tr[3]) /\ Ready(body[4], tr[4])
        /\ Ready(body[5], tr[5])
    BY <1>1, ReadyTo
  <2> QED BY <1>1, <1>8, <2>1
<1>9. CASE n \in 6..8
  <2>1. Ready(body[6], tr[6])
    BY <1>1, <1>2, <1>4, <1>9, ReadyTo DEF Stands
  <2>2. n >= 7 => Ready(body[7], tr[7])
    BY <1>1, <1>2, <1>4, <1>5, ReadyTo DEF Stands
  <2>3. Ready(body[8], tr[8])
    BY <1>1, ReadyTo
  <2> QED BY <1>1, <1>9, <2>1, <2>2, <2>3
<1>10. CASE n = 9
  BY <1>1, <1>7, <1>10, ReadyForBoth
<1> QED BY <1>2, <1>8, <1>9, <1>10

LEMMA EndsSo ==
  ASSUME NEW t, NEW p1, NEW o1, NEW p2, NEW o2, Stands(t, p1, o1, p2, o2), o1 \in {Nobody, p1}, o2 \in {Nobody, p2}
  PROVE  Ends(t, p1, p2)
BY DEF Ends, Stands, Fair, Names

LEMMA CopyPasses ==
  ASSUME fault = "none", NEW w
  PROVE  /\ \A p : p = (IF w.selects THEN 1 ELSE 0) =>
              Passes(w, <<Construct("v1", 1), Push("v1"), Do("copy", "v2", "v1", 0), Verify("v1", 1), Verify("v2", p)>>)
         /\ Passes(w, <<Construct("v1", 1), Push("v1"), Do("copy_with", "v2", "v1", 2), Verify("v1", 1), Verify("v2", 2)>>)
<1>1. ASSUME NEW p, p = (IF w.selects THEN 1 ELSE 0)
      PROVE  Passes(w, <<Construct("v1", 1), Push("v1"), Do("copy", "v2", "v1", 0), Verify("v1", 1), Verify("v2", p)>>)
  <2>1. \A s : Stands(s, 1, 1, 0, Nobody) => Ready(Do("copy", "v2", "v1", 0), s)
    BY ReadyForBoth
  <2>2. ASSUME NEW s, NEW t, Stands(s, 1, 1, 0, Nobody), Step(Do("copy", "v2", "v1", 0), w, s, t)
        PROVE  Ends(t, 1, p)
    BY <1>1, <2>2, CopyDoesFairly, EndsSo
  <2> QED BY <2>1, <2>2, OnePasses
<1>2. Passes(w, <<Construct("v1", 1), Push("v1"), Do("copy_with", "v2", "v1", 2), Verify("v1", 1), Verify("v2", 2)>>)
  <2>1. \A s : Stands(s, 1, 1, 0, Nobody) => Ready(Do("copy_with", "v2", "v1", 2), s)
    BY ReadyForBoth
  <2>2. ASSUME NEW s, NEW t, Stands(s, 1, 1, 0, Nobody), Step(Do("copy_with", "v2", "v1", 2), w, s, t)
        PROVE  Ends(t, 1, 2)
    BY <2>2, CopyDoesFairly, EndsSo
  <2> QED BY <2>1, <2>2, OnePasses
<1> QED BY <1>1, <1>2

LEMMA MoveWithPasses ==
  ASSUME fault = "none", NEW w
  PROVE  Passes(w, <<Construct("v1", 1), Push("v1"), Do("move_with", "v2", "v1", 2), Verify("v1", 1), Verify("v2", 2)>>)
<1>1. \A s : Stands(s, 1, 1, 0, Nobody) => Ready(Do("move_with", "v2", "v1", 2), s)
  BY ReadyForBoth
<1>2. ASSUME NEW s, NEW t, Stands(s, 1, 1, 0, Nobody), Step(Do("move_with", "v2", "v1", 2), w, s, t)
      PROVE  Ends(t, 1, 2)
  <2>1. Moving(s, t, "v2", 2, 2)
    <3>1. fault # "copies_allocator"
      OBVIOUS
    <3> QED BY <1>2, <3>1, MoveDoes
  <2>2. Other("v2") = "v1" /\ 1 # Nobody
    BY DEF Other, Nobody
  <2>3. t.p["v2"] = 2 /\ t.p["v1"] = 1 /\ t.own["v2"] = 2 /\ t.own["v1"] \in {Nobody, 1}
    BY <1>2, <2>1, <2>2, MovesFairly DEF Stands
  <2> QED BY <2>3 DEF Ends, Fair, Names
<1> QED BY <1>1, <1>2, OnePasses

LEMMA AssignPasses ==
  ASSUME fault = "none", NEW w, NEW p, p = (IF w.copies THEN 1 ELSE 2)
  PROVE  Passes(w, <<Construct("v1", 1), Push("v1"), Construct("v2", 2), Push("v2"),
                     Do("assign", "v2", "v1", 0), Verify("v1", 1), Verify("v2", p)>>)
<1>1. \A s : Stands(s, 1, 1, 2, 2) => Ready(Do("assign", "v2", "v1", 0), s)
  BY ReadyForBoth
<1>2. ASSUME NEW s, NEW t, Stands(s, 1, 1, 2, 2), Step(Do("assign", "v2", "v1", 0), w, s, t)
      PROVE  Ends(t, 1, p)
  <2>1. (IF Propagates(w.copies) THEN 1 ELSE 2) = p /\ fault # "frees_late"
    BY DEF Propagates
  <2>2. Stands(t, 1, 1, p, t.own["v2"]) /\ Filling(s, t, "v2", 1, p, 2)
    BY <1>2, <2>1, AssignDoes
  <2>3. 1 # Nobody
    BY DEF Nobody
  <2>4. t.own["v2"] = p
    BY <1>2, <2>2, <2>3, FillsFairly DEF Stands
  <2> QED BY <2>2, <2>4, EndsSo
<1> QED BY <1>1, <1>2, TwoPasses

LEMMA MoveAssignPasses ==
  ASSUME fault = "none", NEW w, w.moves = FALSE
  PROVE  Passes(w, <<Construct("v1", 1), Push("v1"), Construct("v2", 2), Push("v2"),
                     Do("move_assign", "v2", "v1", 0), Verify("v1", 1), Verify("v2", 2)>>)
<1>1. \A s : Stands(s, 1, 1, 2, 2) => Ready(Do("move_assign", "v2", "v1", 0), s)
  BY ReadyForBoth
<1>2. ASSUME NEW s, NEW t, Stands(s, 1, 1, 2, 2), Step(Do("move_assign", "v2", "v1", 0), w, s, t)
      PROVE  Ends(t, 1, 2)
  <2>1. (IF Propagates(w.moves) THEN 1 ELSE 2) = 2 /\ fault # "frees_late"
    BY DEF Propagates
  <2>2. Moving(s, t, "v2", 2, 2)
    BY <1>2, <2>1, MoveAssignDoes
  <2>3. Other("v2") = "v1" /\ 1 # Nobody
    BY DEF Other, Nobody
  <2>4. t.p["v2"] = 2 /\ t.p["v1"] = 1 /\ t.own["v2"] = 2 /\ t.own["v1"] \in {Nobody, 1}
    BY <1>2, <2>2, <2>3, MovesFairly DEF Stands
  <2> QED BY <2>4 DEF Ends, Fair, Names
<1> QED BY <1>1, <1>2, TwoPasses

LEMMA SwapOncePasses ==
  ASSUME fault = "none", NEW w, w.swaps = TRUE
  PROVE  Passes(w, <<Construct("v1", 1), Push("v1"), Construct("v2", 2), Push("v2"),
                     Do("swap", "v1", "v2", 0), Verify("v1", 2), Verify("v2", 1)>>)
<1>1. \A s : Stands(s, 1, 1, 2, 2) => Ready(Do("swap", "v1", "v2", 0), s)
  BY ReadyTo
<1>2. ASSUME NEW s, NEW t, Stands(s, 1, 1, 2, 2), Step(Do("swap", "v1", "v2", 0), w, s, t)
      PROVE  Ends(t, 2, 1)
  <2>1. Propagates(w.swaps)
    BY DEF Propagates
  <2>2. Stands(t, 2, 2, 1, 1)
    BY <1>2, <2>1, SwapDoes
  <2> QED BY <2>2, EndsSo
<1> QED BY <1>1, <1>2, TwoPasses

LEMMA TraitsAre ==
  /\ propagating(FALSE).copies = FALSE /\ propagating(FALSE).moves = FALSE
  /\ propagating(FALSE).swaps = FALSE /\ propagating(FALSE).selects = FALSE
  /\ propagating(TRUE).copies = TRUE /\ propagating(TRUE).moves = TRUE
  /\ propagating(TRUE).swaps = TRUE /\ propagating(TRUE).selects = TRUE
BY DEF propagating

Passing(t) == Passes(t.traits, t.body)

LEMMA AllPass ==
  ASSUME fault = "none"
  PROVE  \A k \in DOMAIN Tests : Passing(Tests[k])
<1>1. \A k \in 1..3 : Passing(Copy[k])
  <2>1. Passing(Copy[1])
    BY CopyPasses, TraitsAre DEF Copy, Passing
  <2>2. Passing(Copy[2])
    BY CopyPasses, TraitsAre DEF Copy, Passing
  <2>3. Passing(Copy[3])
    BY CopyPasses, TraitsAre DEF Copy, Passing
  <2> QED BY <2>1, <2>2, <2>3
<1>2. \A k \in 1..2 : Passing(CopyAssign[k])
  <2>1. Passing(CopyAssign[1])
    BY AssignPasses, TraitsAre DEF CopyAssign, Passing
  <2>2. Passing(CopyAssign[2])
    BY AssignPasses, TraitsAre DEF CopyAssign, Passing
  <2> QED BY <2>1, <2>2
<1>3. \A k \in 1..2 : Passing(Move[k])
  <2>1. Passing(Move[1])
    BY KeptMovePasses DEF Move, Passing
  <2>2. Passing(Move[2])
    BY MoveWithPasses DEF Move, Passing
  <2> QED BY <2>1, <2>2
<1>4. \A k \in 1..2 : Passing(MoveAssign[k])
  <2>1. Passing(MoveAssign[1])
    BY MoveAssignPasses, TraitsAre DEF MoveAssign, Passing
  <2>2. Passing(MoveAssign[2])
    BY KeptPasses, TraitsAre DEF MoveAssign, Passing
  <2> QED BY <2>1, <2>2
<1>5. \A k \in 1..2 : Passing(Swap[k])
  <2>1. Passing(Swap[1])
    BY SwapTwicePasses, TraitsAre DEF Swap, Passing
  <2>2. Passing(Swap[2])
    BY SwapOncePasses, TraitsAre DEF Swap, Passing
  <2> QED BY <2>1, <2>2
<1>6. \A k \in 1..Len(Special) : Passing(Special[k])
  <2>1. Passing(MoveAssignEqual)
    BY KeptPasses, TraitsAre DEF MoveAssignEqual, Passing
  <2>2. kind = "set" => Passing(MoveAssignReuses) /\ Passing(MoveCons)
    BY ReusesPasses, ConsPasses, TraitsAre DEF MoveAssignReuses, MoveCons, Passing
  <2> QED BY <2>1, <2>2, Specials
<1>7. \A k \in DOMAIN Tests :
        \/ k \in 1..3 \/ \E j \in 1..2 : k = 3 + j \/ k = 5 + j \/ k = 7 + j \/ k = 9 + Len(Special) + j
        \/ \E j \in 1..Len(Special) : k = 9 + j
  <2> SUFFICES ASSUME NEW k \in 1..11 + Len(Special)
               PROVE  \/ k \in 1..3
                      \/ \E j \in 1..2 : k = 3 + j \/ k = 5 + j \/ k = 7 + j \/ k = 9 + Len(Special) + j
                      \/ \E j \in 1..Len(Special) : k = 9 + j
    BY Places
  <2>1. Len(Special) \in 0..2
    BY SpecialLength
  <2>2. CASE k <= 3
    BY <2>2, <2>1
  <2>3. CASE k \in 4..9
    <3>1. k = 3 + 1 \/ k = 3 + 2 \/ k = 5 + 1 \/ k = 5 + 2 \/ k = 7 + 1 \/ k = 7 + 2
      BY <2>3
    <3> QED BY <3>1
  <2>4. CASE k \in 10..9 + Len(Special)
    <3>1. k - 9 \in 1..Len(Special) /\ k = 9 + (k - 9)
      BY <2>1, <2>4
    <3> QED BY <3>1
  <2>5. CASE k > 9 + Len(Special)
    <3>1. k = 9 + Len(Special) + 1 \/ k = 9 + Len(Special) + 2
      BY <2>1, <2>5
    <3> QED BY <3>1
  <2> QED BY <2>1, <2>2, <2>3, <2>4, <2>5
<1> SUFFICES ASSUME NEW k \in DOMAIN Tests PROVE Passing(Tests[k])
  OBVIOUS
<1>8. CASE k \in 1..3
  BY <1>1, <1>8, Places
<1>9. CASE \E j \in 1..2 : k = 3 + j \/ k = 5 + j \/ k = 7 + j \/ k = 9 + Len(Special) + j
  <2>1. PICK j \in 1..2 : k = 3 + j \/ k = 5 + j \/ k = 7 + j \/ k = 9 + Len(Special) + j
    BY <1>9
  <2>2. /\ Passing(Tests[3 + j]) /\ Passing(Tests[5 + j]) /\ Passing(Tests[7 + j])
        /\ Passing(Tests[9 + Len(Special) + j])
    BY <1>2, <1>3, <1>4, <1>5, Places
  <2> QED BY <2>1, <2>2
<1>10. CASE \E j \in 1..Len(Special) : k = 9 + j
  BY <1>6, <1>10, Places
<1> QED BY <1>7, <1>8, <1>9, <1>10, Zenon

-----------------------------------------------------------------------------
(* The test that notices each fault.                                          *)

LEMMA OneRuns ==
  ASSUME NEW tr, NEW w, NEW st, NEW p1, NEW p2,
         Reaches(tr, <<Construct("v1", 1), Push("v1"), st, Verify("v1", p1), Verify("v2", p2)>>, w, 6)
  PROVE  /\ Stands(tr[3], 1, Mark(1), 0, Nobody) /\ Step(st, w, tr[3], tr[4])
         /\ tr[4].p["v1"] = p1 /\ tr[4].p["v2"] = p2 /\ tr[6] = tr[4]
<1> DEFINE body == <<Construct("v1", 1), Push("v1"), st, Verify("v1", p1), Verify("v2", p2)>>
<1>1. /\ body[1] = Construct("v1", 1) /\ body[2] = Push("v1") /\ body[3] = st
      /\ body[4] = Verify("v1", p1) /\ body[5] = Verify("v2", p2)
  OBVIOUS
<1>2. Reaches(tr, body, w, 6)
  OBVIOUS
<1> HIDE DEF body
<1>3. Stands(tr[3], 1, Mark(1), 0, Nobody)
  BY <1>1, <1>2, FilledOne
<1>4. Step(body[3], w, tr[3], tr[3 + 1])
  BY <1>2, Reached
<1>5. tr[4 + 1] = tr[4] /\ tr[4].p["v1"] = p1
  BY <1>1, <1>2, Verified
<1>6. tr[5 + 1] = tr[5] /\ tr[5].p["v2"] = p2
  BY <1>1, <1>2, Verified
<1> QED BY <1>1, <1>3, <1>4, <1>5, <1>6

LEMMA TwoRuns ==
  ASSUME NEW tr, NEW w, NEW st, NEW p1, NEW p2,
         Reaches(tr, <<Construct("v1", 1), Push("v1"), Construct("v2", 2), Push("v2"),
                       st, Verify("v1", p1), Verify("v2", p2)>>, w, 8)
  PROVE  /\ Stands(tr[5], 1, Mark(1), 2, Mark(2)) /\ Step(st, w, tr[5], tr[6])
         /\ tr[6].p["v1"] = p1 /\ tr[6].p["v2"] = p2 /\ tr[8] = tr[6]
<1> DEFINE body == <<Construct("v1", 1), Push("v1"), Construct("v2", 2), Push("v2"),
                     st, Verify("v1", p1), Verify("v2", p2)>>
<1>1. /\ body[1] = Construct("v1", 1) /\ body[2] = Push("v1")
      /\ body[3] = Construct("v2", 2) /\ body[4] = Push("v2") /\ body[5] = st
      /\ body[6] = Verify("v1", p1) /\ body[7] = Verify("v2", p2)
  OBVIOUS
<1>2. Reaches(tr, body, w, 8)
  OBVIOUS
<1> HIDE DEF body
<1>3. Stands(tr[5], 1, Mark(1), 2, Mark(2))
  BY <1>1, <1>2, FilledBoth
<1>4. Step(body[5], w, tr[5], tr[5 + 1])
  BY <1>2, Reached
<1>5. tr[6 + 1] = tr[6] /\ tr[6].p["v1"] = p1
  BY <1>1, <1>2, Verified
<1>6. tr[7 + 1] = tr[7] /\ tr[7].p["v2"] = p2
  BY <1>1, <1>2, Verified
<1> QED BY <1>1, <1>3, <1>4, <1>5, <1>6

\* A test that a container does not come through: a check fails, what it gives
\* back is refused, or its destructor's blocks are.
Notices(t) ==
  \A tr : Reaches(tr, t.body, t.traits, Len(t.body) + 1) => ~ Fair(tr[Len(t.body) + 1])

\* What a fault makes of the allocator that a copy gets, and of a trait.
LEMMA FaultyAllocator ==
  ASSUME NEW st, NEW selects, NEW from
  PROVE  /\ fault = "copies_allocator" => CopyOf(st, selects, from) = from
         /\ fault = "default_allocator" => CopyOf(st, selects, from) = 0
BY DEF CopyOf

LEMMA FaultyTrait ==
  ASSUME NEW trait
  PROVE  /\ fault = "never_propagates" => Propagates(trait) = FALSE
         /\ fault = "always_propagates" => Propagates(trait) = TRUE
         /\ fault \notin {"never_propagates", "always_propagates"} => Propagates(trait) = trait
BY DEF Propagates

LEMMA CopyNotices ==
  /\ fault = "stateless" => Notices(Copy[1])
  /\ fault = "default_allocator" => Notices(Copy[2])
  /\ fault = "copies_allocator" => Notices(Copy[3])
<1>1. ASSUME fault = "stateless" PROVE Notices(Copy[1])
  <2> DEFINE body == <<Construct("v1", 1), Push("v1"), Do("copy", "v2", "v1", 0), Verify("v1", 1), Verify("v2", 0)>>
  <2>1. ASSUME NEW w, NEW tr, Reaches(tr, body, w, 6), Fair(tr[6]) PROVE FALSE
    <3>1. /\ Stands(tr[3], 1, Mark(1), 0, Nobody) /\ Step(Do("copy", "v2", "v1", 0), w, tr[3], tr[4])
          /\ tr[6] = tr[4]
      BY <2>1, OneRuns
    <3>2. tr[4].p["v1"] = 1 /\ tr[4].own["v1"] = Mark(1)
      BY <3>1, CopyDoes DEF Stands
    <3> QED BY <1>1, <2>1, <3>1, <3>2 DEF Fair, Names, Mark, Nobody
  <2>2. Copy[1].body = body /\ Len(body) = 5
    BY DEF Copy
  <2> HIDE DEF body
  <2> QED BY <2>1, <2>2 DEF Notices
<1>2. ASSUME fault = "default_allocator" PROVE Notices(Copy[2])
  <2> DEFINE body == <<Construct("v1", 1), Push("v1"), Do("copy", "v2", "v1", 0), Verify("v1", 1), Verify("v2", 1)>>
  <2>1. ASSUME NEW w, NEW tr, Reaches(tr, body, w, 6), Fair(tr[6]) PROVE FALSE
    <3>1. /\ Stands(tr[3], 1, Mark(1), 0, Nobody) /\ Step(Do("copy", "v2", "v1", 0), w, tr[3], tr[4])
          /\ tr[4].p["v2"] = 1
      BY <2>1, OneRuns
    <3>2. CopyOf(Do("copy", "v2", "v1", 0), w.selects, 1) = 0
      BY <1>2, FaultyAllocator
    <3>3. tr[4].p["v2"] = 0
      BY <3>1, <3>2, CopyDoes DEF Stands
    <3> QED BY <3>1, <3>3
  <2>2. Copy[2].body = body /\ Len(body) = 5
    BY DEF Copy
  <2> HIDE DEF body
  <2> QED BY <2>1, <2>2 DEF Notices
<1>3. ASSUME fault = "copies_allocator" PROVE Notices(Copy[3])
  <2> DEFINE body == <<Construct("v1", 1), Push("v1"), Do("copy_with", "v2", "v1", 2), Verify("v1", 1), Verify("v2", 2)>>
  <2>1. ASSUME NEW w, NEW tr, Reaches(tr, body, w, 6), Fair(tr[6]) PROVE FALSE
    <3>1. /\ Stands(tr[3], 1, Mark(1), 0, Nobody) /\ Step(Do("copy_with", "v2", "v1", 2), w, tr[3], tr[4])
          /\ tr[4].p["v2"] = 2
      BY <2>1, OneRuns
    <3>2. CopyOf(Do("copy_with", "v2", "v1", 2), w.selects, 1) = 1
      BY <1>3, FaultyAllocator
    <3>3. tr[4].p["v2"] = 1
      BY <3>1, <3>2, CopyDoes DEF Stands
    <3> QED BY <3>1, <3>3
  <2>2. Copy[3].body = body /\ Len(body) = 5
    BY DEF Copy
  <2> HIDE DEF body
  <2> QED BY <2>1, <2>2 DEF Notices
<1> QED BY <1>1, <1>2, <1>3

LEMMA AssignNotices ==
  /\ fault = "always_propagates" => Notices(CopyAssign[1])
  /\ fault \in {"never_propagates", "frees_late"} => Notices(CopyAssign[2])
<1>1. ASSUME fault = "always_propagates" PROVE Notices(CopyAssign[1])
  <2> DEFINE body == <<Construct("v1", 1), Push("v1"), Construct("v2", 2), Push("v2"),
                       Do("assign", "v2", "v1", 0), Verify("v1", 1), Verify("v2", 2)>>
  <2>1. ASSUME NEW w, NEW tr, w.copies = FALSE, Reaches(tr, body, w, 8), Fair(tr[8]) PROVE FALSE
    <3>1. /\ Stands(tr[5], 1, Mark(1), 2, Mark(2)) /\ Step(Do("assign", "v2", "v1", 0), w, tr[5], tr[6])
          /\ tr[6].p["v2"] = 2
      BY <2>1, TwoRuns
    <3>2. Propagates(w.copies)
      BY <1>1, FaultyTrait
    <3>3. tr[6].p["v2"] = 1
      BY <3>1, <3>2, AssignDoes DEF Stands
    <3> QED BY <3>1, <3>3
  <2>2. CopyAssign[1].body = body /\ CopyAssign[1].traits.copies = FALSE /\ Len(body) = 7
    BY TraitsAre DEF CopyAssign
  <2> HIDE DEF body
  <2>3. SUFFICES ASSUME NEW tr, Reaches(tr, body, CopyAssign[1].traits, 8), Fair(tr[8]) PROVE FALSE
    BY <2>2 DEF Notices
  <2> QED BY <2>1, <2>2, <2>3, Zenon
<1>2. ASSUME fault \in {"never_propagates", "frees_late"} PROVE Notices(CopyAssign[2])
  <2> DEFINE body == <<Construct("v1", 1), Push("v1"), Construct("v2", 2), Push("v2"),
                       Do("assign", "v2", "v1", 0), Verify("v1", 1), Verify("v2", 1)>>
  <2>1. ASSUME NEW w, NEW tr, w.copies = TRUE, Reaches(tr, body, w, 8), Fair(tr[8]) PROVE FALSE
    <3>1. /\ Stands(tr[5], 1, Mark(1), 2, Mark(2)) /\ Step(Do("assign", "v2", "v1", 0), w, tr[5], tr[6])
          /\ tr[6].p["v2"] = 1
      BY <2>1, TwoRuns
    <3>2. CASE fault = "never_propagates"
      <4>1. ~ Propagates(w.copies)
        BY <3>2, FaultyTrait
      <4>2. tr[6].p["v2"] = 2
        BY <3>1, <4>1, AssignDoes DEF Stands
      <4> QED BY <3>1, <4>2
    <3>3. CASE fault = "frees_late"
      <4>1. Propagates(w.copies)
        BY <2>1, <3>3, TraitsAre, FaultyTrait
      <4>2. Filling(tr[5], tr[6], "v2", Mark(1), 1, 1)
        BY <3>1, <3>3, <4>1, AssignDoes
      <4>3. tr[5].p["v2"] = 2 /\ tr[5].own["v2"] = 2
        BY <3>1, <3>3 DEF Stands, Mark
      <4> QED BY <4>2, <4>3 DEF Filling, Nobody
    <3> QED BY <1>2, <3>2, <3>3
  <2>2. CopyAssign[2].body = body /\ CopyAssign[2].traits.copies = TRUE /\ Len(body) = 7
    BY TraitsAre DEF CopyAssign
  <2> HIDE DEF body
  <2>3. SUFFICES ASSUME NEW tr, Reaches(tr, body, CopyAssign[2].traits, 8), Fair(tr[8]) PROVE FALSE
    BY <2>2 DEF Notices
  <2> QED BY <2>1, <2>2, <2>3, Zenon
<1> QED BY <1>1, <1>2

LEMMA MoveNotices ==
  /\ fault \in {"moves_each", "resets_moved_from"} => Notices(Move[1])
  /\ fault = "steals" => Notices(Move[2])
<1>1. ASSUME fault \in {"moves_each", "resets_moved_from"} PROVE Notices(Move[1])
  <2> DEFINE body == <<Construct("v1", 1), Push("v1"), Keep, Do("move", "v2", "v1", 0),
                       Verify("v1", 1), Verify("v2", 1), VerifyBegin>>
  <2>1. ASSUME NEW w, NEW tr, Reaches(tr, body, w, 8) PROVE FALSE
    <3>0. /\ body[1] = Construct("v1", 1) /\ body[2] = Push("v1") /\ body[3] = Keep
          /\ body[4] = Do("move", "v2", "v1", 0)
          /\ body[5] = Verify("v1", 1) /\ body[6] = Verify("v2", 1) /\ body[7] = VerifyBegin
      OBVIOUS
    <3>1. Stands(tr[4], 1, Mark(1), 0, Nobody) /\ tr[4].here["v1"]
      BY <2>1, <3>0, Kept
    <3>2. Mark(1) = 1
      BY <1>1 DEF Mark
    <3>3. Moving(tr[4], tr[5], "v2", 1, 1)
      <4>1. Step(body[4], w, tr[4], tr[4 + 1])
        BY <2>1, Reached
      <4> QED BY <3>0, <3>1, <4>1, MoveDoes
    <3>4. tr[5 + 1] = tr[5] /\ tr[5].p["v1"] = 1
      BY <2>1, <3>0, Verified
    <3>5. tr[6 + 1] = tr[6]
      BY <2>1, <3>0, Verified
    <3>6. tr[7].own["v2"] # Nobody => tr[7].here["v2"]
      <4>1. Step(body[7], w, tr[7], tr[7 + 1])
        BY <2>1, Reached
      <4> QED BY <3>0, <4>1, VerifyDoes
    <3>7. CASE fault = "resets_moved_from"
      <4>1. tr[5].p["v1"] = 0
        BY <3>3, <3>7 DEF Moving, Other
      <4> QED BY <3>4, <4>1
    <3>8. CASE fault = "moves_each"
      <4>1. MovingEach(tr[4], tr[5], "v2", 1, 1) /\ Other("v2") = "v1"
        BY <3>3, <3>8 DEF Moving, Other
      <4>2. tr[5].own["v2"] = 1
        BY <3>1, <3>2, <3>8, <4>1 DEF MovingEach, Filling, Stands, Nobody, Mark
      <4>3. ~ tr[5].here["v2"]
        BY <3>1, <4>1 DEF MovingEach, Stands
      <4> QED BY <3>4, <3>5, <3>6, <4>2, <4>3 DEF Nobody
    <3> QED BY <1>1, <3>7, <3>8
  <2>2. Move[1].body = body /\ Move[1].traits = uneq /\ Len(body) = 7
    BY DEF Move
  <2> HIDE DEF body
  <2> QED BY <2>1, <2>2 DEF Notices
<1>2. ASSUME fault = "steals" PROVE Notices(Move[2])
  <2> DEFINE body == <<Construct("v1", 1), Push("v1"), Do("move_with", "v2", "v1", 2), Verify("v1", 1), Verify("v2", 2)>>
  <2>1. ASSUME NEW w, NEW tr, Reaches(tr, body, w, 6), Fair(tr[6]) PROVE FALSE
    <3>1. /\ Stands(tr[3], 1, Mark(1), 0, Nobody) /\ Step(Do("move_with", "v2", "v1", 2), w, tr[3], tr[4])
          /\ tr[4].p["v2"] = 2 /\ tr[6] = tr[4]
      BY <2>1, OneRuns
    <3>2. fault # "copies_allocator" /\ Mark(1) = 1
      BY <1>2 DEF Mark
    <3>3. Moving(tr[3], tr[4], "v2", 2, 2)
      BY <3>1, <3>2, MoveDoes
    <3>4. tr[4].own["v2"] = 1
      BY <1>2, <3>1, <3>2, <3>3 DEF Moving, Taking, Other, Stands
    <3> QED BY <2>1, <3>1, <3>4 DEF Fair, Names, Nobody
  <2>2. Move[2].body = body /\ Move[2].traits = uneq /\ Len(body) = 5
    BY DEF Move
  <2> HIDE DEF body
  <2> QED BY <2>1, <2>2 DEF Notices
<1> QED BY <1>1, <1>2

LEMMA SetNotices ==
  /\ fault = "reallocates" => Notices(MoveAssignReuses)
  /\ fault = "loses" => Notices(MoveCons)
<1>1. ASSUME fault = "reallocates" PROVE Notices(MoveAssignReuses)
  <2> DEFINE body == <<Construct("v1", 1), Push("v1"), Construct("v2", 2), Push("v2"), Do("count", "v1", "v1", 0),
                       Do("move_assign", "v1", "v2", 0), Verify("v1", 1), Verify("v2", 2),
                       Do("counted", "v1", "v1", 0)>>
  <2>1. ASSUME NEW w, NEW tr, w.moves = FALSE, Reaches(tr, body, w, 10) PROVE FALSE
    <3>0. /\ body[1] = Construct("v1", 1) /\ body[2] = Push("v1")
          /\ body[3] = Construct("v2", 2) /\ body[4] = Push("v2") /\ body[5] = Do("count", "v1", "v1", 0)
          /\ body[6] = Do("move_assign", "v1", "v2", 0)
          /\ body[7] = Verify("v1", 1) /\ body[8] = Verify("v2", 2) /\ body[9] = Do("counted", "v1", "v1", 0)
      OBVIOUS
    <3>1. Stands(tr[5], 1, Mark(1), 2, Mark(2))
      BY <2>1, <3>0, FilledBoth
    <3>2. Mark(1) = 1 /\ Mark(2) = 2 /\ ~ Propagates(w.moves) /\ fault # "frees_late"
      BY <1>1, <2>1, TraitsAre, FaultyTrait DEF Mark
    <3>3. Stands(tr[6], 1, 1, 2, 2) /\ tr[6].allocs = 0
      <4>1. Step(body[5], w, tr[5], tr[5 + 1])
        BY <2>1, Reached
      <4> QED BY <3>0, <3>1, <3>2, <4>1, CountDoes
    <3>4. Moving(tr[6], tr[7], "v1", 1, 1)
      <4>1. Step(body[6], w, tr[6], tr[6 + 1])
        BY <2>1, Reached
      <4> QED BY <3>0, <3>2, <3>3, <4>1, MoveAssignBackDoes
    <3>5. tr[7 + 1] = tr[7]
      BY <2>1, <3>0, Verified
    <3>6. tr[8 + 1] = tr[8]
      BY <2>1, <3>0, Verified
    <3>7. tr[9].allocs = 0
      <4>1. Step(body[9], w, tr[9], tr[9 + 1])
        BY <2>1, Reached
      <4> QED BY <3>0, <4>1, VerifyDoes
    <3>8. MovingEach(tr[6], tr[7], "v1", 1, 1) /\ Other("v1") = "v2"
      BY <1>1, <3>3, <3>4 DEF Moving, Other, Stands
    <3>9. tr[7].allocs = 1
      BY <1>1, <3>3, <3>8 DEF MovingEach, Filling, Stands, Nobody
    <3> QED BY <3>5, <3>6, <3>7, <3>9
  <2>2. MoveAssignReuses.body = body /\ MoveAssignReuses.traits.moves = FALSE /\ Len(body) = 9
    BY TraitsAre DEF MoveAssignReuses
  <2> HIDE DEF body
  <2>3. SUFFICES ASSUME NEW tr, Reaches(tr, body, MoveAssignReuses.traits, 10) PROVE FALSE
    BY <2>2 DEF Notices
  <2> QED BY <2>1, <2>2, <2>3, Zenon
<1>2. ASSUME fault = "loses" PROVE Notices(MoveCons)
  <2> DEFINE body == <<Construct("v1", 1), Push("v1"), Do("move_with", "v2", "v1", 2), Verify("v1", 1),
                       Verify("v2", 2), Do("absent", "v1", "v1", 0), Do("present", "v2", "v2", 0)>>
  <2>1. ASSUME NEW w, NEW tr, Reaches(tr, body, w, 8) PROVE FALSE
    <3>0. /\ body[1] = Construct("v1", 1) /\ body[2] = Push("v1")
          /\ body[3] = Do("move_with", "v2", "v1", 2) /\ body[4] = Verify("v1", 1) /\ body[5] = Verify("v2", 2)
          /\ body[6] = Do("absent", "v1", "v1", 0) /\ body[7] = Do("present", "v2", "v2", 0)
      OBVIOUS
    <3>1. Stands(tr[3], 1, Mark(1), 0, Nobody)
      BY <2>1, <3>0, FilledOne
    <3>2. fault # "copies_allocator"
      BY <1>2
    <3>3. Moving(tr[3], tr[4], "v2", 2, 2)
      <4>1. Step(body[3], w, tr[3], tr[3 + 1])
        BY <2>1, Reached
      <4> QED BY <3>0, <3>1, <3>2, <4>1, MoveDoes
    <3>4. tr[4].own["v2"] = Nobody
      <4>1. MovingEach(tr[3], tr[4], "v2", 2, 2)
        BY <1>2, <3>1, <3>3 DEF Moving, Other, Stands
      <4> QED BY <1>2, <4>1 DEF MovingEach, Filling
    <3>5. tr[4 + 1] = tr[4]
      BY <2>1, <3>0, Verified
    <3>6. tr[5 + 1] = tr[5]
      BY <2>1, <3>0, Verified
    <3>7. tr[7] = tr[6]
      <4>1. Step(body[6], w, tr[6], tr[6 + 1])
        BY <2>1, Reached
      <4> QED BY <3>0, <4>1, VerifyDoes
    <3>8. tr[7].own["v2"] # Nobody
      <4>1. Step(body[7], w, tr[7], tr[7 + 1])
        BY <2>1, Reached
      <4> QED BY <3>0, <4>1, VerifyDoes
    <3> QED BY <3>4, <3>5, <3>6, <3>7, <3>8
  <2>2. MoveCons.body = body /\ MoveCons.traits = uneq /\ Len(body) = 7
    BY DEF MoveCons
  <2> HIDE DEF body
  <2> QED BY <2>1, <2>2 DEF Notices
<1> QED BY <1>1, <1>2

LEMMA Noticed ==
  ASSUME kind \in Kinds, fault \in Faults, fault \notin Unseen
  PROVE  NoticedBy \in DOMAIN Tests /\ NoticedBy # Len(Tests) /\ Notices(Tests[NoticedBy])
<1>1. CASE fault = "stateless"
  BY <1>1, CopyNotices, Places, SpecialLength DEF NoticedBy
<1>2. CASE fault = "default_allocator"
  BY <1>2, CopyNotices, Places, SpecialLength DEF NoticedBy
<1>3. CASE fault = "copies_allocator"
  BY <1>3, CopyNotices, Places, SpecialLength DEF NoticedBy
<1>4. CASE fault = "always_propagates"
  <2>1. Tests[3 + 1] = CopyAssign[1]
    BY Places
  <2> QED BY <1>4, <2>1, AssignNotices, Places, SpecialLength DEF NoticedBy
<1>5. CASE fault \in {"never_propagates", "frees_late"}
  <2>1. Tests[3 + 2] = CopyAssign[2]
    BY Places
  <2> QED BY <1>5, <2>1, AssignNotices, Places, SpecialLength DEF NoticedBy
<1>6. CASE fault \in {"moves_each", "resets_moved_from"}
  <2>1. Tests[5 + 1] = Move[1]
    BY Places
  <2> QED BY <1>6, <2>1, MoveNotices, Places, SpecialLength DEF NoticedBy
<1>7. CASE fault = "steals"
  <2>1. Tests[5 + 2] = Move[2]
    BY Places
  <2> QED BY <1>7, <2>1, MoveNotices, Places, SpecialLength DEF NoticedBy
<1>8. CASE fault \in {"reallocates", "loses"}
  <2>1. kind = "set" /\ Len(Special) = 2
    BY <1>8, SpecialLength DEF Unseen
  <2>2. Special[1] = MoveAssignReuses /\ Special[2] = MoveCons
    BY <2>1, Specials
  <2>3. Tests[9 + 1] = MoveAssignReuses /\ Tests[9 + 2] = MoveCons
    BY <2>1, <2>2, Places
  <2>4. NoticedBy = IF fault = "reallocates" THEN 10 ELSE 11
    BY <1>8 DEF NoticedBy
  <2>5. Len(Tests) = 13 /\ DOMAIN Tests = 1..13
    BY <2>1, Places
  <2>6. Notices(Tests[NoticedBy])
    BY <1>8, <2>3, <2>4, SetNotices
  <2> QED BY <2>4, <2>5, <2>6
<1> QED BY <1>1, <1>2, <1>3, <1>4, <1>5, <1>6, <1>7, <1>8, ScenariosAssumption DEF Unseen

-----------------------------------------------------------------------------
(* What an action does to what a statement acts on.                           *)

LEMMA NowIs ==
  ASSUME Base
  PROVE  \A z \in Names :
           /\ Now.p[z] = box[z].p /\ Now.own[z] = Owner(z)
           /\ Now.here[z] = (Has(z) /\ box[z].block = it)
           /\ box[z].p \in 0..2 /\ box[z].block \in Blocks \cup {None}
BY DEF Now, Base, TypeInv, Boxes

LEMMA ThenIs ==
  /\ \A z \in Names :
       /\ Now'.p[z] = box'[z].p
       /\ Now'.own[z] = IF box'[z].block = None THEN Nobody ELSE alloc_map'[box'[z].block]
       /\ Now'.here[z] = (box'[z].block # None /\ box'[z].block = it')
  /\ Now'.allocs = allocs'
  /\ Now'.p = [z \in Names |-> box'[z].p]
  /\ Now'.own = [z \in Names |-> IF box'[z].block = None THEN Nobody ELSE alloc_map'[box'[z].block]]
  /\ Now'.here = [z \in Names |-> box'[z].block # None /\ box'[z].block = it']
BY DEF Now, Owner, Has

\* A block that is held is noted, for one of the personalities.
LEMMA Owners ==
  ASSUME Base, status = "running"
  PROVE  \A z \in Names :
           /\ Has(z) => /\ box[z].block \in DOMAIN alloc_map /\ box[z].block \in Blocks
                        /\ Owner(z) = alloc_map[box[z].block] /\ Owner(z) \in 0..2
           /\ ~ Has(z) => Owner(z) = Nobody
           /\ Has(z) <=> Owner(z) # Nobody
BY DEF Base, HeldInv, TypeInv, Boxes, Owner, Has, Nobody

\* Who may give back what x holds.
LEMMA HeldRefuses ==
  ASSUME Base, status = "running", NEW x \in Names, NEW q
  PROVE  /\ (\A g \in Held(x, q) : ~ Refuses(g)) <=> Owner(x) \in {Nobody, q}
         /\ {g[1] : g \in Held(x, q)} = {box[x].block} \ {None}
<1>1. {g[1] : g \in Held(x, q)} = {box[x].block} \ {None}
  <2>1. \A b : b \in {g[1] : g \in Held(x, q)} <=> \E c \in {box[x].block} \ {None} : b = <<c, q>>[1]
    BY DEF Held
  <2>2. \A c : <<c, q>>[1] = c
    OBVIOUS
  <2> QED BY <2>1, <2>2
<1>2. CASE Has(x)
  <2>1. Held(x, q) = {<<box[x].block, q>>}
    BY <1>2 DEF Has, Held
  <2>2. Refuses(<<box[x].block, q>>) <=> Owner(x) # q
    BY <1>2, Owners DEF Refuses
  <2>3. Owner(x) # Nobody
    BY <1>2, Owners
  <2> QED BY <1>1, <2>1, <2>2, <2>3
<1>3. CASE ~ Has(x)
  <2>1. Held(x, q) = {}
    BY <1>3 DEF Has, Held
  <2>2. Owner(x) = Nobody
    BY <1>3, Owners
  <2> QED BY <1>1, <2>1, <2>2
<1> QED BY <1>2, <1>3

\* The statement has ended, and left what the invariant says of the memory.
Settled ==
  /\ pos' = pos + 1 /\ allocs' \in Nat /\ box' \in Boxes
  /\ DOMAIN alloc_map' \subseteq Blocks /\ alloc_map' \in [DOMAIN alloc_map' -> 0..2]
  /\ HeldInv'

LEMMA FreesDoes ==
  ASSUME Base, status = "running", status' = "running", NEW S, NEW boxes \in Boxes, Frees(boxes, S),
         \A z \in Names : boxes[z].block # None =>
                            boxes[z].block \in DOMAIN alloc_map \ {g[1] : g \in S},
         boxes["v1"].block # None => boxes["v1"].block # boxes["v2"].block
  PROVE  /\ Settled /\ box' = boxes /\ allocs' = allocs
         /\ \A g \in S : ~ Refuses(g)
         /\ \A z \in Names : Now'.own[z] = IF boxes[z].block = None THEN Nobody ELSE alloc_map[boxes[z].block]
<1>1. ~ Thrown(S)
  BY DEF Thrown
<1>2. /\ \A g \in S : ~ Refuses(g)
      /\ alloc_map' = Without(alloc_map, S) /\ box' = boxes /\ pos' = pos + 1 /\ allocs' = allocs
  BY <1>1 DEF Frees, deallocate
<1>3. /\ DOMAIN alloc_map' = DOMAIN alloc_map \ {g[1] : g \in S}
      /\ \A b \in DOMAIN alloc_map \ {g[1] : g \in S} : alloc_map'[b] = alloc_map[b]
      /\ alloc_map' = [b \in DOMAIN alloc_map' |-> alloc_map[b]]
  BY <1>2 DEF Without
<1>4. /\ DOMAIN alloc_map \subseteq Blocks /\ allocs \in Nat
      /\ \A b \in DOMAIN alloc_map : alloc_map[b] \in 0..2
  BY DEF Base, TypeInv
<1>5. DOMAIN alloc_map' \subseteq Blocks /\ alloc_map' \in [DOMAIN alloc_map' -> 0..2]
  BY <1>3, <1>4
<1>6. HeldInv'
  BY <1>2, <1>3 DEF HeldInv, Has, Names
<1>7. \A z \in Names : Now'.own[z] = IF boxes[z].block = None THEN Nobody ELSE alloc_map[boxes[z].block]
  BY <1>2, <1>3, ThenIs
<1> QED BY <1>2, <1>4, <1>5, <1>6, <1>7 DEF Settled

LEMMA FreesAndTakesDoes ==
  ASSUME Base, status = "running", status' = "running", NEW S, NEW boxes \in Boxes, NEW x \in Names, NEW p \in 0..2,
         FreesAndTakes(boxes, S, x, p),
         boxes[Other(x)].block # None =>
           boxes[Other(x)].block \in DOMAIN alloc_map \ {g[1] : g \in S}
  PROVE  /\ Settled /\ allocs' = allocs + 1
         /\ \A g \in S : ~ Refuses(g)
         /\ box'[x].p = boxes[x].p /\ box'[Other(x)] = boxes[Other(x)]
         /\ box'[x].block # None
         /\ box'[x].block \notin DOMAIN alloc_map \/ box'[x].block = box[x].block
         /\ Now'.own[x] = Mark(p)
         /\ Now'.own[Other(x)] = IF boxes[Other(x)].block = None THEN Nobody ELSE alloc_map[boxes[Other(x)].block]
<1> DEFINE m == Without(alloc_map, S)
           mark == IF fault = "stateless" THEN 0 ELSE p
<1>1. ~ Thrown(S)
  BY DEF Thrown
<1>2. PICK b \in (Blocks \ DOMAIN heap) \cup ({g[1] : g \in S} \cap {box[x].block}) :
        allocate(S, b, mark) /\ box' = [boxes EXCEPT ![x].block = b]
  BY <1>1 DEF FreesAndTakes
<1>3. (\A g \in S : ~ Refuses(g)) /\ pos' = pos + 1 /\ allocs' = allocs + 1
  BY <1>1 DEF FreesAndTakes
<1>4. /\ heap = alloc_map /\ DOMAIN alloc_map \subseteq Blocks /\ allocs \in Nat
      /\ \A c \in DOMAIN alloc_map : alloc_map[c] \in 0..2
  BY DEF Base, TypeInv, MapIsHeap
<1>5. b \in Blocks /\ b # None
  <2>1. \A g \in S : g[1] \in DOMAIN alloc_map
    BY <1>3 DEF Refuses
  <2>2. b \in Blocks
    BY <1>2, <1>4, <2>1
  <2> QED BY <2>2, ScenariosAssumption
<1>6. /\ DOMAIN m = DOMAIN alloc_map \ {g[1] : g \in S}
      /\ \A c \in DOMAIN m : m[c] = alloc_map[c]
  BY DEF Without
<1>7. b \notin DOMAIN m
  BY <1>2, <1>4, <1>6
<1> HIDE DEF m
<1>8. alloc_map' = insert(m, b, mark)
  BY <1>2 DEF allocate, m
<1>9. mark = Mark(p) /\ mark \in 0..2
  BY DEF Mark
<1> HIDE DEF mark
<1>10. /\ DOMAIN alloc_map' = DOMAIN m \cup {b} /\ alloc_map'[b] = mark
       /\ \A c \in DOMAIN m : alloc_map'[c] = alloc_map[c]
  BY <1>6, <1>7, <1>8 DEF insert
<1>11. \A c \in DOMAIN alloc_map' : alloc_map'[c] \in 0..2
  BY <1>4, <1>6, <1>9, <1>10
<1>12. DOMAIN alloc_map' \subseteq Blocks /\ alloc_map' \in [DOMAIN alloc_map' -> 0..2]
  <2>1. alloc_map' = [c \in DOMAIN alloc_map' |-> alloc_map'[c]]
    BY <1>8 DEF insert
  <2> QED BY <1>4, <1>5, <1>6, <1>10, <1>11, <2>1
<1>13. /\ box' \in Boxes /\ box'[x].block = b /\ box'[x].p = boxes[x].p
       /\ box'[Other(x)] = boxes[Other(x)]
  BY <1>2, <1>5, Others DEF Boxes
<1>14. box'[Other(x)].block # None => box'[Other(x)].block \in DOMAIN m
  BY <1>6, <1>13
<1>15. HeldInv'
  <2>1. box'[x].block # box'[Other(x)].block \/ box'[Other(x)].block = None
    BY <1>7, <1>13, <1>14
  <2>2. box'["v1"].block # None => box'["v1"].block # box'["v2"].block
    BY <1>5, <1>13, <2>1 DEF Names, Other
  <2>3. \A z \in Names : box'[z].block # None => box'[z].block \in DOMAIN alloc_map'
    BY <1>10, <1>13, <1>14, Others
  <2> QED BY <2>2, <2>3 DEF HeldInv, Has
<1>16. Now'.own[x] = Mark(p)
  BY <1>5, <1>9, <1>10, <1>13, ThenIs
<1>17. Now'.own[Other(x)] = IF boxes[Other(x)].block = None THEN Nobody ELSE alloc_map[boxes[Other(x)].block]
  BY <1>10, <1>13, <1>14, ThenIs, Others
<1>18. b \notin DOMAIN alloc_map \/ b = box[x].block
  BY <1>2, <1>4
<1> QED BY <1>3, <1>4, <1>5, <1>12, <1>13, <1>15, <1>16, <1>17, <1>18 DEF Settled

\* What y keeps, or gives back, while x is filled.
Aside(boxes, x, S) ==
  LET y == Other(x)
  IN  \/ S = {} /\ boxes[y].block = box[y].block
      \/ boxes[y].block = None /\ \E q : S = Held(y, q)

LEMMA FillsDoes ==
  ASSUME Base, status = "running", status' = "running", NEW boxes \in Boxes, NEW x \in Names,
         boxes[x].block = box[x].block, NEW by \in 0..2, NEW S, Aside(boxes, x, S),
         Fills(boxes, x, Has(Other(x)), by, S)
  PROVE  /\ Settled
         /\ \A z \in Names : Now'.p[z] = boxes[z].p
         /\ Now'.own[Other(x)] = IF boxes[Other(x)].block = None THEN Nobody ELSE Now.own[Other(x)]
         /\ Filling(Now, Now', x, Now.own[Other(x)], boxes[x].p, by)
         /\ Owner(x) = Nobody => box'[x].block \notin DOMAIN alloc_map
<1> DEFINE y == Other(x)
           gets == Has(y) /\ fault # "loses"
           reuses == gets /\ Has(x) /\ boxes[x].p = box[x].p /\ fault # "reallocates"
<1>1. y \in Names /\ y # x /\ Other(y) = x /\ \A z \in Names : z = x \/ z = y
  BY Others
<1> HIDE DEF y
<1>2. /\ Now.own[x] = Owner(x) /\ Now.own[y] = Owner(y) /\ Now.p[x] = box[x].p /\ Now.allocs = allocs
      /\ Now'.allocs = allocs'
  BY <1>1, NowIs, ThenIs DEF Now
<1>3. boxes[x].p \in 0..2
  BY DEF Boxes
<1>4. boxes[y].block # None =>
        /\ S = {} /\ boxes[y].block = box[y].block
        /\ boxes[y].block \in DOMAIN alloc_map /\ alloc_map[boxes[y].block] = Owner(y)
        /\ boxes[y].block # box[x].block
  <2>1. Has(y) => /\ box[y].block \in DOMAIN alloc_map /\ alloc_map[box[y].block] = Owner(y)
                  /\ box[y].block # box[x].block
    BY <1>1, Owners DEF HeldInv, Base, Has, Names
  <2> QED BY <2>1 DEF Aside, y, Has
<1>5. {g[1] : g \in S} \subseteq {box[y].block} \ {None}
  <2>1. CASE S = {}
    BY <2>1
  <2>2. CASE \E q : S = Held(y, q)
    BY <2>2, <1>1, HeldRefuses
  <2> QED BY <2>1, <2>2 DEF Aside, y
<1>6. Has(x) => box[x].block # box[y].block /\ box[x].block \in DOMAIN alloc_map
  BY <1>1, Owners DEF HeldInv, Base, Has, Names
<1>7. (Has(x) <=> Owner(x) # Nobody) /\ (Has(y) <=> Now.own[y] # Nobody)
  BY <1>1, <1>2, Owners
<1>8. {g[1] : g \in Held(x, by) \cup S} \subseteq {box[x].block, box[y].block} \ {None}
  <2>1. {g[1] : g \in Held(x, by)} = {box[x].block} \ {None}
    BY HeldRefuses
  <2>2. {g[1] : g \in Held(x, by) \cup S} = {g[1] : g \in Held(x, by)} \cup {g[1] : g \in S}
    BY Zenon
  <2> QED BY <1>5, <2>1, <2>2
<1>9. CASE reuses /\ Frees(boxes, S)
  <2>1. \A z \in Names : boxes[z].block # None => boxes[z].block \in DOMAIN alloc_map \ {g[1] : g \in S}
    BY <1>1, <1>4, <1>5, <1>6, <1>9 DEF Has
  <2>2. boxes["v1"].block # None => boxes["v1"].block # boxes["v2"].block
    BY <1>1, <1>4 DEF Names, Has
  <2>3. /\ Settled /\ box' = boxes /\ allocs' = allocs
        /\ \A z \in Names : Now'.own[z] = IF boxes[z].block = None THEN Nobody ELSE alloc_map[boxes[z].block]
    BY <1>9, <2>1, <2>2, FreesDoes
  <2>4. Now'.own[x] = Now.own[x]
    BY <1>2, <1>9, <2>3, Owners DEF Has
  <2>5. Now'.own[y] = IF boxes[y].block = None THEN Nobody ELSE Now.own[y]
    BY <1>1, <1>2, <1>4, <2>3
  <2>6. Filling(Now, Now', x, Now.own[y], boxes[x].p, by)
    BY <1>2, <1>7, <1>9, <2>3, <2>4 DEF Filling
  <2>7. \A z \in Names : Now'.p[z] = boxes[z].p
    BY <2>3, ThenIs
  <2> QED BY <1>7, <1>9, <2>3, <2>5, <2>6, <2>7 DEF y
<1>10. CASE gets /\ ~ (reuses /\ kind = "set") /\ FreesAndTakes(boxes, Held(x, by) \cup S, x, boxes[x].p)
  <2>1. boxes[y].block # None => boxes[y].block \in DOMAIN alloc_map \ {g[1] : g \in Held(x, by) \cup S}
    <3>1. boxes[y].block # None => {g[1] : g \in Held(x, by) \cup S} \subseteq {box[x].block}
      BY <1>4, HeldRefuses
    <3> QED BY <1>4, <3>1
  <2>2. /\ Settled /\ allocs' = allocs + 1
        /\ \A g \in Held(x, by) \cup S : ~ Refuses(g)
        /\ box'[x].p = boxes[x].p /\ box'[y] = boxes[y]
        /\ box'[x].block # None
        /\ box'[x].block \notin DOMAIN alloc_map \/ box'[x].block = box[x].block
        /\ Now'.own[x] = Mark(boxes[x].p)
        /\ Now'.own[y] = IF boxes[y].block = None THEN Nobody ELSE alloc_map[boxes[y].block]
    BY <1>3, <1>10, <2>1, FreesAndTakesDoes DEF y
  <2>3. Owner(x) \in {Nobody, by}
    BY <2>2, HeldRefuses
  <2>4. Now'.own[y] = IF boxes[y].block = None THEN Nobody ELSE Now.own[y]
    BY <1>2, <1>4, <2>2
  <2>5. Filling(Now, Now', x, Now.own[y], boxes[x].p, by)
    BY <1>2, <1>7, <1>10, <2>2, <2>3 DEF Filling
  <2>6. \A z \in Names : Now'.p[z] = boxes[z].p
    BY <1>1, <2>2, ThenIs
  <2>7. Owner(x) = Nobody => box'[x].block \notin DOMAIN alloc_map
    BY <1>7, <2>2 DEF Has
  <2> QED BY <2>2, <2>4, <2>5, <2>6, <2>7 DEF y
<1>11. CASE ~ gets /\ Frees([boxes EXCEPT ![x].block = None], Held(x, by) \cup S)
  <2> DEFINE after == [boxes EXCEPT ![x].block = None]
  <2>1. after \in Boxes /\ after[x].block = None /\ after[x].p = boxes[x].p /\ after[y] = boxes[y]
    BY <1>1 DEF Boxes
  <2> HIDE DEF after
  <2>2. \A z \in Names : after[z].block # None => after[z].block \in DOMAIN alloc_map \ {g[1] : g \in Held(x, by) \cup S}
    <3>1. boxes[y].block # None => {g[1] : g \in Held(x, by) \cup S} \subseteq {box[x].block}
      BY <1>4, HeldRefuses
    <3> QED BY <1>1, <1>4, <2>1, <3>1
  <2>3. after["v1"].block # None => after["v1"].block # after["v2"].block
    BY <1>1, <2>1 DEF Names
  <2>4. /\ Settled /\ box' = after /\ allocs' = allocs
        /\ \A g \in Held(x, by) \cup S : ~ Refuses(g)
        /\ \A z \in Names : Now'.own[z] = IF after[z].block = None THEN Nobody ELSE alloc_map[after[z].block]
    <3>1. Frees(after, Held(x, by) \cup S)
      BY <1>11 DEF after
    <3> QED BY <2>1, <2>2, <2>3, <3>1, FreesDoes
  <2>5. Owner(x) \in {Nobody, by}
    BY <2>4, HeldRefuses
  <2>6. Now'.own[y] = IF boxes[y].block = None THEN Nobody ELSE Now.own[y]
    BY <1>1, <1>2, <1>4, <2>1, <2>4
  <2>7. Now'.own[x] = Nobody
    BY <2>1, <2>4
  <2>8. Filling(Now, Now', x, Now.own[y], boxes[x].p, by)
    <3>1. ~ (Now.own[y] # Nobody /\ fault # "loses")
      BY <1>7, <1>11
    <3>2. Now.own[x] \in {Nobody, by} /\ Now'.own[x] = Nobody /\ Now'.allocs = Now.allocs
      BY <1>2, <2>4, <2>5, <2>7
    <3> QED BY <3>1, <3>2 DEF Filling
  <2>9. \A z \in Names : Now'.p[z] = boxes[z].p
    BY <1>1, <2>1, <2>4, ThenIs
  <2>10. None \notin DOMAIN alloc_map
    BY ScenariosAssumption DEF Base, TypeInv
  <2> QED BY <2>1, <2>4, <2>6, <2>8, <2>9, <2>10 DEF y
<1> QED BY <1>9, <1>10, <1>11 DEF Fills, y

\* Nor is it refused where everybody gives back what is his.
LEMMA FillsPass ==
  ASSUME Base, status = "running", NEW boxes, NEW x \in Names, NEW has, NEW by, NEW S, Fills(boxes, x, has, by, S),
         Owner(x) \in {Nobody, by},
         \/ S = {}
         \/ \E q : S = Held(Other(x), q) /\ Owner(Other(x)) \in {Nobody, q}
  PROVE  status' = "running"
<1>1. \A g \in S : ~ Refuses(g)
  BY HeldRefuses, Others
<1>2. \A g \in Held(x, by) \cup S : ~ Refuses(g)
  BY <1>1, HeldRefuses
<1> QED BY <1>1, <1>2 DEF Fills, Frees, FreesAndTakes, Thrown

-----------------------------------------------------------------------------
(* Every action does what Step says of its statement.                        *)

LEMMA TraitsTyped ==
  ASSUME Base
  PROVE  /\ Tests[test] \in Test /\ Len(Tests[test].body) \in Nat
         /\ traits \in [copies : BOOLEAN, moves : BOOLEAN, swaps : BOOLEAN, selects : BOOLEAN]
<1>1. Tests[test] \in Test
  BY TestsTyped DEF Base, TypeInv
<1> QED BY <1>1 DEF Test, traits

LEMMA StmtTyped ==
  ASSUME Base, NEW op, At(op)
  PROVE  /\ status = "running" /\ pos \in 1..Len(Tests[test].body) /\ Stmt.op = op
         /\ Stmt \in Statement /\ Stmt.x \in Names /\ Stmt.p \in 0..2
         /\ op \in TwoBoxes => Stmt.y = Other(Stmt.x)
<1>1. pos \in 1..Len(Tests[test].body)
  BY TraitsTyped DEF Base, TypeInv, At
<1>2. Stmt \in Statement
  BY <1>1, TraitsTyped DEF Test, Stmt
<1> QED BY <1>1, <1>2 DEF At, Statement

LEMMA NowAre ==
  /\ Now.p = [z \in Names |-> Now.p[z]] /\ Now.own = [z \in Names |-> Now.own[z]]
  /\ Now.here = [z \in Names |-> Now.here[z]]
  /\ Now'.p = [z \in Names |-> Now'.p[z]] /\ Now'.own = [z \in Names |-> Now'.own[z]]
  /\ Now'.here = [z \in Names |-> Now'.here[z]]
BY DEF Now

LEMMA OwnedIs ==
  ASSUME Base, NEW x \in Names, NEW p \in 0..2
  PROVE  /\ box \in Boxes /\ Owned(x, p) \in Boxes /\ Owned(x, p)[x].p = p
         /\ Owned(x, p)[x].block = box[x].block
         /\ Owned(x, p)[Other(x)] = box[Other(x)]
<1> DEFINE alive == [box EXCEPT ![x].alive = TRUE]
<1>1. box \in Boxes
  BY DEF Base, TypeInv
<1>2. /\ alive \in Boxes /\ alive[x].block = box[x].block
      /\ \A z \in Names \ {x} : alive[z] = box[z]
  BY <1>1 DEF Boxes
<1> HIDE DEF alive
<1>3. Owned(x, p) = [alive EXCEPT ![x].p = p]
  BY DEF Owned, alive
<1>4. /\ [alive EXCEPT ![x].p = p] \in Boxes /\ [alive EXCEPT ![x].p = p][x].p = p
      /\ [alive EXCEPT ![x].p = p][x].block = alive[x].block
      /\ \A z \in Names \ {x} : [alive EXCEPT ![x].p = p][z] = alive[z]
  BY <1>2 DEF Boxes
<1> QED BY <1>1, <1>2, <1>3, <1>4, Others

\* Nothing is given back, and the boxes hold what they have held.
LEMMA HoldsOn ==
  ASSUME Base, status = "running", NEW boxes,
         \A z \in Names : boxes[z].block = box[z].block
  PROVE  /\ \A z \in Names : boxes[z].block # None =>
                               boxes[z].block \in DOMAIN alloc_map \ {g[1] : g \in {}}
         /\ boxes["v1"].block # None => boxes["v1"].block # boxes["v2"].block
         /\ \A z \in Names : Now.own[z] = IF boxes[z].block = None THEN Nobody ELSE alloc_map[boxes[z].block]
<1>1. \A z \in Names : box[z].block # None => box[z].block \in DOMAIN alloc_map
  BY Owners DEF Has
<1>2. box["v1"].block # None => box["v1"].block # box["v2"].block
  BY DEF Base, HeldInv, Has
<1>3. \A z \in Names : Now.own[z] = IF boxes[z].block = None THEN Nobody ELSE alloc_map[boxes[z].block]
  BY NowIs DEF Owner, Has
<1> QED BY <1>1, <1>2, <1>3 DEF Names

LEMMA ConstructSteps ==
  ASSUME Base, construct, status' = "running"
  PROVE  Settled /\ Step(Stmt, traits, Now, Now')
<1> DEFINE x == Stmt.x
           boxes == Owned(x, Stmt.p)
<1>1. /\ status = "running" /\ Stmt.op = "construct" /\ x \in Names /\ Stmt.p \in 0..2
  BY StmtTyped DEF construct
<1>2. /\ boxes \in Boxes /\ boxes[x].p = Stmt.p /\ boxes[x].block = box[x].block
      /\ boxes[Other(x)] = box[Other(x)]
  BY <1>1, OwnedIs
<1>3. Frees(boxes, {}) /\ it' = it
  BY DEF construct, Same
<1> HIDE DEF boxes, x
<1>4. \A z \in Names : boxes[z].block = box[z].block
  BY <1>1, <1>2, Others
<1>5. /\ Settled /\ box' = boxes /\ allocs' = allocs
      /\ \A z \in Names : Now'.own[z] = Now.own[z]
  BY <1>1, <1>2, <1>3, <1>4, HoldsOn, FreesDoes
<1>6. Now'.own = Now.own
  BY <1>5, NowAre
<1>7. Now'.here = Now.here /\ Now'.allocs = Now.allocs
  BY <1>3, <1>4, <1>5 DEF Now, Has
<1>8. Sets(Now.p, Now'.p, x, Stmt.p)
  BY <1>1, <1>2, <1>5, NowIs, ThenIs, Others DEF Sets
<1> QED BY <1>1, <1>5, <1>6, <1>7, <1>8 DEF Step, x

LEMMA PushSteps ==
  ASSUME Base, push, status' = "running"
  PROVE  Settled /\ Step(Stmt, traits, Now, Now')
<1> DEFINE x == Stmt.x
<1>1. status = "running" /\ Stmt.op = "push" /\ x \in Names
  BY StmtTyped DEF push
<1>2. FreesAndTakes(box, {}, x, box[x].p) /\ it' = it
  BY DEF push, Same
<1> HIDE DEF x
<1>3. box \in Boxes /\ box[x].p \in 0..2 /\ Other(x) \in Names
  BY <1>1, NowIs, Others DEF Base, TypeInv
<1>4. box[Other(x)].block # None => box[Other(x)].block \in DOMAIN alloc_map \ {g[1] : g \in {}}
  BY <1>1, <1>3, HoldsOn
<1>5. /\ Settled /\ box'[x].p = box[x].p /\ box'[Other(x)] = box[Other(x)]
      /\ Now'.own[x] = Mark(box[x].p)
      /\ Now'.own[Other(x)] = IF box[Other(x)].block = None THEN Nobody ELSE alloc_map[box[Other(x)].block]
  BY <1>1, <1>2, <1>3, <1>4, FreesAndTakesDoes
<1>6. \A z \in Names : Now'.p[z] = Now.p[z]
  BY <1>1, <1>5, NowIs, ThenIs, Others
<1>7. Now'.p = Now.p
  BY <1>6, NowAre
<1>8. Sets(Now.own, Now'.own, x, Mark(Now.p[x]))
  BY <1>1, <1>3, <1>5, NowIs DEF Sets, Owner, Has
<1>9. Now'.here[Other(x)] = Now.here[Other(x)]
  BY <1>2, <1>3, <1>5, NowIs, ThenIs DEF Has
<1> QED BY <1>1, <1>5, <1>7, <1>8, <1>9 DEF Step, x

LEMMA SwapSteps ==
  ASSUME Base, swap, status' = "running"
  PROVE  Settled /\ Step(Stmt, traits, Now, Now')
<1> DEFINE crossed == Propagates(traits.swaps)
           boxes == IF crossed THEN [box EXCEPT !["v1"] = box["v2"], !["v2"] = box["v1"]]
                    ELSE [box EXCEPT !["v1"].block = box["v2"].block, !["v2"].block = box["v1"].block]
<1>1. status = "running" /\ Stmt.op = "swap"
  BY StmtTyped DEF swap
<1>2. Frees(boxes, {})
  BY DEF swap
<1>3. box \in Boxes
  BY DEF Base, TypeInv
<1> HIDE DEF crossed
<1>4. boxes \in Boxes
  BY <1>3 DEF Boxes, Names
<1>5. /\ boxes["v1"].block = box["v2"].block /\ boxes["v2"].block = box["v1"].block
      /\ boxes["v1"].p = IF crossed THEN box["v2"].p ELSE box["v1"].p
      /\ boxes["v2"].p = IF crossed THEN box["v1"].p ELSE box["v2"].p
  BY <1>3 DEF Boxes, Names
<1> HIDE DEF boxes
<1>6. /\ \A z \in Names : box[z].block # None => box[z].block \in DOMAIN alloc_map \ {g[1] : g \in {}}
      /\ box["v1"].block # None => box["v1"].block # box["v2"].block
      /\ \A z \in Names : Now.own[z] = IF box[z].block = None THEN Nobody ELSE alloc_map[box[z].block]
  BY <1>1, HoldsOn
<1>7. /\ Settled /\ box' = boxes
      /\ \A z \in Names : Now'.own[z] = IF boxes[z].block = None THEN Nobody ELSE alloc_map[boxes[z].block]
  <2>1. \A z \in Names : boxes[z].block # None => boxes[z].block \in DOMAIN alloc_map \ {g[1] : g \in {}}
    BY <1>5, <1>6 DEF Names
  <2>2. boxes["v1"].block # None => boxes["v1"].block # boxes["v2"].block
    BY <1>5, <1>6
  <2> QED BY <1>1, <1>2, <1>4, <2>1, <2>2, FreesDoes
<1>8. Now'.own["v1"] = Now.own["v2"] /\ Now'.own["v2"] = Now.own["v1"]
  BY <1>5, <1>6, <1>7 DEF Names
<1>9. Now'.own = [z \in Names |-> Now.own[Other(z)]]
  BY <1>8, NowAre DEF Names, Other
<1>10. /\ crossed => Now'.p["v1"] = Now.p["v2"] /\ Now'.p["v2"] = Now.p["v1"]
       /\ ~ crossed => Now'.p["v1"] = Now.p["v1"] /\ Now'.p["v2"] = Now.p["v2"]
  BY <1>5, <1>7, NowIs, ThenIs DEF Names
<1>11. Now'.p = IF crossed THEN [z \in Names |-> Now.p[Other(z)]] ELSE Now.p
  BY <1>10, NowAre DEF Names, Other
<1> QED BY <1>1, <1>7, <1>9, <1>11 DEF Step, crossed

LEMMA OtherSteps ==
  ASSUME Base, keep \/ count \/ VERIFY
  PROVE  Settled /\ Step(Stmt, traits, Now, Now') /\ status' = "running" /\ UNCHANGED <<kind, fault, test>>
<1>1. /\ status = "running" /\ status' = "running" /\ UNCHANGED <<kind, fault, test, memory, box>> /\ pos' = pos + 1
      /\ \E op : At(op)
  BY DEF keep, count, VERIFY, AtVERIFY, At
<1>2. Stmt.x \in Names
  BY <1>1, StmtTyped
<1>3. Settled
  BY <1>1 DEF Settled, Base, TypeInv, HeldInv, Has, memory, keep, count, VERIFY
<1>4. Now'.p = Now.p /\ Now'.own = Now.own
  BY <1>1 DEF Now, Owner, Has, memory
<1>5. CASE keep
  <2>1. Now'.here["v1"] = (Now.own["v1"] # Nobody)
    BY <1>1, <1>5, NowIs, ThenIs, Owners DEF keep, Names, Has
  <2> QED BY <1>1, <1>3, <1>4, <1>5, <2>1 DEF keep, At, Step
<1>6. CASE count
  <2>1. Now'.allocs = 0
    BY <1>6, ThenIs DEF count
  <2> QED BY <1>1, <1>3, <1>4, <1>6, <2>1 DEF count, At, Step
<1>7. CASE VERIFY
  <2>1. Now' = Now
    BY <1>7 DEF VERIFY, Now, Owner, Has, memory
  <2>2. /\ Stmt.op \in {"personality", "begin", "counted", "absent", "present"} /\ Holds
    BY <1>7 DEF VERIFY, AtVERIFY, At
  <2>3. /\ Now.p[Stmt.x] = box[Stmt.x].p /\ Now.allocs = allocs
        /\ Now.own[Stmt.x] # Nobody <=> Has(Stmt.x)
        /\ Now.here[Stmt.x] = (Has(Stmt.x) /\ box[Stmt.x].block = it)
    BY <1>1, <1>2, NowIs, Owners DEF Now
  <2>4. CASE Stmt.op = "personality"
    BY <1>1, <1>3, <2>1, <2>2, <2>3, <2>4 DEF Step, Holds
  <2>5. CASE Stmt.op = "begin"
    BY <1>1, <1>3, <2>1, <2>2, <2>3, <2>5 DEF Step, Holds
  <2>6. CASE Stmt.op = "counted"
    BY <1>1, <1>3, <2>1, <2>2, <2>3, <2>6 DEF Step, Holds
  <2>7. CASE Stmt.op = "absent"
    BY <1>1, <1>3, <2>1, <2>2, <2>3, <2>7 DEF Step, Holds
  <2>8. CASE Stmt.op = "present"
    BY <1>1, <1>3, <2>1, <2>2, <2>3, <2>8 DEF Step, Holds
  <2> QED BY <2>2, <2>4, <2>5, <2>6, <2>7, <2>8
<1> QED BY <1>5, <1>6, <1>7

LEMMA MovedFromIs ==
  ASSUME NEW boxes \in Boxes, NEW y \in Names
  PROVE  /\ MovedFrom(boxes, y) \in Boxes /\ MovedFrom(boxes, y)[Other(y)] = boxes[Other(y)]
         /\ MovedFrom(boxes, y)[y].block = boxes[y].block
         /\ MovedFrom(boxes, y)[y].p = IF fault = "resets_moved_from" THEN 0 ELSE boxes[y].p
<1>1. /\ [boxes EXCEPT ![y].p = 0] \in Boxes /\ [boxes EXCEPT ![y].p = 0][Other(y)] = boxes[Other(y)]
      /\ [boxes EXCEPT ![y].p = 0][y].block = boxes[y].block /\ [boxes EXCEPT ![y].p = 0][y].p = 0
  BY Others DEF Boxes
<1> QED BY <1>1 DEF MovedFrom

LEMMA TakesDoes ==
  ASSUME Base, status = "running", status' = "running", NEW x \in Names, NEW p \in 0..2, NEW by, it' = it,
         Takes(x, Other(x), p, by)
  PROVE  /\ Settled /\ Taking(Now, Now', x, by) /\ Now'.p[x] = p
         /\ Now'.p[Other(x)] = IF fault = "resets_moved_from" THEN 0 ELSE Now.p[Other(x)]
<1> DEFINE y == Other(x)
           own == Owned(x, p)
           mid == [own EXCEPT ![x].block = box[y].block, ![y].block = None]
           boxes == MovedFrom(mid, y)
<1>1. y \in Names /\ y # x /\ Other(y) = x /\ \A z \in Names : z = x \/ z = y
  BY Others
<1>2. Frees(boxes, Held(x, by))
  BY DEF Takes
<1>3. box \in Boxes /\ own \in Boxes /\ own[x].p = p /\ own[y] = box[y]
  BY OwnedIs
<1> HIDE DEF y, own
<1>4. mid \in Boxes /\ mid[x].p = p /\ mid[x].block = box[y].block /\ mid[y].p = box[y].p /\ mid[y].block = None
  BY <1>1, <1>3 DEF Boxes
<1> HIDE DEF mid
<1>5. /\ boxes \in Boxes /\ boxes[x].p = p /\ boxes[x].block = box[y].block /\ boxes[y].block = None
      /\ boxes[y].p = IF fault = "resets_moved_from" THEN 0 ELSE box[y].p
  BY <1>1, <1>4, MovedFromIs
<1> HIDE DEF boxes
<1>6. Has(y) => /\ box[y].block \in DOMAIN alloc_map /\ alloc_map[box[y].block] = Owner(y)
                /\ box[y].block # box[x].block
  BY <1>1, Owners DEF HeldInv, Base, Has, Names
<1>7. {g[1] : g \in Held(x, by)} \subseteq {box[x].block}
  BY HeldRefuses
<1>8. \A z \in Names : boxes[z].block # None => boxes[z].block \in DOMAIN alloc_map \ {g[1] : g \in Held(x, by)}
  BY <1>1, <1>5, <1>6, <1>7 DEF Has
<1>9. boxes["v1"].block # None => boxes["v1"].block # boxes["v2"].block
  BY <1>1, <1>5 DEF Names
<1>10. /\ Settled /\ box' = boxes /\ allocs' = allocs
       /\ \A g \in Held(x, by) : ~ Refuses(g)
       /\ \A z \in Names : Now'.own[z] = IF boxes[z].block = None THEN Nobody ELSE alloc_map[boxes[z].block]
  BY <1>2, <1>5, <1>8, <1>9, FreesDoes
<1>11. Now.own[x] \in {Nobody, by}
  BY <1>10, HeldRefuses, NowIs
<1>12. Now'.own[x] = Now.own[y] /\ Now'.own[y] = Nobody
  BY <1>1, <1>5, <1>6, <1>10, NowIs, Owners DEF Has
<1>13. Now'.here[x] = Now.here[y]
  BY <1>1, <1>5, <1>10, NowIs, ThenIs DEF Has
<1>14. Now'.allocs = Now.allocs
  BY <1>10 DEF Now
<1>15. Now'.p[x] = p /\ Now'.p[y] = IF fault = "resets_moved_from" THEN 0 ELSE Now.p[y]
  BY <1>1, <1>5, <1>10, NowIs, ThenIs
<1> QED BY <1>10, <1>11, <1>12, <1>13, <1>14, <1>15 DEF Taking, y

LEMMA MovesEachDoes ==
  ASSUME Base, status = "running", status' = "running", NEW x \in Names, NEW p \in 0..2, NEW by \in 0..2, it' = it,
         MovesEach(x, Other(x), p, by)
  PROVE  /\ Settled /\ MovingEach(Now, Now', x, p, by) /\ Now'.p[x] = p
         /\ Now'.p[Other(x)] = IF fault = "resets_moved_from" THEN 0 ELSE Now.p[Other(x)]
<1> DEFINE y == Other(x)
           own == Owned(x, p)
           boxes == MovedFrom(own, y)
           emptied == [boxes EXCEPT ![y].block = None]
<1>1. y \in Names /\ y # x /\ Other(y) = x /\ \A z \in Names : z = x \/ z = y
  BY Others
<1>2. \/ kind # "set" /\ Fills(boxes, x, Has(y), by, {})
      \/ Fills(emptied, x, Has(y), by, Held(y, box[y].p))
  BY DEF MovesEach, y
<1>0. own \in Boxes /\ own[x].p = p /\ own[x].block = box[x].block /\ own[y] = box[y]
  BY OwnedIs
<1> HIDE DEF own
<1>3. /\ boxes \in Boxes /\ boxes[x].p = p /\ boxes[x].block = box[x].block /\ boxes[y].block = box[y].block
      /\ boxes[y].p = IF fault = "resets_moved_from" THEN 0 ELSE box[y].p
  BY <1>0, <1>1, MovedFromIs
<1> HIDE DEF y, boxes
<1>4. /\ emptied \in Boxes /\ emptied[x] = boxes[x] /\ emptied[y].block = None /\ emptied[y].p = boxes[y].p
  BY <1>1, <1>3 DEF Boxes
<1> HIDE DEF emptied
<1>5. (box[y].block # None <=> Now.own[y] # Nobody) /\ Now.own[x] = Owner(x)
  BY <1>1, NowIs, Owners DEF Has
<1>6. /\ Settled
      /\ \A z \in Names : Now'.p[z] = boxes[z].p
      /\ \/ kind # "set" /\ Now'.own[y] = Now.own[y]
         \/ Now'.own[y] = Nobody
      /\ Filling(Now, Now', x, Now.own[y], p, by)
      /\ Now.own[x] = Nobody => box'[x].block \notin DOMAIN alloc_map
  <2>1. CASE kind # "set" /\ Fills(boxes, x, Has(y), by, {})
    <3>1. Aside(boxes, x, {})
      BY <1>3 DEF Aside, y
    <3>2. /\ Settled
          /\ \A z \in Names : Now'.p[z] = boxes[z].p
          /\ Now'.own[y] = IF boxes[y].block = None THEN Nobody ELSE Now.own[y]
          /\ Filling(Now, Now', x, Now.own[y], p, by)
          /\ Owner(x) = Nobody => box'[x].block \notin DOMAIN alloc_map
      BY <1>3, <1>5, <2>1, <3>1, FillsDoes DEF y
    <3>3. Now'.own[y] = Now.own[y]
      BY <1>3, <1>5, <3>2
    <3> QED BY <1>5, <2>1, <3>2, <3>3
  <2>2. CASE Fills(emptied, x, Has(y), by, Held(y, box[y].p))
    <3>1. Aside(emptied, x, Held(y, box[y].p))
      BY <1>4 DEF Aside, y
    <3>2. /\ Settled
          /\ \A z \in Names : Now'.p[z] = emptied[z].p
          /\ Now'.own[y] = IF emptied[y].block = None THEN Nobody ELSE Now.own[y]
          /\ Filling(Now, Now', x, Now.own[y], p, by)
          /\ Owner(x) = Nobody => box'[x].block \notin DOMAIN alloc_map
      BY <1>3, <1>4, <1>5, <2>2, <3>1, FillsDoes DEF y
    <3>3. \A z \in Names : Now'.p[z] = boxes[z].p
      BY <1>1, <1>4, <3>2
    <3> QED BY <1>4, <1>5, <3>2, <3>3
  <2> QED BY <1>2, <2>1, <2>2
<1>7. Now.own[x] = Nobody /\ Now.here[y] => ~ Now'.here[x]
  <2>1. Now.here[y] => it = box[y].block /\ it \in DOMAIN alloc_map
    BY <1>1, NowIs, Owners DEF Has
  <2> QED BY <1>6, <2>1, ThenIs
<1>8. Now'.p[x] = p /\ Now'.p[y] = IF fault = "resets_moved_from" THEN 0 ELSE Now.p[y]
  BY <1>1, <1>3, <1>6, NowIs
<1> QED BY <1>6, <1>7, <1>8 DEF MovingEach, y

LEMMA MovingDoes ==
  ASSUME Base, status = "running", status' = "running", NEW x \in Names, NEW p \in 0..2, NEW by \in 0..2, it' = it,
         IF (p = box[Other(x)].p \/ fault = "steals") /\ fault # "moves_each"
           THEN Takes(x, Other(x), p, by) ELSE MovesEach(x, Other(x), p, by)
  PROVE  Settled /\ Moving(Now, Now', x, p, by)
<1>1. Now.p[Other(x)] = box[Other(x)].p
  BY NowIs, Others
<1>2. CASE (p = box[Other(x)].p \/ fault = "steals") /\ fault # "moves_each"
  <2>1. /\ Settled /\ Taking(Now, Now', x, by) /\ Now'.p[x] = p
        /\ Now'.p[Other(x)] = IF fault = "resets_moved_from" THEN 0 ELSE Now.p[Other(x)]
    BY <1>2, TakesDoes
  <2> QED BY <1>1, <1>2, <2>1 DEF Moving
<1>3. CASE ~ ((p = box[Other(x)].p \/ fault = "steals") /\ fault # "moves_each")
  <2>1. /\ Settled /\ MovingEach(Now, Now', x, p, by) /\ Now'.p[x] = p
        /\ Now'.p[Other(x)] = IF fault = "resets_moved_from" THEN 0 ELSE Now.p[Other(x)]
    BY <1>3, MovesEachDoes
  <2> QED BY <1>1, <1>3, <2>1 DEF Moving
<1> QED BY <1>2, <1>3

LEMMA FillingSteps ==
  ASSUME Base, status = "running", status' = "running", NEW x \in Names, NEW p \in 0..2, NEW by \in 0..2,
         Fills(Owned(x, p), x, Has(Other(x)), by, {})
  PROVE  /\ Settled /\ Sets(Now.p, Now'.p, x, p) /\ Now'.own[Other(x)] = Now.own[Other(x)]
         /\ Filling(Now, Now', x, Now.own[Other(x)], p, by)
<1> DEFINE y == Other(x)
           boxes == Owned(x, p)
<1>1. y \in Names /\ y # x
  BY Others
<1>2. boxes \in Boxes /\ boxes[x].p = p /\ boxes[x].block = box[x].block /\ boxes[y] = box[y]
  BY OwnedIs
<1>3. Fills(boxes, x, Has(y), by, {}) /\ Aside(boxes, x, {})
  BY <1>2 DEF Aside
<1>4. box[y].block # None <=> Now.own[y] # Nobody
  BY <1>1, NowIs, Owners DEF Has
<1> HIDE DEF boxes
<1>5. /\ Settled
      /\ \A z \in Names : Now'.p[z] = boxes[z].p
      /\ Now'.own[y] = IF boxes[y].block = None THEN Nobody ELSE Now.own[y]
      /\ Filling(Now, Now', x, Now.own[y], p, by)
  BY <1>2, <1>3, <1>4, FillsDoes
<1> HIDE DEF y
<1>6. Now'.own[y] = Now.own[y]
  BY <1>2, <1>4, <1>5
<1>7. Sets(Now.p, Now'.p, x, p)
  BY <1>1, <1>2, <1>5, NowIs DEF Sets, y
<1> QED BY <1>5, <1>6, <1>7 DEF y

LEMMA CopySteps ==
  ASSUME Base, copy, status' = "running"
  PROVE  Settled /\ Step(Stmt, traits, Now, Now')
<1> DEFINE x == Stmt.x
           from == box[Other(x)].p
           p == CopyOf(Stmt, traits.selects, from)
<1>1. /\ status = "running" /\ Stmt.op \in {"copy", "copy_with"} /\ x \in Names /\ Stmt.y = Other(x)
      /\ Stmt.p \in 0..2
  BY StmtTyped DEF copy, TwoBoxes
<1>2. from \in 0..2 /\ from = Now.p[Other(x)]
  BY <1>1, NowIs, Others
<1>3. p \in 0..2
  BY <1>1, <1>2 DEF CopyOf
<1>4. Fills(Owned(x, p), x, Has(Other(x)), p, {})
  BY <1>1 DEF copy, CopyOf
<1> HIDE DEF x, from, p
<1>5. /\ Settled /\ Sets(Now.p, Now'.p, x, p) /\ Now'.own[Other(x)] = Now.own[Other(x)]
      /\ Filling(Now, Now', x, Now.own[Other(x)], p, p)
  BY <1>1, <1>3, <1>4, FillingSteps DEF x
<1>6. p = CopyOf(Stmt, traits.selects, Now.p[Other(Stmt.x)])
  BY <1>2 DEF p, x
<1>7. /\ Sets(Now.p, Now'.p, Stmt.x, p) /\ Now'.own[Other(Stmt.x)] = Now.own[Other(Stmt.x)]
      /\ Filling(Now, Now', Stmt.x, Now.own[Other(Stmt.x)], p, p)
  BY <1>5 DEF x
<1> QED BY <1>1, <1>5, <1>6, <1>7 DEF Step

LEMMA AssignSteps ==
  ASSUME Base, assign, status' = "running"
  PROVE  Settled /\ Step(Stmt, traits, Now, Now')
<1> DEFINE x == Stmt.x
           own == box[x].p
           from == box[Other(x)].p
           p == IF Propagates(traits.copies) THEN from ELSE own
           by == IF fault = "frees_late" THEN p ELSE own
<1>1. status = "running" /\ Stmt.op = "assign" /\ x \in Names /\ Stmt.y = Other(x)
  BY StmtTyped DEF assign, TwoBoxes
<1>2. from \in 0..2 /\ own \in 0..2 /\ from = Now.p[Other(x)] /\ own = Now.p[x]
  BY <1>1, NowIs, Others
<1>3. p \in 0..2 /\ by \in 0..2
  BY <1>2
<1>4. Fills(Owned(x, p), x, Has(Other(x)), by, {})
  BY <1>1 DEF assign
<1>5. /\ p = IF Propagates(traits.copies) THEN Now.p[Other(Stmt.x)] ELSE Now.p[Stmt.x]
      /\ by = IF fault = "frees_late" THEN p ELSE Now.p[Stmt.x]
  BY <1>2
<1> HIDE DEF x, p, by
<1>6. /\ Settled /\ Sets(Now.p, Now'.p, x, p) /\ Now'.own[Other(x)] = Now.own[Other(x)]
      /\ Filling(Now, Now', x, Now.own[Other(x)], p, by)
  BY <1>1, <1>3, <1>4, FillingSteps
<1> QED BY <1>1, <1>5, <1>6 DEF Step, x

LEMMA MoveSteps ==
  ASSUME Base, move, status' = "running"
  PROVE  Settled /\ Step(Stmt, traits, Now, Now')
<1> DEFINE x == Stmt.x
           from == box[Other(x)].p
           p == IF Stmt.op = "move" \/ fault = "copies_allocator" THEN from ELSE Stmt.p
<1>1. /\ status = "running" /\ Stmt.op \in {"move", "move_with"} /\ x \in Names /\ Stmt.y = Other(x)
      /\ Stmt.p \in 0..2 /\ it' = it
  BY StmtTyped DEF move, TwoBoxes, Same
<1>2. from \in 0..2 /\ from = Now.p[Other(x)]
  BY <1>1, NowIs, Others
<1>3. p \in 0..2
  BY <1>1, <1>2
<1>4. IF (p = from \/ fault = "steals") /\ fault # "moves_each"
        THEN Takes(x, Other(x), p, p) ELSE MovesEach(x, Other(x), p, p)
  BY <1>1 DEF move
<1>5. p = IF Stmt.op = "move" \/ fault = "copies_allocator" THEN Now.p[Other(Stmt.x)] ELSE Stmt.p
  BY <1>2
<1> HIDE DEF x, p
<1>6. Settled /\ Moving(Now, Now', x, p, p)
  BY <1>1, <1>3, <1>4, MovingDoes
<1> QED BY <1>1, <1>5, <1>6 DEF Step, x

LEMMA MoveAssignSteps ==
  ASSUME Base, move_assign, status' = "running"
  PROVE  Settled /\ Step(Stmt, traits, Now, Now')
<1> DEFINE x == Stmt.x
           own == box[x].p
           from == box[Other(x)].p
           p == IF Propagates(traits.moves) THEN from ELSE own
           by == IF fault = "frees_late" THEN p ELSE own
<1>1. status = "running" /\ Stmt.op = "move_assign" /\ x \in Names /\ Stmt.y = Other(x) /\ it' = it
  BY StmtTyped DEF move_assign, TwoBoxes, Same
<1>2. from \in 0..2 /\ own \in 0..2 /\ from = Now.p[Other(x)] /\ own = Now.p[x]
  BY <1>1, NowIs, Others
<1>3. p \in 0..2 /\ by \in 0..2
  BY <1>2
<1>4. IF (p = from \/ fault = "steals") /\ fault # "moves_each"
        THEN Takes(x, Other(x), p, by) ELSE MovesEach(x, Other(x), p, by)
  BY <1>1 DEF move_assign
<1>5. /\ p = IF Propagates(traits.moves) THEN Now.p[Other(Stmt.x)] ELSE Now.p[Stmt.x]
      /\ by = IF fault = "frees_late" THEN p ELSE Now.p[Stmt.x]
  BY <1>2
<1> HIDE DEF x, p, by
<1>6. Settled /\ Moving(Now, Now', x, p, by)
  BY <1>1, <1>3, <1>4, MovingDoes
<1> QED BY <1>1, <1>5, <1>6 DEF Step, x

\* A statement of a test.
Acts == construct \/ push \/ copy \/ assign \/ move \/ move_assign \/ swap \/ keep \/ count \/ VERIFY

LEMMA ActsStep ==
  ASSUME Base, Acts, status' = "running"
  PROVE  /\ Settled /\ Step(Stmt, traits, Now, Now')
         /\ UNCHANGED <<kind, fault, test>> /\ status = "running" /\ pos \in 1..Len(Tests[test].body)
<1>1. UNCHANGED <<kind, fault, test>>
  BY OtherSteps DEF Acts, construct, push, copy, assign, move, move_assign, swap, Same
<1>2. \E op : At(op)
  BY DEF Acts, construct, push, copy, assign, move, move_assign, swap, keep, count, VERIFY, AtVERIFY
<1>3. status = "running" /\ pos \in 1..Len(Tests[test].body)
  BY <1>2, StmtTyped
<1>4. Settled /\ Step(Stmt, traits, Now, Now')
  BY ConstructSteps, PushSteps, CopySteps, AssignSteps, MoveSteps, MoveAssignSteps, SwapSteps, OtherSteps
     DEF Acts
<1> QED BY <1>1, <1>3, <1>4

\* What statements do depends on the container and its fault only.
LEMMA StepsSame ==
  ASSUME UNCHANGED <<kind, fault>>
  PROVE  \A st, w, s, t : Step(st, w, s, t)' <=> Step(st, w, s, t)
<1>1. /\ \A q : Mark(q)' = Mark(q)
      /\ \A trait : Propagates(trait)' = Propagates(trait)
      /\ \A st, selects, from : CopyOf(st, selects, from)' = CopyOf(st, selects, from)
  BY DEF Mark, Propagates, CopyOf
<1>2. \A s, t, x, o, p, by : Filling(s, t, x, o, p, by)' <=> Filling(s, t, x, o, p, by)
  BY <1>1 DEF Filling
<1>3. \A s, t, x, p, by : MovingEach(s, t, x, p, by)' <=> MovingEach(s, t, x, p, by)
  BY <1>2 DEF MovingEach
<1>4. \A s, t, x, p, by : Moving(s, t, x, p, by)' <=> Moving(s, t, x, p, by)
  BY <1>3 DEF Moving, Taking
<1> QED BY <1>1, <1>2, <1>4 DEF Step, Sets

LEMMA TestsSame ==
  ASSUME UNCHANGED kind
  PROVE  Tests' = Tests
BY DEF Tests, Copy, CopyAssign, Move, MoveAssign, MoveAssignEqual, MoveAssignReuses, MoveCons, Swap

\* One more statement of the test.
LEMMA TraceGrows ==
  ASSUME Base, NEW tr, Trace(tr), pos \in 1..Len(Tests[test].body), pos' = pos + 1,
         UNCHANGED <<kind, fault, test>>, Step(Stmt, traits, Now, Now')
  PROVE  (\E u : Trace(u))'
<1> DEFINE body == Tests[test].body
           w == traits
           u == [i \in 1..pos + 1 |-> IF i = pos + 1 THEN Now' ELSE tr[i]]
<1>1. Tests'[test'].body = body /\ traits' = w
  BY TestsSame DEF traits
<1>2. Reaches(tr, body, w, pos) /\ tr[pos] = Now /\ Step(body[pos], w, Now, Now')
  BY DEF Trace, Stmt
<1>3. pos \in Nat \ {0} /\ u[1] = tr[1] /\ u[pos] = tr[pos] /\ u[pos + 1] = Now'
      /\ \A i \in 1..pos - 1 : u[i] = tr[i] /\ u[i + 1] = tr[i + 1]
  BY TraitsTyped
<1> HIDE DEF body, w, u
<1>4. u[1] = Blank
  BY <1>2, <1>3 DEF Reaches
<1>5. ASSUME NEW i \in 1..pos PROVE Step(body[i], w, u[i], u[i + 1])
  <2>1. CASE i = pos
    BY <1>2, <1>3, <2>1
  <2>2. CASE i # pos
    <3>1. i \in 1..pos - 1
      BY <1>3, <2>2
    <3> QED BY <1>2, <1>3, <3>1 DEF Reaches
  <2> QED BY <2>1, <2>2
<1>6. \A i \in 1..pos' - 1 : i \in 1..pos
  BY <1>3
<1>7. \A i \in 1..pos' - 1 : Step(body[i], w, u[i], u[i + 1])
  BY <1>5, <1>6
<1>8. PICK v : v = u
  OBVIOUS
<1>9. Reaches(v, Tests[test].body, traits, pos)'
  BY <1>1, <1>4, <1>7, <1>8, StepsSame DEF Reaches, Blank
<1>10. v[pos'] = Now'
  BY <1>3, <1>8
<1>11. Trace(v)'
  BY <1>9, <1>10 DEF Trace
<1> QED BY <1>11

-----------------------------------------------------------------------------
(* The invariants are kept.                                                   *)

\* A statement that throws changes nothing else.
LEMMA ActsThrow ==
  ASSUME Acts, status' # "running"
  PROVE  /\ UNCHANGED <<memory, box, allocs, pos, kind, fault, test>>
         /\ status' \in {"failed", "terminated"}
<1>1. status = "running" /\ UNCHANGED <<kind, fault, test>>
  BY DEF Acts, construct, push, copy, assign, move, move_assign, swap, keep, count, VERIFY, AtVERIFY, At, Same
<1>2. ASSUME NEW boxes, NEW S, Frees(boxes, S) PROVE Thrown(S)
  BY <1>1, <1>2 DEF Frees
<1>3. ASSUME NEW boxes, NEW S, NEW x, NEW p, FreesAndTakes(boxes, S, x, p) PROVE Thrown(S)
  BY <1>1, <1>3 DEF FreesAndTakes
<1>4. ASSUME NEW boxes, NEW x, NEW has, NEW by, NEW S, Fills(boxes, x, has, by, S) PROVE \E G : Thrown(G)
  BY <1>2, <1>3, <1>4, Zenon DEF Fills
<1>5. ASSUME NEW x, NEW y, NEW p, NEW by, Takes(x, y, p, by) \/ MovesEach(x, y, p, by) PROVE \E G : Thrown(G)
  <2>1. CASE Takes(x, y, p, by)
    BY <1>2, <2>1 DEF Takes
  <2>2. CASE MovesEach(x, y, p, by)
    BY <1>4, <2>2 DEF MovesEach
  <2> QED BY <1>5, <2>1, <2>2
<1>6. ~ (keep \/ count \/ VERIFY)
  BY <1>1 DEF keep, count, VERIFY
<1>7. \E G : Thrown(G)
  <2>1. CASE construct
    BY <1>2, <2>1 DEF construct
  <2>2. CASE push
    BY <1>3, <2>2 DEF push
  <2>3. CASE copy
    BY <1>4, <2>3, Zenon DEF copy
  <2>4. CASE assign
    BY <1>4, <2>4, Zenon DEF assign
  <2>5. CASE move
    BY <1>5, <2>5 DEF move
  <2>6. CASE move_assign
    BY <1>5, <2>6 DEF move_assign
  <2>7. CASE swap
    BY <1>2, <2>7 DEF swap
  <2> QED BY <1>6, <2>1, <2>2, <2>3, <2>4, <2>5, <2>6, <2>7 DEF Acts
<1> QED BY <1>1, <1>7 DEF Thrown

\* Nobody objects when both containers are destroyed and everybody gives back
\* what is his.
LEMMA FairIs ==
  ASSUME Base, status = "running"
  PROVE  (\A g \in AllHeld : ~ Refuses(g)) <=> Fair(Now)
<1>1. \A x \in Names : (\A g \in Held(x, box[x].p) : ~ Refuses(g)) <=> Now.own[x] \in {Nobody, Now.p[x]}
  BY HeldRefuses, NowIs
<1>2. /\ (\A g \in Held("v1", box["v1"].p) : ~ Refuses(g)) <=> Now.own["v1"] \in {Nobody, Now.p["v1"]}
      /\ (\A g \in Held("v2", box["v2"].p) : ~ Refuses(g)) <=> Now.own["v2"] \in {Nobody, Now.p["v2"]}
  BY <1>1 DEF Names
<1>3. (\A g \in AllHeld : ~ Refuses(g)) <=>
        /\ \A g \in Held("v1", box["v1"].p) : ~ Refuses(g)
        /\ \A g \in Held("v2", box["v2"].p) : ~ Refuses(g)
  BY DEF AllHeld
<1> QED BY <1>2, <1>3 DEF Fair, Names

LEMMA DestroysDoes ==
  ASSUME Base, status = "running", NEW next, Destroys(next)
  PROVE  /\ DOMAIN alloc_map' \subseteq Blocks /\ alloc_map' \in [DOMAIN alloc_map' -> 0..2]
         /\ status' = IF Fair(Now) THEN next ELSE "terminated"
<1>1. /\ DOMAIN alloc_map \subseteq Blocks /\ alloc_map \in [DOMAIN alloc_map -> 0..2]
  BY DEF Base, TypeInv
<1>2. CASE Fair(Now)
  <2>1. deallocate(AllHeld) /\ status' = next
    BY <1>2, FairIs DEF Destroys
  <2>2. alloc_map' = [b \in DOMAIN alloc_map \ {g[1] : g \in AllHeld} |-> alloc_map[b]]
    BY <2>1 DEF deallocate, Without
  <2> QED BY <1>1, <1>2, <2>1, <2>2
<1>3. CASE ~ Fair(Now)
  BY <1>1, <1>3, FairIs DEF Destroys, memory
<1> QED BY <1>2, <1>3

\* After both have been destroyed nothing is held.
LEMMA EmptyIs ==
  ASSUME box' = [x \in Names |-> Empty]
  PROVE  /\ box' \in Boxes /\ HeldInv'
         /\ it' = None /\ allocs' = 0 => Now' = Blank
<1>1. box' \in Boxes
  BY DEF Boxes, Empty
<1>2. \A x \in Names : box'[x].block = None /\ box'[x].p = 0
  BY DEF Empty
<1>3. HeldInv'
  BY <1>2 DEF HeldInv, Has, Names
<1>4. ASSUME allocs' = 0 PROVE Now' = Blank
  <2>1. /\ Now'.p = [x \in Names |-> 0] /\ Now'.own = [x \in Names |-> Nobody]
        /\ Now'.here = [x \in Names |-> FALSE]
    BY <1>2, ThenIs
  <2> QED BY <1>4, <2>1 DEF Now, Blank
<1> QED BY <1>1, <1>3, <1>4

LEMMA EndTestDoes ==
  ASSUME Base, EndTest
  PROVE  /\ status = "running" /\ UNCHANGED <<kind, fault>> /\ pos = Len(Tests[test].body) + 1
         /\ DOMAIN alloc_map' \subseteq Blocks /\ alloc_map' \in [DOMAIN alloc_map' -> 0..2]
         /\ status' = IF ~ Leaks /\ ~ Fair(Now) THEN "terminated"
                      ELSE IF test = Len(Tests) THEN "passed" ELSE "running"
         /\ box' \in Boxes /\ HeldInv' /\ Now' = Blank /\ allocs' = 0 /\ pos' = 1
         /\ test' = (IF status' = "running" THEN test + 1 ELSE test)
<1>1. /\ status = "running" /\ UNCHANGED <<kind, fault>> /\ pos > Len(Tests[test].body) /\ pos' = 1
      /\ box' = [x \in Names |-> Empty] /\ it' = None /\ allocs' = 0
      /\ test' = (IF status' = "running" THEN test + 1 ELSE test)
  BY DEF EndTest
<1>2. pos = Len(Tests[test].body) + 1
  BY <1>1, TraitsTyped DEF Base, TypeInv
<1>3. box' \in Boxes /\ HeldInv' /\ Now' = Blank
  BY <1>1, EmptyIs
<1>4. /\ DOMAIN alloc_map' \subseteq Blocks /\ alloc_map' \in [DOMAIN alloc_map' -> 0..2]
      /\ status' = IF ~ Leaks /\ ~ Fair(Now) THEN "terminated"
                   ELSE IF test = Len(Tests) THEN "passed" ELSE "running"
  <2>1. CASE Leaks
    BY <2>1 DEF EndTest, Base, TypeInv, memory
  <2>2. CASE ~ Leaks
    <3>1. Destroys(IF test = Len(Tests) THEN "passed" ELSE "running")
      BY <2>2 DEF EndTest
    <3> QED BY <1>1, <2>2, <3>1, DestroysDoes
  <2> QED BY <2>1, <2>2
<1> QED BY <1>1, <1>2, <1>3, <1>4

LEMMA BaseKeeps ==
  ASSUME Base, [Next]_vars
  PROVE  Base'
<1>1. MapIsHeap'
  BY MapKeeps DEF Base
<1>2. /\ kind \in Kinds /\ fault \in Faults /\ test \in DOMAIN Tests
      /\ box \in Boxes /\ allocs \in Nat /\ pos \in 1..Len(Tests[test].body) + 1
      /\ DOMAIN alloc_map \subseteq Blocks /\ alloc_map \in [DOMAIN alloc_map -> 0..2]
  BY DEF Base, TypeInv
<1>3. Boxes' = Boxes
  BY DEF Boxes
<1>4. CASE Acts /\ status' = "running"
  <2>1. /\ Settled /\ UNCHANGED <<kind, fault, test>> /\ pos \in 1..Len(Tests[test].body)
    BY <1>4, ActsStep
  <2>2. Tests' = Tests /\ pos' \in 1..Len(Tests[test].body) + 1
    BY <2>1, TestsSame, TraitsTyped DEF Settled
  <2> QED BY <1>1, <1>2, <1>4, <2>1, <2>2 DEF Base, TypeInv, Settled
<1>5. CASE Acts /\ status' # "running"
  <2>1. /\ UNCHANGED <<memory, box, allocs, pos, kind, fault, test>>
        /\ status' \in {"failed", "terminated"}
    BY <1>5, ActsThrow
  <2>2. Tests' = Tests
    BY <2>1, TestsSame
  <2> QED BY <1>1, <1>2, <1>3, <2>1, <2>2 DEF Base, TypeInv, memory
<1>6. CASE VERIFYfails
  <2>1. /\ status = "running" /\ Destroys("failed") /\ box' = [x \in Names |-> Empty]
        /\ UNCHANGED <<kind, fault, allocs, test, pos>>
    BY <1>6 DEF VERIFYfails, AtVERIFY, At
  <2>2. Tests' = Tests /\ box' \in Boxes /\ HeldInv'
    BY <2>1, TestsSame, EmptyIs
  <2>3. /\ DOMAIN alloc_map' \subseteq Blocks /\ alloc_map' \in [DOMAIN alloc_map' -> 0..2]
        /\ status' \in {"failed", "terminated"}
    BY <2>1, DestroysDoes
  <2> QED BY <1>1, <1>2, <1>3, <2>1, <2>2, <2>3 DEF Base, TypeInv
<1>7. CASE EndTest
  <2>1. /\ UNCHANGED <<kind, fault>>
        /\ DOMAIN alloc_map' \subseteq Blocks /\ alloc_map' \in [DOMAIN alloc_map' -> 0..2]
        /\ status' \in {"terminated", "passed", "running"} /\ (status' = "running" => test # Len(Tests))
        /\ box' \in Boxes /\ HeldInv' /\ allocs' = 0 /\ pos' = 1
        /\ test' = (IF status' = "running" THEN test + 1 ELSE test)
    BY <1>7, EndTestDoes
  <2>2. Tests' = Tests
    BY <2>1, TestsSame
  <2>3. test' \in DOMAIN Tests
    <3>1. DOMAIN Tests = 1..Len(Tests) /\ Len(Tests) \in Nat
      BY Places, SpecialLength
    <3> QED BY <1>2, <2>1, <3>1
  <2>4. pos' \in 1..Len(Tests[test'].body) + 1
    <3>1. Tests[test'] \in Test
      BY <2>3, TestsTyped
    <3>2. Len(Tests[test'].body) \in Nat
      BY <3>1 DEF Test
    <3> QED BY <2>1, <3>2
  <2> QED BY <1>1, <1>2, <1>3, <2>1, <2>2, <2>3, <2>4 DEF Base, TypeInv
<1>8. CASE UNCHANGED vars
  <2>1. Tests' = Tests /\ UNCHANGED <<kind, fault, memory, box, it, allocs, test, pos, status>>
    BY <1>8, TestsSame DEF vars
  <2> QED BY <1>1, <1>3, <2>1 DEF Base, TypeInv, HeldInv, Has, memory
<1> QED BY <1>4, <1>5, <1>6, <1>7, <1>8 DEF Next, Acts

LEMMA Starts ==
  ASSUME Init
  PROVE  Base /\ TraceInv /\ NoFalseAlarm /\ NoticedInv
<1>1. /\ kind \in Kinds /\ fault \in Faults /\ box = [x \in Names |-> Empty] /\ it = None /\ allocs = 0
      /\ test = 1 /\ pos = 1 /\ status = "running" /\ DOMAIN alloc_map = {} /\ alloc_map = heap
  BY DEF Init
<1>2. test \in DOMAIN Tests /\ DOMAIN Tests = 1..Len(Tests) /\ Len(Tests) \in Nat
  BY <1>1, Places, SpecialLength
<1>3. Len(Tests[test].body) \in Nat
  BY <1>2, TestsTyped DEF Test
<1>4. box \in Boxes
  BY <1>1 DEF Boxes, Empty
<1>5. \A x \in Names : box[x].block = None /\ box[x].p = 0
  BY <1>1 DEF Empty
<1>6. HeldInv
  BY <1>5 DEF HeldInv, Has, Names
<1>7. alloc_map \in [DOMAIN alloc_map -> 0..2]
  BY DEF Init
<1>8. Base
  BY <1>1, <1>2, <1>3, <1>4, <1>6, <1>7 DEF Base, TypeInv, MapIsHeap
<1>9. Now = Blank
  BY <1>1, <1>5 DEF Now, Blank, Owner, Has
<1>10. TraceInv
  <2> DEFINE tr == [i \in {1} |-> Blank]
  <2>1. tr[1] = Blank /\ 1..pos - 1 = {}
    BY <1>1
  <2>2. Trace(tr)
    BY <1>1, <1>9, <2>1 DEF Trace, Reaches
  <2> QED BY <2>2 DEF TraceInv
<1>11. NoticedInv
  <2>1. fault \notin Unseen => NoticedBy \in Nat \ {0}
    BY <1>1, <1>2, Noticed
  <2> QED BY <1>1, <2>1 DEF NoticedInv, FaultsNoticed
<1> QED BY <1>1, <1>8, <1>10, <1>11 DEF NoFalseAlarm

LEMMA TraceKeeps ==
  ASSUME Base, TraceInv, [Next]_vars
  PROVE  TraceInv'
<1> SUFFICES ASSUME status' = "running"
             PROVE  (\E tr : Trace(tr))'
  BY DEF TraceInv
<1>1. CASE Acts
  <2>1. /\ Settled /\ Step(Stmt, traits, Now, Now')
        /\ UNCHANGED <<kind, fault, test>> /\ status = "running" /\ pos \in 1..Len(Tests[test].body)
    BY <1>1, ActsStep
  <2>2. PICK tr : Trace(tr)
    BY <2>1 DEF TraceInv
  <2> QED BY <2>1, <2>2, TraceGrows DEF Settled
<1>2. CASE VERIFYfails
  <2>1. status = "running" /\ Destroys("failed")
    BY <1>2 DEF VERIFYfails, AtVERIFY, At
  <2> QED BY <2>1, DestroysDoes
<1>3. CASE EndTest
  <2>1. Now' = Blank /\ pos' = 1
    BY <1>3, EndTestDoes
  <2> DEFINE tr == [i \in {1} |-> Blank]
  <2>2. tr[1] = Blank /\ 1..pos' - 1 = {}
    BY <2>1
  <2>3. PICK u : u = tr
    OBVIOUS
  <2> HIDE DEF tr
  <2>4. Trace(u)'
    BY <2>1, <2>2, <2>3 DEF Trace, Reaches, Blank
  <2> QED BY <2>4
<1>4. CASE UNCHANGED vars
  <2>1. UNCHANGED <<kind, fault, memory, box, it, allocs, test, pos, status>>
    BY <1>4 DEF vars
  <2>2. PICK tr : Trace(tr)
    BY <2>1 DEF TraceInv
  <2>3. Tests' = Tests /\ traits' = traits
    BY <2>1, TestsSame DEF traits
  <2>4. Now' = Now
    BY <2>1 DEF Now, Owner, Has, memory
  <2>5. Reaches(tr, Tests[test].body, traits, pos)'
    BY <2>1, <2>2, <2>3, StepsSame DEF Trace, Reaches, Blank
  <2>6. Trace(tr)'
    BY <2>1, <2>2, <2>4, <2>5 DEF Trace
  <2> QED BY <2>6
<1> QED BY <1>1, <1>2, <1>3, <1>4 DEF Next, Acts

\* With a container that keeps its contract, the next statement is as it should
\* be, and at the end of a test everybody gives back what is his.
LEMMA AlwaysReady ==
  ASSUME Base, TraceInv, fault = "none", status = "running"
  PROVE  IF pos <= Len(Tests[test].body) THEN Ready(Stmt, Now) ELSE Fair(Now)
<1>1. PICK tr : Trace(tr)
  BY DEF TraceInv
<1>2. test \in DOMAIN Tests /\ pos \in 1..Len(Tests[test].body) + 1
  BY DEF Base, TypeInv
<1>3. Passes(traits, Tests[test].body)
  BY <1>2, AllPass DEF Passing, traits
<1> QED BY <1>1, <1>2, <1>3 DEF Passes, Trace, Stmt

LEMMA ReadyActs ==
  ASSUME Base, fault = "none", Acts, Ready(Stmt, Now)
  PROVE  status' = "running"
<1> DEFINE x == Stmt.x
           y == Other(Stmt.x)
<1>1. \E op : At(op)
  BY DEF Acts, construct, push, copy, assign, move, move_assign, swap, keep, count, VERIFY, AtVERIFY
<1>2. /\ Now.own[x] = Owner(x) /\ Now.own[y] = Owner(y) /\ Now.p[x] = box[x].p /\ Now.p[y] = box[y].p
  BY <1>1, StmtTyped, NowIs, Others
<1>3. ASSUME NEW boxes, Frees(boxes, {}) PROVE status' = "running"
  BY <1>1, <1>3, StmtTyped DEF Frees, Thrown
<1>4. ASSUME NEW p, NEW by, Owner(x) \in {Nobody, by}, Owner(y) \in {Nobody, box[y].p},
             Takes(x, y, p, by) \/ MovesEach(x, y, p, by)
      PROVE  status' = "running"
  <2>1. status = "running" /\ x \in Names
    BY <1>1, StmtTyped
  <2>2. CASE Takes(x, y, p, by)
    <3>1. \A g \in Held(x, by) : ~ Refuses(g)
      BY <1>4, <2>1, HeldRefuses
    <3> QED BY <2>1, <2>2, <3>1 DEF Takes, Frees, Thrown
  <2>3. CASE MovesEach(x, y, p, by)
    BY <1>4, <2>1, <2>3, FillsPass DEF MovesEach
  <2> QED BY <1>4, <2>2, <2>3
<1>5. CASE construct
  BY <1>3, <1>5 DEF construct
<1>6. CASE push
  BY <1>1, <1>6, StmtTyped DEF push, FreesAndTakes, Thrown
<1>7. CASE swap
  BY <1>3, <1>7 DEF swap
<1>8. CASE keep \/ count \/ VERIFY
  BY <1>8, OtherSteps
<1>9. CASE copy
  <2>1. status = "running" /\ x \in Names /\ Stmt.op \in {"copy", "copy_with"}
    BY <1>9, StmtTyped DEF copy
  <2>2. Owner(x) = Nobody
    BY <1>2, <2>1 DEF Ready
  <2> QED BY <1>9, <2>1, <2>2, FillsPass, Zenon DEF copy
<1>10. CASE assign
  <2>1. status = "running" /\ x \in Names /\ Stmt.op = "assign" /\ fault # "frees_late"
    BY <1>10, StmtTyped DEF assign
  <2>2. Owner(x) \in {Nobody, box[x].p}
    BY <1>2, <2>1 DEF Ready, Fair
  <2>3. \E p : Fills(Owned(x, p), x, Has(Stmt.y), box[x].p, {})
    BY <1>10, <2>1 DEF assign
  <2> QED BY <2>1, <2>2, <2>3, FillsPass, Zenon
<1>11. CASE move
  <2>1. x \in Names /\ Stmt.op \in {"move", "move_with"} /\ Stmt.y = y
    BY <1>11, StmtTyped DEF move, TwoBoxes
  <2>2. Owner(x) = Nobody /\ Owner(y) \in {Nobody, box[y].p}
    BY <1>2, <2>1 DEF Ready
  <2> QED BY <1>4, <1>11, <2>1, <2>2 DEF move
<1>12. CASE move_assign
  <2>1. x \in Names /\ y \in Names /\ Stmt.op = "move_assign" /\ Stmt.y = y /\ fault # "frees_late"
    BY <1>12, StmtTyped, Others DEF move_assign, TwoBoxes
  <2>2. Owner(x) \in {Nobody, box[x].p} /\ Owner(y) \in {Nobody, box[y].p}
    BY <1>2, <2>1 DEF Ready, Fair
  <2>3. \E p : Takes(x, y, p, box[x].p) \/ MovesEach(x, y, p, box[x].p)
    BY <1>12, <2>1 DEF move_assign
  <2> QED BY <1>4, <2>2, <2>3
<1> QED BY <1>5, <1>6, <1>7, <1>8, <1>9, <1>10, <1>11, <1>12 DEF Acts

LEMMA AlarmKeeps ==
  ASSUME Base, TraceInv, NoFalseAlarm, [Next]_vars
  PROVE  NoFalseAlarm'
<1> SUFFICES ASSUME fault' = "none"
             PROVE  status' \in {"running", "passed"}
  BY DEF NoFalseAlarm
<1>1. CASE Acts
  <2>1. status = "running" /\ pos <= Len(Tests[test].body) /\ fault = "none"
    BY <1>1 DEF Acts, construct, push, copy, assign, move, move_assign, swap, keep, count, VERIFY, AtVERIFY, At, Same
  <2>2. Ready(Stmt, Now)
    BY <2>1, AlwaysReady
  <2> QED BY <1>1, <2>1, <2>2, ReadyActs
<1>2. CASE VERIFYfails
  <2>1. /\ status = "running" /\ pos <= Len(Tests[test].body) /\ fault = "none" /\ ~ Holds
        /\ Stmt.op \in {"personality", "begin", "counted", "absent", "present"} /\ Stmt.x \in Names
    BY <1>2, StmtTyped DEF VERIFYfails, AtVERIFY, At
  <2>2. Ready(Stmt, Now)
    BY <2>1, AlwaysReady
  <2>3. /\ Now.p[Stmt.x] = box[Stmt.x].p /\ Now.allocs = allocs
        /\ Now.own[Stmt.x] # Nobody <=> Has(Stmt.x)
        /\ Now.here[Stmt.x] = (Has(Stmt.x) /\ box[Stmt.x].block = it)
    BY <2>1, NowIs, Owners DEF Now
  <2>4. CASE Stmt.op = "personality"
    BY <2>1, <2>2, <2>3, <2>4 DEF Ready, Holds
  <2>5. CASE Stmt.op = "begin"
    BY <2>1, <2>2, <2>3, <2>5 DEF Ready, Holds
  <2>6. CASE Stmt.op = "counted"
    BY <2>1, <2>2, <2>3, <2>6 DEF Ready, Holds
  <2>7. CASE Stmt.op = "absent"
    BY <2>1, <2>2, <2>3, <2>7 DEF Ready, Holds
  <2>8. CASE Stmt.op = "present"
    BY <2>1, <2>2, <2>3, <2>8 DEF Ready, Holds
  <2> QED BY <2>1, <2>4, <2>5, <2>6, <2>7, <2>8
<1>3. CASE EndTest
  <2>1. status = "running" /\ fault = "none" /\ ~ (pos <= Len(Tests[test].body))
    BY <1>3, EndTestDoes, TraitsTyped
  <2>2. Fair(Now)
    BY <2>1, AlwaysReady
  <2> QED BY <1>3, <2>2, EndTestDoes
<1>4. CASE UNCHANGED vars
  BY <1>4 DEF vars, NoFalseAlarm
<1> QED BY <1>1, <1>2, <1>3, <1>4 DEF Next, Acts

\* Containers do not get past the test that notices their fault.
LEMMA NoticedKeeps ==
  ASSUME Base, TraceInv, NoticedInv, [Next]_vars
  PROVE  NoticedInv'
<1>1. kind \in Kinds /\ fault \in Faults
  BY DEF Base, TypeInv
<1>2. fault \notin Unseen =>
        NoticedBy \in DOMAIN Tests /\ NoticedBy # Len(Tests) /\ Notices(Tests[NoticedBy])
  BY <1>1, Noticed
<1>3. DOMAIN Tests = 1..Len(Tests) /\ Len(Tests) \in Nat /\ test \in DOMAIN Tests
  BY Places, SpecialLength DEF Base, TypeInv
<1>4. UNCHANGED <<kind, fault>> => (Unseen' = Unseen /\ NoticedBy' = NoticedBy)
  BY DEF Unseen, NoticedBy
<1>5. CASE Acts \/ VERIFYfails \/ UNCHANGED vars
  <2>1. UNCHANGED <<kind, fault, test>>
    BY <1>5, OtherSteps DEF Acts, construct, push, copy, assign, move, move_assign, swap, Same, VERIFYfails, vars
  <2>2. status' = status \/ (status = "running" /\ status' # "passed")
    <3>1. CASE Acts
      <4>1. status = "running"
        BY <3>1 DEF Acts, construct, push, copy, assign, move, move_assign, swap, keep, count, VERIFY, AtVERIFY, At
      <4> QED BY <3>1, <4>1, ActsThrow
    <3>2. CASE VERIFYfails
      <4>1. status = "running" /\ Destroys("failed")
        BY <3>2 DEF VERIFYfails, AtVERIFY, At
      <4> QED BY <4>1, DestroysDoes
    <3> QED BY <1>5, <3>1, <3>2 DEF vars
  <2>3. status' = "running" => status = "running"
    BY <2>2
  <2> QED BY <1>4, <2>1, <2>2, <2>3 DEF NoticedInv, FaultsNoticed
<1>6. CASE EndTest
  <2>1. /\ status = "running" /\ UNCHANGED <<kind, fault>> /\ pos = Len(Tests[test].body) + 1
        /\ status' = IF ~ Leaks /\ ~ Fair(Now) THEN "terminated"
                     ELSE IF test = Len(Tests) THEN "passed" ELSE "running"
        /\ test' = (IF status' = "running" THEN test + 1 ELSE test)
    BY <1>6, EndTestDoes
  <2> SUFFICES ASSUME fault \notin Unseen
               PROVE  status' # "passed" /\ (status' = "running" => test' <= NoticedBy)
    BY <1>4, <2>1 DEF NoticedInv, FaultsNoticed
  <2>2. test <= NoticedBy /\ NoticedBy \in 1..Len(Tests) /\ NoticedBy # Len(Tests)
    BY <1>2, <1>3, <2>1 DEF NoticedInv
  <2>3. CASE test = NoticedBy
    <3>1. PICK tr : Trace(tr)
      BY <2>1 DEF TraceInv
    <3>2. ~ Fair(Now)
      BY <1>2, <2>1, <2>3, <3>1 DEF Notices, Trace, traits
    <3>3. ~ Leaks
      BY DEF Leaks, Unseen
    <3> QED BY <2>1, <3>2, <3>3
  <2>4. CASE test # NoticedBy
    <3>1. test # Len(Tests) /\ test + 1 <= NoticedBy
      <4> DEFINE n == NoticedBy
                 all == Len(Tests)
      <4>1. test <= n /\ test # n /\ n \in 1..all /\ n # all /\ all \in Nat /\ test \in 1..all
        BY <1>3, <2>2, <2>4
      <4> HIDE DEF n, all
      <4>2. test # all /\ test + 1 <= n
        BY <4>1
      <4> QED BY <4>2 DEF n, all
    <3>2. status' # "passed"
      BY <2>1, <3>1
    <3>3. status' = "running" => test' = test + 1
      BY <2>1
    <3> QED BY <3>1, <3>2, <3>3
  <2> QED BY <2>3, <2>4
<1> QED BY <1>5, <1>6 DEF Next, Acts

\* The memory is the map's, no block is held twice, and what the program has
\* come to is what the statements performed of the test make of nothing.
THEOREM TestsAreTraced == Spec => [](Base /\ TraceInv)
<1>1. Init => Base /\ TraceInv
  BY Starts
<1>2. Base /\ TraceInv /\ [Next]_vars => Base' /\ TraceInv'
  BY BaseKeeps, TraceKeeps
<1> QED BY <1>1, <1>2, PTL DEF Spec

\* The tests pass, and throw nothing, for a container that keeps its contract,
\* whichever addresses it gets (swap.cpp:52).
THEOREM NoAlarm == Spec => []NoFalseAlarm
<1>1. Init => NoFalseAlarm
  BY Starts
<1>2. Base /\ TraceInv /\ NoFalseAlarm /\ [Next]_vars => NoFalseAlarm'
  BY AlarmKeeps
<1> QED BY <1>1, <1>2, TestsAreTraced, PTL DEF Spec

\* Every fault but the unseen ones ends the tests of the container it is in,
\* whatever it does where its contract leaves it a choice.
THEOREM Noticing == Spec => []FaultsNoticed
<1>1. Init => NoticedInv
  BY Starts
<1>2. Base /\ TraceInv /\ NoticedInv /\ [Next]_vars => NoticedInv'
  BY NoticedKeeps
<1>3. NoticedInv => FaultsNoticed
  BY DEF NoticedInv
<1> QED BY <1>1, <1>2, <1>3, TestsAreTraced, PTL DEF Spec

=============================================================================
