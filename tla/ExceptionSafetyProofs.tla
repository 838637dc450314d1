----------------------- MODULE ExceptionSafetyProofs -----------------------
(***************************************************************************)
(* First the instruments, for any nesting of adjustors and any sequence of  *)
(* calls: their types, that no limit outlives the adjustors, and that the   *)
(* annotations are the heap.  Then the drivers, for every population: what  *)
(* each of them relies on is an invariant of its own, and together they     *)
(* give that faults are noticed, that no throw point is left out, that      *)
(* nothing empty is popped, and that there is no false alarm.               *)
(***************************************************************************)
EXTENDS ExceptionSafety, SequenceTheorems, TLAPS

\* The outermost adjustor has found the limit of a program without adjustors.
Outermost == adjustors # <<>> => adjustors[1].orig = Never

IInv == TypeOK /\ Outermost /\ RestoredOutside /\ HeapAnnotated

\* What the destructor of an adjustor leaves: the types hold, and the last
\* adjustor leaves the limit the first has found.
LEMMA RestoreKeeps ==
  ASSUME TypeOK, Outermost, Restore
  PROVE  /\ limit' \in Nat /\ count' \in Nat
         /\ adjustors' \in Seq([kind : {"never", "always", "limit"}, orig : Nat])
         /\ Outermost' /\ RestoredOutside'
<1> USE ThrowAssumption
<1> DEFINE A == [kind : {"never", "always", "limit"}, orig : Nat]
<1>1. adjustors \in Seq(A) /\ adjustors # <<>>
  BY DEF TypeOK, Restore
<1> DEFINE n == Len(adjustors)
<1> HIDE DEF A
<1>2. n \in Nat \ {0}
  BY <1>1, EmptySeq
<1>3. \A i \in 1..n : adjustors[i] \in A
  BY <1>1, ElementOfSeq
<1>4. /\ SubSeq(adjustors, 1, n - 1) \in Seq(A)
      /\ Len(SubSeq(adjustors, 1, n - 1)) = IF 1 <= n - 1 THEN n - 1 - 1 + 1 ELSE 0
      /\ \A i \in 1..(n - 1) - 1 + 1 : SubSeq(adjustors, 1, n - 1)[i] = adjustors[1 + i - 1]
  <2>1. \A i \in 1..(n - 1) : adjustors[i] \in A
    BY <1>2, <1>3
  <2>2. 1 \in Int /\ n - 1 \in Int
    BY <1>2
  <2> HIDE DEF n
  <2> QED BY <2>1, <2>2, SubSeqProperties
<1>5. /\ adjustors' \in Seq(A) /\ Len(adjustors') = n - 1
      /\ \A i \in 1..(n - 1) : adjustors'[i] = adjustors[i]
  <2>1. adjustors' = SubSeq(adjustors, 1, n - 1)
    BY DEF Restore
  <2> HIDE DEF n
  <2>2. n - 1 - 1 + 1 = n - 1 /\ \A i \in 1..(n - 1) : 1 + i - 1 = i
    BY <1>2
  <2>3. Len(SubSeq(adjustors, 1, n - 1)) = n - 1
    BY <1>2, <1>4
  <2>4. \A i \in 1..(n - 1) : SubSeq(adjustors, 1, n - 1)[i] = adjustors[i]
    BY <1>4, <2>2
  <2> QED BY <1>4, <2>1, <2>3, <2>4
<1>6. limit' = adjustors[n].orig /\ count' = 0
  BY DEF Restore, set_limit
<1>7. adjustors[n].orig \in Nat
  BY <1>2, <1>3 DEF A
<1>8. Outermost'
  <2>1. SUFFICES ASSUME adjustors' # <<>> PROVE adjustors'[1].orig = Never
    BY DEF Outermost
  <2>2. 1 \in 1..(n - 1)
    BY <2>1, <1>2, <1>5, EmptySeq
  <2> QED BY <2>2, <1>1, <1>5 DEF Outermost
<1>9. RestoredOutside'
  <2>1. SUFFICES ASSUME adjustors' = <<>> PROVE limit' = Never
    BY DEF RestoredOutside
  <2>2. n = 1
    BY <2>1, <1>2, <1>5
  <2> QED BY <2>2, <1>1, <1>6 DEF Outermost
<1> QED BY <1>5, <1>6, <1>7, <1>8, <1>9 DEF A

\* What the constructor of an adjustor leaves, whatever its kind.
LEMMA AdjustKeeps ==
  ASSUME TypeOK, Outermost, RestoredOutside,
         NEW kind \in {"never", "always", "limit"}, NEW l \in Nat, Adjust(kind, l)
  PROVE  /\ limit' \in Nat /\ count' \in Nat
         /\ adjustors' \in Seq([kind : {"never", "always", "limit"}, orig : Nat])
         /\ Outermost' /\ RestoredOutside'
<1> USE ThrowAssumption
<1> DEFINE A == [kind : {"never", "always", "limit"}, orig : Nat]
           new == [kind |-> kind, orig |-> limit]
<1>1. adjustors \in Seq(A) /\ Len(adjustors) \in Nat /\ new \in A
  BY DEF TypeOK
<1>2. adjustors' = Append(adjustors, new)
  BY DEF Adjust
<1>3. /\ adjustors' \in Seq(A) /\ Len(adjustors') = Len(adjustors) + 1
      /\ adjustors # <<>> => adjustors'[1] = adjustors[1]
      /\ adjustors = <<>> => adjustors'[1] = new
  BY <1>1, <1>2
<1>4. Sets(kind, l) \in Nat
  BY DEF Sets, TypeOK
<1>5. limit' \in Nat /\ count' \in Nat
  BY <1>4 DEF Adjust, set_limit
<1>6. Outermost'
  BY <1>3 DEF Outermost, RestoredOutside
<1>7. adjustors' # <<>>
  BY <1>1, <1>3
<1> QED BY <1>3, <1>5, <1>6, <1>7 DEF RestoredOutside

LEMMA InitKeeps == Init => IInv
BY ThrowAssumption DEF Init, IInv, TypeOK, Outermost, RestoredOutside, HeapAnnotated, Held, NoEntries

\* A step that leaves the adjustors alone and at most counts a condition.
LEMMA ConditionKeeps ==
  ASSUME TypeOK, Outermost, RestoredOutside, throw_conditionally \/ UNCHANGED condition
  PROVE  /\ limit' \in Nat /\ count' \in Nat
         /\ adjustors' \in Seq([kind : {"never", "always", "limit"}, orig : Nat])
         /\ Outermost' /\ RestoredOutside'
BY DEF TypeOK, throw_conditionally, condition, Outermost, RestoredOutside

\* Taking a block and giving one back keep the annotations equal to the heap.
LEMMA AllocateKeeps ==
  ASSUME TypeOK, HeapAnnotated, NEW p \in Nodes, NEW n \in Sizes, allocate(p, n)
  PROVE  /\ HeapAnnotated'
         /\ DOMAIN map_alloc' \subseteq Nodes
         /\ \A q \in DOMAIN map_alloc' : map_alloc'[q] \in (Labels \cup {Never}) \X Sizes
         /\ outcome' \in {"none", "ok", "forced_error", "logic_error", "bad_alloc"}
<1>1. CASE Throws
  BY <1>1 DEF allocate, HeapAnnotated, Held, TypeOK
<1>2. CASE ~ Throws
  <2>1. /\ p \notin DOMAIN map_alloc /\ map_alloc' = With(map_alloc, p, <<label, n>>)
        /\ p \notin DOMAIN heap /\ heap' = With(heap, p, n) /\ outcome' = "ok"
    BY <1>2 DEF allocate, HeapAnnotated, Held, insert
  <2>2. <<label, n>> \in (Labels \cup {Never}) \X Sizes /\ n # Unowned
    BY ThrowAssumption DEF TypeOK, Unowned
  <2>3. Held' = Held \cup {p} /\ \A q \in Held : heap'[q] = heap[q] /\ q # p
    BY <2>1, <2>2 DEF Held, With
  <2> QED BY <2>1, <2>2, <2>3 DEF With, HeapAnnotated, TypeOK
<1> QED BY <1>1, <1>2

LEMMA DeallocateKeeps ==
  ASSUME TypeOK, HeapAnnotated, NEW p \in Nodes, NEW n \in Sizes, deallocate(p, n)
  PROVE  /\ HeapAnnotated'
         /\ DOMAIN map_alloc' \subseteq Nodes
         /\ \A q \in DOMAIN map_alloc' : map_alloc'[q] \in (Labels \cup {Never}) \X Sizes
         /\ outcome' \in {"none", "ok", "forced_error", "logic_error", "bad_alloc"}
<1>1. CASE check_allocated(p, n)
  <2>1. /\ map_alloc' = Without(map_alloc, {p}) /\ heap' = Without(heap, {p}) /\ outcome' = "ok"
    BY <1>1 DEF deallocate
  <2>2. Held' = Held \ {p} /\ \A q \in Held \ {p} : heap'[q] = heap[q]
    BY <2>1 DEF Held, Without
  <2> QED BY <2>1, <2>2 DEF Without, HeapAnnotated, TypeOK
<1>2. CASE ~ check_allocated(p, n)
  BY <1>2 DEF deallocate, HeapAnnotated, Held, TypeOK
<1> QED BY <1>1, <1>2

\* A block that is lost is not one that somebody holds.
LEMMA BadAllocKeeps ==
  ASSUME HeapAnnotated, NEW p \in Nodes, bad_alloc(p)
  PROVE  HeapAnnotated'
<1>1. map_alloc' = map_alloc
  BY DEF bad_alloc, annotations
<1>2. Held' = Held /\ \A q \in Held : heap'[q] = heap[q]
  <2>1. CASE heap' = heap
    BY <2>1 DEF Held
  <2>2. CASE p \notin DOMAIN heap /\ heap' = With(heap, p, Unowned)
    BY <2>2 DEF Held, With
  <2> QED BY <2>1, <2>2 DEF bad_alloc
<1> QED BY <1>1, <1>2 DEF HeapAnnotated

\* The objects: every entry of map_construct stays a node with a label.
LEMMA ObjectKeeps ==
  ASSUME TypeOK, NEW p \in Nodes, construct(p) \/ destroy(p)
  PROVE  /\ DOMAIN map_construct' \subseteq Nodes
         /\ \A q \in DOMAIN map_construct' : map_construct'[q] \in Labels \cup {Never}
         /\ outcome' \in {"none", "ok", "forced_error", "logic_error", "bad_alloc"}
BY DEF construct, destroy, check_constructed, With, Without, TypeOK

LEMMA NextKeeps == IInv /\ [Next]_vars => IInv'
<1> SUFFICES ASSUME IInv, [Next]_vars PROVE IInv'
  OBVIOUS
<1> USE DEF IInv
<1>1. CASE Enter
  <2>1. PICK kind \in {"never", "always", "limit"}, l \in 0..MaxCount : Adjust(kind, l)
    BY <1>1 DEF Enter
  <2>2. l \in Nat
    BY ThrowAssumption
  <2>3. /\ UNCHANGED <<annotations, heap>> /\ outcome' = "ok"
    BY <1>1 DEF Enter
  <2> QED BY <2>1, <2>2, <2>3, AdjustKeeps DEF TypeOK, HeapAnnotated, Held, annotations
<1>2. CASE Exit
  BY <1>2, RestoreKeeps DEF Exit, TypeOK, HeapAnnotated, Held, annotations
<1>3. CASE Value
  BY <1>3, ConditionKeeps DEF Value, TypeOK, HeapAnnotated, Held, annotations
<1>4. CASE cleanup
  <2>1. HeapAnnotated'
    BY <1>4 DEF cleanup, HeapAnnotated, Held, NoEntries
  <2> QED BY <1>4, <2>1, ConditionKeeps DEF cleanup, TypeOK, NoEntries
<1>5. ASSUME NEW l \in Labels, SetLabel(l) PROVE IInv'
  BY <1>5, ConditionKeeps DEF SetLabel, TypeOK, HeapAnnotated, Held
<1>6. ASSUME NEW p \in Nodes, NEW n \in Sizes, allocate(p, n) PROVE IInv'
  <2>1. throw_conditionally /\ UNCHANGED <<label, map_construct>>
    BY <1>6 DEF allocate
  <2> QED BY <1>6, <2>1, AllocateKeeps, ConditionKeeps DEF TypeOK
<1>7. ASSUME NEW p \in Nodes, NEW n \in Sizes, deallocate(p, n) PROVE IInv'
  <2>1. UNCHANGED <<condition, label, map_construct>>
    BY <1>7 DEF deallocate
  <2> QED BY <1>7, <2>1, DeallocateKeeps, ConditionKeeps DEF TypeOK
<1>8. ASSUME NEW p \in Nodes, construct(p) \/ destroy(p) PROVE IInv'
  <2>1. UNCHANGED <<label, map_alloc, heap>> /\ (throw_conditionally \/ UNCHANGED condition)
    BY <1>8 DEF construct, destroy
  <2> QED BY <1>8, <2>1, ObjectKeeps, ConditionKeeps DEF TypeOK, HeapAnnotated, Held
<1>9. ASSUME NEW p \in Nodes, bad_alloc(p) PROVE IInv'
  <2>1. /\ UNCHANGED annotations /\ outcome' = "bad_alloc"
        /\ throw_conditionally \/ UNCHANGED condition
    BY <1>9 DEF bad_alloc
  <2> QED BY <1>9, <2>1, BadAllocKeeps, ConditionKeeps DEF TypeOK, annotations
<1>10. CASE UNCHANGED vars
  BY <1>10, ConditionKeeps DEF vars, condition, annotations, TypeOK, HeapAnnotated, Held
<1> QED BY <1>1, <1>2, <1>3, <1>4, <1>5, <1>6, <1>7, <1>8, <1>9, <1>10 DEF Next

THEOREM Invariance == Spec => []IInv
<1> QED BY InitKeeps, NextKeeps, PTL DEF Spec

\* Types hold in every reachable state (throw_allocator.h:410, 415, 321, 326).
THEOREM TypeCorrect == Spec => []TypeOK
<1>1. IInv => TypeOK
  BY DEF IInv
<1> QED BY Invariance, <1>1, PTL

\* Once the last adjustor is gone no error can be forced, however they nest
\* and wherever errors are forced (throw_allocator.h:385).
THEOREM NoLimitOutlives == Spec => []RestoredOutside
<1>1. IInv => RestoredOutside
  BY DEF IInv
<1> QED BY Invariance, <1>1, PTL

\* The annotations are the blocks that are allocated, with their sizes, after
\* any sequence of calls, refused and failed ones included
\* (throw_allocator.h:715, 743).
THEOREM AnnotationsAreHeap == Spec => []HeapAnnotated
<1>1. IInv => HeapAnnotated
  BY DEF IInv
<1> QED BY Invariance, <1>1, PTL

-----------------------------------------------------------------------------
OtherNames == {"swap", "assign_operator", "move_assign_operator"}
Adjustor == [kind : {"never", "always", "limit"}, orig : {Never}]
During == {"call", "thrown"}
Ended == {"failed", "undefined"}
Trying == pc \in {"begin", "call", "thrown", "caught"} /\ at <= Len(Order[driver])

DriverTypes ==
  /\ driver \in {"basic", "consistent", "prohibited"} /\ Kind \in Kinds
  /\ pc \in {"setup", "begin", "call", "thrown", "caught", "check", "passed"} \cup Ended
  /\ at \in Nat \ {0} /\ step \in Nat \ {0} /\ stage \in Nat
  /\ made \in BOOLEAN
  /\ limit \in Nat /\ count \in Nat /\ adjustors \in Seq(Adjustor)
  /\ container \in Seq(Nodes) /\ control \in Seq(Nodes) /\ building \in Seq(Nodes)
  /\ others \in [OtherNames -> Seq(Nodes)]
  /\ pc \in During \cup {"caught"} => at \in 1..Len(Order[driver])
  /\ pc = "setup" => at = 1 /\ step = 1

\* The limit is the step in a call that may fail, and no limit elsewhere.
ConditionInv ==
  /\ (driver = "prohibited" \/ pc \notin During \cup Ended) => limit = Never /\ count = 0
  /\ (driver # "prohibited" /\ pc \in During) => limit = step /\ count <= limit
  /\ (driver # "prohibited" /\ pc = "thrown") => count = limit

\* What a call has built, by the throw points it has passed.
BuildingInv ==
  /\ building # << >> => pc \in During /\ f \in Inserts \cup {"assign_operator"}
  /\ pc \in During => stage <= Len(Points)
  /\ pc = "thrown" => stage < Len(Points)
  /\ (pc \in During /\ f \in Inserts /\ ~ made) => stage = 0
  /\ (pc \in During /\ driver # "prohibited") =>
       ((\E j \in 1..stage : Points[j] = "alloc") => building # << >>)
  /\ (driver = "prohibited" /\ pc \in During) => stage = 0

\* propagation_consistent forces the throw points of the container in turn.
ForcedInv ==
  driver = "consistent" =>
    /\ untried = {}
    /\ (Trying /\ f \in Inserts) =>
         \A k \in 3..Len(Inserting) :
           k <= (IF pc \in {"thrown", "caught"} THEN step + 1 ELSE step) => Inserting[k] \in forced
    /\ (Trying /\ f \in Inserts /\ ~ made) => step = 1
    /\ (pc \in During /\ f \in Inserts) =>
         /\ count = stage \/ (count = stage + 1 /\ step = 1 /\ made)
         /\ pc = "thrown" => made
    /\ (pc = "caught" /\ f \in Inserts) => made

\* The elements basic_safety is sure to find where it comes to pop.
SureOf == CASE at \in {6, 7, 11} -> 1 [] at \in {8, 9, 10} -> 2 [] OTHER -> 0
PopsInv ==
  (driver = "basic" /\ Kind = "list" /\ pc \in {"begin", "call", "thrown", "caught", "undefined"}) =>
    Len(container) >= SureOf /\ pc # "undefined"

\* basic_safety owns its nodes once, and they are allocated.
Apart ==
  /\ IsInjective(container) /\ IsInjective(building)
  /\ Range(container) \cap Range(building) = {}
  /\ \A g \in OtherNames :
       /\ IsInjective(others[g])
       /\ Range(others[g]) \cap (Range(container) \cup Range(building)) = {}
       /\ \A h \in OtherNames \ {g} : Range(others[g]) \cap Range(others[h]) = {}
Owned == Range(container) \cup Range(building) \cup UNION {Range(others[g]) : g \in OtherNames}
OwnedInv ==
  driver = "basic" =>
    /\ control = << >>
    /\ Apart /\ Owned \subseteq DOMAIN map_alloc
    /\ DOMAIN map_alloc = DOMAIN heap
    /\ pc \in During => label = step
    /\ pc \in During => \A p \in Range(building) : map_alloc[p][1] = step

\* A fault that has taken effect is about to be noticed, or has been.
Noticing ==
  \/ driver = "basic" /\ pc = "caught" /\ Labelled(step) # {}
  \/ driver = "basic" /\ pc = "check" /\ Left # {}
  \/ driver = "consistent" /\ pc = "caught" /\ container # copied
NoticedInv == (faulted /\ fault \in Detects[driver]) => pc = "failed" \/ Noticing
CopiedInv == (driver = "consistent" /\ pc \in During) => container = copied

\* The labels of the nodes that are linked: none of them is the step's.
Older ==
  /\ \A p \in DOMAIN map_alloc \ Range(building) : map_alloc[p][1] \in 0..(step - 1) \cup {Never}
  /\ \A p \in DOMAIN map_construct \ Range(building) : map_construct[p] \in 0..(step - 1) \cup {Never}

\* With a container that keeps its promises basic_safety finds no node that is
\* lost, and no label of the step that failed.
BasicFaultless ==
  driver = "basic" =>
    /\ Left \subseteq Owned
    /\ Older
    /\ pc \in During => \A p \in DOMAIN map_construct \cap Range(building) : map_construct[p] = step
    /\ pc \in {"thrown", "caught"} => step < MaxCount
    /\ (pc \in {"begin", "call", "thrown", "caught"} /\ at <= 3) => container # << >>
    /\ pc \in {"setup", "check"} => Left = {}
    /\ pc = "setup" => label = Never
ConsistentFaultless ==
  driver = "consistent" =>
    /\ 2 * Len(control) <= Never
    /\ pc \in During \cup {"caught"} => container = copied /\ Len(container) = Len(control)
FaultlessInv ==
  fault = "none" =>
    /\ pc # "failed" /\ BasicFaultless /\ ConsistentFaultless
    /\ driver = "prohibited" => pc \notin {"thrown", "caught"}

\* Two places are those of basic_safety alone.
PlacesInv ==
  /\ pc = "check" => driver = "basic"
  /\ pc = "undefined" => driver = "basic" /\ Kind = "list"

SafetyInv == DriverTypes /\ ConditionInv /\ BuildingInv /\ ForcedInv /\ PopsInv /\ PlacesInv
               /\ OwnedInv /\ NoticedInv /\ CopiedInv

-----------------------------------------------------------------------------
(* The functions and their throw points.                                    *)

LEMMA BasicFacts ==
  ASSUME driver = "basic", at \in 1..Len(Order[driver])
  PROVE  /\ at \in 1..18 /\ Len(Order[driver]) = 18
         /\ at = 1 => f = "iterator_ops"
         /\ at = 2 => f = "const_iterator_ops"
         /\ at = 3 => f = "erase_point"
         /\ at = 5 => f = "insert_point"
         /\ at = 6 => f = "emplace"
         /\ at = 7 => f = "emplace_point"
         /\ at = 8 => f = "emplace_front"
         /\ at = 9 => f = "emplace_back"
         /\ at = 10 => f = "pop_front"
         /\ at = 11 => f = "pop_back"
         /\ f \in Pops => at \in {10, 11}
         /\ f = "erase_point" => at = 3
<1>1. Len(BasicOrder) = 18
  BY DEF BasicOrder
<1>2. Order[driver] = BasicOrder
  BY DEF Order
<1>3. at \in 1..18
  BY <1>1, <1>2
<1>4. at \in 1..18 => f = BasicOrder[at]
  BY <1>2 DEF f
<1> QED BY <1>1, <1>2, <1>3, <1>4 DEF BasicOrder, Pops

LEMMA ConsistentFacts ==
  ASSUME driver = "consistent", at \in 1..Len(Order[driver])
  PROVE  /\ f \notin Removes \cup OtherNames
         /\ Len(Order[driver]) = 8
<1>1. Len(ConsistentOrder) = 8
  BY DEF ConsistentOrder
<1>2. Order[driver] = ConsistentOrder
  BY DEF Order
<1>3. at \in 1..8
  BY <1>1, <1>2
<1>4. f = ConsistentOrder[at]
  BY <1>2 DEF f
<1> QED BY <1>1, <1>2, <1>3, <1>4 DEF ConsistentOrder, Removes, Pops, OtherNames

LEMMA ProhibitedFacts ==
  ASSUME driver = "prohibited", at \in 1..Len(Order[driver])
  PROVE  f \notin Inserts \cup {"assign_operator"}
<1>1. Len(ProhibitedOrder) = 8
  BY DEF ProhibitedOrder
<1>2. Order[driver] = ProhibitedOrder
  BY DEF Order
<1>3. at \in 1..8
  BY <1>1, <1>2
<1>4. f = ProhibitedOrder[at]
  BY <1>2 DEF f
<1> QED BY <1>3, <1>4 DEF ProhibitedOrder, Inserts

Marks == {"static", "inc", "copy", "alloc", "cons", "cmp", "assign"}

\* The throw points of an insertion.
LEMMA InsertingFacts ==
  /\ Inserting \in Seq(Marks)
  /\ Len(Inserting) \in {4, 5}
  /\ Inserting[1] = "inc" /\ Inserting[2] = "copy"
  /\ \E i \in 3..Len(Inserting) : Inserting[i] = "alloc" /\ i + 1 = Len(Inserting)
  /\ \A i \in 1..Len(Inserting) :
       Inserting[i] = "cons" => i > 1 /\ Inserting[i - 1] = "alloc"
  /\ \A i \in 1..Len(Inserting) : Inserting[i] # "static"
<1>1. CASE Kind = "list"
  BY <1>1 DEF Inserting, Marks
<1>2. CASE Kind # "list"
  BY <1>2 DEF Inserting, Marks
<1> QED BY <1>1, <1>2

LEMMA StaticFacts ==
  /\ <<"static">> \o Inserting \in Seq(Marks)
  /\ Len(<<"static">> \o Inserting) = Len(Inserting) + 1
  /\ (<<"static">> \o Inserting)[1] = "static"
  /\ \A i \in 1..Len(Inserting) : (<<"static">> \o Inserting)[i + 1] = Inserting[i]
<1>1. <<"static">> \in Seq(Marks) /\ Len(<<"static">>) = 1
  BY DEF Marks
<1>2. Inserting \in Seq(Marks) /\ Len(Inserting) \in Nat
  BY InsertingFacts
<1>3. <<"static">>[1] = "static"
  OBVIOUS
<1> DEFINE s == <<"static">>
<1> HIDE DEF s
<1>4. /\ s \o Inserting \in Seq(Marks)
      /\ Len(s \o Inserting) = Len(s) + Len(Inserting)
      /\ \A i \in 1..(Len(s) + Len(Inserting)) :
           (s \o Inserting)[i] = IF i <= Len(s) THEN s[i] ELSE Inserting[i - Len(s)]
  BY <1>1, <1>2, ConcatProperties DEF s
<1>5. Len(s) = 1 /\ s[1] = "static"
  BY <1>1, <1>3 DEF s
<1>6. \A i \in 1..Len(Inserting) : (s \o Inserting)[i + 1] = Inserting[i]
  BY <1>2, <1>4, <1>5
<1>7. (s \o Inserting)[1] = "static"
  BY <1>2, <1>4, <1>5
<1> QED BY <1>2, <1>4, <1>5, <1>6, <1>7 DEF s

LEMMA PairFacts ==
  ASSUME NEW n \in Nat
  PROVE  /\ Pair(n) \in Seq(Own) /\ Len(Pair(n)) = 2 * n
         /\ \A i \in 1..2 * n : Pair(n)[i] = "cons" => i > 1 /\ Pair(n)[i - 1] = "alloc"
<1>1. Pair(n) = [k \in 1..2 * n |-> IF k % 2 = 1 THEN "alloc" ELSE "cons"]
  BY DEF Pair
<1>2. 2 * n \in Nat
  OBVIOUS
<1>3. Pair(n) \in [1..2 * n -> Own]
  BY <1>1 DEF Own
<1>4. Pair(n) \in Seq(Own) /\ Len(Pair(n)) = 2 * n
  BY <1>2, <1>3
<1>5. ASSUME NEW i \in 1..2 * n, Pair(n)[i] = "cons" PROVE i > 1 /\ Pair(n)[i - 1] = "alloc"
  <2>1. i % 2 # 1
    BY <1>1, <1>5
  <2>2. i > 1 /\ (i - 1) % 2 = 1
    BY <2>1
  <2>3. i - 1 \in 1..2 * n
    BY <2>2
  <2> QED BY <1>1, <2>2, <2>3
<1> QED BY <1>4, <1>5

\* Of a sequence of throw points: a node is constructed after its allocation.
NodesAllocated(s) ==
  \A i \in 1..Len(s) : s[i] = "cons" => i > 1 /\ s[i - 1] = "alloc"

LEMMA ConcatAllocated ==
  ASSUME NEW S, NEW s \in Seq(S), NEW t \in Seq(S), NodesAllocated(s), NodesAllocated(t)
  PROVE  s \o t \in Seq(S) /\ NodesAllocated(s \o t)
<1>1. /\ s \o t \in Seq(S)
      /\ Len(s \o t) = Len(s) + Len(t)
      /\ \A i \in 1..(Len(s) + Len(t)) :
           (s \o t)[i] = IF i <= Len(s) THEN s[i] ELSE t[i - Len(s)]
  BY ConcatProperties
<1>2. ASSUME NEW i \in 1..Len(s \o t), (s \o t)[i] = "cons"
      PROVE  i > 1 /\ (s \o t)[i - 1] = "alloc"
  <2>1. i \in 1..(Len(s) + Len(t)) /\ Len(s) \in Nat /\ Len(t) \in Nat
    BY <1>1
  <2>2. CASE i <= Len(s)
    <3>1. i \in 1..Len(s) /\ s[i] = "cons"
      BY <1>1, <1>2, <2>1, <2>2
    <3>2. i > 1 /\ s[i - 1] = "alloc"
      BY <3>1 DEF NodesAllocated
    <3> QED BY <3>2, <1>1, <2>1, <2>2
  <2>3. CASE i > Len(s)
    <3>1. i - Len(s) \in 1..Len(t) /\ t[i - Len(s)] = "cons"
      BY <1>1, <1>2, <2>1, <2>3
    <3>2. i - Len(s) > 1 /\ t[i - Len(s) - 1] = "alloc"
      BY <3>1 DEF NodesAllocated
    <3>3. i - 1 \in 1..(Len(s) + Len(t)) /\ ~ (i - 1 <= Len(s)) /\ i - 1 - Len(s) = i - Len(s) - 1
      BY <3>2, <2>1
    <3>4. (s \o t)[i - 1] = t[i - Len(s) - 1]
      BY <1>1, <3>3
    <3> QED BY <3>2, <3>4, <2>1
  <2> QED BY <2>1, <2>2, <2>3
<1> QED BY <1>1, <1>2 DEF NodesAllocated

\* What the calls of the drivers pass.
PointTypes ==
  /\ made \in BOOLEAN
  /\ container \in Seq(Nodes)
  /\ others \in [OtherNames -> Seq(Nodes)]

LEMMA InsertPoints ==
  ASSUME made \in BOOLEAN, f \in Inserts
  PROVE  /\ Points = IF made THEN Inserting ELSE <<"static">> \o Inserting
         /\ Points \in Seq(Marks) /\ NodesAllocated(Points)
<1>1. Points = IF made THEN Inserting ELSE <<"static">> \o Inserting
  <2>1. Points = generate_unique(Inserting)
    <3>1. f # "assign_operator" /\ f \notin Removes \cup {"swap"}
      BY DEF Inserts, Removes, Pops
    <3> QED BY <3>1 DEF Points
  <2> QED BY <2>1 DEF generate_unique
<1>2. Inserting \in Seq(Marks) /\ NodesAllocated(Inserting)
  BY InsertingFacts DEF NodesAllocated
<1>3. <<"static">> \in Seq(Marks) /\ NodesAllocated(<<"static">>)
  BY DEF NodesAllocated, Marks
<1>4. <<"static">> \o Inserting \in Seq(Marks) /\ NodesAllocated(<<"static">> \o Inserting)
  BY <1>2, <1>3, ConcatAllocated
<1> QED BY <1>1, <1>2, <1>4

PointsKnown ==
  /\ Points \in Seq(Marks) /\ NodesAllocated(Points)
  /\ \A i \in 1..Len(Points) : Points[i] = "alloc" => f \in Inserts \cup {"assign_operator"}
  /\ \A i \in 1..Len(Points) : Points[i] = "static" => f \in Inserts /\ ~ made /\ i = 1
  /\ (f \in Inserts /\ ~ made) => Points[1] = "static"
  /\ Points # << >> => f \in Inserts \cup {"assign_operator"} \/ fault = "throws"
  /\ Points # << >> => f \in Inserts \cup Removes \cup {"assign_operator", "swap"}

LEMMA PointsFacts == PointTypes => PointsKnown
<1> SUFFICES ASSUME PointTypes PROVE PointsKnown
  OBVIOUS
<1> USE DEF PointsKnown
<1>1. CASE f \in Inserts
  <2>1. /\ Points = IF made THEN Inserting ELSE <<"static">> \o Inserting
        /\ Points \in Seq(Marks) /\ NodesAllocated(Points)
    BY <1>1, InsertPoints DEF PointTypes
  <2>2. CASE made
    BY <1>1, <2>1, <2>2, InsertingFacts
  <2>3. CASE ~ made
    <3>1. Len(Inserting) \in Nat
      BY InsertingFacts
    <3>2. Len(Points) = Len(Inserting) + 1 /\ Points[1] = "static"
          /\ \A i \in 1..Len(Inserting) : Points[i + 1] = Inserting[i]
      BY <2>1, <2>3, StaticFacts
    <3>3. ASSUME NEW i \in 1..Len(Points), i # 1 PROVE Points[i] # "static"
      <4>1. i - 1 \in 1..Len(Inserting) /\ i - 1 + 1 = i
        BY <3>1, <3>2, <3>3
      <4>2. Points[i] = Inserting[i - 1]
        BY <3>2, <4>1
      <4> QED BY <4>1, <4>2, InsertingFacts
    <3> QED BY <1>1, <2>1, <2>3, <3>2, <3>3
  <2> QED BY <2>2, <2>3
<1>2. CASE f = "assign_operator"
  <2> DEFINE m == Len(container)  n == Len(others[f])
             Common == IF Kind = "list" THEN (IF m < n THEN m ELSE n) ELSE 0
             c == [k \in 1..Common |-> "assign"]
  <2>1. m \in Nat /\ n \in Nat
    BY <1>2 DEF PointTypes, OtherNames
  <2>2. Common \in Nat /\ n - Common \in Nat
    BY <2>1
  <2>3. Points = Pair(m) \o c \o Pair(n - Common)
    <3>1. f \notin Inserts /\ f \notin Removes \cup {"swap"}
      BY <1>2 DEF Inserts, Removes, Pops
    <3> QED BY <1>2, <3>1 DEF Points
  <2>4. c \in Seq(Own) /\ NodesAllocated(c)
    <3>1. c \in [1..Common -> Own]
      BY DEF Own
    <3>2. c \in Seq(Own)
      BY <3>1, <2>2
    <3>3. \A i \in 1..Common : c[i] # "cons"
      OBVIOUS
    <3>4. Len(c) = Common
      BY <2>2
    <3> HIDE DEF c, Common
    <3> QED BY <3>2, <3>3, <3>4 DEF NodesAllocated
  <2> HIDE DEF m, n, Common, c
  <2>5. \A k \in Nat : Pair(k) \in Seq(Own) /\ NodesAllocated(Pair(k))
    BY PairFacts DEF NodesAllocated
  <2>6. Pair(m) \o c \in Seq(Own) /\ NodesAllocated(Pair(m) \o c)
    BY <2>1, <2>4, <2>5, ConcatAllocated
  <2>7. Pair(m) \o c \o Pair(n - Common) \in Seq(Own)
        /\ NodesAllocated(Pair(m) \o c \o Pair(n - Common))
    BY <2>2, <2>5, <2>6, ConcatAllocated
  <2>8. Points \in Seq(Own) /\ NodesAllocated(Points)
    BY <2>3, <2>7
  <2>9. Points \in Seq(Marks)
    <3>1. Own \subseteq Marks
      BY DEF Own, Marks
    <3> QED BY <2>8, <3>1, SeqMonotonic
  <2>10. \A i \in 1..Len(Points) : Points[i] # "static"
    BY <2>8, ElementOfSeq DEF Own
  <2>11. f \notin Inserts
    BY <1>2 DEF Inserts
  <2> QED BY <1>2, <2>8, <2>9, <2>10, <2>11
<1>3. CASE f \in Removes \cup {"swap"} /\ fault = "throws" /\ f \notin Inserts
  <2>1. Points = <<"copy">>
    <3>1. f # "assign_operator"
      BY <1>3 DEF Removes, Pops
    <3> QED BY <1>3, <3>1 DEF Points
  <2>2. <<"copy">> \in Seq(Marks) /\ NodesAllocated(<<"copy">>) /\ Len(<<"copy">>) = 1 /\ <<"copy">>[1] = "copy"
    BY DEF NodesAllocated, Marks
  <2>3. \A i \in 1..1 : <<"copy">>[i] # "alloc"
    BY <2>2
  <2>4. \A i \in 1..1 : <<"copy">>[i] # "static"
    BY <2>2
  <2> QED BY <1>3, <2>1, <2>2, <2>3, <2>4
<1>4. CASE f \notin Inserts /\ f # "assign_operator" /\ ~ (f \in Removes \cup {"swap"} /\ fault = "throws")
  <2>1. Points = << >>
    BY <1>4 DEF Points
  <2>2. << >> \in Seq(Marks) /\ NodesAllocated(<< >>) /\ Len(<< >>) = 0
    BY DEF NodesAllocated
  <2> QED BY <1>4, <2>1, <2>2
<1> QED BY <1>1, <1>2, <1>3, <1>4

LEMMA PointsFactsNext == PointTypes' => PointsKnown'
BY PointsFacts, PTL

-----------------------------------------------------------------------------
(* The sequences of nodes.                                                  *)

LEMMA PartFacts ==
  ASSUME NEW c \in Seq(Nodes), NEW a \in Nat \ {0}, NEW b \in Nat, a <= b + 1, b <= Len(c)
  PROVE  /\ SubSeq(c, a, b) \in Seq(Nodes) /\ Len(SubSeq(c, a, b)) = b - a + 1
         /\ Range(SubSeq(c, a, b)) = {c[i] : i \in a..b}
         /\ \A i \in 1..(b - a + 1) : SubSeq(c, a, b)[i] = c[a + i - 1]
         /\ IsInjective(c) => IsInjective(SubSeq(c, a, b))
<1> DEFINE s == SubSeq(c, a, b)
<1>1. Len(c) \in Nat /\ DOMAIN c = 1..Len(c) /\ \A i \in 1..Len(c) : c[i] \in Nodes
  BY LenProperties
<1>2. \A i \in a..b : c[i] \in Nodes
  BY <1>1
<1>3. /\ s \in Seq(Nodes) /\ Len(s) = IF a <= b THEN b - a + 1 ELSE 0
      /\ \A i \in 1..(b - a + 1) : s[i] = c[a + i - 1]
  BY <1>2, SubSeqProperties
<1>4. Len(s) = b - a + 1
  BY <1>3
<1>5. DOMAIN s = 1..(b - a + 1)
  BY <1>3, <1>4, LenProperties
<1> HIDE DEF s
<1>6. Range(s) = {c[i] : i \in a..b}
  <2>1. ASSUME NEW i \in a..b PROVE c[i] \in Range(s)
    <3>1. i - a + 1 \in 1..(b - a + 1) /\ a + (i - a + 1) - 1 = i
      OBVIOUS
    <3>2. s[i - a + 1] = c[i]
      BY <3>1, <1>3
    <3> QED BY <3>1, <3>2, <1>5 DEF Range
  <2>2. ASSUME NEW j \in 1..(b - a + 1) PROVE s[j] \in {c[i] : i \in a..b}
    <3>1. a + j - 1 \in a..b
      OBVIOUS
    <3> QED BY <3>1, <1>3
  <2> QED BY <2>1, <2>2, <1>5 DEF Range
<1>7. ASSUME IsInjective(c) PROVE IsInjective(s)
  <2>1. SUFFICES ASSUME NEW i \in 1..(b - a + 1), NEW j \in 1..(b - a + 1), s[i] = s[j]
                 PROVE  i = j
    BY <1>5 DEF IsInjective
  <2>2. a + i - 1 \in 1..Len(c) /\ a + j - 1 \in 1..Len(c)
    BY <1>1
  <2>3. a + i - 1 = a + j - 1
    BY <2>1, <2>2, <1>1, <1>3, <1>7 DEF IsInjective
  <2> QED BY <2>3
<1> QED BY <1>3, <1>4, <1>6, <1>7 DEF s

LEMMA ConcatFacts ==
  ASSUME NEW s \in Seq(Nodes), NEW t \in Seq(Nodes)
  PROVE  /\ s \o t \in Seq(Nodes) /\ Len(s \o t) = Len(s) + Len(t)
         /\ Range(s \o t) = Range(s) \cup Range(t)
         /\ (IsInjective(s) /\ IsInjective(t) /\ Range(s) \cap Range(t) = {}) => IsInjective(s \o t)
<1> DEFINE c == s \o t
<1>1. /\ Len(s) \in Nat /\ DOMAIN s = 1..Len(s)
      /\ Len(t) \in Nat /\ DOMAIN t = 1..Len(t)
  BY LenProperties
<1>2. /\ c \in Seq(Nodes) /\ Len(c) = Len(s) + Len(t)
      /\ \A i \in 1..(Len(s) + Len(t)) : c[i] = IF i <= Len(s) THEN s[i] ELSE t[i - Len(s)]
  BY ConcatProperties
<1>3. DOMAIN c = 1..(Len(s) + Len(t))
  BY <1>2, LenProperties
<1> HIDE DEF c
<1>4. \A i \in 1..Len(s) : c[i] = s[i]
  BY <1>1, <1>2
<1>5. \A i \in 1..Len(t) : Len(s) + i \in DOMAIN c /\ c[Len(s) + i] = t[i]
  BY <1>1, <1>2, <1>3
<1>6. \A i \in DOMAIN c :
        \/ i \in DOMAIN s /\ c[i] = s[i]
        \/ i - Len(s) \in DOMAIN t /\ c[i] = t[i - Len(s)] /\ i \notin DOMAIN s
  BY <1>1, <1>2, <1>3
<1>7. Range(c) = Range(s) \cup Range(t)
  <2>1. Range(s) \cup Range(t) \subseteq Range(c)
    <3>1. \A i \in DOMAIN s : i \in DOMAIN c
      BY <1>1, <1>3
    <3> QED BY <3>1, <1>1, <1>4, <1>5 DEF Range
  <2>2. Range(c) \subseteq Range(s) \cup Range(t)
    BY <1>6 DEF Range
  <2> QED BY <2>1, <2>2
<1>8. ASSUME IsInjective(s), IsInjective(t), Range(s) \cap Range(t) = {} PROVE IsInjective(c)
  <2>1. SUFFICES ASSUME NEW i \in DOMAIN c, NEW j \in DOMAIN c, c[i] = c[j] PROVE i = j
    BY DEF IsInjective
  <2>2. i \in Int /\ j \in Int
    BY <1>1, <1>3
  <2>3. \A k \in DOMAIN s, l \in DOMAIN t : s[k] # t[l]
    BY <1>8 DEF Range
  <2>4. CASE i \in DOMAIN s /\ j \in DOMAIN s
    BY <2>1, <2>4, <1>6, <1>8, <1>1, <1>4 DEF IsInjective
  <2>5. CASE i \notin DOMAIN s /\ j \notin DOMAIN s
    <3>1. i - Len(s) = j - Len(s)
      BY <2>1, <2>5, <1>6, <1>8 DEF IsInjective
    <3> QED BY <3>1, <2>2, <1>1
  <2>6. ~ (i \in DOMAIN s /\ j \notin DOMAIN s)
    BY <2>1, <2>3, <1>6
  <2>7. ~ (i \notin DOMAIN s /\ j \in DOMAIN s)
    BY <2>1, <2>3, <1>6
  <2> QED BY <2>4, <2>5, <2>6, <2>7
<1> QED BY <1>2, <1>7, <1>8 DEF c

LEMMA AppendFacts ==
  ASSUME NEW s \in Seq(Nodes), NEW p \in Nodes
  PROVE  /\ Append(s, p) \in Seq(Nodes) /\ Append(s, p) # << >>
         /\ Range(Append(s, p)) = Range(s) \cup {p}
         /\ (IsInjective(s) /\ p \notin Range(s)) => IsInjective(Append(s, p))
<1> DEFINE c == Append(s, p)
<1>1. Len(s) \in Nat /\ DOMAIN s = 1..Len(s)
  BY LenProperties
<1>2. /\ c \in Seq(Nodes) /\ c # << >> /\ Len(c) = Len(s) + 1
      /\ \A i \in 1..Len(s) : c[i] = s[i]
      /\ c[Len(s) + 1] = p
  BY AppendProperties
<1>3. DOMAIN c = DOMAIN s \cup {Len(s) + 1}
  <2>1. DOMAIN c = 1..(Len(s) + 1)
    BY <1>2, LenProperties
  <2> QED BY <2>1, <1>1
<1> HIDE DEF c
<1>4. Range(c) = Range(s) \cup {p}
  BY <1>1, <1>2, <1>3 DEF Range
<1>5. ASSUME IsInjective(s), p \notin Range(s) PROVE IsInjective(c)
  BY <1>1, <1>2, <1>3, <1>5 DEF IsInjective, Range
<1> QED BY <1>2, <1>4, <1>5 DEF c

\* A node linked into a container is one more of its nodes.
LEMMA LinkFacts ==
  ASSUME NEW c \in Seq(Nodes), NEW b \in Seq(Nodes), NEW s \in 0..Len(c)
  PROVE  LET d == SubSeq(c, 1, s) \o b \o SubSeq(c, s + 1, Len(c))
         IN  /\ d \in Seq(Nodes) /\ Len(d) = Len(c) + Len(b)
             /\ Range(d) = Range(c) \cup Range(b)
             /\ (IsInjective(c) /\ IsInjective(b) /\ Range(c) \cap Range(b) = {}) => IsInjective(d)
<1> DEFINE u == SubSeq(c, 1, s)  v == SubSeq(c, s + 1, Len(c))
<1>1. Len(c) \in Nat /\ DOMAIN c = 1..Len(c) /\ s \in Nat /\ Len(b) \in Nat
  BY LenProperties
<1>2. /\ u \in Seq(Nodes) /\ Len(u) = s - 1 + 1 /\ Range(u) = {c[i] : i \in 1..s}
      /\ IsInjective(c) => IsInjective(u)
  BY <1>1, PartFacts
<1>3. /\ v \in Seq(Nodes) /\ Len(v) = Len(c) - (s + 1) + 1 /\ Range(v) = {c[i] : i \in (s + 1)..Len(c)}
      /\ IsInjective(c) => IsInjective(v)
  <2>1. s + 1 \in Nat \ {0} /\ s + 1 <= Len(c) + 1 /\ Len(c) <= Len(c)
    BY <1>1
  <2>2. Len(c) \in Nat
    BY <1>1
  <2> QED BY <2>1, <2>2, PartFacts, Zenon
<1> HIDE DEF u, v
<1>4. /\ u \o b \in Seq(Nodes) /\ Len(u \o b) = Len(u) + Len(b) /\ Range(u \o b) = Range(u) \cup Range(b)
      /\ (IsInjective(u) /\ IsInjective(b) /\ Range(u) \cap Range(b) = {}) => IsInjective(u \o b)
  BY <1>2, ConcatFacts
<1>5. /\ u \o b \o v \in Seq(Nodes) /\ Len(u \o b \o v) = Len(u \o b) + Len(v)
      /\ Range(u \o b \o v) = Range(u \o b) \cup Range(v)
      /\ (IsInjective(u \o b) /\ IsInjective(v) /\ Range(u \o b) \cap Range(v) = {})
           => IsInjective(u \o b \o v)
  <2>1. u \o b \in Seq(Nodes) /\ v \in Seq(Nodes)
    BY <1>3, <1>4
  <2> QED BY ONLY <2>1, ConcatFacts, Zenon
<1>6. Len(u \o b \o v) = Len(c) + Len(b)
  BY <1>1, <1>2, <1>3, <1>4, <1>5
<1>7. Range(c) = Range(u) \cup Range(v)
  <2>1. 1..Len(c) = (1..s) \cup ((s + 1)..Len(c))
    BY <1>1
  <2> QED BY <2>1, <1>1, <1>2, <1>3 DEF Range
<1>8. ASSUME IsInjective(c), IsInjective(b), Range(c) \cap Range(b) = {} PROVE IsInjective(u \o b \o v)
  <2>1. \A i \in 1..s, j \in (s + 1)..Len(c) : c[i] # c[j]
    BY <1>1, <1>8 DEF IsInjective
  <2>2. Range(u) \cap Range(v) = {}
    BY <2>1, <1>2, <1>3
  <2> QED BY <2>2, <1>2, <1>3, <1>4, <1>5, <1>7, <1>8
<1>9. Range(u \o b \o v) = Range(c) \cup Range(b)
  BY <1>4, <1>5, <1>7
<1> QED BY <1>5, <1>6, <1>8, <1>9 DEF u, v

\* The nodes cut out of a container are no longer nodes of it.
LEMMA CutFacts ==
  ASSUME NEW c \in Seq(Nodes), NEW s \in 0..Len(c), NEW e \in 0..Len(c), s <= e
  PROVE  LET d == SubSeq(c, 1, s) \o SubSeq(c, e + 1, Len(c))
             x == SubSeq(c, s + 1, e)
         IN  /\ d \in Seq(Nodes) /\ Len(d) = Len(c) - (e - s)
             /\ Range(c) = Range(d) \cup Range(x)
             /\ IsInjective(c) => IsInjective(d) /\ Range(d) \cap Range(x) = {}
<1> DEFINE u == SubSeq(c, 1, s)  v == SubSeq(c, e + 1, Len(c))  x == SubSeq(c, s + 1, e)
<1>1. Len(c) \in Nat /\ DOMAIN c = 1..Len(c) /\ s \in Nat /\ e \in Nat
  BY LenProperties
<1>2. /\ u \in Seq(Nodes) /\ Len(u) = s - 1 + 1 /\ Range(u) = {c[i] : i \in 1..s}
      /\ IsInjective(c) => IsInjective(u)
  BY <1>1, PartFacts
<1>3. /\ v \in Seq(Nodes) /\ Len(v) = Len(c) - (e + 1) + 1 /\ Range(v) = {c[i] : i \in (e + 1)..Len(c)}
      /\ IsInjective(c) => IsInjective(v)
  <2>1. e + 1 \in Nat \ {0} /\ e + 1 <= Len(c) + 1 /\ Len(c) <= Len(c)
    BY <1>1
  <2> QED BY <2>1, <1>1, PartFacts
<1>4. Range(x) = {c[i] : i \in (s + 1)..e}
  BY <1>1, PartFacts
<1> HIDE DEF u, v, x
<1>5. /\ u \o v \in Seq(Nodes) /\ Len(u \o v) = Len(u) + Len(v) /\ Range(u \o v) = Range(u) \cup Range(v)
      /\ (IsInjective(u) /\ IsInjective(v) /\ Range(u) \cap Range(v) = {}) => IsInjective(u \o v)
  BY <1>2, <1>3, ConcatFacts
<1>6. Len(u \o v) = Len(c) - (e - s)
  BY <1>1, <1>2, <1>3, <1>5
<1>7. Range(c) = Range(u \o v) \cup Range(x)
  <2>1. 1..Len(c) = (1..s) \cup ((s + 1)..e) \cup ((e + 1)..Len(c))
    BY <1>1
  <2> QED BY <2>1, <1>1, <1>2, <1>3, <1>4, <1>5 DEF Range
<1>8. ASSUME IsInjective(c) PROVE IsInjective(u \o v) /\ Range(u \o v) \cap Range(x) = {}
  <2>1. \A i \in 1..s, j \in (e + 1)..Len(c) : c[i] # c[j]
    BY <1>1, <1>8 DEF IsInjective
  <2>2. \A i \in (1..s) \cup ((e + 1)..Len(c)), j \in (s + 1)..e : c[i] # c[j]
    BY <1>1, <1>8 DEF IsInjective
  <2>3. Range(u) \cap Range(v) = {}
    BY <2>1, <1>2, <1>3
  <2>4. IsInjective(u \o v)
    BY <2>3, <1>2, <1>3, <1>5, <1>8
  <2>5. Range(u) \cap Range(x) = {} /\ Range(v) \cap Range(x) = {}
    BY <2>2, <1>2, <1>3, <1>4
  <2> QED BY <2>4, <2>5, <1>5
<1> QED BY <1>5, <1>6, <1>7, <1>8 DEF u, v, x

-----------------------------------------------------------------------------
(* The instruments as the drivers use them, and the effects of the calls.   *)

LEMMA DriverAdjust ==
  ASSUME adjustors \in Seq(Adjustor), limit = Never, count = 0,
         NEW kind \in {"never", "limit"}, NEW l \in Nat, Adjust(kind, l)
  PROVE  /\ adjustors' \in Seq(Adjustor) /\ limit' \in Nat /\ count' = 0
         /\ limit' = IF kind = "never" THEN Never ELSE l
<1>1. [kind |-> kind, orig |-> limit] \in Adjustor
  BY DEF Adjustor
<1>2. adjustors' \in Seq(Adjustor)
  BY <1>1, AppendProperties DEF Adjust
<1>3. Never \in Nat
  BY ThrowAssumption
<1> QED BY <1>2, <1>3 DEF Adjust, set_limit, Sets

LEMMA DriverRestore ==
  ASSUME adjustors \in Seq(Adjustor), Restore
  PROVE  adjustors' \in Seq(Adjustor) /\ limit' = Never /\ count' = 0
<1> DEFINE n == Len(adjustors)
<1>1. n \in Nat \ {0} /\ \A i \in 1..n : adjustors[i] \in Adjustor
  BY EmptySeq, ElementOfSeq DEF Restore
<1>2. adjustors[n].orig = Never
  BY <1>1 DEF Adjustor
<1>3. SubSeq(adjustors, 1, n - 1) \in Seq(Adjustor)
  <2>1. 1 \in Int /\ n - 1 \in Int /\ \A i \in 1..(n - 1) : adjustors[i] \in Adjustor
    BY <1>1
  <2> HIDE DEF n
  <2> QED BY <2>1, SubSeqProperties
<1> QED BY <1>2, <1>3 DEF Restore, set_limit

LEMMA TakenFacts ==
  ASSUME NEW k \in Nat, Take(Fresh(k))
  PROVE  Fresh(k) \in Seq(Nodes) /\ Len(Fresh(k)) = k
<1> DEFINE all == SelectSeq([p \in 1..Cardinality(Nodes) |-> p], LAMBDA p : p \notin DOMAIN heap)
<1>1. Fresh(k) = SubSeq(all, 1, k)
  BY DEF Fresh
<1> HIDE DEF all
<1>2. SubSeq(all, 1, k) = [i \in 1..k |-> all[i]]
  OBVIOUS
<1>3. Range(Fresh(k)) \subseteq Nodes
  BY DEF Take
<1>4. Fresh(k) \in [1..k -> Nodes]
  BY <1>1, <1>2, <1>3 DEF Range
<1> QED BY <1>4

\* What the operation of a function does, by the function.
LEMMA EffectCases ==
  ASSUME Effect
  PROVE  \/ f \in Inserts /\ InsertNode
         \/ f \in Removes /\ RemoveNodes
         \/ f = "swap" /\ swap
         \/ f = "assign_operator" /\ assign_operator
         \/ f = "move_assign_operator" /\ move_assign_operator
         \/ /\ f \notin Inserts \cup Removes \cup OtherNames
            /\ UNCHANGED <<map_alloc, map_construct, heap, container, others>>
<1>1. CASE f \in Inserts
  <2>1. f \notin Removes \cup OtherNames
    BY <1>1 DEF Inserts, Removes, Pops, OtherNames
  <2> QED BY <1>1, <2>1 DEF Effect, OtherNames
<1>2. CASE f \in Removes
  <2>1. f \notin Inserts \cup OtherNames
    BY <1>2 DEF Inserts, Removes, Pops, OtherNames
  <2> QED BY <1>2, <2>1 DEF Effect, OtherNames
<1>3. CASE f \in OtherNames
  <2>1. f \notin Inserts \cup Removes
    BY <1>3 DEF Inserts, Removes, Pops, OtherNames
  <2> QED BY <1>3, <2>1 DEF Effect, OtherNames
<1>4. CASE f \notin Inserts \cup Removes \cup OtherNames
  BY <1>4 DEF Effect, OtherNames
<1> QED BY <1>1, <1>2, <1>3, <1>4

LEMMA OverFacts ==
  ASSUME f \in Removes, NEW s \in Nat, NEW e \in Nat, Over(s, e)
  PROVE  s <= e /\ (f \in Pops => e = s + 1)
<1>1. CASE f = "erase_point"
  <2>1. Over(s, e) => e = s + 1
    BY <1>1 DEF Over, erase_point
  <2> QED BY <2>1
<1>2. CASE f = "erase_range"
  <2>1. Over(s, e) => s <= e
    BY <1>2 DEF Over, erase_range
  <2> QED BY <2>1, <1>2 DEF Pops
<1>3. CASE f = "pop_front"
  <2>1. Over(s, e) => s = 0 /\ e = 1
    BY <1>3 DEF Over, pop_front
  <2> QED BY <2>1
<1>4. CASE f = "pop_back"
  <2>1. Over(s, e) => e = s + 1
    BY <1>4 DEF Over, pop_back
  <2> QED BY <2>1
<1>5. CASE f = "clear"
  <2>1. Over(s, e) => s = 0
    BY <1>5 DEF Over, clear
  <2> QED BY <2>1, <1>5 DEF Pops
<1> QED BY <1>1, <1>2, <1>3, <1>4, <1>5 DEF Removes, Pops

\* The removal of a part of the container, as a step.
LEMMA RemoveFacts ==
  ASSUME container \in Seq(Nodes), f \in Removes, RemoveNodes
  PROVE  \E x \in SUBSET Nodes :
           /\ Free(x) /\ UNCHANGED others
           /\ container' \in Seq(Nodes) /\ Len(container') <= Len(container)
           /\ f \in Pops => Len(container') = Len(container) - 1
           /\ Range(container) = Range(container') \cup x
           /\ IsInjective(container) => IsInjective(container') /\ Range(container') \cap x = {}
<1>1. Len(container) \in Nat
  BY LenProperties
<1>2. PICK s \in 0..Len(container), e \in 0..Len(container) :
        /\ Over(s, e)
        /\ Free(Range(SubSeq(container, s + 1, e)))
        /\ container' = SubSeq(container, 1, s) \o SubSeq(container, e + 1, Len(container))
        /\ UNCHANGED others
  BY DEF RemoveNodes
<1>3. s \in Nat /\ e \in Nat
  BY <1>1
<1>4. s <= e /\ (f \in Pops => e = s + 1)
  BY <1>2, <1>3, OverFacts
<1> DEFINE x == Range(SubSeq(container, s + 1, e))
<1>5. /\ container' \in Seq(Nodes) /\ Len(container') = Len(container) - (e - s)
      /\ Range(container) = Range(container') \cup x
      /\ IsInjective(container) => IsInjective(container') /\ Range(container') \cap x = {}
  BY <1>2, <1>4, CutFacts
<1>6. x \subseteq Nodes
  <2>1. Range(container) \subseteq Nodes
    BY LenProperties DEF Range
  <2> QED BY <2>1, <1>5
<1> HIDE DEF x
<1>7. Len(container') <= Len(container) /\ (f \in Pops => Len(container') = Len(container) - 1)
  BY <1>1, <1>3, <1>4, <1>5
<1>8. Free(x) /\ UNCHANGED others
  BY <1>2 DEF x
<1> QED BY <1>5, <1>6, <1>7, <1>8

\* The insertion of what a call has built, as a step.
LEMMA InsertFacts ==
  ASSUME container \in Seq(Nodes), building \in Seq(Nodes), InsertNode
  PROVE  /\ UNCHANGED <<map_alloc, map_construct, heap, others>>
         /\ container' \in Seq(Nodes) /\ Len(container') = Len(container) + Len(building)
         /\ Range(container') = Range(container) \cup Range(building)
         /\ (IsInjective(container) /\ IsInjective(building) /\ Range(container) \cap Range(building) = {})
              => IsInjective(container')
<1>1. PICK s \in 0..Len(container) :
        container' = SubSeq(container, 1, s) \o building \o SubSeq(container, s + 1, Len(container))
  BY DEF InsertNode
<1>2. UNCHANGED <<map_alloc, map_construct, heap, others>>
  BY DEF InsertNode
<1> QED BY <1>1, <1>2, LinkFacts

LEMMA OrderFacts ==
  ASSUME driver \in {"basic", "consistent", "prohibited"}
  PROVE  /\ Len(Order[driver]) \in Nat
         /\ driver = "basic" => Len(Order[driver]) = 18
<1>1. CASE driver = "basic"
  <2>1. Order[driver] = BasicOrder /\ Len(BasicOrder) = 18
    BY <1>1 DEF Order, BasicOrder
  <2> QED BY <2>1
<1>2. CASE driver = "consistent"
  <2>1. Order[driver] = ConsistentOrder /\ Len(ConsistentOrder) = 8
    BY <1>2 DEF Order, ConsistentOrder
  <2> QED BY <2>1, <1>2
<1>3. CASE driver = "prohibited"
  <2>1. Order[driver] = ProhibitedOrder /\ Len(ProhibitedOrder) = 8
    BY <1>3 DEF Order, ProhibitedOrder
  <2> QED BY <2>1, <1>3
<1> QED BY <1>1, <1>2, <1>3

-----------------------------------------------------------------------------
(* The steps, case by case.                                                 *)

LEMMA BeginStep ==
  ASSUME Begin, driver \in {"basic", "consistent", "prohibited"}
  PROVE  /\ pc = "begin" /\ at <= Len(Order[driver]) /\ stage' = 0
         /\ UNCHANGED <<outcome, driver, Kind, fault, made, step, control, others, building,
                        forced, untried, faulted>>
         /\ driver = "basic" =>
              /\ label' = step /\ Adjust("limit", step)
              /\ UNCHANGED <<map_alloc, map_construct, heap, container, copied, at>>
              /\ \/ pc' = "call"
                 \/ pc' = "failed" /\ container = << >> /\ f = "erase_point"
                 \/ pc' = "undefined" /\ container = << >> /\ f \in Pops
         /\ driver = "consistent" =>
              /\ UNCHANGED <<label, at>>
              /\ \/ /\ Pass(2 * Len(control)) /\ pc' = "call" /\ Adjust("limit", step)
                    /\ Take(Fresh(Len(control)))
                    /\ container' = Fresh(Len(control)) /\ copied' = container'
                 \/ /\ ~ Pass(2 * Len(control)) /\ pc' = "failed"
                    /\ UNCHANGED <<condition, annotations, heap, container, copied>>
         /\ driver = "prohibited" =>
              /\ UNCHANGED <<condition, annotations, heap, container, copied>>
              /\ pc' \in {"begin", "call"}
              /\ pc' = "begin" => at' = at + 1
              /\ pc' = "call" => at' = at
<1>1. CASE driver = "basic"
  BY <1>1 DEF Begin
<1>2. CASE driver = "consistent"
  BY <1>2 DEF Begin, annotations
<1>3. CASE driver = "prohibited"
  BY <1>3 DEF Begin
<1> QED BY <1>1, <1>2, <1>3

\* A throw point of a call under a limit: it throws or it is passed.
Reached ==
  /\ throw_conditionally
  /\ pc' = IF Throws THEN "thrown" ELSE "call"
  /\ label' = label
  /\ \/ /\ Points[stage + 1] = "alloc"
        /\ \E p \in Nodes : allocate(p, 1) /\ building' = IF Throws THEN building ELSE Append(building, p)
     \/ /\ Points[stage + 1] = "cons"
        /\ construct(Last(building)) /\ UNCHANGED building
     \/ /\ Points[stage + 1] \notin {"alloc", "cons"}
        /\ UNCHANGED <<annotations, heap, building>>

LEMMA PointStep ==
  ASSUME Point
  PROVE  /\ pc = "call" /\ stage < Len(Points) /\ pc' \in During
         /\ UNCHANGED <<driver, Kind, fault, at, step, container, control, others, copied, untried,
                        faulted, limit, adjustors, label>>
         /\ made' = (made \/ (Points[stage + 1] = "static" /\ ~ Forces))
         /\ stage' = IF Forces \/ Points[stage + 1] = "static" THEN stage ELSE stage + 1
         /\ forced' = IF Forces THEN forced \cup {Points[stage + 1]} ELSE forced
         /\ pc' = IF Forces THEN "thrown" ELSE "call"
         /\ driver = "prohibited" =>
              UNCHANGED <<condition, annotations, heap, building>> /\ pc' = "thrown" /\ stage' = stage
         /\ driver # "prohibited" => Reached
<1>1. CASE driver = "prohibited"
  BY <1>1 DEF Point, Forces, During, contents, condition, annotations
<1>2. CASE driver # "prohibited"
  <2>1. Forces = Throws
    BY <1>2 DEF Forces
  <2>2. throw_conditionally /\ label' = label
        /\ \/ /\ Points[stage + 1] = "alloc"
              /\ \E p \in Nodes : allocate(p, 1) /\ building' = IF Throws THEN building ELSE Append(building, p)
           \/ /\ Points[stage + 1] = "cons"
              /\ construct(Last(building)) /\ UNCHANGED building
           \/ /\ Points[stage + 1] \notin {"alloc", "cons"}
              /\ UNCHANGED <<annotations, heap, building>>
    <3>1. CASE Points[stage + 1] = "alloc"
      BY <1>2, <3>1 DEF Point, allocate
    <3>2. CASE Points[stage + 1] = "cons"
      BY <1>2, <3>2 DEF Point, construct
    <3>3. CASE Points[stage + 1] \notin {"alloc", "cons"}
      BY <1>2, <3>3 DEF Point, Value, annotations
    <3> QED BY <3>1, <3>2, <3>3
  <2>3. UNCHANGED <<limit, adjustors>>
    BY <2>2 DEF throw_conditionally
  <2>4. /\ pc = "call" /\ stage < Len(Points)
        /\ UNCHANGED <<driver, Kind, fault, at, step, container, control, others, copied, untried, faulted>>
        /\ made' = (made \/ (Points[stage + 1] = "static" /\ ~ Forces))
        /\ stage' = IF Forces \/ Points[stage + 1] = "static" THEN stage ELSE stage + 1
        /\ forced' = IF Forces THEN forced \cup {Points[stage + 1]} ELSE forced
        /\ pc' = IF Forces THEN "thrown" ELSE "call"
    BY DEF Point, contents
  <2>5. pc' \in During /\ pc' = IF Throws THEN "thrown" ELSE "call"
    BY <2>1, <2>4 DEF During
  <2>6. Reached
    BY <2>2, <2>5 DEF Reached
  <2> QED BY <1>2, <2>2, <2>3, <2>4, <2>5, <2>6
<1> QED BY <1>1, <1>2

\* What a call that failed keeps and loses, by the fault.
Kept == IF fault = "keeps" /\ Points[stage + 1] = "cons" /\ f \in Inserts THEN building ELSE << >>
Lost == IF fault = "leaks" /\ Points[stage + 1] = "cons" THEN {Last(building)} ELSE {}

LEMMA UnwindStep ==
  ASSUME Unwind
  PROVE  /\ pc = "thrown" /\ building' = << >>
         /\ container' = container \o Kept
         /\ Free(Range(building) \ (Lost \cup Range(Kept)))
         /\ faulted' = (faulted \/ Kept # << >> \/ Lost # {} \/ f \in Removes \cup {"swap"})
         /\ driver = "prohibited" => pc' = "failed" /\ UNCHANGED condition
         /\ driver # "prohibited" => pc' = "caught" /\ Restore
         /\ UNCHANGED <<label, outcome, driver, Kind, fault, at, made, step, stage, control, others,
                        copied, forced, untried>>
BY DEF Unwind, Kept, Lost, where

LEMMA SetupStep ==
  ASSUME Setup, adjustors \in Seq(Adjustor), limit = Never, count = 0
  PROVE  /\ pc = "setup" /\ pc' = "begin"
         /\ UNCHANGED <<label, outcome, driver, Kind, fault, at, made, step, stage, building,
                        copied, forced, untried, faulted>>
         /\ adjustors' \in Seq(Adjustor) /\ limit' = Never /\ count' = 0
         /\ driver = "consistent" =>
              /\ UNCHANGED <<container, others>>
              /\ control' \in Seq(Nodes) /\ Len(control') \in Populations
         /\ driver # "consistent" =>
              /\ UNCHANGED control
              /\ container' \in Seq(Nodes) /\ others' \in [OtherNames -> Seq(Nodes)]
              /\ Len(container') \in Populations
              /\ \E ns \in Seq(Nodes) :
                   /\ Take(ns)
                   /\ Range(ns) = Range(container') \cup UNION {Range(others'[g]) : g \in OtherNames}
                   /\ IsInjective(container') /\ \A g \in OtherNames : IsInjective(others'[g])
                   /\ \A g \in OtherNames :
                        /\ Range(others'[g]) \cap Range(container') = {}
                        /\ \A h \in OtherNames \ {g} : Range(others'[g]) \cap Range(others'[h]) = {}
<1>1. /\ pc = "setup" /\ pc' = "begin"
      /\ UNCHANGED <<label, outcome, driver, Kind, fault, at, made, step, stage, building,
                     copied, forced, untried, faulted>>
  BY DEF Setup, where, history
<1>2. adjustors' \in Seq(Adjustor) /\ limit' = Never /\ count' = 0
  <2>1. CASE driver = "prohibited"
    BY <2>1 DEF Setup, condition
  <2>2. CASE driver # "prohibited"
    <3>1. Adjust("never", 0)
      BY <2>2 DEF Setup
    <3> QED BY <3>1, DriverAdjust
  <2> QED BY <2>1, <2>2
<1>3. ASSUME driver = "consistent"
      PROVE  /\ UNCHANGED <<container, others>>
             /\ control' \in Seq(Nodes) /\ Len(control') \in Populations
  <2>1. PICK n \in Populations, o \in Populations :
          LET ns == Fresh(n + 0) IN Take(ns) /\ control' = SubSeq(ns, 1, n) /\ UNCHANGED <<container, others>>
    BY <1>3 DEF Setup
  <2>2. n \in Nat /\ n + 0 = n
    BY SafetyAssumption
  <2>3. Take(Fresh(n)) /\ control' = SubSeq(Fresh(n), 1, n) /\ UNCHANGED <<container, others>>
    BY <2>1, <2>2
  <2>4. Fresh(n) \in Seq(Nodes) /\ Len(Fresh(n)) = n
    BY <2>2, <2>3, TakenFacts
  <2>5. control' \in Seq(Nodes) /\ Len(control') = n - 1 + 1
    BY <2>2, <2>3, <2>4, PartFacts
  <2> QED BY <2>2, <2>3, <2>5
<1>4. ASSUME driver # "consistent"
      PROVE  /\ UNCHANGED control
             /\ container' \in Seq(Nodes) /\ others' \in [OtherNames -> Seq(Nodes)]
             /\ Len(container') \in Populations
             /\ \E ns \in Seq(Nodes) :
                  /\ Take(ns)
                  /\ Range(ns) = Range(container') \cup UNION {Range(others'[g]) : g \in OtherNames}
                  /\ IsInjective(container') /\ \A g \in OtherNames : IsInjective(others'[g])
                  /\ \A g \in OtherNames :
                       /\ Range(others'[g]) \cap Range(container') = {}
                       /\ \A h \in OtherNames \ {g} : Range(others'[g]) \cap Range(others'[h]) = {}
  <2>1. PICK n \in Populations, o \in Populations :
          LET ns == Fresh(n + 3 * o)
              Other(k) == SubSeq(ns, n + (k - 1) * o + 1, n + k * o)
          IN  /\ Take(ns) /\ container' = SubSeq(ns, 1, n)
              /\ others' = [swap |-> Other(1), assign_operator |-> Other(2),
                            move_assign_operator |-> Other(3)]
              /\ UNCHANGED control
    BY <1>4 DEF Setup
  <2> DEFINE ns == Fresh(n + 3 * o)
             c == SubSeq(ns, 1, n)
             u == SubSeq(ns, n + 1, n + o)
             v == SubSeq(ns, n + o + 1, n + 2 * o)
             w == SubSeq(ns, n + 2 * o + 1, n + 3 * o)
  <2>2. n \in Nat /\ o \in Nat
    BY SafetyAssumption
  <2>3. /\ Take(ns) /\ container' = c /\ UNCHANGED control
        /\ others' = [swap |-> u, assign_operator |-> v, move_assign_operator |-> w]
    <3>1. /\ n + (1 - 1) * o + 1 = n + 1 /\ n + 1 * o = n + o
          /\ n + (2 - 1) * o + 1 = n + o + 1 /\ n + (3 - 1) * o + 1 = n + 2 * o + 1
      BY <2>2
    <3> HIDE DEF ns
    <3> QED BY <2>1, <3>1 DEF ns
  <2>4. ns \in Seq(Nodes) /\ Len(ns) = n + 3 * o
    BY <2>2, <2>3, TakenFacts
  <2>5. IsInjective(ns)
    BY <2>3 DEF Take
  <2> HIDE DEF ns
  <2>6. /\ c \in Seq(Nodes) /\ Len(c) = n - 1 + 1 /\ Range(c) = {ns[i] : i \in 1..n} /\ IsInjective(c)
    <3>1. 1 \in Nat \ {0} /\ n \in Nat /\ 1 <= n + 1 /\ n <= Len(ns)
      BY <2>2, <2>4
    <3> QED BY <3>1, <2>4, <2>5, PartFacts
  <2>7. /\ u \in Seq(Nodes) /\ Range(u) = {ns[i] : i \in (n + 1)..(n + o)} /\ IsInjective(u)
    <3>1. n + 1 \in Nat \ {0} /\ n + o \in Nat /\ n + 1 <= n + o + 1 /\ n + o <= Len(ns)
      BY <2>2, <2>4
    <3> QED BY <3>1, <2>4, <2>5, PartFacts
  <2>8. /\ v \in Seq(Nodes) /\ Range(v) = {ns[i] : i \in (n + o + 1)..(n + 2 * o)} /\ IsInjective(v)
    <3>1. n + o + 1 \in Nat \ {0} /\ n + 2 * o \in Nat /\ n + o + 1 <= n + 2 * o + 1 /\ n + 2 * o <= Len(ns)
      BY <2>2, <2>4
    <3> QED BY <3>1, <2>4, <2>5, PartFacts
  <2>9. /\ w \in Seq(Nodes) /\ Range(w) = {ns[i] : i \in (n + 2 * o + 1)..(n + 3 * o)} /\ IsInjective(w)
    <3>1. n + 2 * o + 1 \in Nat \ {0} /\ n + 3 * o \in Nat /\ n + 2 * o + 1 <= n + 3 * o + 1 /\ n + 3 * o <= Len(ns)
      BY <2>2, <2>4
    <3> QED BY <3>1, <2>4, <2>5, PartFacts
  <2> HIDE DEF c, u, v, w
  <2>10. Range(ns) = Range(c) \cup Range(u) \cup Range(v) \cup Range(w)
    <3>1. DOMAIN ns = 1..(n + 3 * o)
      BY <2>4, LenProperties
    <3>2. 1..(n + 3 * o) = (1..n) \cup ((n + 1)..(n + o)) \cup ((n + o + 1)..(n + 2 * o))
                             \cup ((n + 2 * o + 1)..(n + 3 * o))
      BY <2>2
    <3> QED BY <3>1, <3>2, <2>6, <2>7, <2>8, <2>9 DEF Range
  <2>11. /\ Range(u) \cap Range(c) = {} /\ Range(v) \cap Range(c) = {} /\ Range(w) \cap Range(c) = {}
         /\ Range(u) \cap Range(v) = {} /\ Range(u) \cap Range(w) = {} /\ Range(v) \cap Range(w) = {}
    <3>1. DOMAIN ns = 1..(n + 3 * o)
      BY <2>4, LenProperties
    <3>2. \A i \in 1..(n + 3 * o), j \in 1..(n + 3 * o) : ns[i] = ns[j] => i = j
      BY <3>1, <2>5 DEF IsInjective
    <3>3. \A i \in 1..n, j \in (n + 1)..(n + 3 * o) : ns[i] # ns[j]
      BY <3>2, <2>2
    <3>4. \A i \in (n + 1)..(n + o), j \in (n + o + 1)..(n + 3 * o) : ns[i] # ns[j]
      BY <3>2, <2>2
    <3>5. \A i \in (n + o + 1)..(n + 2 * o), j \in (n + 2 * o + 1)..(n + 3 * o) : ns[i] # ns[j]
      BY <3>2, <2>2
    <3>6. /\ \A j \in (n + 1)..(n + o) : j \in (n + 1)..(n + 3 * o)
          /\ \A j \in (n + o + 1)..(n + 2 * o) : j \in (n + 1)..(n + 3 * o) /\ j \in (n + o + 1)..(n + 3 * o)
          /\ \A j \in (n + 2 * o + 1)..(n + 3 * o) : j \in (n + 1)..(n + 3 * o) /\ j \in (n + o + 1)..(n + 3 * o)
      BY <2>2
    <3>7. Range(u) \cap Range(c) = {} /\ Range(v) \cap Range(c) = {} /\ Range(w) \cap Range(c) = {}
      BY <3>3, <3>6, <2>6, <2>7, <2>8, <2>9
    <3>8. Range(u) \cap Range(v) = {} /\ Range(u) \cap Range(w) = {}
      BY <3>4, <3>6, <2>7, <2>8, <2>9
    <3>9. Range(v) \cap Range(w) = {}
      BY <3>5, <2>8, <2>9
    <3> QED BY <3>7, <3>8, <3>9
  <2>12. others' \in [OtherNames -> Seq(Nodes)]
    BY <2>3, <2>7, <2>8, <2>9 DEF OtherNames
  <2>13. others'["swap"] = u /\ others'["assign_operator"] = v /\ others'["move_assign_operator"] = w
    BY <2>3
  <2>14. UNION {Range(others'[g]) : g \in OtherNames} = Range(u) \cup Range(v) \cup Range(w)
    BY <2>13 DEF OtherNames
  <2>15. \A g \in OtherNames : IsInjective(others'[g])
    BY <2>7, <2>8, <2>9, <2>13 DEF OtherNames
  <2>16. \A g \in OtherNames :
           /\ Range(others'[g]) \cap Range(container') = {}
           /\ \A h \in OtherNames \ {g} : Range(others'[g]) \cap Range(others'[h]) = {}
    BY <2>3, <2>11, <2>13 DEF OtherNames
  <2>17. Range(ns) = Range(container') \cup UNION {Range(others'[g]) : g \in OtherNames}
    BY <2>3, <2>10, <2>14
  <2>18. container' \in Seq(Nodes) /\ Len(container') \in Populations /\ IsInjective(container')
    BY <2>2, <2>3, <2>6
  <2> QED BY <2>3, <2>4, <2>12, <2>15, <2>16, <2>17, <2>18
<1> QED BY <1>1, <1>2, <1>3, <1>4

LEMMA CaughtStep ==
  ASSUME Caught
  PROVE  /\ pc = "caught" /\ step' = step + 1
         /\ UNCHANGED <<condition, label, outcome, driver, Kind, fault, at, made, stage, control,
                        others, building, copied, forced, untried, faulted>>
         /\ driver = "basic" =>
              /\ pc' = IF Labelled(step) = {} THEN "begin" ELSE "failed"
              /\ UNCHANGED <<map_alloc, map_construct, heap, container>>
         /\ driver # "basic" =>
              /\ pc' = IF compare THEN "begin" ELSE "failed"
              /\ container' = << >>
BY DEF Caught, NextTry, where, history

LEMMA FinishStep ==
  ASSUME Finish
  PROVE  /\ pc = "call" /\ stage = Len(Points) /\ pc' = "begin"
         /\ building' = << >> /\ at' = at + 1 /\ forced' = {}
         /\ step' = IF driver = "basic" THEN step + 1 ELSE 1
         /\ untried' = untried \cup {<<f, k>> : k \in (Range(Points) \cap Own) \ forced}
         /\ UNCHANGED <<label, outcome, driver, Kind, fault, made, stage, control, copied, faulted>>
         /\ driver = "prohibited" => UNCHANGED condition
         /\ driver # "prohibited" => Restore
         /\ driver = "consistent" => container' = << >> /\ UNCHANGED others
         /\ driver # "consistent" => Effect
BY DEF Finish, NextStep

LEMMA EndStep ==
  ASSUME End, others \in [OtherNames -> Seq(Nodes)]
  PROVE  /\ pc = "begin" /\ at > Len(Order[driver])
         /\ pc' = IF driver = "basic" THEN "check" ELSE "passed"
         /\ container' = << >> /\ control' = << >>
         /\ others' = [g \in OtherNames |-> << >>]
         /\ UNCHANGED <<label, outcome, driver, Kind, fault, at, made, step, stage, building,
                        copied, forced, untried>>
         /\ driver = "prohibited" => UNCHANGED condition
         /\ driver # "prohibited" => Restore
         /\ \E all, lost :
              /\ all = Range(container) \cup Range(control) \cup UNION {Range(others[g]) : g \in OtherNames}
              /\ lost \subseteq all
              /\ fault # "forgets" => lost = {}
              /\ Free(all \ lost) /\ faulted' = (faulted \/ lost # {})
<1>1. DOMAIN others = OtherNames
  OBVIOUS
<1> DEFINE all == Range(container) \cup Range(control) \cup UNION {Range(others[g]) : g \in OtherNames}
           lost == IF fault = "forgets" /\ all # {} THEN {CHOOSE p \in all : TRUE} ELSE {}
<1>2. Free(all \ lost) /\ faulted' = (faulted \/ lost # {})
  BY <1>1 DEF End
<1>3. lost \subseteq all /\ (fault # "forgets" => lost = {})
  OBVIOUS
<1> HIDE DEF lost, all
<1>4. \E a, l :
        /\ a = all /\ l \subseteq a /\ (fault # "forgets" => l = {})
        /\ Free(a \ l) /\ faulted' = (faulted \/ l # {})
  BY <1>2, <1>3
<1>5. /\ pc = "begin" /\ at > Len(Order[driver])
      /\ pc' = IF driver = "basic" THEN "check" ELSE "passed"
      /\ container' = << >> /\ control' = << >>
      /\ others' = [g \in OtherNames |-> << >>]
      /\ UNCHANGED <<label, outcome, driver, Kind, fault, at, made, step, stage, building,
                     copied, forced, untried>>
      /\ driver = "prohibited" => UNCHANGED condition
      /\ driver # "prohibited" => Restore
  BY <1>1 DEF End, where
<1> QED BY <1>4, <1>5 DEF all

LEMMA OtherStep ==
  ASSUME Check \/ UNCHANGED safetyVars
  PROVE  /\ UNCHANGED <<limit, count, adjustors, label, map_alloc, map_construct, heap, outcome,
                        driver, Kind, fault, at, made, step, stage, container, control, others,
                        building, copied, forced, untried, faulted>>
         /\ \/ pc' = pc
            \/ pc = "check" /\ pc' = IF Left = {} THEN "passed" ELSE "failed"
BY DEF Check, safetyVars, vars, condition, annotations, where, contents, history

-----------------------------------------------------------------------------
(* The types.                                                               *)

LEMMA RestoreTypes ==
  ASSUME adjustors \in Seq(Adjustor), limit \in Nat, count \in Nat, Restore \/ UNCHANGED condition
  PROVE  limit' \in Nat /\ count' \in Nat /\ adjustors' \in Seq(Adjustor)
<1>1. CASE Restore
  <2>1. Never \in Nat
    BY ThrowAssumption
  <2> QED BY <1>1, <2>1, DriverRestore
<1> QED BY <1>1 DEF condition

LEMMA TypesKeep ==
  ASSUME DriverTypes, ConditionInv, [SafetyNext]_safetyVars
  PROVE  DriverTypes'
<1> DEFINE Pcs == {"setup", "begin", "call", "thrown", "caught", "check", "passed"} \cup Ended
<1>1. CASE Setup
  <2>1. adjustors \in Seq(Adjustor) /\ limit = Never /\ count = 0
    BY <1>1 DEF DriverTypes, ConditionInv, Setup, During, Ended
  <2>2. Never \in Nat
    BY ThrowAssumption
  <2> QED BY <1>1, <2>1, <2>2, SetupStep DEF DriverTypes, During
<1>2. CASE Begin
  <2>1. Len(Order[driver]) \in Nat
    BY OrderFacts DEF DriverTypes
  <2>2. adjustors \in Seq(Adjustor) /\ limit = Never /\ count = 0 /\ step \in Nat
    BY <1>2 DEF DriverTypes, ConditionInv, Begin, During, Ended
  <2>3. /\ limit' \in Nat /\ count' \in Nat /\ adjustors' \in Seq(Adjustor)
        /\ container' \in Seq(Nodes)
    <3>1. CASE driver = "basic"
      BY <1>2, <3>1, <2>2, BeginStep, DriverAdjust DEF DriverTypes
    <3>2. CASE driver = "consistent"
      <4>1. CASE Pass(2 * Len(control))
        <5>1. Len(control) \in Nat
          BY LenProperties DEF DriverTypes
        <5>2. Adjust("limit", step) /\ Take(Fresh(Len(control))) /\ container' = Fresh(Len(control))
          BY <1>2, <3>2, <4>1, BeginStep DEF DriverTypes
        <5> QED BY <2>2, <5>1, <5>2, TakenFacts, DriverAdjust
      <4>2. CASE ~ Pass(2 * Len(control))
        BY <1>2, <3>2, <4>2, BeginStep DEF DriverTypes, condition
      <4> QED BY <4>1, <4>2
    <3>3. CASE driver = "prohibited"
      BY <1>2, <3>3, BeginStep DEF DriverTypes, condition
    <3> QED BY <3>1, <3>2, <3>3 DEF DriverTypes
  <2>4. /\ pc' \in Pcs /\ at' \in Nat \ {0}
        /\ pc' \in During \cup {"caught"} => at' = at
        /\ pc' # "setup"
    BY <1>2, BeginStep DEF DriverTypes, Ended, During
  <2>5. /\ at <= Len(Order[driver]) /\ stage' = 0
        /\ UNCHANGED <<driver, Kind, made, step, control, others, building>>
    BY <1>2, BeginStep DEF DriverTypes
  <2> QED BY <2>1, <2>3, <2>4, <2>5 DEF DriverTypes
<1>3. CASE Point
  <2>1. /\ building' \in Seq(Nodes) /\ count' \in Nat
    <3>1. CASE driver = "prohibited"
      BY <1>3, <3>1, PointStep DEF DriverTypes, condition
    <3>2. CASE driver # "prohibited"
      <4>1. Reached
        BY <1>3, <3>2, PointStep
      <4>2. count' \in Nat
        BY <4>1 DEF Reached, throw_conditionally, DriverTypes
      <4>3. building' \in Seq(Nodes)
        <5>1. CASE UNCHANGED building
          BY <5>1 DEF DriverTypes
        <5>2. CASE ~ UNCHANGED building
          <6>1. PICK p \in Nodes : building' = IF Throws THEN building ELSE Append(building, p)
            BY <4>1, <5>2 DEF Reached
          <6> QED BY <6>1, <5>2, AppendProperties DEF DriverTypes
        <5> QED BY <5>1, <5>2
      <4> QED BY <4>2, <4>3
    <3> QED BY <3>1, <3>2
  <2>2. /\ pc = "call" /\ pc' \in During
        /\ UNCHANGED <<driver, Kind, at, step, container, control, others, limit, adjustors>>
        /\ made' = (made \/ (Points[stage + 1] = "static" /\ ~ Forces))
        /\ stage' = IF Forces \/ Points[stage + 1] = "static" THEN stage ELSE stage + 1
    BY <1>3, PointStep
  <2>3. made' \in BOOLEAN
    BY <2>2
  <2>4. stage' \in Nat
    BY <2>2 DEF DriverTypes
  <2> QED BY <2>1, <2>2, <2>3, <2>4 DEF DriverTypes, During
<1>4. CASE Unwind
  <2>1. limit' \in Nat /\ count' \in Nat /\ adjustors' \in Seq(Adjustor)
    BY <1>4, UnwindStep, RestoreTypes DEF DriverTypes
  <2>2. Kept \in Seq(Nodes)
    BY DEF Kept, DriverTypes
  <2>3. container' \in Seq(Nodes)
    <3>1. container' = container \o Kept /\ container \in Seq(Nodes)
      BY <1>4, UnwindStep DEF DriverTypes
    <3> QED BY <3>1, <2>2, ConcatProperties
  <2> QED BY <1>4, <2>1, <2>3, UnwindStep DEF DriverTypes, During, Ended
<1>5. CASE Caught
  <2>1. container' \in Seq(Nodes)
    <3>1. container' = container \/ container' = << >>
      BY <1>5, CaughtStep DEF DriverTypes
    <3>2. container \in Seq(Nodes)
      BY DEF DriverTypes
    <3>3. << >> \in Seq(Nodes)
      OBVIOUS
    <3> QED BY <3>1, <3>2, <3>3
  <2>2. pc' \in {"begin", "failed"}
    BY <1>5, CaughtStep
  <2> QED BY <1>5, <2>1, <2>2, CaughtStep DEF DriverTypes, During, Ended, condition
<1>6. CASE Finish
  <2>1. limit' \in Nat /\ count' \in Nat /\ adjustors' \in Seq(Adjustor)
    BY <1>6, FinishStep, RestoreTypes DEF DriverTypes
  <2>2. container' \in Seq(Nodes) /\ others' \in [OtherNames -> Seq(Nodes)]
    <3>1. CASE driver = "consistent"
      BY <1>6, <3>1, FinishStep DEF DriverTypes
    <3>2. CASE driver # "consistent"
      <4>1. Effect
        BY <1>6, <3>2, FinishStep
      <4>2. CASE f \in Inserts /\ InsertNode
        BY <4>2, InsertFacts DEF DriverTypes
      <4>3. CASE f \in Removes /\ RemoveNodes
        BY <4>3, RemoveFacts DEF DriverTypes
      <4>4. CASE f = "swap" /\ swap
        BY <4>4 DEF swap, DriverTypes, OtherNames
      <4>5. CASE f = "assign_operator" /\ assign_operator
        BY <4>5 DEF assign_operator, DriverTypes
      <4>6. CASE f = "move_assign_operator" /\ move_assign_operator
        BY <4>6 DEF move_assign_operator, DriverTypes, OtherNames
      <4>7. CASE UNCHANGED <<container, others>>
        BY <4>7 DEF DriverTypes
      <4> QED BY <4>1, <4>2, <4>3, <4>4, <4>5, <4>6, <4>7, EffectCases
    <3> QED BY <3>1, <3>2
  <2>3. << >> \in Seq(Nodes)
    OBVIOUS
  <2>4. at' \in Nat \ {0} /\ step' \in Nat \ {0}
    BY <1>6, FinishStep DEF DriverTypes
  <2>5. /\ pc' = "begin" /\ building' = << >>
        /\ UNCHANGED <<driver, Kind, made, stage, control>>
    BY <1>6, FinishStep
  <2> QED BY <2>1, <2>2, <2>3, <2>4, <2>5 DEF DriverTypes, During
<1>7. CASE End
  <2>1. limit' \in Nat /\ count' \in Nat /\ adjustors' \in Seq(Adjustor)
    BY <1>7, EndStep, RestoreTypes DEF DriverTypes
  <2>2. /\ pc' \in {"check", "passed"}
        /\ container' = << >> /\ control' = << >>
        /\ others' = [g \in OtherNames |-> << >>]
        /\ UNCHANGED <<driver, Kind, at, made, step, stage, building>>
    BY <1>7, EndStep DEF DriverTypes
  <2> QED BY <2>1, <2>2 DEF DriverTypes, During
<1>8. CASE Check \/ UNCHANGED safetyVars
  BY <1>8, OtherStep DEF DriverTypes, During, Ended
<1> QED BY <1>1, <1>2, <1>3, <1>4, <1>5, <1>6, <1>7, <1>8 DEF SafetyNext

-----------------------------------------------------------------------------
(* The limit, and what a call builds.                                       *)

LEMMA LimitKeeps ==
  ASSUME DriverTypes, ConditionInv, [SafetyNext]_safetyVars
  PROVE  ConditionInv'
<1>1. adjustors \in Seq(Adjustor) /\ limit \in Nat /\ count \in Nat /\ step \in Nat
  BY DEF DriverTypes
<1>2. CASE Setup
  <2>1. limit = Never /\ count = 0
    BY <1>2 DEF ConditionInv, Setup, During, Ended
  <2> QED BY <1>1, <1>2, <2>1, SetupStep DEF ConditionInv, During
<1>3. CASE Begin
  <2>1. limit = Never /\ count = 0
    BY <1>3 DEF ConditionInv, Begin, During, Ended
  <2>2. CASE driver = "prohibited"
    BY <1>3, <2>1, <2>2, BeginStep DEF DriverTypes, ConditionInv, condition
  <2>3. CASE driver # "prohibited"
    <3>1. UNCHANGED <<driver, step>> /\ pc' \in {"call"} \cup Ended
      BY <1>3, <2>3, BeginStep DEF DriverTypes, Ended
    <3>2. pc' = "call" => Adjust("limit", step)
      BY <1>3, <2>3, BeginStep DEF DriverTypes
    <3>3. pc' = "call" => limit' = step /\ count' = 0
      BY <1>1, <2>1, <3>2, DriverAdjust
    <3> QED BY <1>1, <2>3, <3>1, <3>3 DEF ConditionInv, During, Ended
  <2> QED BY <2>2, <2>3
<1>4. CASE Point
  <2>1. CASE driver = "prohibited"
    BY <1>4, <2>1, PointStep DEF ConditionInv, condition
  <2>2. CASE driver # "prohibited"
    <3>1. Reached /\ UNCHANGED <<driver, step, limit>> /\ pc' \in During /\ pc = "call"
      BY <1>4, <2>2, PointStep
    <3>2. limit = step /\ count <= limit
      BY <2>2, <3>1 DEF ConditionInv, During
    <3>3. /\ count' = IF count = limit THEN count ELSE count + 1
          /\ pc' = IF count = limit THEN "thrown" ELSE "call"
      BY <3>1 DEF Reached, throw_conditionally, Throws
    <3>4. count' <= limit
      BY <1>1, <3>2, <3>3
    <3> QED BY <2>2, <3>1, <3>2, <3>3, <3>4 DEF ConditionInv, During
  <2> QED BY <2>1, <2>2
<1>5. CASE Unwind
  BY <1>1, <1>5, UnwindStep, DriverRestore DEF ConditionInv, During, Ended, condition
<1>6. CASE Caught
  <2>1. pc' \in {"begin", "failed"} /\ UNCHANGED <<limit, count, driver>> /\ pc = "caught"
    BY <1>6, CaughtStep DEF condition
  <2> QED BY <2>1 DEF ConditionInv, During, Ended
<1>7. CASE Finish
  BY <1>1, <1>7, FinishStep, DriverRestore DEF ConditionInv, During, Ended, condition
<1>8. CASE End
  <2>1. pc' \in {"check", "passed"} /\ driver' = driver /\ pc = "begin"
    BY <1>8, EndStep DEF DriverTypes
  <2>2. Restore \/ (driver = "prohibited" /\ UNCHANGED condition)
    BY <1>8, EndStep DEF DriverTypes
  <2> QED BY <1>1, <2>1, <2>2, DriverRestore DEF ConditionInv, During, Ended, condition
<1>9. CASE Check \/ UNCHANGED safetyVars
  BY <1>9, OtherStep DEF ConditionInv, During, Ended
<1> QED BY <1>2, <1>3, <1>4, <1>5, <1>6, <1>7, <1>8, <1>9 DEF SafetyNext

\* A call goes on: its function is the same and so are its throw points, but
\* for the static that is constructed once.
LEMMA CallGoesOn ==
  ASSUME DriverTypes, BuildingInv, Point
  PROVE  /\ f' = f /\ Inserts' = Inserts
         /\ made' = made \/ (made' /\ ~ made /\ stage = 0 /\ f \in Inserts /\ stage' = 0)
         /\ made' = made => Points' = Points /\ stage' = IF pc' = "thrown" THEN stage ELSE stage + 1
         /\ Points[stage + 1] = "static" => f \in Inserts /\ ~ made /\ stage = 0 /\ stage' = 0
<1>1. UNCHANGED <<driver, Kind, fault, at, container, others>>
  BY PointStep
<1>2. f' = f /\ Inserts' = Inserts /\ Removes' = Removes
  BY <1>1 DEF f, Inserts, Removes, Pops
<1>3. PointsKnown /\ made \in BOOLEAN /\ stage \in Nat
  BY PointsFacts DEF PointTypes, DriverTypes
<1>4. /\ pc = "call" /\ stage < Len(Points) /\ pc' = IF Forces THEN "thrown" ELSE "call"
      /\ made' = (made \/ (Points[stage + 1] = "static" /\ ~ Forces))
      /\ stage' = IF Forces \/ Points[stage + 1] = "static" THEN stage ELSE stage + 1
  BY PointStep
<1>5. Len(Points) \in Nat
  BY <1>3, LenProperties DEF PointsKnown
<1>6. stage + 1 \in 1..Len(Points)
  BY <1>3, <1>4, <1>5
<1>7. Points[stage + 1] = "static" => f \in Inserts /\ ~ made /\ stage = 0 /\ stage' = 0
  <2>1. Points[stage + 1] = "static" => f \in Inserts /\ ~ made /\ stage + 1 = 1
    BY <1>3, <1>6 DEF PointsKnown
  <2> QED BY <2>1, <1>3, <1>4
<1>8. made' = made \/ (made' /\ ~ made /\ Points[stage + 1] = "static")
  BY <1>4, <1>3
<1>9. ASSUME made' = made PROVE Points' = Points
  BY <1>1, <1>2, <1>9 DEF Points, generate_unique, Inserting
<1>10. ASSUME made' = made PROVE stage' = IF pc' = "thrown" THEN stage ELSE stage + 1
  <2>1. CASE Forces
    BY <1>4, <2>1
  <2>2. CASE ~ Forces
    <3>1. Points[stage + 1] # "static"
      <4>1. Points[stage + 1] = "static" => made' /\ ~ made
        BY <1>4, <1>7, <2>2
      <4> QED BY <4>1, <1>10
    <3> QED BY <1>4, <2>2, <3>1
  <2> QED BY <2>1, <2>2
<1> QED BY <1>2, <1>7, <1>8, <1>9, <1>10

LEMMA BuildingKeeps ==
  ASSUME DriverTypes, DriverTypes', BuildingInv, [SafetyNext]_safetyVars
  PROVE  BuildingInv'
<1>1. PointsKnown' /\ PointsKnown
  BY PointsFacts, PointsFactsNext DEF PointTypes, DriverTypes
<1>2. Len(Points) \in Nat /\ Len(Points') \in Nat
  BY <1>1, LenProperties DEF PointsKnown
<1>3. ASSUME pc' \notin During, building' = << >> PROVE BuildingInv'
  BY <1>3 DEF BuildingInv, During
<1>4. CASE Setup
  BY <1>3, <1>4 DEF Setup, BuildingInv, During
<1>5. CASE Begin
  <2>1. /\ building' = building /\ pc = "begin" /\ stage' = 0 /\ pc' # "thrown"
    BY <1>5, BeginStep DEF DriverTypes
  <2>2. building' = << >>
    BY <2>1 DEF BuildingInv, During
  <2>3. 1..0 = {}
    OBVIOUS
  <2>4. stage' <= Len(Points')
    BY <1>2, <2>1
  <2> QED BY <2>1, <2>2, <2>3, <2>4 DEF BuildingInv
<1>6. CASE Point
  <2>1. /\ f' = f /\ Inserts' = Inserts
        /\ made' = made \/ (made' /\ ~ made /\ stage = 0 /\ f \in Inserts /\ stage' = 0)
        /\ made' = made => Points' = Points /\ stage' = IF pc' = "thrown" THEN stage ELSE stage + 1
        /\ Points[stage + 1] = "static" => f \in Inserts /\ ~ made /\ stage = 0 /\ stage' = 0
    BY <1>6, CallGoesOn
  <2>2. /\ pc = "call" /\ stage < Len(Points) /\ pc' \in During /\ driver' = driver
        /\ made' = (made \/ (Points[stage + 1] = "static" /\ ~ Forces))
        /\ driver = "prohibited" =>
             UNCHANGED <<condition, annotations, heap, building>> /\ pc' = "thrown" /\ stage' = stage
        /\ driver # "prohibited" => Reached
        /\ pc' = IF Forces THEN "thrown" ELSE "call"
    BY <1>6, PointStep
  <2>3. stage \in Nat /\ stage' \in Nat /\ made \in BOOLEAN /\ building \in Seq(Nodes)
    BY DEF DriverTypes
  <2>4. stage + 1 \in 1..Len(Points)
    BY <1>2, <2>2, <2>3
  <2>5. building' # << >> => f \in Inserts \cup {"assign_operator"}
    <3>1. CASE building # << >>
      BY <3>1 DEF BuildingInv
    <3>2. CASE building' # building
      <4>1. Points[stage + 1] = "alloc"
        BY <2>2, <3>2 DEF Reached
      <4> QED BY <1>1, <2>4, <4>1 DEF PointsKnown
    <3> QED BY <3>1, <3>2
  <2>6. stage' <= Len(Points') /\ (pc' = "thrown" => stage' < Len(Points'))
    <3>1. CASE made' = made
      BY <1>2, <2>1, <2>2, <2>3, <3>1 DEF During
    <3>2. CASE made' # made
      <4>1. stage' = 0 /\ ~ Forces
        BY <2>1, <2>2, <2>3, <3>2
      <4> QED BY <1>2, <2>2, <4>1
    <3> QED BY <3>1, <3>2
  <2>7. (f \in Inserts /\ ~ made') => stage' = 0
    <3>1. SUFFICES ASSUME f \in Inserts, ~ made' PROVE stage' = 0
      OBVIOUS
    <3>2. ~ made
      BY <2>2, <3>1
    <3>3. stage = 0
      BY <2>2, <3>1, <3>2 DEF BuildingInv, During
    <3>4. Points[stage + 1] = "static"
      BY <1>1, <3>1, <3>2, <3>3 DEF PointsKnown
    <3> QED BY <2>1, <3>4
  <2>8. ASSUME driver # "prohibited", NEW j \in 1..stage', Points'[j] = "alloc"
        PROVE  building' # << >>
    <3>1. Reached
      BY <2>2, <2>8
    <3>2. building # << >> => building' # << >>
      <4>1. SUFFICES ASSUME building # << >>, building' # building PROVE building' # << >>
        OBVIOUS
      <4>2. PICK p \in Nodes : building' = Append(building, p)
        BY <3>1, <4>1 DEF Reached
      <4> QED BY <2>3, <4>2, AppendProperties
    <3>3. made' = made /\ Points' = Points /\ stage' = IF pc' = "thrown" THEN stage ELSE stage + 1
      BY <2>1, <2>3, <2>8
    <3>4. CASE j \in 1..stage
      <4>1. building # << >>
        BY <2>2, <2>8, <3>3, <3>4 DEF BuildingInv, During
      <4> QED BY <3>2, <4>1
    <3>5. CASE j = stage + 1 /\ pc' # "thrown"
      <4>1. Points[stage + 1] = "alloc"
        BY <2>8, <3>3, <3>5
      <4>2. ~ Throws
        BY <3>1, <3>5 DEF Reached
      <4>3. PICK p \in Nodes : building' = Append(building, p)
        BY <3>1, <4>1, <4>2 DEF Reached
      <4> QED BY <2>3, <4>3, AppendProperties
    <3> QED BY <2>3, <2>8, <3>3, <3>4, <3>5
  <2>9. driver = "prohibited" => stage' = 0
    BY <2>2 DEF BuildingInv, During
  <2> QED BY <2>1, <2>2, <2>5, <2>6, <2>7, <2>8, <2>9 DEF BuildingInv
<1>7. CASE Unwind
  <2>1. pc' \notin During /\ building' = << >>
    BY <1>7, UnwindStep DEF During
  <2> QED BY <1>3, <2>1
<1>8. CASE Caught
  <2>1. pc' \notin During /\ building' = building /\ pc = "caught"
    BY <1>8, CaughtStep DEF During
  <2>2. building' = << >>
    BY <2>1 DEF BuildingInv, During
  <2> QED BY <1>3, <2>1, <2>2
<1>9. CASE Finish
  <2>1. pc' \notin During /\ building' = << >>
    BY <1>9, FinishStep DEF During
  <2> QED BY <1>3, <2>1
<1>10. CASE End
  <2>1. pc' \notin During /\ building' = building /\ pc = "begin"
    BY <1>10, EndStep DEF During, DriverTypes
  <2>2. building' = << >>
    BY <2>1 DEF BuildingInv, During
  <2> QED BY <1>3, <2>1, <2>2
<1>11. CASE Check \/ UNCHANGED safetyVars
  <2>1. UNCHANGED <<driver, Kind, fault, at, made, stage, container, others, building>>
        /\ (pc' = pc \/ (pc = "check" /\ pc' \notin During))
    BY <1>11, OtherStep DEF During
  <2>2. f' = f /\ Inserts' = Inserts /\ Removes' = Removes
    BY <2>1 DEF f, Inserts, Removes, Pops
  <2>3. Points' = Points
    BY <2>1, <2>2 DEF Points, generate_unique, Inserting
  <2>4. CASE pc' = pc
    BY <2>1, <2>2, <2>3, <2>4 DEF BuildingInv
  <2>5. CASE pc = "check" /\ pc' \notin During
    <3>1. building' = << >>
      BY <2>1, <2>5 DEF BuildingInv, During
    <3> QED BY <1>3, <2>5, <3>1
  <2> QED BY <2>1, <2>4, <2>5
<1> QED BY <1>4, <1>5, <1>6, <1>7, <1>8, <1>9, <1>10, <1>11 DEF SafetyNext

-----------------------------------------------------------------------------
(* propagation_consistent forces every throw point of the container.        *)

LEMMA ForcedKeeps ==
  ASSUME DriverTypes, ConditionInv, BuildingInv, ForcedInv, [SafetyNext]_safetyVars
  PROVE  ForcedInv'
<1> SUFFICES ASSUME driver' = "consistent" PROVE ForcedInv'
  BY DEF ForcedInv
<1>1. driver' = driver
  BY SetupStep, BeginStep, PointStep, UnwindStep, CaughtStep, FinishStep, EndStep, OtherStep
     DEF SafetyNext, Setup, Begin, End, where, DriverTypes
<1>2. driver = "consistent" /\ untried = {}
  BY <1>1 DEF ForcedInv
<1>3. PointsKnown
  BY PointsFacts DEF PointTypes, DriverTypes
<1>4. ASSUME f' = f, Inserts' = Inserts, Inserting' = Inserting, untried' = untried,
             pc' \in {"begin", "call", "thrown", "caught"}, Trying, at' = at,
             f \in Inserts =>
               /\ \A k \in 3..Len(Inserting) :
                    k <= (IF pc' \in {"thrown", "caught"} THEN step' + 1 ELSE step') => Inserting[k] \in forced'
               /\ ~ made' => step' = 1
               /\ pc' \in During => count' = stage' \/ (count' = stage' + 1 /\ step' = 1 /\ made')
               /\ pc' \in {"thrown", "caught"} => made'
      PROVE  ForcedInv'
  BY <1>2, <1>4 DEF ForcedInv, During
<1>5. step \in Nat \ {0} /\ stage \in Nat /\ count \in Nat /\ limit \in Nat
  BY DEF DriverTypes
<1>6. CASE Setup
  <2>1. /\ pc' = "begin" /\ step' = 1 /\ untried' = untried
    BY <1>6 DEF Setup, where, history, DriverTypes
  <2>2. \A k \in 3..Len(Inserting') : ~ (k <= 1)
    OBVIOUS
  <2> QED BY <1>2, <2>1, <2>2 DEF ForcedInv, During
<1>7. CASE Begin
  <2>1. /\ pc = "begin" /\ at <= Len(Order[driver]) /\ stage' = 0
        /\ UNCHANGED <<driver, Kind, fault, made, step, forced, untried, at>>
        /\ pc' \in {"call", "failed"}
        /\ pc' = "call" => Adjust("limit", step)
    BY <1>2, <1>7, BeginStep
  <2>2. f' = f /\ Inserts' = Inserts /\ Inserting' = Inserting
    BY <2>1 DEF f, Inserts, Inserting
  <2>3. Trying
    BY <2>1 DEF Trying
  <2>4. CASE pc' = "call"
    <3>1. count' = 0
      BY <2>1, <2>4 DEF Adjust, set_limit
    <3> QED BY <1>2, <1>4, <2>1, <2>2, <2>3, <2>4, <3>1 DEF ForcedInv
  <2>5. CASE pc' = "failed"
    BY <1>2, <2>1, <2>5 DEF ForcedInv, Trying, During
  <2> QED BY <2>1, <2>4, <2>5
<1>8. CASE Point
  <2>1. /\ f' = f /\ Inserts' = Inserts
        /\ made' = made \/ (made' /\ ~ made /\ stage = 0 /\ f \in Inserts /\ stage' = 0)
        /\ made' = made => Points' = Points /\ stage' = IF pc' = "thrown" THEN stage ELSE stage + 1
        /\ Points[stage + 1] = "static" => f \in Inserts /\ ~ made /\ stage = 0 /\ stage' = 0
    BY <1>8, CallGoesOn
  <2>2. /\ pc = "call" /\ stage < Len(Points) /\ pc' \in During
        /\ UNCHANGED <<driver, Kind, at, step, untried>>
        /\ made' = (made \/ (Points[stage + 1] = "static" /\ ~ Forces))
        /\ forced' = IF Forces THEN forced \cup {Points[stage + 1]} ELSE forced
        /\ pc' = IF Forces THEN "thrown" ELSE "call"
        /\ Reached
    BY <1>2, <1>8, PointStep
  <2>3. Trying
    BY <2>2 DEF Trying, DriverTypes, During
  <2>4. Inserting' = Inserting
    BY <2>2 DEF Inserting
  <2>5. count' = IF count = limit THEN count ELSE count + 1
    BY <2>2 DEF Reached, throw_conditionally, Throws
  <2>6. Forces <=> count = limit
    BY <1>2 DEF Forces, Throws
  <2>7. limit = step /\ count <= limit
    BY <1>2, <2>2 DEF ConditionInv, During
  <2>8. ASSUME f \in Inserts
        PROVE  /\ \A k \in 3..Len(Inserting) : k <= step => Inserting[k] \in forced
               /\ ~ made => step = 1
               /\ count = stage \/ (count = stage + 1 /\ step = 1 /\ made)
               /\ ~ made => stage = 0
    BY <1>2, <2>2, <2>3, <2>8 DEF ForcedInv, BuildingInv, During
  <2>9. CASE ~ Forces
    <3>1. pc' = "call" /\ forced' = forced /\ count' = count + 1
      BY <2>2, <2>5, <2>6, <2>9
    <3>2. ASSUME f \in Inserts
          PROVE  /\ ~ made' => step' = 1
                 /\ count' = stage' \/ (count' = stage' + 1 /\ step' = 1 /\ made')
      <4>1. CASE made' = made
        BY <1>5, <2>1, <2>2, <2>8, <3>1, <3>2, <4>1
      <4>2. CASE made' # made
        BY <1>5, <2>1, <2>2, <2>8, <3>1, <3>2, <4>2
      <4> QED BY <4>1, <4>2
    <3>3. f \in Inserts => \A k \in 3..Len(Inserting) : k <= step' => Inserting[k] \in forced'
      BY <2>2, <2>8, <3>1
    <3> QED BY <1>4, <2>1, <2>2, <2>3, <2>4, <3>1, <3>2, <3>3
  <2>10. CASE Forces
    <3>1. /\ pc' = "thrown" /\ forced' = forced \cup {Points[stage + 1]}
          /\ count' = count /\ count = step
      BY <2>2, <2>5, <2>6, <2>7, <2>10
    <3>2. ASSUME f \in Inserts
          PROVE  /\ made /\ made' = made /\ stage' = stage
                 /\ count' = stage' \/ (count' = stage' + 1 /\ step' = 1 /\ made')
                 /\ \A k \in 3..Len(Inserting) : k <= step' + 1 => Inserting[k] \in forced'
      <4>1. made
        BY <1>5, <2>8, <3>1, <3>2
      <4>2. made' = made
        BY <2>1, <4>1
      <4>3. stage' = stage
        BY <2>1, <3>1, <4>2
      <4>4. Points = Inserting
        BY <3>2, <4>1, InsertPoints
      <4>5. ASSUME NEW k \in 3..Len(Inserting), k <= step + 1 PROVE Inserting[k] \in forced'
        <5>1. CASE k <= step
          BY <2>8, <3>1, <3>2, <5>1
        <5>2. CASE k = step + 1
          <6>1. count = stage
            BY <1>5, <2>8, <3>2, <5>2
          <6>2. k = stage + 1
            BY <3>1, <5>2, <6>1
          <6> QED BY <3>1, <4>4, <6>2
        <5>3. k \in Int
          OBVIOUS
        <5> QED BY <1>5, <4>5, <5>1, <5>2, <5>3
      <4> QED BY <2>2, <2>8, <3>1, <3>2, <4>1, <4>2, <4>3, <4>5
    <3> QED BY <1>4, <2>1, <2>2, <2>3, <2>4, <3>1, <3>2
  <2> QED BY <2>9, <2>10
<1>9. CASE Unwind
  <2>1. /\ pc = "thrown" /\ pc' = "caught"
        /\ UNCHANGED <<driver, Kind, at, made, step, stage, forced, untried>>
    BY <1>2, <1>9, UnwindStep
  <2>2. f' = f /\ Inserts' = Inserts /\ Inserting' = Inserting
    BY <2>1 DEF f, Inserts, Inserting
  <2>3. Trying
    BY <2>1 DEF Trying, DriverTypes, During
  <2>4. f \in Inserts => made /\ \A k \in 3..Len(Inserting) : k <= step + 1 => Inserting[k] \in forced
    BY <1>2, <2>1, <2>3 DEF ForcedInv, During
  <2> QED BY <1>4, <2>1, <2>2, <2>3, <2>4 DEF During
<1>10. CASE Caught
  <2>1. /\ pc = "caught" /\ pc' \in {"begin", "failed"} /\ step' = step + 1
        /\ UNCHANGED <<driver, Kind, at, made, forced, untried>>
    BY <1>2, <1>10, CaughtStep
  <2>2. f' = f /\ Inserts' = Inserts /\ Inserting' = Inserting
    BY <2>1 DEF f, Inserts, Inserting
  <2>3. Trying
    BY <2>1 DEF Trying, DriverTypes
  <2>4. f \in Inserts => made /\ \A k \in 3..Len(Inserting) : k <= step + 1 => Inserting[k] \in forced
    BY <1>2, <2>1, <2>3 DEF ForcedInv
  <2>5. CASE pc' = "begin"
    BY <1>4, <2>1, <2>2, <2>3, <2>4, <2>5 DEF During
  <2>6. CASE pc' = "failed"
    BY <1>2, <2>1, <2>6 DEF ForcedInv, Trying, During
  <2> QED BY <2>1, <2>5, <2>6
<1>11. CASE Finish
  <2>1. /\ pc = "call" /\ stage = Len(Points) /\ pc' = "begin" /\ step' = 1
        /\ untried' = untried \cup {<<f, k>> : k \in (Range(Points) \cap Own) \ forced}
    BY <1>2, <1>11, FinishStep
  <2>2. limit = step /\ count <= limit
    BY <1>2, <2>1 DEF ConditionInv, During
  <2>3. (Range(Points) \cap Own) \subseteq forced
    <3>1. CASE f \notin Inserts
      <4>1. f \notin Removes \cup OtherNames
        BY <1>2, <2>1, ConsistentFacts DEF DriverTypes, During
      <4>2. Points = << >>
        BY <1>3, <3>1, <4>1 DEF PointsKnown, OtherNames
      <4> QED BY <4>2 DEF Range
    <3>2. CASE f \in Inserts
      <4>1. Trying
        BY <2>1 DEF Trying, DriverTypes, During
      <4>2. /\ \A k \in 3..Len(Inserting) : k <= step => Inserting[k] \in forced
            /\ count = stage \/ (count = stage + 1 /\ step = 1 /\ made)
            /\ ~ made => stage = 0
        BY <1>2, <2>1, <3>2, <4>1 DEF ForcedInv, BuildingInv, During
      <4>3. made
        <5>1. SUFFICES ASSUME ~ made PROVE FALSE
          OBVIOUS
        <5>2. Points = <<"static">> \o Inserting
          BY <3>2, <5>1, InsertPoints DEF DriverTypes
        <5>3. Len(Points) = Len(Inserting) + 1 /\ Len(Inserting) \in {4, 5}
          BY <5>2, StaticFacts, InsertingFacts
        <5> QED BY <2>1, <4>2, <5>1, <5>3
      <4>4. Points = Inserting
        BY <3>2, <4>3, InsertPoints DEF DriverTypes
      <4>5. Len(Inserting) \in {4, 5} /\ Inserting \in Seq(Marks)
            /\ Inserting[1] = "inc" /\ Inserting[2] = "copy"
        BY InsertingFacts
      <4>6. DOMAIN Inserting = 1..Len(Inserting)
        BY <4>5, LenProperties
      <4>7. Len(Inserting) <= step
        BY <1>5, <2>1, <2>2, <4>2, <4>4
      <4>8. ASSUME NEW k \in 1..Len(Inserting), Inserting[k] \in Own PROVE Inserting[k] \in forced
        <5>1. k # 1 /\ k # 2
          BY <4>5, <4>8 DEF Own
        <5>2. k \in 3..Len(Inserting) /\ k <= step
          BY <1>5, <4>5, <4>7, <5>1
        <5> QED BY <4>2, <5>2
      <4> QED BY <4>4, <4>6, <4>8 DEF Range
    <3> QED BY <3>1, <3>2
  <2>4. untried' = {}
    BY <1>2, <2>1, <2>3
  <2>5. \A k \in 3..Len(Inserting') : ~ (k <= 1)
    OBVIOUS
  <2> QED BY <2>1, <2>4, <2>5 DEF ForcedInv, During
<1>12. CASE End
  <2>1. pc' \in {"check", "passed"} /\ untried' = untried
    BY <1>12 DEF End
  <2> QED BY <1>2, <2>1 DEF ForcedInv, Trying, During
<1>13. CASE Check \/ UNCHANGED safetyVars
  <2>1. /\ UNCHANGED <<driver, Kind, at, made, step, stage, count, forced, untried>>
        /\ (pc' = pc \/ (pc = "check" /\ pc' \in {"passed", "failed"}))
    BY <1>13, OtherStep
  <2>2. f' = f /\ Inserts' = Inserts /\ Inserting' = Inserting
    BY <2>1 DEF f, Inserts, Inserting
  <2>3. CASE pc' = pc
    BY <2>1, <2>2, <2>3 DEF ForcedInv, Trying
  <2>4. CASE pc' \in {"passed", "failed"}
    BY <1>2, <2>1, <2>4 DEF ForcedInv, Trying, During
  <2> QED BY <2>1, <2>3, <2>4
<1> QED BY <1>6, <1>7, <1>8, <1>9, <1>10, <1>11, <1>12, <1>13 DEF SafetyNext

-----------------------------------------------------------------------------
(* basic_safety has something to pop.                                       *)

\* A call that has passed the points of an insertion has built something.
LEMMA InsertBuilt ==
  ASSUME DriverTypes, BuildingInv, pc = "call", stage = Len(Points), f \in Inserts, driver # "prohibited"
  PROVE  building # << >> /\ made
<1>1. made \in BOOLEAN
  BY DEF DriverTypes
<1>2. made
  <2>1. SUFFICES ASSUME ~ made PROVE FALSE
    OBVIOUS
  <2>2. Points = <<"static">> \o Inserting
    BY <1>1, <2>1, InsertPoints
  <2>3. Len(Points) = Len(Inserting) + 1 /\ Len(Inserting) \in {4, 5}
    BY <2>2, StaticFacts, InsertingFacts
  <2>4. stage = 0
    BY <2>1 DEF BuildingInv, During
  <2> QED BY <2>3, <2>4
<1>3. Points = Inserting
  BY <1>1, <1>2, InsertPoints
<1>4. PICK i \in 3..Len(Inserting) : Inserting[i] = "alloc"
  BY InsertingFacts
<1>5. Len(Inserting) \in {4, 5}
  BY InsertingFacts
<1>6. i \in 1..stage /\ Points[i] = "alloc"
  BY <1>3, <1>4, <1>5
<1>7. building # << >>
  BY <1>6 DEF BuildingInv, During
<1> QED BY <1>2, <1>7

LEMMA PopsKeeps ==
  ASSUME DriverTypes, DriverTypes', BuildingInv, PopsInv, [SafetyNext]_safetyVars
  PROVE  PopsInv'
<1>1. SUFFICES ASSUME driver' = "basic", Kind' = "list",
                      pc' \in {"begin", "call", "thrown", "caught", "undefined"}
               PROVE  Len(container') >= SureOf' /\ pc' # "undefined"
  BY DEF PopsInv
<1>2. driver = "basic" /\ Kind = "list"
  BY <1>1, SetupStep, BeginStep, PointStep, UnwindStep, CaughtStep, FinishStep, EndStep, OtherStep
     DEF SafetyNext, Setup, Begin, End, where, DriverTypes
<1>3. at \in Nat /\ container \in Seq(Nodes) /\ container' \in Seq(Nodes) /\ building \in Seq(Nodes)
  BY DEF DriverTypes
<1>4. Len(container) \in Nat /\ Len(container') \in Nat /\ Len(building) \in Nat
  BY <1>3, LenProperties
<1>5. ASSUME at' = at PROVE SureOf' = SureOf
  BY <1>5 DEF SureOf
<1>6. ASSUME pc \in {"begin", "call", "thrown", "caught", "undefined"}
      PROVE  Len(container) >= SureOf /\ pc # "undefined"
  BY <1>2, <1>6 DEF PopsInv
<1>7. SureOf \in 0..2
  BY <1>3 DEF SureOf
<1>8. CASE Setup
  <2>1. at' = 1 /\ pc' = "begin"
    BY <1>8 DEF DriverTypes, Setup, where
  <2>2. SureOf' = 0
    BY <2>1 DEF SureOf
  <2> QED BY <1>4, <2>1, <2>2
<1>9. CASE Begin
  <2>1. /\ pc = "begin" /\ at <= Len(Order[driver]) /\ UNCHANGED <<container, at>>
        /\ pc' = "undefined" => container = << >> /\ f \in Pops
    BY <1>2, <1>9, BeginStep
  <2>2. Len(container) >= SureOf
    BY <1>6, <2>1
  <2>3. pc' # "undefined"
    <3>1. SUFFICES ASSUME container = << >>, f \in Pops PROVE FALSE
      BY <2>1
    <3>2. at \in 1..Len(Order[driver])
      BY <2>1, OrderFacts DEF DriverTypes
    <3>3. at \in {10, 11}
      BY <1>2, <3>1, <3>2, BasicFacts
    <3>4. SureOf >= 1
      BY <3>3 DEF SureOf
    <3>5. Len(container) = 0
      BY <3>1
    <3> QED BY <1>7, <2>2, <3>4, <3>5
  <2> QED BY <1>5, <2>1, <2>2, <2>3
<1>10. CASE Point
  <2>1. pc = "call" /\ pc' \in During /\ UNCHANGED <<container, at>>
    BY <1>10, PointStep
  <2> QED BY <1>5, <1>6, <2>1 DEF During
<1>11. CASE Unwind
  <2>1. pc = "thrown" /\ pc' = "caught" /\ at' = at /\ container' = container \o Kept
    BY <1>2, <1>11, UnwindStep
  <2>2. Kept \in Seq(Nodes)
    BY <1>3 DEF Kept
  <2>3. Len(container') = Len(container) + Len(Kept) /\ Len(Kept) \in Nat
    BY <1>3, <2>1, <2>2, ConcatProperties, LenProperties
  <2> QED BY <1>4, <1>5, <1>6, <1>7, <2>1, <2>3
<1>12. CASE Caught
  <2>1. pc = "caught" /\ UNCHANGED <<container, at>> /\ pc' \in {"begin", "failed"}
    BY <1>2, <1>12, CaughtStep
  <2> QED BY <1>5, <1>6, <2>1
<1>13. CASE Finish
  <2>1. pc = "call" /\ stage = Len(Points) /\ at' = at + 1 /\ pc' = "begin" /\ Effect
    BY <1>2, <1>13, FinishStep
  <2>2. at \in 1..Len(Order[driver])
    BY <2>1 DEF DriverTypes, During
  <2>3. /\ at \in 1..18
        /\ at = 5 => f = "insert_point"
        /\ at = 7 => f = "emplace_point"
        /\ at = 8 => f = "emplace_front"
        /\ at = 9 => f = "emplace_back"
        /\ at = 6 => f = "emplace"
        /\ at = 10 => f = "pop_front"
        /\ at = 11 => f = "pop_back"
    BY <1>2, <2>2, BasicFacts
  <2>4. Len(container) >= SureOf
    BY <1>6, <2>1
  <2>5. SureOf = IF at \in {6, 7, 11} THEN 1 ELSE IF at \in {8, 9, 10} THEN 2 ELSE 0
    BY DEF SureOf
  <2>6. SureOf' = IF at + 1 \in {6, 7, 11} THEN 1 ELSE IF at + 1 \in {8, 9, 10} THEN 2 ELSE 0
    BY <2>1 DEF SureOf
  <2>7. f \in Inserts => Len(container') >= Len(container) + 1
    <3>1. SUFFICES ASSUME f \in Inserts PROVE Len(container') >= Len(container) + 1
      OBVIOUS
    <3>2. InsertNode
      <4>1. f \notin Removes \cup OtherNames
        BY <3>1 DEF Inserts, Removes, Pops, OtherNames
      <4> QED BY <2>1, <3>1, <4>1, EffectCases DEF OtherNames
    <3>3. Len(container') = Len(container) + Len(building)
      BY <1>3, <3>2, InsertFacts
    <3>4. building # << >>
      BY <1>2, <2>1, <3>1, InsertBuilt
    <3>5. Len(building) # 0
      BY <1>3, <3>4, EmptySeq
    <3> QED BY <1>4, <3>3, <3>5
  <2>8. f \in Pops => Len(container') = Len(container) - 1
    <3>1. SUFFICES ASSUME f \in Pops PROVE Len(container') = Len(container) - 1
      OBVIOUS
    <3>2. f \in Removes /\ f \notin Inserts \cup OtherNames
      BY <3>1 DEF Removes, Pops, Inserts, OtherNames
    <3>3. RemoveNodes
      BY <2>1, <3>2, EffectCases DEF OtherNames
    <3> QED BY <1>3, <3>1, <3>2, <3>3, RemoveFacts
  <2>9. f = "emplace" => Len(container') = Len(container)
    <3>1. f = "emplace" => f \notin Inserts \cup Removes \cup OtherNames
      BY <1>2 DEF Inserts, Removes, Pops, OtherNames
    <3> QED BY <2>1, <3>1, EffectCases DEF OtherNames
  <2>10. /\ at \in {5, 7, 8, 9} => f \in Inserts
         /\ at \in {10, 11} => f \in Pops
    BY <1>2, <2>3 DEF Inserts, Pops
  <2> QED BY <1>4, <2>1, <2>3, <2>4, <2>5, <2>6, <2>7, <2>8, <2>9, <2>10
<1>14. CASE End
  BY <1>1, <1>2, <1>14, EndStep DEF DriverTypes
<1>15. CASE Check \/ UNCHANGED safetyVars
  <2>1. UNCHANGED <<container, at>> /\ (pc' = pc \/ (pc = "check" /\ pc' \in {"passed", "failed"}))
    BY <1>15, OtherStep
  <2> QED BY <1>1, <1>5, <1>6, <2>1
<1> QED BY <1>8, <1>9, <1>10, <1>11, <1>12, <1>13, <1>14, <1>15 DEF SafetyNext

-----------------------------------------------------------------------------
(* basic_safety owns its nodes.                                             *)

\* A step that gives the nodes of x back and takes none.
Freed(x) ==
  /\ DOMAIN map_alloc' = DOMAIN map_alloc \ x /\ DOMAIN heap' = DOMAIN heap \ x
  /\ DOMAIN map_construct' = DOMAIN map_construct \ x
  /\ \A p \in DOMAIN map_alloc' : map_alloc'[p] = map_alloc[p]
  /\ \A p \in DOMAIN map_construct' : map_construct'[p] = map_construct[p]

LEMMA FreeFreed ==
  /\ \A x : Free(x) => Freed(x)
  /\ UNCHANGED <<map_alloc, map_construct, heap>> => Freed({})
BY DEF Free, Freed, Without

\* The nodes of a driver of basic_safety after a step that takes none.
Keeping(x, lost) ==
  /\ Freed(x) /\ Apart'
  /\ Owned' \subseteq Owned \ x /\ Owned \subseteq Owned' \cup x \cup lost

LEMMA EmptyFacts ==
  /\ << >> \in Seq(Nodes) /\ Range(<< >>) = {} /\ IsInjective(<< >>)
  /\ \A s \in Seq(Nodes) : s # << >> => Last(s) \in Range(s)
<1>1. << >> \in Seq(Nodes) /\ Range(<< >>) = {} /\ IsInjective(<< >>)
  BY DEF Range, IsInjective
<1>2. ASSUME NEW s \in Seq(Nodes), s # << >> PROVE Last(s) \in Range(s)
  <2>1. DOMAIN s = 1..Len(s) /\ Len(s) \in Nat /\ Len(s) # 0
    BY <1>2, LenProperties, EmptySeq
  <2> QED BY <2>1 DEF Last, Range
<1> QED BY <1>1, <1>2

LEMMA FinishOwned ==
  ASSUME DriverTypes, DriverTypes', BuildingInv, OwnedInv, driver = "basic", Finish
  PROVE  \E x : Keeping(x, {})
<1>1. /\ container \in Seq(Nodes) /\ building \in Seq(Nodes)
      /\ others \in [OtherNames -> Seq(Nodes)]
  BY DEF DriverTypes
<1>2. Effect /\ building' = << >>
  BY FinishStep
<1>3. Apart
  BY DEF OwnedInv
<1>4. Range(building') = {} /\ IsInjective(building')
  BY <1>2, EmptyFacts
<1>5. building # << >> => f \in Inserts \cup {"assign_operator"}
  BY DEF BuildingInv
<1>6. f \notin Inserts \cup {"assign_operator"} => Range(building) = {}
  BY <1>5, EmptyFacts
<1>7. CASE f \in Inserts /\ InsertNode
  <2>1. /\ UNCHANGED <<map_alloc, map_construct, heap, others>>
        /\ Range(container') = Range(container) \cup Range(building)
        /\ IsInjective(container')
    BY <1>1, <1>3, <1>7, InsertFacts DEF Apart
  <2>2. Apart'
    BY <1>3, <1>4, <2>1 DEF Apart
  <2>3. Owned' = Owned
    BY <1>4, <2>1 DEF Owned
  <2>4. Freed({})
    BY <2>1, FreeFreed
  <2> QED BY <2>2, <2>3, <2>4 DEF Keeping
<1>8. CASE f \in Removes /\ RemoveNodes
  <2>1. PICK x \in SUBSET Nodes :
           /\ Free(x) /\ UNCHANGED others
           /\ Range(container) = Range(container') \cup x
           /\ IsInjective(container) => IsInjective(container') /\ Range(container') \cap x = {}
    BY <1>1, <1>8, RemoveFacts
  <2>2. f \notin Inserts \cup {"assign_operator"}
    BY <1>8 DEF Inserts, Removes, Pops
  <2>3. Apart'
    BY <1>3, <1>4, <2>1 DEF Apart
  <2>4. Owned' \subseteq Owned \ x
    BY <1>3, <1>4, <2>1 DEF Owned, Apart
  <2>5. Owned \subseteq Owned' \cup x
    BY <1>6, <2>1, <2>2 DEF Owned
  <2>6. Freed(x)
    BY <2>1, FreeFreed
  <2> QED BY <2>3, <2>4, <2>5, <2>6 DEF Keeping
<1>9. CASE f = "swap" /\ swap
  <2>1. /\ container' = others["swap"] /\ others' = [others EXCEPT !["swap"] = container]
        /\ UNCHANGED <<map_alloc, map_construct, heap>>
    BY <1>9 DEF swap
  <2>2. /\ others'["swap"] = container
        /\ \A g \in OtherNames \ {"swap"} : others'[g] = others[g]
        /\ "swap" \in OtherNames
    BY <1>1, <2>1 DEF OtherNames
  <2>3. f \notin Inserts \cup {"assign_operator"}
    BY <1>9 DEF Inserts
  <2>4. Apart'
    <3>1. \A g \in OtherNames : IsInjective(others'[g])
      BY <1>3, <2>2 DEF Apart
    <3>2. \A g \in OtherNames : Range(others'[g]) \cap Range(container') = {}
      BY <1>3, <2>1, <2>2 DEF Apart
    <3>3. \A g \in OtherNames : \A h \in OtherNames \ {g} : Range(others'[g]) \cap Range(others'[h]) = {}
      BY <1>3, <2>2 DEF Apart
    <3>4. IsInjective(container')
      BY <1>3, <2>1, <2>2 DEF Apart
    <3> QED BY <1>4, <3>1, <3>2, <3>3, <3>4 DEF Apart
  <2>5. Owned' = Owned
    <3>1. Range(building) = {}
      BY <1>6, <2>3
    <3> DEFINE All == UNION {Range(others[g]) : g \in OtherNames}
               All2 == UNION {Range(others'[g]) : g \in OtherNames}
    <3>2. All2 \cup Range(container') = All \cup Range(container)
      BY <2>1, <2>2
    <3>3. Owned' = Range(container') \cup Range(building') \cup All2
      BY DEF Owned
    <3>4. Owned = Range(container) \cup Range(building) \cup All
      BY DEF Owned
    <3> HIDE DEF All, All2
    <3> QED BY <1>4, <3>1, <3>2, <3>3, <3>4
  <2>6. Freed({})
    BY <2>1, FreeFreed
  <2> QED BY <2>4, <2>5, <2>6 DEF Keeping
<1>10. CASE f = "assign_operator" /\ assign_operator
  <2>1. Free(Range(building)) /\ UNCHANGED <<container, others>>
    BY <1>10 DEF assign_operator
  <2>2. Apart'
    BY <1>3, <1>4, <2>1 DEF Apart
  <2>3. Owned' \subseteq Owned \ Range(building) /\ Owned \subseteq Owned' \cup Range(building)
    BY <1>3, <1>4, <2>1 DEF Owned, Apart
  <2>4. Freed(Range(building))
    BY <2>1, FreeFreed
  <2> QED BY <2>2, <2>3, <2>4 DEF Keeping
<1>11. CASE f = "move_assign_operator" /\ move_assign_operator
  <2> DEFINE m == "move_assign_operator"
  <2>1. /\ container' = others[m] /\ others' = [others EXCEPT ![m] = << >>]
        /\ Free(Range(container))
    BY <1>11 DEF move_assign_operator
  <2>2. /\ others'[m] = << >>
        /\ \A g \in OtherNames \ {m} : others'[g] = others[g]
        /\ m \in OtherNames
    BY <1>1, <2>1 DEF OtherNames
  <2> HIDE DEF m
  <2>3. f \notin Inserts \cup {"assign_operator"}
    BY <1>11 DEF Inserts
  <2>4. Apart'
    <3>1. \A g \in OtherNames : IsInjective(others'[g])
      BY <1>3, <2>2, EmptyFacts DEF Apart
    <3>2. \A g \in OtherNames : Range(others'[g]) \cap Range(container') = {}
      BY <1>3, <2>1, <2>2, EmptyFacts DEF Apart
    <3>3. \A g \in OtherNames : \A h \in OtherNames \ {g} : Range(others'[g]) \cap Range(others'[h]) = {}
      BY <1>3, <2>2, EmptyFacts DEF Apart
    <3>4. IsInjective(container')
      BY <1>3, <2>1, <2>2 DEF Apart
    <3> QED BY <1>4, <3>1, <3>2, <3>3, <3>4 DEF Apart
  <2>5. Range(building) = {}
    BY <1>6, <2>3
  <2>6. Owned' \subseteq Owned \ Range(container)
    <3>1. \A g \in OtherNames : Range(others'[g]) \subseteq Range(others[g])
      BY <2>2, EmptyFacts
    <3>2. \A g \in OtherNames : Range(others[g]) \cap Range(container) = {}
      BY <1>3 DEF Apart
    <3>3. Range(container') \subseteq Range(others[m])
      BY <2>1
    <3> QED BY <1>4, <2>2, <3>1, <3>2, <3>3 DEF Owned
  <2>7. Owned \subseteq Owned' \cup Range(container)
    <3>1. \A g \in OtherNames : Range(others[g]) \subseteq Range(others'[g]) \cup Range(container')
      BY <2>1, <2>2
    <3> QED BY <2>5, <3>1 DEF Owned
  <2>8. Freed(Range(container))
    BY <2>1, FreeFreed
  <2> QED BY <2>4, <2>6, <2>7, <2>8 DEF Keeping
<1>12. CASE f \notin Inserts \cup Removes \cup OtherNames
            /\ UNCHANGED <<map_alloc, map_construct, heap, container, others>>
  <2>1. Range(building) = {}
    BY <1>6, <1>12 DEF OtherNames
  <2>2. Apart'
    BY <1>3, <1>4, <1>12 DEF Apart
  <2>3. Owned' = Owned
    BY <1>4, <1>12, <2>1 DEF Owned
  <2>4. Freed({})
    BY <1>12, FreeFreed
  <2> QED BY <2>2, <2>3, <2>4 DEF Keeping
<1> QED BY <1>2, <1>7, <1>8, <1>9, <1>10, <1>11, <1>12, EffectCases

\* What a failed call loses is a node it has built.
LEMMA LostBuilt ==
  ASSUME DriverTypes, BuildingInv, pc = "thrown", driver # "prohibited"
  PROVE  /\ Points[stage + 1] = "cons" => building # << >>
         /\ Lost \subseteq Range(building) /\ Range(Kept) \subseteq Range(building)
         /\ Kept \in {building, << >>}
<1>1. building \in Seq(Nodes) /\ stage \in Nat
  BY DEF DriverTypes
<1>2. PointsKnown
  BY PointsFacts DEF PointTypes, DriverTypes
<1>3. Points[stage + 1] = "cons" => building # << >>
  <2>1. SUFFICES ASSUME Points[stage + 1] = "cons" PROVE building # << >>
    OBVIOUS
  <2>2. Len(Points) \in Nat /\ stage < Len(Points)
    BY <1>2, LenProperties DEF PointsKnown, BuildingInv
  <2>3. stage + 1 \in 1..Len(Points)
    BY <1>1, <2>2
  <2>4. stage + 1 > 1 /\ Points[stage + 1 - 1] = "alloc"
    <3>1. NodesAllocated(Points)
      BY <1>2 DEF PointsKnown
    <3> QED BY <1>1, <2>1, <2>2, <2>3, <3>1 DEF NodesAllocated
  <2>5. stage \in 1..stage /\ stage + 1 - 1 = stage
    BY <1>1, <2>4
  <2> QED BY <2>4, <2>5 DEF BuildingInv, During
<1>4. Lost \subseteq Range(building)
  BY <1>1, <1>3, EmptyFacts DEF Lost
<1>5. Kept \in {building, << >>}
  BY DEF Kept
<1> QED BY <1>3, <1>4, <1>5, EmptyFacts

LEMMA UnwindOwned ==
  ASSUME DriverTypes, DriverTypes', BuildingInv, OwnedInv, driver = "basic", Unwind
  PROVE  Keeping(Range(building) \ (Lost \cup Range(Kept)), Lost)
<1> DEFINE x == Range(building) \ (Lost \cup Range(Kept))
<1>1. /\ container \in Seq(Nodes) /\ building \in Seq(Nodes)
  BY DEF DriverTypes
<1>2. /\ pc = "thrown" /\ building' = << >> /\ container' = container \o Kept
      /\ Free(x) /\ UNCHANGED others
  BY UnwindStep
<1>3. /\ Lost \subseteq Range(building) /\ Range(Kept) \subseteq Range(building)
      /\ Kept \in {building, << >>}
  BY <1>2, LostBuilt
<1>4. Kept \in Seq(Nodes) /\ IsInjective(Kept)
  BY <1>1, <1>3, EmptyFacts DEF OwnedInv, Apart
<1>5. Apart
  BY DEF OwnedInv
<1>6. Range(container) \cap Range(building) = {}
  BY <1>5 DEF Apart
<1>7. /\ Range(container') = Range(container) \cup Range(Kept)
      /\ IsInjective(container')
  BY <1>1, <1>2, <1>3, <1>4, <1>5, <1>6, ConcatFacts DEF Apart
<1>8. Range(building') = {} /\ IsInjective(building')
  BY <1>2, EmptyFacts
<1> HIDE DEF x
<1>9. Apart'
  BY <1>2, <1>3, <1>5, <1>7, <1>8 DEF Apart
<1>10. x = Range(building) \ (Lost \cup Range(Kept))
  BY DEF x
<1>11. Owned' \subseteq Owned \ x
  <2>1. \A g \in OtherNames : Range(others[g]) \cap x = {}
    BY <1>5, <1>10 DEF Apart
  <2>2. Range(container') \cap x = {}
    BY <1>6, <1>7, <1>10
  <2>3. Owned' \subseteq Owned
    BY <1>2, <1>3, <1>7, <1>8 DEF Owned
  <2> QED BY <1>2, <1>8, <2>1, <2>2, <2>3 DEF Owned
<1>12. Owned \subseteq Owned' \cup x \cup Lost
  BY <1>2, <1>7, <1>10 DEF Owned
<1>13. Freed(x)
  BY <1>2, FreeFreed
<1> QED BY <1>9, <1>11, <1>12, <1>13 DEF Keeping, x

LEMMA EndOwned ==
  ASSUME DriverTypes, DriverTypes', BuildingInv, OwnedInv, driver = "basic", End
  PROVE  \E x, lost : /\ Keeping(x, lost) /\ Owned' = {}
                      /\ lost \subseteq Owned \ x
                      /\ fault # "forgets" => lost = {}
                      /\ faulted' = (faulted \/ lost # {})
<1>1. others \in [OtherNames -> Seq(Nodes)]
  BY DEF DriverTypes
<1>2. /\ pc = "begin" /\ container' = << >> /\ others' = [g \in OtherNames |-> << >>]
      /\ building' = building
  BY <1>1, EndStep
<1>3. PICK all, lost :
        /\ all = Range(container) \cup Range(control) \cup UNION {Range(others[g]) : g \in OtherNames}
        /\ lost \subseteq all
        /\ fault # "forgets" => lost = {}
        /\ Free(all \ lost) /\ faulted' = (faulted \/ lost # {})
  BY <1>1, EndStep
<1>4. building = << >>
  BY <1>2 DEF BuildingInv, During
<1>5. Range(control) = {}
  BY EmptyFacts DEF OwnedInv
<1>6. all = Owned
  BY <1>3, <1>4, <1>5, EmptyFacts DEF Owned
<1>7. Owned' = {}
  BY <1>2, <1>4, EmptyFacts DEF Owned
<1>8. Apart'
  BY <1>2, <1>4, EmptyFacts DEF Apart
<1>9. Keeping(all \ lost, lost)
  BY <1>3, <1>6, <1>7, <1>8, FreeFreed DEF Keeping
<1> QED BY <1>3, <1>6, <1>7, <1>9

\* The other steps take and give back nothing.
LEMMA StillOwned ==
  ASSUME OwnedInv, driver = "basic", UNCHANGED <<map_alloc, map_construct, heap, container, others, building>>
  PROVE  Keeping({}, {})
BY FreeFreed DEF Keeping, OwnedInv, Apart, Owned

\* The nodes after the steps that take none, and what they lose.
LEMMA StepOwned ==
  ASSUME DriverTypes, DriverTypes', BuildingInv, OwnedInv, driver = "basic",
         [SafetyNext]_safetyVars, ~ Setup, ~ Point
  PROVE  /\ \E x, lost : Keeping(x, lost) /\ (fault \notin {"leaks", "forgets"} => lost = {})
         /\ control' = << >>
         /\ building' = building \/ building' = << >>
         /\ pc' \in During => building' = building /\ step' = step /\ label' = step
<1>1. CASE Begin
  <2>1. /\ UNCHANGED <<map_alloc, map_construct, heap, container, others, building, control, step>>
        /\ label' = step
    BY <1>1, BeginStep
  <2> QED BY <2>1, StillOwned DEF OwnedInv
<1>2. CASE Unwind
  <2>1. Keeping(Range(building) \ (Lost \cup Range(Kept)), Lost)
    BY <1>2, UnwindOwned
  <2>2. fault \notin {"leaks", "forgets"} => Lost = {}
    BY DEF Lost
  <2>3. control' = control /\ building' = << >> /\ pc' \notin During
    BY <1>2, UnwindStep DEF During
  <2> QED BY <2>1, <2>2, <2>3 DEF OwnedInv
<1>3. CASE Caught
  <2>1. /\ UNCHANGED <<map_alloc, map_construct, heap, container, others, building, control>>
        /\ pc' \notin During
    BY <1>3, CaughtStep DEF During
  <2> QED BY <2>1, StillOwned DEF OwnedInv
<1>4. CASE Finish
  <2>1. control' = control /\ building' = << >> /\ pc' \notin During
    BY <1>4, FinishStep DEF During
  <2> QED BY <1>4, <2>1, FinishOwned DEF OwnedInv
<1>5. CASE End
  <2>1. others \in [OtherNames -> Seq(Nodes)]
    BY DEF DriverTypes
  <2>2. control' = << >> /\ building' = building /\ pc' \notin During
    BY <1>5, <2>1, EndStep DEF During
  <2> QED BY <1>5, <2>2, EndOwned
<1>6. CASE Check \/ UNCHANGED safetyVars
  <2>1. /\ UNCHANGED <<map_alloc, map_construct, heap, container, others, building, control, step, label>>
        /\ (pc' = pc \/ pc' \notin During)
    BY <1>6, OtherStep DEF During
  <2> QED BY <2>1, StillOwned DEF OwnedInv
<1> QED BY <1>1, <1>2, <1>3, <1>4, <1>5, <1>6 DEF SafetyNext

\* A driver of basic_safety is set up with nodes of its own.
LEMMA SetupOwned ==
  ASSUME DriverTypes, ConditionInv, BuildingInv, OwnedInv, driver = "basic", Setup
  PROVE  /\ Apart'
         /\ \E ns \in Seq(Nodes) : Take(ns) /\ Owned' = Range(ns)
         /\ building' = << >> /\ control' = << >> /\ Len(container') \in Populations
         /\ label' = label
<1>1. adjustors \in Seq(Adjustor) /\ limit = Never /\ count = 0 /\ pc = "setup"
  BY DEF DriverTypes, ConditionInv, Setup, During, Ended
<1>2. building = << >>
  BY <1>1 DEF BuildingInv, During
<1>3. /\ UNCHANGED control /\ building' = building /\ label' = label
      /\ Len(container') \in Populations
      /\ \E ns \in Seq(Nodes) :
           /\ Take(ns)
           /\ Range(ns) = Range(container') \cup UNION {Range(others'[g]) : g \in OtherNames}
           /\ IsInjective(container') /\ \A g \in OtherNames : IsInjective(others'[g])
           /\ \A g \in OtherNames :
                /\ Range(others'[g]) \cap Range(container') = {}
                /\ \A h \in OtherNames \ {g} : Range(others'[g]) \cap Range(others'[h]) = {}
  BY <1>1, SetupStep
<1>4. Range(building') = {} /\ IsInjective(building')
  BY <1>2, <1>3, EmptyFacts
<1>5. PICK ns \in Seq(Nodes) :
        /\ Take(ns)
        /\ Range(ns) = Range(container') \cup UNION {Range(others'[g]) : g \in OtherNames}
        /\ IsInjective(container') /\ \A g \in OtherNames : IsInjective(others'[g])
        /\ \A g \in OtherNames :
             /\ Range(others'[g]) \cap Range(container') = {}
             /\ \A h \in OtherNames \ {g} : Range(others'[g]) \cap Range(others'[h]) = {}
  BY <1>3
<1>6. Apart'
  BY <1>4, <1>5 DEF Apart
<1>7. Owned' = Range(ns)
  BY <1>4, <1>5 DEF Owned
<1> QED BY <1>2, <1>3, <1>5, <1>6, <1>7 DEF OwnedInv

LEMMA TakeFacts ==
  ASSUME NEW ns, Take(ns)
  PROVE  /\ DOMAIN map_alloc' = DOMAIN map_alloc \cup Range(ns)
         /\ DOMAIN heap' = DOMAIN heap \cup Range(ns)
         /\ DOMAIN map_construct' = DOMAIN map_construct \cup Range(ns)
         /\ \A p \in Range(ns) : map_alloc'[p][1] = label /\ map_construct'[p] = label
         /\ \A p \in DOMAIN map_alloc \ Range(ns) : map_alloc'[p] = map_alloc[p]
         /\ \A p \in DOMAIN map_construct \ Range(ns) : map_construct'[p] = map_construct[p]
<1>1. <<label, 1>>[1] = label
  OBVIOUS
<1>2. /\ map_alloc' = WithAll(map_alloc, Range(ns), <<label, 1>>)
      /\ heap' = WithAll(heap, Range(ns), 1)
      /\ map_construct' = WithAll(map_construct, Range(ns), label)
  BY DEF Take
<1> DEFINE e == <<label, 1>>
<1> HIDE DEF e
<1>3. e[1] = label /\ map_alloc' = WithAll(map_alloc, Range(ns), e)
  BY <1>1, <1>2 DEF e
<1> QED BY <1>2, <1>3 DEF WithAll

\* A throw point of a call, and the nodes.
LEMMA PointOwned ==
  ASSUME DriverTypes, BuildingInv, OwnedInv, driver = "basic", Point
  PROVE  /\ UNCHANGED <<container, others, control, label, step>>
         /\ DOMAIN map_alloc' = DOMAIN heap'
         /\ DOMAIN map_alloc \subseteq DOMAIN map_alloc'
         /\ \A p \in DOMAIN map_alloc : map_alloc'[p] = map_alloc[p]
         /\ \A p \in DOMAIN map_construct : map_construct'[p] = map_construct[p]
         /\ \A p \in DOMAIN map_construct' \ DOMAIN map_construct : map_construct'[p] = label
         /\ \/ UNCHANGED <<map_alloc, building>> /\ DOMAIN map_construct' \subseteq DOMAIN map_construct
            \/ /\ UNCHANGED <<map_alloc, building>>
               /\ DOMAIN map_construct' \subseteq DOMAIN map_construct \cup Range(building)
            \/ \E p \in Nodes \ DOMAIN map_alloc :
                 /\ building' = Append(building, p)
                 /\ DOMAIN map_alloc' = DOMAIN map_alloc \cup {p}
                 /\ map_alloc'[p][1] = label
                 /\ DOMAIN map_construct' = DOMAIN map_construct
<1>1. /\ UNCHANGED <<container, others, control, label, step>> /\ Reached /\ stage < Len(Points) /\ pc = "call"
  BY PointStep
<1>2. DOMAIN map_alloc = DOMAIN heap
  BY DEF OwnedInv
<1>3. building \in Seq(Nodes) /\ stage \in Nat
  BY DEF DriverTypes
<1>4. CASE UNCHANGED <<annotations, heap, building>>
  BY <1>1, <1>2, <1>4 DEF annotations
<1>5. CASE Points[stage + 1] = "cons" /\ construct(Last(building)) /\ UNCHANGED building
  <2>1. Last(building) \in Range(building)
    <3>1. PointsKnown
      BY PointsFacts DEF PointTypes, DriverTypes
    <3>2. Len(Points) \in Nat
      BY <3>1, LenProperties DEF PointsKnown
    <3>3. stage + 1 \in 1..Len(Points)
      BY <1>1, <1>3, <3>2
    <3>4. stage + 1 > 1 /\ Points[stage + 1 - 1] = "alloc"
      <4>1. NodesAllocated(Points)
        BY <3>1 DEF PointsKnown
      <4> QED BY <1>3, <1>5, <3>2, <3>3, <4>1 DEF NodesAllocated
    <3>5. stage \in 1..stage /\ stage + 1 - 1 = stage
      BY <1>3, <3>4
    <3>6. building # << >>
      BY <1>1, <3>4, <3>5 DEF BuildingInv, During
    <3> QED BY <1>3, <3>6, EmptyFacts
  <2>2. UNCHANGED <<map_alloc, heap>>
    BY <1>5 DEF construct
  <2>3. /\ DOMAIN map_construct' \subseteq DOMAIN map_construct \cup {Last(building)}
        /\ \A p \in DOMAIN map_construct : map_construct'[p] = map_construct[p]
        /\ \A p \in DOMAIN map_construct' \ DOMAIN map_construct : map_construct'[p] = label
    BY <1>5 DEF construct, check_constructed, With
  <2> QED BY <1>1, <1>2, <1>5, <2>1, <2>2, <2>3
<1>6. ASSUME NEW p \in Nodes, allocate(p, 1), building' = IF Throws THEN building ELSE Append(building, p),
             ~ Throws
      PROVE  /\ p \notin DOMAIN map_alloc /\ building' = Append(building, p)
             /\ DOMAIN map_alloc' = DOMAIN map_alloc \cup {p}
             /\ DOMAIN map_alloc' = DOMAIN heap'
             /\ map_alloc'[p][1] = label
             /\ \A q \in DOMAIN map_alloc : map_alloc'[q] = map_alloc[q]
             /\ map_construct' = map_construct
  <2>1. /\ p \notin DOMAIN map_alloc /\ map_alloc' = With(map_alloc, p, <<label, 1>>)
        /\ heap' = With(heap, p, 1) /\ map_construct' = map_construct
    BY <1>2, <1>6 DEF allocate, insert
  <2> QED BY <1>2, <1>6, <2>1 DEF With
<1>7. ASSUME NEW p \in Nodes, allocate(p, 1), building' = IF Throws THEN building ELSE Append(building, p),
             Throws
      PROVE  UNCHANGED <<map_alloc, map_construct, heap, building>>
  BY <1>7 DEF allocate
<1>8. CASE \E p \in Nodes : allocate(p, 1) /\ building' = IF Throws THEN building ELSE Append(building, p)
  <2>1. PICK p \in Nodes : allocate(p, 1) /\ building' = IF Throws THEN building ELSE Append(building, p)
    BY <1>8
  <2>2. CASE Throws
    BY <1>1, <1>2, <1>7, <2>1, <2>2
  <2>3. CASE ~ Throws
    BY <1>1, <1>2, <1>6, <2>1, <2>3
  <2> QED BY <2>2, <2>3
<1> QED BY <1>1, <1>4, <1>5, <1>8 DEF Reached

LEMMA SameContainer ==
  ASSUME DriverTypes, [SafetyNext]_safetyVars
  PROVE  UNCHANGED <<driver, Kind, fault>>
<1>1. CASE Setup
  BY <1>1 DEF Setup, where
<1>2. CASE Begin
  BY <1>2, BeginStep DEF DriverTypes
<1>3. CASE Point
  BY <1>3, PointStep
<1>4. CASE Unwind
  BY <1>4, UnwindStep
<1>5. CASE Caught
  BY <1>5, CaughtStep
<1>6. CASE Finish
  BY <1>6, FinishStep
<1>7. CASE End
  BY <1>7, EndStep DEF DriverTypes
<1>8. CASE Check \/ UNCHANGED safetyVars
  BY <1>8, OtherStep
<1> QED BY <1>1, <1>2, <1>3, <1>4, <1>5, <1>6, <1>7, <1>8 DEF SafetyNext

LEMMA OwnedKeeps ==
  ASSUME DriverTypes, DriverTypes', ConditionInv, BuildingInv, OwnedInv, [SafetyNext]_safetyVars
  PROVE  OwnedInv'
<1> SUFFICES ASSUME driver' = "basic" PROVE OwnedInv'
  BY DEF OwnedInv
<1>1. driver = "basic"
  BY SameContainer
<1>2. /\ control = << >> /\ Apart /\ Owned \subseteq DOMAIN map_alloc
      /\ DOMAIN map_alloc = DOMAIN heap
      /\ pc \in During => label = step /\ \A p \in Range(building) : map_alloc[p][1] = step
  BY <1>1 DEF OwnedInv
<1>3. CASE Setup
  <2>1. /\ Apart' /\ building' = << >> /\ control' = << >>
        /\ \E ns \in Seq(Nodes) : Take(ns) /\ Owned' = Range(ns)
    BY <1>1, <1>3, SetupOwned
  <2>2. PICK ns \in Seq(Nodes) : Take(ns) /\ Owned' = Range(ns)
    BY <2>1
  <2>3. Owned' \subseteq DOMAIN map_alloc' /\ DOMAIN map_alloc' = DOMAIN heap'
    BY <1>2, <2>2, TakeFacts
  <2>4. pc' \notin During
    BY <1>3 DEF Setup, During
  <2> QED BY <2>1, <2>3, <2>4 DEF OwnedInv
<1>4. CASE Point
  <2>1. /\ UNCHANGED <<container, others, control, label, step>>
        /\ DOMAIN map_alloc' = DOMAIN heap'
        /\ DOMAIN map_alloc \subseteq DOMAIN map_alloc'
        /\ \A p \in DOMAIN map_alloc : map_alloc'[p] = map_alloc[p]
        /\ \/ UNCHANGED <<map_alloc, building>>
           \/ \E p \in Nodes \ DOMAIN map_alloc :
                /\ building' = Append(building, p)
                /\ DOMAIN map_alloc' = DOMAIN map_alloc \cup {p}
                /\ map_alloc'[p][1] = label
    BY <1>1, <1>4, PointOwned
  <2>2. pc = "call" /\ building \in Seq(Nodes)
    BY <1>4, PointStep DEF DriverTypes
  <2>3. label = step /\ \A p \in Range(building) : map_alloc[p][1] = step
    BY <1>2, <2>2 DEF During
  <2>4. CASE UNCHANGED <<map_alloc, building>>
    <3>1. container' = container /\ building' = building /\ others' = others
      BY <2>1, <2>4
    <3>2. Apart' = Apart
      BY ONLY <3>1, Zenon DEF Apart
    <3>3. Owned' = Owned
      BY ONLY <3>1, Zenon DEF Owned
    <3> QED BY <1>2, <2>1, <2>3, <2>4, <3>2, <3>3 DEF OwnedInv
  <2>5. ASSUME NEW p \in Nodes \ DOMAIN map_alloc,
               building' = Append(building, p), DOMAIN map_alloc' = DOMAIN map_alloc \cup {p},
               map_alloc'[p][1] = label
        PROVE  OwnedInv'
    <3>1. /\ Range(building') = Range(building) \cup {p}
          /\ p \notin Range(building) => (IsInjective(building) => IsInjective(building'))
      BY <2>2, <2>5, AppendFacts
    <3>2. p \notin Owned
      BY <1>2, <2>5
    <3>3. p \notin Range(building) /\ p \notin Range(container) /\ \A g \in OtherNames : p \notin Range(others[g])
      BY <3>2 DEF Owned
    <3>4. Apart'
      <4>1. Apart /\ container' = container /\ others' = others
        BY <1>2, <2>1
      <4>2. IsInjective(building')
        BY <3>1, <3>3, <4>1 DEF Apart
      <4>3. Range(container') \cap Range(building') = {}
        BY <3>1, <3>3, <4>1 DEF Apart
      <4>4. \A g \in OtherNames : Range(others'[g]) \cap (Range(container') \cup Range(building')) = {}
        BY <3>1, <3>3, <4>1 DEF Apart
      <4> QED BY <4>1, <4>2, <4>3, <4>4 DEF Apart
    <3>5. Owned' = Owned \cup {p}
      BY <2>1, <3>1 DEF Owned
    <3>6. Range(building) \subseteq DOMAIN map_alloc
      BY <1>2 DEF Owned
    <3>7. \A q \in Range(building') : map_alloc'[q][1] = step'
      BY <2>1, <2>3, <2>5, <3>1, <3>6
    <3> QED BY <1>2, <2>1, <2>3, <2>5, <3>4, <3>5, <3>7 DEF OwnedInv
  <2> QED BY <2>1, <2>4, <2>5
<1>5. CASE ~ Setup /\ ~ Point
  <2>1. /\ \E x, lost : Keeping(x, lost)
        /\ control' = << >>
        /\ pc' \in During => building' = building /\ step' = step /\ label' = step
    BY <1>1, <1>5, StepOwned
  <2>2. PICK x, lost : Keeping(x, lost)
    BY <2>1
  <2>3. Owned' \subseteq DOMAIN map_alloc' /\ DOMAIN map_alloc' = DOMAIN heap'
    BY <1>2, <2>2 DEF Keeping, Freed
  <2>4. ASSUME pc' \in During PROVE \A p \in Range(building') : map_alloc'[p][1] = step'
    <3>1. \A p \in Range(building') : p \in DOMAIN map_alloc' /\ map_alloc'[p] = map_alloc[p]
      BY <2>2, <2>3 DEF Keeping, Freed, Owned
    <3>2. \A p \in Range(building) : map_alloc[p][1] = step
      <4>1. CASE pc \in During
        BY <1>2, <4>1
      <4>2. CASE pc \notin During
        <5>1. building = << >>
          BY <4>2 DEF BuildingInv
        <5> QED BY <5>1, EmptyFacts
      <4> QED BY <4>1, <4>2
    <3> QED BY <2>1, <2>4, <3>1, <3>2
  <2> QED BY <2>1, <2>2, <2>3, <2>4 DEF OwnedInv, Keeping
<1> QED BY <1>3, <1>4, <1>5

-----------------------------------------------------------------------------
(* Faults are noticed.                                                      *)

LEMMA CopiedKeeps ==
  ASSUME DriverTypes, CopiedInv, [SafetyNext]_safetyVars
  PROVE  CopiedInv'
<1> SUFFICES ASSUME driver' = "consistent", pc' \in During PROVE container' = copied'
  BY DEF CopiedInv
<1>1. driver = "consistent"
  BY SameContainer
<1>2. CASE Begin
  BY <1>1, <1>2, BeginStep DEF During
<1>3. CASE Point
  BY <1>1, <1>3, PointStep DEF CopiedInv, During
<1>4. CASE Check \/ UNCHANGED safetyVars
  BY <1>1, <1>4, OtherStep DEF CopiedInv, During
<1>5. CASE Setup \/ Unwind \/ Caught \/ Finish \/ End
  BY <1>1, <1>5, UnwindStep, CaughtStep, FinishStep, EndStep DEF Setup, During, DriverTypes
<1> QED BY <1>2, <1>3, <1>4, <1>5 DEF SafetyNext

LEMMA DetectsFacts ==
  /\ Detects["basic"] = {"leaks", "keeps", "forgets"}
  /\ Detects["consistent"] = {"keeps"} /\ Detects["prohibited"] = {"throws"}
BY DEF Detects

\* A node that stays annotated with the step of a failed call is found.
LEMMA StaysLabelled ==
  ASSUME DriverTypes, OwnedInv, driver = "basic", pc = "thrown",
         NEW x, Freed(x), NEW p \in Range(building), p \notin x, step' = step
  PROVE  Labelled(step)' # {}
<1>1. p \in DOMAIN map_alloc /\ map_alloc[p][1] = step
  BY DEF OwnedInv, Owned, During
<1>2. p \in DOMAIN map_alloc' /\ map_alloc'[p][1] = step'
  BY <1>1 DEF Freed
<1> QED BY <1>2 DEF Labelled

LEMMA UnwindNotices ==
  ASSUME DriverTypes, DriverTypes', BuildingInv, OwnedInv, CopiedInv, NoticedInv, Unwind,
         faulted', fault \in Detects[driver]
  PROVE  pc' = "failed" \/ Noticing'
<1>1. /\ pc = "thrown" /\ container' = container \o Kept
      /\ faulted' = (faulted \/ Kept # << >> \/ Lost # {} \/ f \in Removes \cup {"swap"})
      /\ driver = "prohibited" => pc' = "failed"
      /\ driver # "prohibited" => pc' = "caught"
      /\ UNCHANGED <<driver, fault, step, copied>>
  BY UnwindStep
<1>2. CASE driver = "prohibited"
  BY <1>1, <1>2
<1>3. CASE driver # "prohibited"
  <2>1. fault \in {"leaks", "keeps", "forgets"} /\ driver \in {"basic", "consistent"}
    BY <1>3, DetectsFacts DEF DriverTypes
  <2>2. ~ faulted
    BY <1>1 DEF NoticedInv, Noticing
  <2>3. f \notin Removes \cup {"swap"}
    <3>1. PointsKnown
      BY PointsFacts DEF PointTypes, DriverTypes
    <3>2. Points # << >>
      <4>1. stage \in Nat /\ stage < Len(Points)
        BY <1>1 DEF BuildingInv, DriverTypes
      <4>2. Len(Points) \in Nat /\ Len(<< >>) = 0
        BY <3>1, LenProperties DEF PointsKnown
      <4> QED BY <4>1, <4>2
    <3>3. f \in Inserts \cup {"assign_operator"}
      BY <2>1, <3>1, <3>2 DEF PointsKnown
    <3> QED BY <3>3 DEF Inserts, Removes, Pops
  <2>4. Kept # << >> \/ Lost # {}
    BY <1>1, <2>2, <2>3
  <2>5. /\ Points[stage + 1] = "cons" => building # << >>
        /\ Lost \subseteq Range(building) /\ Range(Kept) \subseteq Range(building)
        /\ Kept \in {building, << >>}
    BY <1>1, <1>3, LostBuilt
  <2>6. building \in Seq(Nodes) /\ container \in Seq(Nodes)
    BY DEF DriverTypes
  <2>7. CASE driver = "consistent"
    <3>1. Kept # << >>
      BY <2>4, <2>7, DetectsFacts DEF Lost
    <3>2. Kept \in Seq(Nodes)
      BY <2>5, <2>6, EmptyFacts
    <3>3. container \o Kept # container
      BY <2>6, <3>1, <3>2, ConcatEqualIffEmpty
    <3>4. container = copied
      BY <1>1, <2>7 DEF CopiedInv, During
    <3> QED BY <1>1, <2>7, <3>3, <3>4 DEF Noticing
  <2>8. CASE driver = "basic"
    <3>1. Keeping(Range(building) \ (Lost \cup Range(Kept)), Lost)
      BY <2>8, UnwindOwned
    <3>2. PICK p \in Range(building) : p \in Lost \cup Range(Kept)
      <4>1. CASE Lost # {}
        BY <2>5, <4>1
      <4>2. CASE Kept # << >>
        <5>1. Kept = building /\ building # << >>
          BY <2>5, <4>2
        <5> QED BY <2>6, <5>1, EmptyFacts
      <4> QED BY <2>4, <4>1, <4>2
    <3>3. Labelled(step)' # {}
      BY <1>1, <2>8, <3>1, <3>2, StaysLabelled DEF Keeping
    <3> QED BY <1>1, <2>8, <3>3 DEF Noticing
  <2> QED BY <2>1, <2>7, <2>8
<1> QED BY <1>2, <1>3

LEMMA NoticedKeeps ==
  ASSUME DriverTypes, DriverTypes', BuildingInv, OwnedInv, CopiedInv, NoticedInv, [SafetyNext]_safetyVars
  PROVE  NoticedInv'
<1>1. UNCHANGED <<driver, Kind, fault>>
  BY SameContainer
<1> SUFFICES ASSUME faulted', fault \in Detects[driver] PROVE pc' = "failed" \/ Noticing'
  BY <1>1 DEF NoticedInv
<1>2. faulted => pc = "failed" \/ Noticing
  BY DEF NoticedInv
<1>3. CASE Setup \/ Begin \/ Point \/ Finish
  <2>1. pc \in {"setup", "begin", "call"} /\ faulted' = faulted
    BY <1>3, BeginStep, PointStep, FinishStep DEF Setup, history, DriverTypes
  <2> QED BY <1>2, <2>1 DEF Noticing
<1>4. CASE Unwind
  BY <1>4, UnwindNotices
<1>5. CASE Caught
  <2>1. pc = "caught" /\ faulted' = faulted
    BY <1>5, CaughtStep
  <2>2. Noticing
    BY <1>2, <2>1
  <2>3. CASE driver = "basic"
    BY <1>5, <2>1, <2>2, <2>3, CaughtStep DEF Noticing
  <2>4. CASE driver # "basic"
    <3>1. container # copied
      BY <2>2, <2>4 DEF Noticing
    <3>2. ~ compare
      BY <3>1 DEF compare
    <3> QED BY <1>5, <2>4, <3>2, CaughtStep
  <2> QED BY <2>3, <2>4
<1>6. CASE End
  <2>1. others \in [OtherNames -> Seq(Nodes)]
    BY DEF DriverTypes
  <2>2. pc = "begin" /\ pc' = IF driver = "basic" THEN "check" ELSE "passed"
    BY <1>6, <2>1, EndStep
  <2>3. ~ faulted
    BY <1>2, <2>2 DEF Noticing
  <2>4. fault = "forgets"
    BY <1>6, <2>1, <2>3, EndStep
  <2>5. driver = "basic"
    BY <2>4, DetectsFacts DEF DriverTypes
  <2>6. PICK x, lost :
          /\ Keeping(x, lost) /\ Owned' = {} /\ lost \subseteq Owned \ x
          /\ fault # "forgets" => lost = {}
          /\ faulted' = (faulted \/ lost # {})
    BY <1>6, <2>5, EndOwned
  <2>7. PICK p : p \in lost
    BY <2>3, <2>6
  <2>8. p \in DOMAIN map_alloc'
    BY <2>5, <2>6, <2>7 DEF OwnedInv, Keeping, Freed
  <2>9. Left' # {}
    BY <2>8 DEF Left
  <2> QED BY <1>1, <2>2, <2>5, <2>9 DEF Noticing
<1>7. CASE Check \/ UNCHANGED safetyVars
  <2>1. /\ UNCHANGED <<map_alloc, map_construct, driver, step, container, copied, faulted>>
        /\ \/ pc' = pc
           \/ pc = "check" /\ pc' = IF Left = {} THEN "passed" ELSE "failed"
    BY <1>7, OtherStep
  <2>2. Left' = Left /\ Labelled(step)' = Labelled(step)
    BY <2>1 DEF Left, Labelled
  <2> QED BY <1>2, <2>1, <2>2 DEF Noticing
<1> QED BY <1>3, <1>4, <1>5, <1>6, <1>7 DEF SafetyNext

-----------------------------------------------------------------------------
(* No false alarm.                                                          *)

\* A step that loses nothing leaves nothing outside the containers, and the
\* labels of what it keeps are older than the step that comes next.
LEMMA KeepingFaultless ==
  ASSUME DriverTypes, DriverTypes', BuildingInv, OwnedInv, driver = "basic",
         BasicFaultless, NEW x, Keeping(x, {}), building' = building \/ building' = << >>,
         step' = step \/ step' = step + 1,
         building' = building \/ Range(building) \subseteq x \/ step' = step + 1
  PROVE  Left' \subseteq Owned' /\ Older'
<1>1. 0..(step - 1) \subseteq 0..(step' - 1) /\ (step' = step + 1 => step \in 0..(step' - 1))
  <2>1. step \in Nat \ {0}
    BY DEF DriverTypes
  <2>2. CASE step' = step
    BY <2>1, <2>2
  <2>3. CASE step' = step + 1
    BY <2>1, <2>3
  <2> QED BY <2>2, <2>3
<1>2. Left \subseteq Owned
  BY DEF BasicFaultless
<1>3. Left' = Left \ x
  BY DEF Keeping, Freed, Left
<1>4. Left' \subseteq Owned'
  BY <1>2, <1>3 DEF Keeping
<1>5. pc \notin During => building = << >>
  BY DEF BuildingInv
<1>6. /\ \A p \in DOMAIN map_alloc \ Range(building) : map_alloc[p][1] \in 0..(step - 1) \cup {Never}
      /\ \A p \in DOMAIN map_construct \ Range(building) : map_construct[p] \in 0..(step - 1) \cup {Never}
      /\ pc \in During => \A p \in DOMAIN map_construct \cap Range(building) : map_construct[p] = step
      /\ pc \in During => \A p \in Range(building) : map_alloc[p][1] = step
  BY DEF BasicFaultless, OwnedInv, Older
<1>7. /\ \A p \in DOMAIN map_alloc' : p \in DOMAIN map_alloc /\ p \notin x /\ map_alloc'[p] = map_alloc[p]
      /\ \A p \in DOMAIN map_construct' :
           p \in DOMAIN map_construct /\ p \notin x /\ map_construct'[p] = map_construct[p]
  BY DEF Keeping, Freed
<1>8. ASSUME NEW p \in Range(building), p \notin Range(building'), p \notin x
      PROVE  pc \in During /\ step' = step + 1
  <2>1. building # << >>
    BY <1>8, EmptyFacts
  <2> QED BY <1>5, <1>8, <2>1
<1>9. ASSUME NEW p \in DOMAIN map_alloc' \ Range(building')
      PROVE  map_alloc'[p][1] \in 0..(step' - 1) \cup {Never}
  <2>1. p \in DOMAIN map_alloc /\ p \notin x /\ map_alloc'[p] = map_alloc[p]
    BY <1>7, <1>9
  <2>2. CASE p \in Range(building)
    <3>1. step' = step + 1 /\ map_alloc[p][1] = step
      BY <1>6, <1>8, <1>9, <2>1, <2>2
    <3> QED BY <1>1, <2>1, <3>1
  <2>3. CASE p \notin Range(building)
    <3>1. map_alloc[p][1] \in 0..(step - 1) \cup {Never}
      BY <1>6, <2>1, <2>3
    <3> QED BY <1>1, <2>1, <3>1
  <2> QED BY <2>2, <2>3
<1>10. ASSUME NEW p \in DOMAIN map_construct' \ Range(building')
      PROVE  map_construct'[p] \in 0..(step' - 1) \cup {Never}
  <2>1. p \in DOMAIN map_construct /\ p \notin x /\ map_construct'[p] = map_construct[p]
    BY <1>7, <1>10
  <2>2. CASE p \in Range(building)
    <3>1. step' = step + 1 /\ map_construct[p] = step
      BY <1>6, <1>8, <1>10, <2>1, <2>2
    <3> QED BY <1>1, <2>1, <3>1
  <2>3. CASE p \notin Range(building)
    <3>1. map_construct[p] \in 0..(step - 1) \cup {Never}
      BY <1>6, <2>1, <2>3
    <3> QED BY <1>1, <2>1, <3>1
  <2> QED BY <2>2, <2>3
<1> QED BY <1>4, <1>9, <1>10 DEF Older

LEMMA StepFaultless ==
  ASSUME DriverTypes, DriverTypes', BuildingInv, OwnedInv, driver = "basic", fault = "none",
         BasicFaultless, [SafetyNext]_safetyVars, ~ Setup, ~ Point
  PROVE  Left' \subseteq Owned' /\ Older'
<1>1. CASE Begin
  <2>1. UNCHANGED <<map_alloc, map_construct, heap, container, others, building, step>>
    BY <1>1, BeginStep
  <2> QED BY <2>1, StillOwned, KeepingFaultless
<1>2. CASE Unwind
  <2>1. Keeping(Range(building) \ (Lost \cup Range(Kept)), Lost)
    BY <1>2, UnwindOwned
  <2>2. Lost = {} /\ Kept = << >>
    BY DEF Lost, Kept
  <2>3. Range(Kept) = {}
    BY <2>2, EmptyFacts
  <2>4. Range(building) \ (Lost \cup Range(Kept)) = Range(building)
    BY <2>2, <2>3
  <2>5. Keeping(Range(building), {})
    BY <2>1, <2>2, <2>4
  <2>6. step' = step /\ building' = << >>
    BY <1>2, UnwindStep
  <2> QED BY <2>5, <2>6, KeepingFaultless
<1>3. CASE Caught
  <2>1. UNCHANGED <<map_alloc, map_construct, heap, container, others, building>> /\ step' = step + 1
    BY <1>3, CaughtStep
  <2> QED BY <2>1, StillOwned, KeepingFaultless
<1>4. CASE Finish
  <2>1. step' = step + 1 /\ building' = << >>
    BY <1>4, FinishStep
  <2>2. PICK x : Keeping(x, {})
    BY <1>4, FinishOwned
  <2> QED BY <2>1, <2>2, KeepingFaultless
<1>5. CASE End
  <2>1. PICK x, lost : Keeping(x, lost) /\ (fault # "forgets" => lost = {})
    BY <1>5, EndOwned
  <2>2. Keeping(x, {})
    BY <2>1
  <2>3. step' = step /\ building' = building
    BY <1>5, EndStep DEF DriverTypes
  <2> QED BY <2>2, <2>3, KeepingFaultless
<1>6. CASE Check \/ UNCHANGED safetyVars
  <2>1. UNCHANGED <<map_alloc, map_construct, heap, container, others, building, step>>
    BY <1>6, OtherStep
  <2> QED BY <2>1, StillOwned, KeepingFaultless
<1> QED BY <1>1, <1>2, <1>3, <1>4, <1>5, <1>6 DEF SafetyNext

LEMMA BasicFaultlessKeeps ==
  ASSUME 0 \notin Populations,
         DriverTypes, DriverTypes', ConditionInv, BuildingInv, OwnedInv, driver = "basic", fault = "none",
         BasicFaultless, pc # "failed", [SafetyNext]_safetyVars
  PROVE  BasicFaultless' /\ pc' # "failed"
<1>1. /\ Left \subseteq Owned /\ Older
      /\ pc \in During => \A p \in DOMAIN map_construct \cap Range(building) : map_construct[p] = step
      /\ pc \in {"thrown", "caught"} => step < MaxCount
      /\ (pc \in {"begin", "call", "thrown", "caught"} /\ at <= 3) => container # << >>
      /\ pc \in {"setup", "check"} => Left = {}
      /\ pc = "setup" => label = Never
  BY DEF BasicFaultless
<1>2. /\ step \in Nat \ {0} /\ at \in Nat /\ building \in Seq(Nodes) /\ container \in Seq(Nodes)
      /\ container' \in Seq(Nodes)
  BY DEF DriverTypes
<1>3. CASE Setup
  <2>1. pc = "setup" /\ pc' = "begin" /\ step' = step /\ step = 1
    BY <1>3 DEF Setup, DriverTypes
  <2>2. PICK ns \in Seq(Nodes) : Take(ns) /\ Owned' = Range(ns)
    BY <1>3, SetupOwned
  <2>3. building' = << >> /\ Len(container') \in Populations /\ label' = label
    BY <1>3, SetupOwned
  <2>4. DOMAIN map_alloc = {} /\ DOMAIN map_construct = {} /\ label = Never
    BY <1>1, <2>1 DEF Left
  <2>5. /\ DOMAIN map_alloc' = Range(ns) /\ DOMAIN map_construct' = Range(ns)
        /\ \A p \in Range(ns) : map_alloc'[p][1] = Never /\ map_construct'[p] = Never
    BY <2>2, <2>4, TakeFacts
  <2>6. Left' \subseteq Owned' /\ Older'
    BY <2>2, <2>5 DEF Left, Older
  <2>7. container' # << >>
    <3>1. Len(<< >>) = 0
      OBVIOUS
    <3> QED BY <2>3, <3>1
  <2> QED BY <2>1, <2>6, <2>7 DEF BasicFaultless, During
<1>4. CASE Point
  <2>1. /\ UNCHANGED <<container, others, control, label, step>>
        /\ DOMAIN map_alloc \subseteq DOMAIN map_alloc'
        /\ \A p \in DOMAIN map_alloc : map_alloc'[p] = map_alloc[p]
        /\ \A p \in DOMAIN map_construct : map_construct'[p] = map_construct[p]
        /\ \A p \in DOMAIN map_construct' \ DOMAIN map_construct : map_construct'[p] = label
        /\ \/ UNCHANGED <<map_alloc, building>> /\ DOMAIN map_construct' \subseteq DOMAIN map_construct
           \/ /\ UNCHANGED <<map_alloc, building>>
              /\ DOMAIN map_construct' \subseteq DOMAIN map_construct \cup Range(building)
           \/ \E p \in Nodes \ DOMAIN map_alloc :
                /\ building' = Append(building, p)
                /\ DOMAIN map_alloc' = DOMAIN map_alloc \cup {p}
                /\ map_alloc'[p][1] = label
                /\ DOMAIN map_construct' = DOMAIN map_construct
    BY <1>4, PointOwned
  <2>2. /\ pc = "call" /\ pc' \in During /\ at' = at /\ Reached /\ limit' = limit
    BY <1>4, PointStep
  <2>3. label = step /\ limit = step /\ count <= limit
    BY <2>2 DEF OwnedInv, ConditionInv, During
  <2>4. pc' = "thrown" => step < MaxCount
    BY <2>2, <2>3 DEF Reached, throw_conditionally, Throws
  <2>5. \A p \in DOMAIN map_construct \cap Range(building) : map_construct[p] = step
    BY <1>1, <2>2 DEF During
  <2>6. /\ Left' \subseteq Owned' /\ Older'
        /\ \A p \in DOMAIN map_construct' \cap Range(building') : map_construct'[p] = step
    <3>1. CASE /\ UNCHANGED <<map_alloc, building>>
               /\ DOMAIN map_construct' \subseteq DOMAIN map_construct \cup Range(building)
      <4>1. Owned' = Owned
        BY <2>1, <3>1 DEF Owned
      <4>2. Left' \subseteq Owned'
        BY <1>1, <3>1, <4>1 DEF Left, Owned
      <4>3. \A p \in DOMAIN map_construct' \cap Range(building') : map_construct'[p] = step
        BY <2>1, <2>3, <2>5, <3>1
      <4>4. \A p \in DOMAIN map_alloc' \ Range(building') : map_alloc'[p][1] \in 0..(step' - 1) \cup {Never}
        BY <1>1, <2>1, <3>1 DEF Older
      <4>5. \A p \in DOMAIN map_construct' \ Range(building') : map_construct'[p] \in 0..(step' - 1) \cup {Never}
        BY <1>1, <2>1, <3>1 DEF Older
      <4> QED BY <4>2, <4>3, <4>4, <4>5 DEF Older
    <3>2. ASSUME NEW p \in Nodes \ DOMAIN map_alloc,
                 building' = Append(building, p), DOMAIN map_alloc' = DOMAIN map_alloc \cup {p},
                 DOMAIN map_construct' = DOMAIN map_construct
          PROVE  /\ Left' \subseteq Owned' /\ Older'
                 /\ \A q \in DOMAIN map_construct' \cap Range(building') : map_construct'[q] = step
      <4>1. Range(building') = Range(building) \cup {p}
        BY <1>2, <3>2, AppendFacts
      <4>2. Owned' = Owned \cup {p}
        BY <2>1, <4>1 DEF Owned
      <4>3. Left' \subseteq Owned'
        BY <1>1, <3>2, <4>2 DEF Left
      <4>4. p \notin DOMAIN map_construct
        BY <1>1, <3>2 DEF Left, OwnedInv
      <4>5. \A q \in DOMAIN map_construct' \cap Range(building') : map_construct'[q] = step
        BY <2>1, <2>5, <3>2, <4>1, <4>4
      <4>6. \A q \in DOMAIN map_alloc' \ Range(building') : map_alloc'[q][1] \in 0..(step' - 1) \cup {Never}
        BY <1>1, <2>1, <3>2, <4>1 DEF Older
      <4>7. \A q \in DOMAIN map_construct' \ Range(building') : map_construct'[q] \in 0..(step' - 1) \cup {Never}
        BY <1>1, <2>1, <3>2, <4>1 DEF Older
      <4> QED BY <4>3, <4>5, <4>6, <4>7 DEF Older
    <3> QED BY <2>1, <3>1, <3>2
  <2>7. at' <= 3 => container' # << >>
    BY <1>1, <2>1, <2>2
  <2>8. pc' \notin {"setup", "check", "caught", "failed"}
    BY <2>2 DEF During
  <2> QED BY <2>1, <2>2, <2>4, <2>6, <2>7, <2>8 DEF BasicFaultless
<1>5. CASE ~ Setup /\ ~ Point
  <2>1. Left' \subseteq Owned' /\ Older'
    BY <1>5, StepFaultless
  <2>2. PICK x : Keeping(x, {})
    <3>1. \E x, lost : Keeping(x, lost) /\ (fault \notin {"leaks", "forgets"} => lost = {})
      BY <1>5, StepOwned
    <3> QED BY <3>1
  <2>3. pc' \in During => building' = building /\ step' = step
    BY <1>5, StepOwned
  <2>4. pc \notin During => building = << >>
    BY DEF BuildingInv
  <2>5. pc' \in During => \A p \in DOMAIN map_construct' \cap Range(building') : map_construct'[p] = step'
    <3>1. SUFFICES ASSUME pc' \in During, NEW p \in DOMAIN map_construct', p \in Range(building')
                   PROVE  map_construct'[p] = step'
      OBVIOUS
    <3>2. pc \in During
      BY <2>3, <2>4, <3>1, EmptyFacts
    <3>3. p \in DOMAIN map_construct /\ map_construct'[p] = map_construct[p]
      BY <2>2, <3>1 DEF Keeping, Freed
    <3> QED BY <1>1, <2>3, <3>1, <3>2, <3>3
  <2>6. /\ pc' # "failed"
        /\ pc' \in {"thrown", "caught"} => step' < MaxCount
        /\ (pc' \in {"begin", "call", "thrown", "caught"} /\ at' <= 3) => container' # << >>
        /\ pc' \in {"setup", "check"} => Left' = {}
        /\ pc' = "setup" => label' = Never
    <3>1. CASE Begin
      <4>1. /\ pc = "begin" /\ at <= Len(Order[driver]) /\ UNCHANGED <<container, at>>
            /\ pc' \in {"call", "failed", "undefined"}
            /\ pc' = "failed" => container = << >> /\ f = "erase_point"
        BY <3>1, BeginStep
      <4>2. at \in 1..Len(Order[driver])
        BY <4>1, OrderFacts DEF DriverTypes
      <4>3. f = "erase_point" => at = 3
        BY <4>2, BasicFacts
      <4>4. pc' # "failed"
        BY <1>1, <4>1, <4>3
      <4> QED BY <1>1, <4>1, <4>4
    <3>2. CASE Unwind
      <4>1. /\ pc = "thrown" /\ pc' = "caught" /\ UNCHANGED <<at, step>>
            /\ container' = container \o Kept
        BY <3>2, UnwindStep
      <4>2. Kept = << >>
        BY DEF Kept
      <4>3. container' = container
        BY <1>2, <4>1, <4>2, ConcatEmptySeq
      <4> QED BY <1>1, <4>1, <4>3
    <3>3. CASE Caught
      <4>1. /\ pc = "caught" /\ UNCHANGED <<at, container>>
            /\ pc' = IF Labelled(step) = {} THEN "begin" ELSE "failed"
        BY <3>3, CaughtStep
      <4>2. building = << >>
        BY <2>4, <4>1 DEF During
      <4>3. step # Never /\ step \notin 0..(step - 1)
        BY <1>1, <1>2, <4>1, ThrowAssumption
      <4>4. Range(building) = {}
        BY <4>2, EmptyFacts
      <4>5. Labelled(step) = {}
        BY <1>1, <4>3, <4>4 DEF Older, Labelled
      <4> QED BY <1>1, <4>1, <4>5
    <3>4. CASE Finish
      <4>1. /\ pc = "call" /\ pc' = "begin" /\ at' = at + 1 /\ Effect
        BY <3>4, FinishStep
      <4>2. at \in 1..Len(Order[driver])
        BY <4>1 DEF DriverTypes, During
      <4>3. at' <= 3 => at \in {1, 2}
        BY <4>1, <4>2
      <4>4. at \in {1, 2} => f \notin Inserts \cup Removes \cup OtherNames
        <5>1. /\ at = 1 => f = "iterator_ops"
              /\ at = 2 => f = "const_iterator_ops"
          BY <4>2, BasicFacts
        <5> QED BY <5>1 DEF Inserts, Removes, Pops, OtherNames
      <4>5. at \in {1, 2} => container' = container
        BY <4>1, <4>4, EffectCases DEF OtherNames
      <4> QED BY <1>1, <1>2, <4>1, <4>3, <4>5
    <3>5. CASE End
      <4>1. pc' = "check"
        BY <3>5, EndStep DEF DriverTypes
      <4>2. Owned' = {}
        BY <3>5, EndOwned
      <4> QED BY <2>1, <4>1, <4>2
    <3>6. CASE Check \/ UNCHANGED safetyVars
      <4>1. /\ UNCHANGED <<map_alloc, map_construct, label, at, step, container>>
            /\ \/ pc' = pc
               \/ pc = "check" /\ pc' = IF Left = {} THEN "passed" ELSE "failed"
        BY <3>6, OtherStep
      <4>2. Left' = Left
        BY <4>1 DEF Left
      <4> QED BY <1>1, <4>1, <4>2
    <3> QED BY <1>5, <3>1, <3>2, <3>3, <3>4, <3>5, <3>6 DEF SafetyNext
  <2> QED BY <2>1, <2>5, <2>6 DEF BasicFaultless
<1> QED BY <1>3, <1>4, <1>5


\* The copy that propagation_consistent makes keeps the size of its control,
\* and the elements are compared under no limit.
LEMMA ConsistentFaultlessKeeps ==
  ASSUME DriverTypes, DriverTypes', ConditionInv, PlacesInv, driver = "consistent", fault = "none",
         ConsistentFaultless, pc # "failed", [SafetyNext]_safetyVars
  PROVE  ConsistentFaultless' /\ pc' # "failed"
<1>1. /\ 2 * Len(control) <= Never
      /\ pc \in During \cup {"caught"} => container = copied /\ Len(container) = Len(control)
  BY DEF ConsistentFaultless
<1>2. /\ container \in Seq(Nodes) /\ control \in Seq(Nodes) /\ adjustors \in Seq(Adjustor)
      /\ others \in [OtherNames -> Seq(Nodes)] /\ Len(control) \in Nat /\ Never \in Nat
  BY ThrowAssumption DEF DriverTypes
<1>3. driver' = "consistent" /\ driver # "basic" /\ driver # "prohibited"
  BY SameContainer
<1>4. pc \notin During \cup Ended => limit = Never /\ count = 0
  BY DEF ConditionInv
<1>5. CASE Setup
  <2>1. pc = "setup"
    BY <1>5 DEF Setup
  <2>2. limit = Never /\ count = 0
    BY <1>4, <2>1 DEF During, Ended
  <2>3. pc' = "begin" /\ Len(control') \in Populations
    BY <1>2, <1>5, <2>2, SetupStep
  <2>4. 2 * Len(control') <= Never
    BY <2>3, SafetyAssumption
  <2> QED BY <2>3, <2>4 DEF ConsistentFaultless, During
<1>6. CASE Begin
  <2>1. pc = "begin" /\ control' = control
    BY <1>6, BeginStep DEF DriverTypes
  <2>2. limit = Never /\ count = 0
    BY <1>4, <2>1 DEF During, Ended
  <2>3. Pass(2 * Len(control))
    BY <1>1, <1>2, <2>2 DEF Pass
  <2>4. /\ pc' = "call" /\ Take(Fresh(Len(control)))
        /\ container' = Fresh(Len(control)) /\ copied' = container'
    BY <1>6, <2>3, BeginStep DEF DriverTypes
  <2>5. Len(container') = Len(control)
    BY <1>2, <2>4, TakenFacts
  <2> QED BY <1>1, <2>1, <2>4, <2>5 DEF ConsistentFaultless
<1>7. CASE Point
  <2>1. UNCHANGED <<container, control, copied>> /\ pc = "call" /\ pc' \in During
    BY <1>7, PointStep
  <2> QED BY <1>1, <2>1 DEF ConsistentFaultless, During
<1>8. CASE Unwind
  <2>1. /\ pc = "thrown" /\ pc' = "caught" /\ container' = container \o Kept
        /\ UNCHANGED <<control, copied>>
    BY <1>3, <1>8, UnwindStep
  <2>2. Kept = << >>
    BY DEF Kept
  <2>3. container' = container
    BY <1>2, <2>1, <2>2, ConcatEmptySeq
  <2> QED BY <1>1, <2>1, <2>3 DEF ConsistentFaultless, During
<1>9. CASE Caught
  <2>1. /\ pc = "caught" /\ control' = control
        /\ pc' = IF compare THEN "begin" ELSE "failed"
    BY <1>3, <1>9, CaughtStep
  <2>2. limit = Never /\ count = 0
    BY <1>4, <2>1 DEF During, Ended
  <2>3. container = copied /\ Len(container) = Len(control)
    BY <1>1, <2>1
  <2>4. Pass(Len(container))
    BY <1>1, <1>2, <2>2, <2>3 DEF Pass
  <2> QED BY <1>1, <2>1, <2>3, <2>4 DEF ConsistentFaultless, During, compare
<1>10. CASE Finish
  <2>1. pc' = "begin" /\ control' = control
    BY <1>10, FinishStep
  <2> QED BY <1>1, <2>1 DEF ConsistentFaultless, During
<1>11. CASE End
  <2>1. pc' = "passed" /\ control' = << >>
    BY <1>2, <1>3, <1>11, EndStep
  <2>2. 2 * Len(control') <= Never
    <3>1. Len(<< >>) = 0
      OBVIOUS
    <3> QED BY <1>2, <2>1, <3>1
  <2> QED BY <2>1, <2>2 DEF ConsistentFaultless, During
<1>12. CASE Check
  BY <1>3, <1>12 DEF Check, PlacesInv
<1>13. CASE UNCHANGED safetyVars
  <2>1. UNCHANGED <<pc, control, container, copied>>
    BY <1>13 DEF safetyVars, contents, history
  <2> QED BY <1>1, <2>1 DEF ConsistentFaultless
<1> QED BY <1>5, <1>6, <1>7, <1>8, <1>9, <1>10, <1>11, <1>12, <1>13 DEF SafetyNext

\* A function that may not throw passes no throw point of a container that
\* keeps its promises.
LEMMA ProhibitedFaultlessKeeps ==
  ASSUME DriverTypes, BuildingInv, PlacesInv, driver = "prohibited", fault = "none",
         pc \notin {"thrown", "caught", "failed"}, [SafetyNext]_safetyVars
  PROVE  pc' \notin {"thrown", "caught", "failed"}
<1>1. CASE Setup \/ Finish \/ End
  BY <1>1 DEF Setup, Finish, End
<1>2. CASE Begin
  BY <1>2, BeginStep DEF DriverTypes
<1>3. CASE Point
  <2>1. PointsKnown
    BY PointsFacts DEF PointTypes, DriverTypes
  <2>2. pc = "call" /\ stage < Len(Points) /\ stage \in Nat
    BY <1>3, PointStep DEF DriverTypes
  <2>3. f \notin Inserts \cup {"assign_operator"}
    BY <2>2, ProhibitedFacts DEF DriverTypes, During
  <2>4. Points = << >>
    BY <2>1, <2>3 DEF PointsKnown
  <2>5. Len(Points) = 0
    BY <2>4
  <2> QED BY <2>2, <2>5
<1>4. CASE Unwind \/ Caught \/ Check
  BY <1>4 DEF Unwind, Caught, Check, PlacesInv
<1>5. CASE UNCHANGED safetyVars
  BY <1>5 DEF safetyVars
<1> QED BY <1>1, <1>2, <1>3, <1>4, <1>5 DEF SafetyNext


LEMMA FaultlessKeeps ==
  ASSUME 0 \notin Populations, DriverTypes, DriverTypes', ConditionInv, BuildingInv, PlacesInv, OwnedInv,
         FaultlessInv, [SafetyNext]_safetyVars
  PROVE  FaultlessInv'
<1>1. UNCHANGED <<driver, fault>>
  BY SameContainer
<1> SUFFICES ASSUME fault = "none"
             PROVE  /\ pc' # "failed" /\ BasicFaultless' /\ ConsistentFaultless'
                    /\ driver = "prohibited" => pc' \notin {"thrown", "caught"}
  BY <1>1 DEF FaultlessInv
<1>2. /\ pc # "failed" /\ BasicFaultless /\ ConsistentFaultless
      /\ driver = "prohibited" => pc \notin {"thrown", "caught"}
  BY DEF FaultlessInv
<1>3. CASE driver = "basic"
  <2>1. BasicFaultless' /\ pc' # "failed"
    BY <1>2, <1>3, BasicFaultlessKeeps
  <2> QED BY <1>1, <1>3, <2>1 DEF ConsistentFaultless
<1>4. CASE driver = "consistent"
  <2>1. ConsistentFaultless' /\ pc' # "failed"
    BY <1>2, <1>4, ConsistentFaultlessKeeps
  <2> QED BY <1>1, <1>4, <2>1 DEF BasicFaultless
<1>5. CASE driver = "prohibited"
  <2>1. pc' \notin {"thrown", "caught", "failed"}
    BY <1>2, <1>5, ProhibitedFaultlessKeeps
  <2> QED BY <1>1, <1>5, <2>1 DEF BasicFaultless, ConsistentFaultless
<1> QED BY <1>3, <1>4, <1>5 DEF DriverTypes

-----------------------------------------------------------------------------
(* What the drivers promise.                                                *)

LEMMA PlacesKeep ==
  ASSUME DriverTypes, PlacesInv, [SafetyNext]_safetyVars
  PROVE  PlacesInv'
<1>1. UNCHANGED <<driver, Kind, fault>>
  BY SameContainer
<1>2. CASE Begin
  <2>1. CASE driver = "basic"
    <3>1. pc' \in {"call", "failed"} \/ (pc' = "undefined" /\ f \in Pops)
      BY <1>2, <2>1, BeginStep
    <3>2. f \in Pops => Kind = "list"
      BY DEF Pops
    <3> QED BY <1>1, <2>1, <3>1, <3>2 DEF PlacesInv
  <2>2. CASE driver # "basic"
    <3>1. pc' \in {"begin", "call", "failed"}
      BY <1>2, <2>2, BeginStep DEF DriverTypes
    <3> QED BY <3>1 DEF PlacesInv
  <2> QED BY <2>1, <2>2
<1>3. CASE Setup \/ Point \/ Unwind \/ Caught \/ Finish
  <2>1. pc' \in {"begin", "call", "thrown", "failed", "caught"}
    BY <1>3, PointStep, UnwindStep, CaughtStep, FinishStep DEF Setup, During
  <2> QED BY <2>1 DEF PlacesInv
<1>4. CASE End
  <2>1. pc' = IF driver = "basic" THEN "check" ELSE "passed"
    BY <1>4 DEF End
  <2> QED BY <1>1, <2>1 DEF PlacesInv
<1>5. CASE Check \/ UNCHANGED safetyVars
  <2>1. pc' = pc \/ pc' \in {"passed", "failed"}
    BY <1>5, OtherStep
  <2> QED BY <1>1, <2>1 DEF PlacesInv
<1> QED BY <1>2, <1>3, <1>4, <1>5 DEF SafetyNext

LEMMA StartFaultless ==
  ASSUME SafetyInit
  PROVE  FaultlessInv
<1>1. pc = "setup" /\ control = << >> /\ building = << >> /\ container = << >> /\ label = Never
  BY DEF SafetyInit, Init
<1>2. DOMAIN map_alloc = {} /\ DOMAIN map_construct = {}
  BY DEF SafetyInit, Init, NoEntries
<1>3. BasicFaultless
  BY <1>1, <1>2 DEF BasicFaultless, Left, Older, During
<1>4. 2 * Len(control) <= Never
  <2>1. Len(<< >>) = 0 /\ Never \in Nat
    BY ThrowAssumption
  <2> QED BY <1>1, <2>1
<1>5. ConsistentFaultless
  BY <1>1, <1>4 DEF ConsistentFaultless, During
<1> QED BY <1>1, <1>3, <1>5 DEF FaultlessInv

LEMMA StartSafe ==
  ASSUME SafetyInit
  PROVE  SafetyInv
<1>1. /\ limit = Never /\ count = 0 /\ adjustors = << >>
      /\ pc = "setup" /\ at = 1 /\ step = 1 /\ stage = 0 /\ made \in BOOLEAN
      /\ container = << >> /\ control = << >> /\ building = << >>
      /\ untried = {} /\ faulted = FALSE /\ Kind \in Kinds
  BY DEF SafetyInit, Init
<1>2. others = [g \in OtherNames |-> << >>]
  BY DEF SafetyInit, OtherNames
<1>3. driver \in {"basic", "consistent", "prohibited"}
  BY DEF SafetyInit, Order
<1>4. DriverTypes
  <2>1. << >> \in Seq(Nodes) /\ << >> \in Seq(Adjustor) /\ Never \in Nat
    BY ThrowAssumption
  <2> QED BY <1>1, <1>2, <1>3, <2>1 DEF DriverTypes, During
<1>5. ConditionInv
  BY <1>1 DEF ConditionInv, During
<1>6. BuildingInv
  BY <1>1 DEF BuildingInv, During
<1>7. ForcedInv
  BY <1>1 DEF ForcedInv, Trying, During
<1>8. PopsInv /\ PlacesInv
  BY <1>1 DEF PopsInv, PlacesInv
<1>9. OwnedInv
  <2>1. Range(<< >>) = {} /\ IsInjective(<< >>)
    BY DEF Range, IsInjective
  <2>2. \A g \in OtherNames : others[g] = << >>
    BY <1>2
  <2>3. Apart
    BY <1>1, <2>1, <2>2 DEF Apart
  <2>4. Owned = {}
    BY <1>1, <2>1, <2>2 DEF Owned
  <2>5. DOMAIN map_alloc = DOMAIN heap
    BY DEF SafetyInit, Init
  <2> QED BY <1>1, <2>3, <2>4, <2>5 DEF OwnedInv, During
<1>10. NoticedInv /\ CopiedInv
  BY <1>1 DEF NoticedInv, CopiedInv, During
<1> QED BY <1>4, <1>5, <1>6, <1>7, <1>8, <1>9, <1>10 DEF SafetyInv

LEMMA SafeKeeps == SafetyInv /\ [SafetyNext]_safetyVars => SafetyInv'
<1> SUFFICES ASSUME SafetyInv, [SafetyNext]_safetyVars PROVE SafetyInv'
  OBVIOUS
<1>1. /\ DriverTypes /\ ConditionInv /\ BuildingInv /\ ForcedInv /\ PopsInv /\ PlacesInv
      /\ OwnedInv /\ NoticedInv /\ CopiedInv
  BY DEF SafetyInv
<1>2. DriverTypes'
  BY <1>1, TypesKeep
<1>3. ConditionInv' /\ ForcedInv' /\ PlacesInv'
  BY <1>1, LimitKeeps, ForcedKeeps, PlacesKeep
<1>4. BuildingInv' /\ PopsInv'
  BY <1>1, <1>2, BuildingKeeps, PopsKeeps
<1>5. OwnedInv' /\ NoticedInv' /\ CopiedInv'
  BY <1>1, <1>2, OwnedKeeps, NoticedKeeps, CopiedKeeps
<1> QED BY <1>2, <1>3, <1>4, <1>5 DEF SafetyInv

\* The invariant of the three drivers: the limit in force, what a call has
\* built, the throw points forced so far, who owns which node, and that a
\* fault that took effect is noticed or about to be.
THEOREM DriverInvariance == SafetySpec => []SafetyInv
<1>1. SafetyInit => SafetyInv
  BY StartSafe
<1>2. SafetyInv /\ [SafetyNext]_safetyVars => SafetyInv'
  BY SafeKeeps
<1> QED BY <1>1, <1>2, PTL DEF SafetySpec

\* A driver that ends well has not seen the faults it is there to notice,
\* whatever the populations (safety.h:916, 1030, 1098).
THEOREM Noticed == SafetySpec => []FaultsNoticed
<1>1. SafetyInv => FaultsNoticed
  BY DEF SafetyInv, NoticedInv, Noticing, FaultsNoticed
<1> QED BY DriverInvariance, <1>1, PTL

\* propagation_consistent fails a function at every throw point of the
\* container before the function passes it (safety.h:1159).
THEOREM ConsistentForces == SafetySpec => []ConsistentForcesAll
<1>1. SafetyInv => ConsistentForcesAll
  BY DEF SafetyInv, ForcedInv, ConsistentForcesAll
<1> QED BY DriverInvariance, <1>1, PTL

\* basic_safety pops no empty container (safety.h:337, 352), even where
\* populate has drawn no element.
THEOREM SomethingPopped == SafetySpec => []PopsSomething
<1>1. SafetyInv => PopsSomething
  BY DEF SafetyInv, PopsInv, PlacesInv, PopsSomething
<1> QED BY DriverInvariance, <1>1, PTL

\* No driver fails a container that keeps its promises, if populate always
\* draws an element: basic_safety erases one without asking (safety.h:236).
THEOREM NoAlarm == 0 \notin Populations => (SafetySpec => []NoFalseAlarm)
<1> SUFFICES ASSUME 0 \notin Populations PROVE SafetySpec => []NoFalseAlarm
  OBVIOUS
<1>1. SafetyInit => FaultlessInv
  BY StartFaultless
<1>2. SafetyInv /\ SafetyInv' /\ FaultlessInv /\ [SafetyNext]_safetyVars => FaultlessInv'
  <2> SUFFICES ASSUME SafetyInv, SafetyInv', FaultlessInv, [SafetyNext]_safetyVars
               PROVE  FaultlessInv'
    OBVIOUS
  <2>1. DriverTypes /\ DriverTypes' /\ ConditionInv /\ BuildingInv /\ PlacesInv /\ OwnedInv
    BY DEF SafetyInv
  <2> QED BY <2>1, FaultlessKeeps
<1>3. FaultlessInv => NoFalseAlarm
  BY DEF FaultlessInv, NoFalseAlarm
<1> QED BY DriverInvariance, <1>1, <1>2, <1>3, PTL DEF SafetySpec
=============================================================================
