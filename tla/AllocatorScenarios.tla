------------------------- MODULE AllocatorScenarios -------------------------
(***************************************************************************)
(* uneq_allocator and propagating_allocator, which note in a map who took a *)
(* block and refuse to give it back for anybody else, and the tests that    *)
(* move, copy and swap containers with them.  The containers (uxs,          *)
(* external) hold one element at most; they keep their contract or have one *)
(* fault throughout.                                                        *)
(***************************************************************************)
EXTENDS Integers, Sequences, FiniteSets

CONSTANTS
  Blocks,   \* addresses the base allocator may give; bound: blocks at once
  Kinds,    \* which containers: "vector", "list", "set"
  Faults,   \* what may be wrong with one, "none" included
  None      \* no block

ASSUME ScenariosAssumption ==
  /\ None \notin Blocks
  /\ Kinds \subseteq {"vector", "list", "set"}
  /\ Faults \subseteq {"none", "leaks", "loses", "reallocates", "stateless",
                      "copies_allocator", "default_allocator",
                      "never_propagates", "always_propagates", "frees_late",
                      "steals", "moves_each", "resets_moved_from"}

VARIABLES
  kind, fault,  \* the container under test
  alloc_map,    \* uneq_allocator_base::get_map(): block -> personality
  heap,         \* the base allocator's blocks -> the personality they went to
  box,          \* v1 and v2: alive, personality of its allocator, block
  it,           \* the iterator the test keeps
  allocs,       \* allocations since the test counts
  test, pos,    \* the test performed and its next statement
  status        \* "running", "passed", "failed", "terminated"

memory == <<alloc_map, heap>>
vars == <<kind, fault, memory, box, it, allocs, test, pos, status>>

Names == {"v1", "v2"}

-----------------------------------------------------------------------------
(* The tests.                                                               *)

uneq == [copies |-> FALSE, moves |-> FALSE, swaps |-> TRUE, selects |-> TRUE]
propagating(p) == [copies |-> p, moves |-> p, swaps |-> p, selects |-> p]

Do(op, x, y, p) == [op |-> op, x |-> x, y |-> y, p |-> p]
Construct(x, p) == Do("construct", x, x, p)
Push(x) == Do("push", x, x, 0)
Verify(x, p) == Do("personality", x, x, p)
VerifyBegin == Do("begin", "v2", "v2", 0)
Keep == Do("keep", "v1", "v1", 0)

Copy == <<
  [traits |-> propagating(FALSE),
   body |-> <<Construct("v1", 1), Push("v1"), Do("copy", "v2", "v1", 0), Verify("v1", 1), Verify("v2", 0)>>],
  [traits |-> propagating(TRUE),
   body |-> <<Construct("v1", 1), Push("v1"), Do("copy", "v2", "v1", 0), Verify("v1", 1), Verify("v2", 1)>>],
  [traits |-> propagating(TRUE),
   body |-> <<Construct("v1", 1), Push("v1"), Do("copy_with", "v2", "v1", 2), Verify("v1", 1), Verify("v2", 2)>>] >>

CopyAssign == <<
  [traits |-> propagating(FALSE),
   body |-> <<Construct("v1", 1), Push("v1"), Construct("v2", 2), Push("v2"),
              Do("assign", "v2", "v1", 0), Verify("v1", 1), Verify("v2", 2)>>],
  [traits |-> propagating(TRUE),
   body |-> <<Construct("v1", 1), Push("v1"), Construct("v2", 2), Push("v2"),
              Do("assign", "v2", "v1", 0), Verify("v1", 1), Verify("v2", 1)>>] >>

Move == <<
  [traits |-> uneq,
   body |-> <<Construct("v1", 1), Push("v1"), Keep, Do("move", "v2", "v1", 0),
              Verify("v1", 1), Verify("v2", 1), VerifyBegin>>],
  [traits |-> uneq,
   body |-> <<Construct("v1", 1), Push("v1"), Do("move_with", "v2", "v1", 2), Verify("v1", 1), Verify("v2", 2)>>] >>

MoveAssign == <<
  [traits |-> propagating(FALSE),
   body |-> <<Construct("v1", 1), Push("v1"), Construct("v2", 2), Push("v2"),
              Do("move_assign", "v2", "v1", 0), Verify("v1", 1), Verify("v2", 2)>>],
  [traits |-> propagating(TRUE),
   body |-> <<Construct("v1", 1), Push("v1"), Keep, Construct("v2", 2), Push("v2"),
              Do("move_assign", "v2", "v1", 0), VerifyBegin, Verify("v1", 1), Verify("v2", 1)>>] >>

\* Of the vector only.
MoveAssignEqual ==
  [traits |-> propagating(FALSE),
   body |-> <<Construct("v1", 1), Push("v1"), Keep, Construct("v2", 1), Push("v2"),
              Do("move_assign", "v2", "v1", 0), VerifyBegin, Verify("v1", 1), Verify("v2", 1)>>]

\* Of the set only: v1 = std::move(v2) without an allocation.  The test puts two
\* elements into each and counts the constructions too; here it is one element,
\* and the allocations alone are counted.
MoveAssignReuses ==
  [traits |-> propagating(FALSE),
   body |-> <<Construct("v1", 1), Push("v1"), Construct("v2", 2), Push("v2"), Do("count", "v1", "v1", 0),
              Do("move_assign", "v1", "v2", 0), Verify("v1", 1), Verify("v2", 2), Do("counted", "v1", "v1", 0)>>]

MoveCons ==
  [traits |-> uneq,
   body |-> <<Construct("v1", 1), Push("v1"), Do("move_with", "v2", "v1", 2), Verify("v1", 1), Verify("v2", 2),
              Do("absent", "v1", "v1", 0), Do("present", "v2", "v2", 0)>>]

\* A mutant for NoFalseAlarm: the first test does not swap back.
SwapOneWay == <<
  [traits |-> propagating(FALSE),
   body |-> <<Construct("v1", 1), Push("v1"), Construct("v2", 2), Push("v2"),
              Do("swap", "v1", "v2", 0), Verify("v1", 1), Verify("v2", 2)>>],
  [traits |-> propagating(TRUE),
   body |-> <<Construct("v1", 1), Push("v1"), Construct("v2", 2), Push("v2"),
              Do("swap", "v1", "v2", 0), Verify("v1", 2), Verify("v2", 1)>>] >>

\* Allocators are made to compare equal here, so that swapping is allowed.
Swap == <<
  [traits |-> propagating(FALSE),
   body |-> <<Construct("v1", 1), Push("v1"), Construct("v2", 2), Push("v2"),
              Do("swap", "v1", "v2", 0), Verify("v1", 1), Verify("v2", 2), Do("swap", "v1", "v2", 0)>>],
  [traits |-> propagating(TRUE),
   body |-> <<Construct("v1", 1), Push("v1"), Construct("v2", 2), Push("v2"),
              Do("swap", "v1", "v2", 0), Verify("v1", 2), Verify("v2", 1)>>] >>

Tests == Copy \o CopyAssign \o Move \o MoveAssign
           \o (CASE kind = "vector" -> <<MoveAssignEqual>>
                 [] kind = "set" -> <<MoveAssignReuses, MoveCons>>
                 [] OTHER -> << >>)
           \o Swap

traits == Tests[test].traits
Stmt == Tests[test].body[pos]
At(op) == status = "running" /\ pos <= Len(Tests[test].body) /\ Stmt.op = op

-----------------------------------------------------------------------------
(* The allocator: who gives a block back is a pair of it and a personality.  *)

\* A mutant for FaultsNoticed: whoever gives a block back may.
RefusesUnknown(g) == g[1] \notin DOMAIN alloc_map

Refuses(g) == g[1] \notin DOMAIN alloc_map \/ alloc_map[g[1]] # g[2]

Without(m, S) == [b \in DOMAIN m \ {g[1] : g \in S} |-> m[b]]

\* A mutant for MapIsHeap: the entries outlive their blocks.
deallocateKeeps(S) == heap' = Without(heap, S) /\ alloc_map' = alloc_map

deallocate(S) == heap' = Without(heap, S) /\ alloc_map' = Without(alloc_map, S)

\* unordered_map::insert keeps what there is.
insert(m, b, p) == [c \in DOMAIN m \cup {b} |-> IF c \in DOMAIN m THEN m[c] ELSE p]

\* Block b taken by personality p, those of S given back before or after.
allocate(S, b, p) ==
  /\ alloc_map' = insert(Without(alloc_map, S), b, p)
  /\ heap' = [c \in DOMAIN Without(heap, S) \cup {b} |-> IF c = b THEN p ELSE heap[c]]

-----------------------------------------------------------------------------
(* The containers.  A statement leaves the boxes as given, and gives S back. *)

Has(x) == box[x].block # None
Held(x, p) == {<<b, p>> : b \in {box[x].block} \ {None}}
AllHeld == Held("v1", box["v1"].p) \cup Held("v2", box["v2"].p)

Same == UNCHANGED <<kind, fault, it, test>>

\* What deallocate throws leaves the statement, or ends the program where that
\* must not throw.
Thrown(S) ==
  /\ \E g \in S : Refuses(g)
  /\ status' \in {"failed", "terminated"} /\ UNCHANGED <<memory, box, pos, allocs>>

Frees(boxes, S) ==
  \/ /\ \A g \in S : ~ Refuses(g)
     /\ deallocate(S) /\ box' = boxes /\ pos' = pos + 1 /\ UNCHANGED <<status, allocs>>
  \/ Thrown(S)

\* x is to hold a block taken by personality p, at an address that is free or
\* becomes free with what x gives back.
FreesAndTakes(boxes, S, x, p) ==
  \/ /\ \A g \in S : ~ Refuses(g)
     /\ \E b \in (Blocks \ DOMAIN heap) \cup ({g[1] : g \in S} \cap {box[x].block}) :
          allocate(S, b, IF fault = "stateless" THEN 0 ELSE p) /\ box' = [boxes EXCEPT ![x].block = b]
     /\ pos' = pos + 1 /\ allocs' = allocs + 1 /\ UNCHANGED status
  \/ Thrown(S)

\* x of boxes gets a copy of an element, if there is one; what x has held goes
\* back as personality by, as does S.  A set uses the node that it has.
Fills(boxes, x, has, by, S) ==
  LET gets == has /\ fault # "loses"
      reuses == gets /\ Has(x) /\ boxes[x].p = box[x].p /\ fault # "reallocates"
  IN  \/ reuses /\ Frees(boxes, S)
      \/ gets /\ ~ (reuses /\ kind = "set") /\ FreesAndTakes(boxes, Held(x, by) \cup S, x, boxes[x].p)
      \/ ~ gets /\ Frees([boxes EXCEPT ![x].block = None], Held(x, by) \cup S)

\* x with personality p, and y after it has been moved from.
Owned(x, p) == [box EXCEPT ![x].alive = TRUE, ![x].p = p]
MovedFrom(boxes, y) == IF fault = "resets_moved_from" THEN [boxes EXCEPT ![y].p = 0] ELSE boxes

\* x gets the block of y.
Takes(x, y, p, by) ==
  Frees(MovedFrom([Owned(x, p) EXCEPT ![x].block = box[y].block, ![y].block = None], y), Held(x, by))

\* x gets the element of y, which is left moved from or, in a set, removed.
MovesEach(x, y, p, by) ==
  LET boxes == MovedFrom(Owned(x, p), y)
  IN  \/ kind # "set" /\ Fills(boxes, x, Has(y), by, {})
      \/ Fills([boxes EXCEPT ![y].block = None], x, Has(y), by, Held(y, box[y].p))

-----------------------------------------------------------------------------
(* The statements.                                                          *)

construct == At("construct") /\ Frees(Owned(Stmt.x, Stmt.p), {}) /\ Same

push == At("push") /\ FreesAndTakes(box, {}, Stmt.x, box[Stmt.x].p) /\ Same

\* The allocator is that of select_on_container_copy_construction, or given.
copy ==
  /\ At("copy") \/ At("copy_with")
  /\ LET from == box[Stmt.y].p
         p == IF fault = "copies_allocator" THEN from
              ELSE IF fault = "default_allocator" THEN 0
              ELSE IF Stmt.op = "copy_with" THEN Stmt.p
              ELSE IF traits.selects THEN from ELSE 0
     IN  Fills(Owned(Stmt.x, p), Stmt.x, Has(Stmt.y), p, {})
  /\ Same

Propagates(trait) ==
  CASE fault = "never_propagates" -> FALSE
    [] fault = "always_propagates" -> TRUE
    [] OTHER -> trait

\* What the old allocator has given goes back to it before it is replaced.
assign ==
  /\ At("assign")
  /\ LET own == box[Stmt.x].p
         p == IF Propagates(traits.copies) THEN box[Stmt.y].p ELSE own
     IN  Fills(Owned(Stmt.x, p), Stmt.x, Has(Stmt.y), IF fault = "frees_late" THEN p ELSE own, {})
  /\ Same

move ==
  /\ At("move") \/ At("move_with")
  /\ LET from == box[Stmt.y].p
         p == IF Stmt.op = "move" \/ fault = "copies_allocator" THEN from ELSE Stmt.p
     IN  IF (p = from \/ fault = "steals") /\ fault # "moves_each"
           THEN Takes(Stmt.x, Stmt.y, p, p) ELSE MovesEach(Stmt.x, Stmt.y, p, p)
  /\ Same

move_assign ==
  /\ At("move_assign")
  /\ LET own == box[Stmt.x].p
         from == box[Stmt.y].p
         p == IF Propagates(traits.moves) THEN from ELSE own
         by == IF fault = "frees_late" THEN p ELSE own
     IN  IF (p = from \/ fault = "steals") /\ fault # "moves_each"
           THEN Takes(Stmt.x, Stmt.y, p, by) ELSE MovesEach(Stmt.x, Stmt.y, p, by)
  /\ Same

swap ==
  /\ At("swap")
  /\ LET one == box["v1"]  two == box["v2"]
     IN  Frees(IF Propagates(traits.swaps) THEN [box EXCEPT !["v1"] = two, !["v2"] = one]
               ELSE [box EXCEPT !["v1"].block = two.block, !["v2"].block = one.block], {})
  /\ Same

keep ==
  /\ At("keep")
  /\ it' = box["v1"].block /\ pos' = pos + 1
  /\ UNCHANGED <<kind, fault, memory, box, allocs, test, status>>

count ==
  /\ At("count")
  /\ allocs' = 0 /\ pos' = pos + 1
  /\ UNCHANGED <<kind, fault, memory, box, it, test, status>>

Holds ==
  CASE Stmt.op = "personality" -> box[Stmt.x].p = Stmt.p
    [] Stmt.op = "begin" -> box[Stmt.x].block = it
    [] Stmt.op = "counted" -> allocs = 0
    [] Stmt.op = "absent" -> ~ Has(Stmt.x)
    [] Stmt.op = "present" -> Has(Stmt.x)

AtVERIFY == \E op \in {"personality", "begin", "counted", "absent", "present"} : At(op)

\* Destructors give back what v1 and v2 hold; refused, they end the program.
Destroys(next) ==
  \/ /\ \A g \in AllHeld : ~ Refuses(g)
     /\ deallocate(AllHeld) /\ status' = next
  \/ /\ \E g \in AllHeld : Refuses(g)
     /\ status' = "terminated" /\ UNCHANGED memory

Empty == [alive |-> FALSE, p |-> 0, block |-> None]

VERIFY ==
  /\ AtVERIFY /\ Holds /\ pos' = pos + 1
  /\ UNCHANGED <<kind, fault, memory, box, it, allocs, test, status>>

VERIFYfails ==
  /\ AtVERIFY /\ ~ Holds /\ Destroys("failed")
  /\ box' = [x \in Names |-> Empty]
  /\ UNCHANGED <<kind, fault, it, allocs, test, pos>>

Leaks == fault = "leaks" /\ DOMAIN heap = {g[1] : g \in AllHeld}

EndTest ==
  /\ status = "running" /\ pos > Len(Tests[test].body)
  /\ IF Leaks
       THEN status' = (IF test = Len(Tests) THEN "passed" ELSE "running") /\ UNCHANGED memory
       ELSE Destroys(IF test = Len(Tests) THEN "passed" ELSE "running")
  /\ test' = (IF status' = "running" THEN test + 1 ELSE test) /\ pos' = 1
  /\ box' = [x \in Names |-> Empty] /\ it' = None /\ allocs' = 0
  /\ UNCHANGED <<kind, fault>>

-----------------------------------------------------------------------------
Init ==
  /\ kind \in Kinds /\ fault \in Faults
  /\ alloc_map = [b \in {} |-> 0] /\ heap = [b \in {} |-> 0]
  /\ box = [x \in Names |-> Empty] /\ it = None /\ allocs = 0
  /\ test = 1 /\ pos = 1 /\ status = "running"

Next ==
  \/ construct \/ push \/ copy \/ assign \/ move \/ move_assign \/ swap \/ keep \/ count
  \/ VERIFY \/ VERIFYfails \/ EndTest

Spec == Init /\ [][Next]_vars

-----------------------------------------------------------------------------
\* The map is the base allocator's heap, with the personality that every block
\* went to: no entry of an earlier test blames, or excuses, a later one
\* (testsuite_allocator.h:287, 299).
MapIsHeap == alloc_map = heap

\* A container that keeps its contract passes every test, and never gives a
\* block back as anybody else (swap.cpp:52).
NoFalseAlarm == fault = "none" => status \in {"running", "passed"}

\* What the tests do not see: a block that is not given back; an element lost,
\* but for the set's, which is counted.
Unseen == {"none", "leaks"} \cup IF kind = "set" THEN {} ELSE {"loses", "reallocates"}

\* Every other fault ends the tests of the container.
FaultsNoticed == status = "passed" => fault \in Unseen
=============================================================================
