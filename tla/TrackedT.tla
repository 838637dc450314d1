------------------------------ MODULE TrackedT ------------------------------
(***************************************************************************)
(* The element type T of include/test_types.h, which counts its objects and *)
(* those of them that hold a text.  The container tests compare the counts  *)
(* with what the containers should hold, and the runner ends a session      *)
(* with them: they have to be right after any sequence of constructions,    *)
(* moves and assignments, of an object to itself included.  Containers and  *)
(* tests are any such sequence.  T_ThrowingMove does what T does.           *)
(***************************************************************************)
EXTENDS Integers, FiniteSets

CONSTANTS
  Objects,   \* places an object may live in
  Texts,     \* texts an integer is turned into, never empty
  Empty,     \* the empty text
  NoObject   \* what a place holds that no object lives in

ASSUME ObjectAssumption ==
  /\ IsFiniteSet(Objects)
  /\ Empty \notin Texts
  /\ NoObject \notin Texts \cup {Empty}

VARIABLES
  text,             \* place -> the text of the object that lives there
  not_empty_count,
  instance_count

trackedVars == <<text, not_empty_count, instance_count>>

Lives(o) == text[o] # NoObject

\* What an object with text x contributes to not_empty_count.
Weight(x) == IF x \in Texts THEN 1 ELSE 0

-----------------------------------------------------------------------------
TrackedInit ==
  /\ text = [o \in Objects |-> NoObject]
  /\ not_empty_count = 0
  /\ instance_count = 0

DefaultConstruct(o) ==
  /\ ~ Lives(o)
  /\ text' = [text EXCEPT ![o] = Empty]
  /\ instance_count' = instance_count + 1
  /\ UNCHANGED not_empty_count

ConstructFrom(o, x) ==
  /\ ~ Lives(o)
  /\ text' = [text EXCEPT ![o] = x]
  /\ instance_count' = instance_count + 1
  /\ not_empty_count' = not_empty_count + 1

Destroy(o) ==
  /\ Lives(o)
  /\ text' = [text EXCEPT ![o] = NoObject]
  /\ not_empty_count' = not_empty_count - Weight(text[o])
  /\ instance_count' = instance_count - 1

CopyConstruct(o, t) ==
  /\ ~ Lives(o) /\ Lives(t)
  /\ text' = [text EXCEPT ![o] = text[t]]
  /\ instance_count' = instance_count + 1
  /\ not_empty_count' = not_empty_count + Weight(text[t])

CopyAssign(o, t) ==
  /\ Lives(o) /\ Lives(t)
  /\ text' = [text EXCEPT ![o] = text[t]]
  /\ not_empty_count' = not_empty_count - Weight(text[o]) + Weight(text[t])
  /\ UNCHANGED instance_count

\* The object moved from is emptied: its share of not_empty_count moves along.
MoveConstruct(o, t) ==
  /\ ~ Lives(o) /\ Lives(t)
  /\ text' = [text EXCEPT ![o] = text[t], ![t] = Empty]
  /\ instance_count' = instance_count + 1
  /\ UNCHANGED not_empty_count

\* Mutant: the object moved from is left as std::string leaves it.
MoveAssignLeaves(o, t) ==
  /\ Lives(o) /\ Lives(t)
  /\ \E rest \in {text[t], Empty} :
       text' = [text EXCEPT ![o] = text[t], ![t] = rest]
  /\ not_empty_count' = not_empty_count - Weight(text[o])
  /\ UNCHANGED instance_count

\* An object moved to itself is emptied too.
MoveAssign(o, t) ==
  /\ Lives(o) /\ Lives(t)
  /\ text' = [text EXCEPT ![o] = text[t], ![t] = Empty]
  /\ not_empty_count' = not_empty_count - Weight(text[o])
  /\ UNCHANGED instance_count

set(o, x) ==
  /\ Lives(o)
  /\ text' = [text EXCEPT ![o] = x]
  /\ not_empty_count' = not_empty_count - Weight(text[o]) + 1
  /\ UNCHANGED instance_count

TrackedNext ==
  \/ \E o \in Objects : DefaultConstruct(o) \/ Destroy(o)
  \/ \E o \in Objects, x \in Texts : ConstructFrom(o, x) \/ set(o, x)
  \/ \E o, t \in Objects :
       \/ CopyConstruct(o, t)
       \/ MoveConstruct(o, t)
       \/ CopyAssign(o, t)
       \/ MoveAssign(o, t)

TrackedSpec == TrackedInit /\ [][TrackedNext]_trackedVars

-----------------------------------------------------------------------------
(* Correctness.                                                            *)

\* Every variable keeps its type: a count that drops below zero has counted an
\* object off twice.
TypeOK ==
  /\ text \in [Objects -> Texts \cup {Empty, NoObject}]
  /\ not_empty_count \in Nat
  /\ instance_count \in Nat

Living == {o \in Objects : text[o] # NoObject}
NotEmpty == {o \in Objects : text[o] \in Texts}

\* The two counts are the numbers of objects, and of objects with a text, that
\* there are: what every VERIFY of a container test on them takes for granted.
CountsExact ==
  /\ instance_count = Cardinality(Living)
  /\ not_empty_count = Cardinality(NotEmpty)

=============================================================================
