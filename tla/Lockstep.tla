------------------------------ MODULE Lockstep ------------------------------
(***************************************************************************)
(* The brute-force tests of set and multiset, vector and list: a container  *)
(* and one of the standard library take the same random steps, and a check  *)
(* compares them.  The container (uxs, external) either keeps its promises  *)
(* or goes wrong once: in its elements, its count, the links that it is     *)
(* walked backwards by, the balance of its tree, or what a call returns.    *)
(***************************************************************************)
EXTENDS RbTreeCheck, SequencesExt

CONSTANTS
  Kinds,    \* which containers: "set", "multiset", "vector", "list"
  Vals,     \* values the generator draws, the least one 0
  MaxSize   \* bound: elements in the reference container

ASSUME LockstepAssumption ==
  /\ Kinds \subseteq {"set", "multiset", "vector", "list"}
  /\ 0 \in Vals /\ \A v \in Vals : v \in Nat
  /\ MaxSize \in Nat /\ MaxNodes = MaxSize + 1   \* a tree may have a node too many

VARIABLES
  kind,    \* the container under test
  pc,      \* the loop the test is in, or how it has ended
  s,       \* s and s3, v or l: as walked forwards, backwards, counted, linked
  s_ref,   \* s_ref, v_ref or l_ref
  wrong,   \* history: a call has returned something else than it promises
  legal    \* history: every call has been one that the container allows

vars == <<kind, pc, s, s_ref, wrong, legal>>

IsTree == kind \in {"set", "multiset"}

-----------------------------------------------------------------------------
(* The container.                                                           *)

RedBlack == [n \in 0 .. MaxNodes |-> {t \in Trees[n] : IsRedBlack(t)}]

Right(x) ==
  [fwd : {x}, bwd : {Reverse(x)}, size : {Len(x)},
   root : IF IsTree THEN RedBlack[Len(x)] ELSE {Null}]

\* Walks backwards that leave one element out.
Skipping(x) == {RemoveAt(Reverse(x), i) : i \in 1 .. Len(x) - 1}

\* One thing wrong: an element missing, too many or changed; the count; an
\* element the walk backwards leaves out; a tree that is not balanced.
Wrong(x) ==
  (UNION {Right(RemoveAt(x, i)) : i \in DOMAIN x})
    \cup (UNION {Right(InsertAt(x, i, 0)) : i \in 1 .. Len(x) + 1})
    \cup (UNION {Right([x EXCEPT ![i] = @ + 1]) : i \in DOMAIN x})
    \cup {[c EXCEPT !.size = @ + 1] : c \in Right(x)}
    \cup {[c EXCEPT !.bwd = b] : c \in Right(x), b \in Skipping(x)}
    \cup IF IsTree THEN {[c EXCEPT !.root = t] : c \in Right(x), t \in Trees[Len(x)]} ELSE {}

\* That container c is what the reference x is; the walk backwards as far as it
\* goes.
Agrees(c, x) ==
  /\ c.fwd = x /\ c.size = Len(x) /\ IsPrefix(c.bwd, Reverse(x))
  /\ IsTree => c.root \in RedBlack[Len(x)]

Sound == Agrees(s, s_ref) /\ ~ wrong

\* A wrong container keeps what is wrong if nothing is done to it; what is done
\* may mend its links and its tree, not its count.
Keeps(x) ==
  IF x = s.fwd THEN {s}
  ELSE [fwd : {x}, bwd : {Reverse(x)} \cup Skipping(x), size : {Len(x) + s.size - Len(s.fwd)},
        root : IF IsTree THEN Trees[Len(x)] ELSE {Null}]

\* It goes wrong once, so that no second thing hides what is wrong.
Gives(x) == IF Sound THEN Right(x) \cup Wrong(x) ELSE Keeps(x)
Returns(a) == {a} \cup (IF Sound THEN {a + 1} ELSE {})

-----------------------------------------------------------------------------
(* The checks.                                                              *)

\* vector_check, list_check and rbtree_check.
Check(c, x) ==
  /\ c.size = Len(x)
  /\ IsTree /\ c.size > 0 => c.root # Null /\ Balanced(c.root)
  /\ Len(c.fwd) = Len(x)
  /\ \A i \in DOMAIN c.fwd : c.fwd[i] = x[i]
  /\ \A i \in DOMAIN c.bwd : i \in DOMAIN x /\ c.bwd[i] = x[Len(x) + 1 - i]

CheckEmpty(c) == c.size = 0 /\ c.fwd = << >>

\* Both take a step: the container becomes one for its own elements x, the
\* reference y.
Steps(x, y, answered, next) ==
  /\ Len(y) <= MaxSize
  /\ s_ref' = y
  /\ s' \in Gives(x)
  /\ pc' = IF answered /\ Check(s', y) THEN next ELSE "failed"
  /\ UNCHANGED kind

Both(x, y, next) == Steps(x, y, TRUE, next) /\ UNCHANGED wrong

\* The container answers, rightly a; the reference answers b.
Answering(x, y, a, b, next) ==
  \E r \in Returns(a) : Steps(x, y, r = b, next) /\ wrong' = (wrong \/ r # a)

\* What is asked is within both containers.
Asks(n) == legal' = (legal /\ n <= Len(s.fwd) /\ n <= Len(s_ref))

-----------------------------------------------------------------------------
(* vector_test and list_test: a step is one of the acts.  Positions are     *)
(* drawn by the size that the container tells.                              *)

Act == pc = "step"

\* An act without an answer ends with a look at the first and the last element.
Looks(x, y) ==
  IF x = << >> THEN Both(x, y, "step") ELSE Answering(x, y, 0, 0, "step")

emplace ==
  /\ Act /\ \E n \in 0 .. s.size, val \in Vals :
       /\ Asks(n)
       /\ Answering(InsertAt(s.fwd, n + 1, val), InsertAt(s_ref, n + 1, val), n, n, "step")

insert ==
  /\ Act /\ \E n \in 0 .. s.size, vals \in SeqOf(Vals, 2) \ {<< >>} :
       LET Put(x) == SubSeq(x, 1, n) \o vals \o SubSeq(x, n + 1, Len(x))
       IN  Asks(n) /\ Answering(Put(s.fwd), Put(s_ref), n, n, "step")

erase_one ==
  /\ Act /\ s.size # 0
  /\ \E n \in 0 .. s.size - 1 :
       /\ Asks(n + 1)
       /\ Answering(RemoveAt(s.fwd, n + 1), RemoveAt(s_ref, n + 1), n, n, "step")

\* Without the elements after the first m, up to the n-th.
Cut(x, m, n) == SubSeq(x, 1, m) \o SubSeq(x, n + 1, Len(x))

\* A mutant for CallsAreLegal: the count is drawn by the whole size.
erase_rangeWhole ==
  /\ Act /\ s.size # 0
  /\ \E n, count \in 0 .. s.size :
       /\ Asks(n + count)
       /\ Answering(Cut(s.fwd, n, n + count), Cut(s_ref, n, n + count), n, n, "step")

erase_range ==
  /\ Act /\ s.size # 0
  /\ \E n \in 0 .. s.size : \E count \in 0 .. s.size - n :
       /\ Asks(n + count)
       /\ Answering(Cut(s.fwd, n, n + count), Cut(s_ref, n, n + count), n, n, "step")

emplace_back ==
  /\ Act /\ \E val \in Vals : Looks(Append(s.fwd, val), Append(s_ref, val))
  /\ Asks(0)

pop_back ==
  /\ Act /\ s.size # 0 /\ Asks(1)
  /\ Looks(Front(s.fwd), Front(s_ref))

emplace_front ==
  /\ Act /\ kind = "list"
  /\ \E val \in Vals : Looks(<<val>> \o s.fwd, <<val>> \o s_ref)
  /\ Asks(0)

pop_front ==
  /\ Act /\ kind = "list" /\ s.size # 0 /\ Asks(1)
  /\ Looks(Tail(s.fwd), Tail(s_ref))

\* The capacity is compared with the size the vector tells; 0 in tidy.
shrink_to_fit ==
  /\ Act /\ kind = "vector" /\ Asks(0)
  /\ Answering(s.fwd, s_ref, Len(s.fwd), s.size, "step")

clear == Act /\ Asks(0) /\ Looks(<< >>, << >>)

tidy == Act /\ kind = "vector" /\ Asks(0) /\ Answering(<< >>, << >>, 0, 0, "step")

\* Of both kinds: the default value is one of Vals.
resize ==
  /\ Act /\ \E sz \in 0 .. MaxSize, val \in Vals :
       LET Resized(x) == [i \in 1..sz |-> IF i <= Len(x) THEN x[i] ELSE val]
       IN  Looks(Resized(s.fwd), Resized(s_ref))
  /\ Asks(0)

-----------------------------------------------------------------------------
(* rbtree_bruteforce_test: five loops, one after the other.                 *)

lower_bound(x, val) == Cardinality({i \in DOMAIN x : x[i] < val})
upper_bound(x, val) == Cardinality({i \in DOMAIN x : x[i] <= val})
count(x, val) == upper_bound(x, val) - lower_bound(x, val)
find(x, val) == IF count(x, val) > 0 THEN lower_bound(x, val) ELSE Len(x)

Inserted(x, val) ==
  IF kind = "set" /\ count(x, val) > 0 THEN x ELSE InsertAt(x, upper_bound(x, val) + 1, val)

Without(x, val) == Cut(x, lower_bound(x, val), upper_bound(x, val))

Fill ==
  /\ pc = "fill" /\ Asks(0)
  /\ \E val \in Vals : Both(Inserted(s.fwd, val), Inserted(s_ref, val), "fill")

CheckedCopies(c, e) == IF Check(c, s_ref) /\ CheckEmpty(e) THEN "assigned" ELSE "failed"

\* s = s1, s2, s3, checked; s = SetType(), checked to be empty; s = s3, which no
\* check follows.  One of the three goes wrong at most.
Assign ==
  /\ pc = "fill"
  /\ \E right \in Right(s.fwd), new \in Right(<< >>) :
       \/ s' \in Gives(s.fwd) /\ wrong' = wrong /\ pc' = CheckedCopies(right, new)
       \/ /\ Sound /\ s' = right /\ wrong' = TRUE
          /\ \/ \E d \in Wrong(s.fwd) : ~ Agrees(d, s_ref) /\ pc' = CheckedCopies(d, new)
             \/ \E e \in Wrong(<< >>) : ~ Agrees(e, << >>) /\ pc' = CheckedCopies(right, e)
  /\ UNCHANGED <<kind, s_ref, legal>>

\* The answers of find, lower_bound, upper_bound, the two ends of equal_range
\* and count.
Answers(x, val) ==
  <<find(x, val), lower_bound(x, val), upper_bound(x, val),
    lower_bound(x, val), upper_bound(x, val), count(x, val)>>

\* A mutant for CopyNoticed: what find returns is not compared.
AgreeUnfound(a, b) == a[2] = a[4] /\ a[3] = a[5] /\ a[6] = b[6] /\ \A k \in 2..3 : a[k] = b[k]

\* erase(lower) where no element equals val and one is greater, else
\* erase(lower, upper).
Erased(x, val) ==
  IF lower_bound(x, val) # Len(x) /\ count(x, val) = 0
    THEN RemoveAt(x, lower_bound(x, val) + 1) ELSE Without(x, val)

Agree(a, b) == a[2] = a[4] /\ a[3] = a[5] /\ a[6] = b[6] /\ \A k \in 1..3 : a[k] = b[k]

RangeStep ==
  /\ pc \in {"assigned", "range"}
  /\ \E val \in Vals :
       LET right == Answers(s.fwd, val)  ref == Answers(s_ref, val)  at == lower_bound(s.fwd, val)
       IN  \/ /\ Agree(right, ref)
              /\ Answering(Erased(s.fwd, val), Erased(s_ref, val), at, lower_bound(s_ref, val), "range")
           \/ /\ Sound
              /\ \E k \in DOMAIN right :
                   LET a == [right EXCEPT ![k] = @ + 1]
                   IN  pc' = IF Agree(a, ref) THEN "range" ELSE "failed"
              /\ wrong' = TRUE /\ UNCHANGED <<kind, s, s_ref>>
           \/ ~ Agree(right, ref) /\ pc' = "failed" /\ UNCHANGED <<kind, s, s_ref, wrong>>
  /\ Asks(0)

\* VERIFY(s.empty() == s_ref.empty()) between the loops.
Follow(from, next) ==
  /\ pc = from
  /\ pc' = IF (s.size = 0) = (s_ref = << >>) THEN next ELSE "failed"
  /\ UNCHANGED <<kind, s, s_ref, wrong, legal>>

Erase ==
  /\ pc = "erase" /\ Asks(0)
  /\ \E val \in Vals :
       Answering(Without(s.fwd, val), Without(s_ref, val), count(s.fwd, val), count(s_ref, val), "erase")

\* A mutant for Drains: the least value is never drawn.
DrainGreater(val) ==
  /\ pc = "drain" /\ s_ref # << >> /\ Asks(0)
  /\ LET Less(x) == IF upper_bound(x, val) < Len(x) THEN RemoveAt(x, upper_bound(x, val) + 1) ELSE x
     IN  Answering(Less(s.fwd), Less(s_ref), upper_bound(s.fwd, val), upper_bound(s_ref, val), "drain")

Drain(val) ==
  /\ pc = "drain" /\ s_ref # << >> /\ Asks(0)
  /\ LET Less(x) == IF lower_bound(x, val) < Len(x) THEN RemoveAt(x, lower_bound(x, val) + 1) ELSE x
     IN  Answering(Less(s.fwd), Less(s_ref), lower_bound(s.fwd, val), lower_bound(s_ref, val), "drain")

\* The next iteration begins with new containers.
Drained ==
  /\ pc = "drain" /\ s_ref = << >>
  /\ pc' \in {"fill", "passed"} /\ s' \in Right(<< >>)
  /\ UNCHANGED <<kind, s_ref, wrong, legal>>

-----------------------------------------------------------------------------
Init ==
  /\ kind \in Kinds
  /\ s = [fwd |-> << >>, bwd |-> << >>, size |-> 0, root |-> Null] /\ s_ref = << >>
  /\ pc = IF IsTree THEN "fill" ELSE "step"
  /\ wrong = FALSE /\ legal = TRUE

Next ==
  \/ emplace \/ insert \/ erase_one \/ erase_range \/ emplace_back \/ pop_back
  \/ emplace_front \/ pop_front \/ shrink_to_fit \/ clear \/ tidy \/ resize
  \/ Fill \/ Assign \/ RangeStep \/ Follow("range", "erase") \/ Erase
  \/ Follow("erase", "drain") \/ (\E val \in Vals : Drain(val)) \/ Drained

\* The loops of a given length come to their end; the generator draws the least
\* value again and again.
Spec == Init /\ [][Next]_vars /\ WF_vars(Drain(0)) /\ WF_vars(Drained)

-----------------------------------------------------------------------------
AfterCheck == {"fill", "step", "range", "erase", "drain", "passed"}

\* After a check the container is what the reference is, by the definition of
\* a red-black tree and not by the checker's, and no wrong answer has passed;
\* the walk backwards is compared as far as it goes (rbtree_tests.h:28).  No check
\* follows s = s3: what the first step of the range loop mends of it is out of reach.
FaultsNoticed == pc \in AfterCheck => Sound

\* A wrong s = s3 passes that step only if its count is right and the step erases
\* everything that is wrong about its elements: the answers of the step and the
\* check at its end notice all else (rbtree_bruteforce.h:51, 88).
CopyNoticed ==
  [][pc = "assigned" /\ pc' = "range" /\ ~ Sound =>
       /\ s.size = Len(s_ref)
       /\ \E m, n \in 0 .. Len(s_ref) :
            m < n /\ Cut(s.fwd, m, n) = s_ref' /\ Cut(s_ref, m, n) = s_ref']_vars

\* A container that is right passes every check (rbtree_check_balance.cpp:3).
NoFalseAlarm == pc = "failed" => ~ Sound

\* No position outside of the container, no pop of an empty one: positions are
\* drawn by what the container under test tells of itself (bruteforce.cpp:35).
CallsAreLegal == legal

\* The last loop, which runs until the reference is empty, comes to an end.
Drains == pc = "drain" ~> pc # "drain"
=============================================================================
