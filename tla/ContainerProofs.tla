-------------------------- MODULE ContainerProofs --------------------------
(***************************************************************************)
(* Theorems about what the container tests rest on: the counts of the       *)
(* elements (TrackedT), the checker of the trees (RbTreeCheck) and the      *)
(* brute-force tests (Lockstep); for any places and texts, trees of any     *)
(* number of nodes, any values and any size of the reference.               *)
(***************************************************************************)
EXTENDS Lockstep, TrackedT,
        FiniteSetTheorems, SequenceTheorems, WellFoundedInduction, TLAPS

-----------------------------------------------------------------------------
(* PART 1, TrackedT: the counts.                                             *)

Contents == Texts \cup {Empty, NoObject}

\* The places whose content is one of K, and what one place adds to their number.
In(f, K) == {o \in Objects : f[o] \in K}
One(K, x) == IF x \in K THEN 1 ELSE 0

LEMMA InFinite ==
  ASSUME NEW f, NEW K
  PROVE  IsFiniteSet(In(f, K)) /\ Cardinality(In(f, K)) \in Nat
<1>1. In(f, K) \subseteq Objects /\ IsFiniteSet(Objects)
  BY ObjectAssumption DEF In
<1>2. IsFiniteSet(In(f, K))
  BY <1>1, FS_Subset
<1> QED  BY <1>2, FS_CardinalityType

\* Changing the content of one place changes the number by the difference.
LEMMA Change ==
  ASSUME NEW f \in [Objects -> Contents], NEW K, NEW o \in Objects, NEW x \in Contents
  PROVE  Cardinality(In([f EXCEPT ![o] = x], K)) =
           Cardinality(In(f, K)) - One(K, f[o]) + One(K, x)
<1> DEFINE g == [f EXCEPT ![o] = x]
<1>1. g \in [Objects -> Contents] /\ g[o] = x
      /\ \A t \in Objects \ {o} : g[t] = f[t]
  OBVIOUS
<1> HIDE DEF g
<1>2. IsFiniteSet(In(f, K)) /\ Cardinality(In(f, K)) \in Nat
  BY InFinite
<1>3. CASE f[o] \in K /\ x \in K
  <2>1. In(g, K) = In(f, K)
    BY <1>1, <1>3 DEF In
  <2> QED BY <1>2, <1>3, <2>1 DEF One, g
<1>4. CASE f[o] \notin K /\ x \notin K
  <2>1. In(g, K) = In(f, K)
    BY <1>1, <1>4 DEF In
  <2> QED BY <1>2, <1>4, <2>1 DEF One, g
<1>5. CASE f[o] \notin K /\ x \in K
  <2>1. In(g, K) = In(f, K) \cup {o} /\ o \notin In(f, K)
    BY <1>1, <1>5 DEF In
  <2>2. Cardinality(In(g, K)) = Cardinality(In(f, K)) + 1
    BY <1>2, <2>1, FS_AddElement
  <2> QED BY <1>2, <1>5, <2>2 DEF One, g
<1>6. CASE f[o] \in K /\ x \notin K
  <2>1. In(g, K) = In(f, K) \ {o} /\ o \in In(f, K)
    BY <1>1, <1>6 DEF In
  <2>2. Cardinality(In(g, K)) = Cardinality(In(f, K)) - 1
    BY <1>2, <2>1, FS_RemoveElement
  <2> QED BY <1>2, <1>6, <2>2 DEF One, g
<1> QED  BY <1>3, <1>4, <1>5, <1>6

Objs == Texts \cup {Empty}

\* The property in the terms of In.
LEMMA CountedIn ==
  ASSUME text \in [Objects -> Contents]
  PROVE  CountsExact <=> /\ instance_count = Cardinality(In(text, Objs))
                         /\ not_empty_count = Cardinality(In(text, Texts))
<1>1. Living = In(text, Objs)
  BY ObjectAssumption DEF Living, In, Objs, Contents
<1>2. NotEmpty = In(text, Texts)
  BY DEF NotEmpty, In
<1> QED  BY <1>1, <1>2 DEF CountsExact

-----------------------------------------------------------------------------
(* The inductive invariant is the property and the types: each operation     *)
(* changes the counts by what it changes of one object, or of two.          *)

IInv == TypeOK /\ CountsExact

LEMMA InitInv == TrackedInit => IInv
<1> SUFFICES ASSUME TrackedInit PROVE IInv
  OBVIOUS
<1>1. text \in [Objects -> Contents] /\ TypeOK
  BY DEF TrackedInit, TypeOK, Contents
<1>2. Living = {} /\ NotEmpty = {}
  BY ObjectAssumption DEF TrackedInit, Living, NotEmpty
<1>3. Cardinality({}) = 0
  BY FS_EmptySet
<1> QED  BY <1>1, <1>2, <1>3 DEF IInv, CountsExact, TrackedInit

\* A step is right if it changes the counts as it changes the numbers.
LEMMA StepKeeps ==
  ASSUME text' \in [Objects -> Contents],
         instance_count' = Cardinality(In(text', Objs)),
         not_empty_count' = Cardinality(In(text', Texts))
  PROVE  IInv'
<1>1. instance_count' \in Nat /\ not_empty_count' \in Nat
  BY InFinite
<1>2. CountsExact'
  <2>1. Living' = In(text', Objs)
    BY ObjectAssumption DEF Living, In, Objs, Contents
  <2>2. NotEmpty' = In(text', Texts)
    BY DEF NotEmpty, In
  <2> QED BY <2>1, <2>2 DEF CountsExact
<1> QED  BY <1>1, <1>2 DEF IInv, TypeOK, Contents

LEMMA OneCounts ==
  ASSUME NEW K, NEW x
  PROVE  One(K, x) \in {0, 1}
<1> QED  BY DEF One

\* A step that changes one object.
LEMMA OneObject ==
  ASSUME IInv, NEW o \in Objects, NEW x \in Contents,
         text' = [text EXCEPT ![o] = x],
         instance_count' = instance_count - One(Objs, text[o]) + One(Objs, x),
         not_empty_count' = not_empty_count - One(Texts, text[o]) + One(Texts, x)
  PROVE  IInv'
<1>1. text \in [Objects -> Contents]
  BY DEF IInv, TypeOK, Contents
<1>2. instance_count = Cardinality(In(text, Objs))
      /\ not_empty_count = Cardinality(In(text, Texts))
  BY <1>1, CountedIn DEF IInv
<1>3. Cardinality(In(text', Objs)) =
        Cardinality(In(text, Objs)) - One(Objs, text[o]) + One(Objs, x)
  BY <1>1, Change
<1>4. Cardinality(In(text', Texts)) =
        Cardinality(In(text, Texts)) - One(Texts, text[o]) + One(Texts, x)
  BY <1>1, Change
<1>5. text' \in [Objects -> Contents]
  BY <1>1
<1> QED  BY <1>2, <1>3, <1>4, <1>5, StepKeeps

\* Moving the content of t to o and emptying t is two changes.
LEMMA Moved ==
  ASSUME NEW f \in [Objects -> Contents], NEW o \in Objects, NEW t \in Objects, NEW K
  PROVE  Cardinality(In([[f EXCEPT ![o] = f[t]] EXCEPT ![t] = Empty], K)) =
           Cardinality(In(f, K)) - One(K, f[o]) + One(K, Empty)
<1> DEFINE g == [f EXCEPT ![o] = f[t]]
<1>1. f[t] \in Contents /\ f[o] \in Contents /\ Empty \in Contents
  BY DEF Contents
<1>2. g \in [Objects -> Contents] /\ g[t] = f[t]
  BY <1>1
<1>3. Cardinality(In(g, K)) = Cardinality(In(f, K)) - One(K, f[o]) + One(K, f[t])
  BY <1>1, Change
<1> HIDE DEF g
<1>4. Cardinality(In([g EXCEPT ![t] = Empty], K)) =
        Cardinality(In(g, K)) - One(K, g[t]) + One(K, Empty)
  BY <1>1, <1>2, Change
<1>5. Cardinality(In(f, K)) \in Nat
  BY InFinite
<1>6. One(K, f[o]) \in {0, 1} /\ One(K, f[t]) \in {0, 1} /\ One(K, Empty) \in {0, 1}
  BY OneCounts
<1>7. Cardinality(In([g EXCEPT ![t] = Empty], K)) =
        Cardinality(In(f, K)) - One(K, f[o]) + One(K, Empty)
  BY <1>2, <1>3, <1>4, <1>5, <1>6
<1> QED  BY <1>7 DEF g

\* A step that moves the content of t to o and empties t.
LEMMA TwoObjects ==
  ASSUME IInv, NEW o \in Objects, NEW t \in Objects,
         text' = [[text EXCEPT ![o] = text[t]] EXCEPT ![t] = Empty],
         instance_count' = instance_count - One(Objs, text[o]) + One(Objs, Empty),
         not_empty_count' = not_empty_count - One(Texts, text[o]) + One(Texts, Empty)
  PROVE  IInv'
<1>1. text \in [Objects -> Contents] /\ Empty \in Contents
  BY DEF IInv, TypeOK, Contents
<1>2. instance_count = Cardinality(In(text, Objs))
      /\ not_empty_count = Cardinality(In(text, Texts))
  BY <1>1, CountedIn DEF IInv
<1>3. Cardinality(In(text', Objs)) =
        Cardinality(In(text, Objs)) - One(Objs, text[o]) + One(Objs, Empty)
  BY <1>1, Moved
<1>4. Cardinality(In(text', Texts)) =
        Cardinality(In(text, Texts)) - One(Texts, text[o]) + One(Texts, Empty)
  BY <1>1, Moved
<1>5. text' \in [Objects -> Contents]
  BY <1>1
<1> QED  BY <1>2, <1>3, <1>4, <1>5, StepKeeps

LEMMA EveryStep == IInv /\ [TrackedNext]_trackedVars => IInv'
<1> SUFFICES ASSUME IInv, [TrackedNext]_trackedVars PROVE IInv'
  OBVIOUS
<1>1. /\ text \in [Objects -> Contents]
      /\ not_empty_count \in Nat /\ instance_count \in Nat
  BY DEF IInv, TypeOK, Contents
<1>2. \A o \in Objects :
        /\ text[o] \in Contents
        /\ One(Objs, text[o]) = IF Lives(o) THEN 1 ELSE 0
        /\ One(Texts, text[o]) = Weight(text[o]) /\ Weight(text[o]) \in {0, 1}
        /\ ~ Lives(o) => Weight(text[o]) = 0
  BY <1>1, ObjectAssumption DEF Contents, Objs, One, Weight, Lives
<1>3. /\ One(Objs, Empty) = 1 /\ One(Texts, Empty) = 0 /\ Empty \in Contents
      /\ One(Objs, NoObject) = 0 /\ One(Texts, NoObject) = 0 /\ NoObject \in Contents
      /\ \A x \in Texts : One(Objs, x) = 1 /\ One(Texts, x) = 1 /\ x \in Contents
  BY ObjectAssumption DEF Contents, Objs, One
<1>4. ASSUME NEW o \in Objects, DefaultConstruct(o) PROVE IInv'
  <2>1. text' = [text EXCEPT ![o] = Empty] /\ Empty \in Contents
    BY <1>2, <1>3, <1>4 DEF DefaultConstruct
  <2>2. instance_count' = instance_count - One(Objs, text[o]) + One(Objs, Empty)
    BY <1>1, <1>2, <1>3, <1>4 DEF DefaultConstruct
  <2>3. not_empty_count' = not_empty_count - One(Texts, text[o]) + One(Texts, Empty)
    BY <1>1, <1>2, <1>3, <1>4 DEF DefaultConstruct
  <2> QED BY <2>1, <2>2, <2>3, OneObject
<1>5. ASSUME NEW o \in Objects, Destroy(o) PROVE IInv'
  <2>1. text' = [text EXCEPT ![o] = NoObject] /\ NoObject \in Contents
    BY <1>2, <1>3, <1>5 DEF Destroy
  <2>2. instance_count' = instance_count - One(Objs, text[o]) + One(Objs, NoObject)
    BY <1>1, <1>2, <1>3, <1>5 DEF Destroy
  <2>3. not_empty_count' = not_empty_count - One(Texts, text[o]) + One(Texts, NoObject)
    BY <1>1, <1>2, <1>3, <1>5 DEF Destroy
  <2> QED BY <2>1, <2>2, <2>3, OneObject
<1>6. ASSUME NEW o \in Objects, NEW x \in Texts, ConstructFrom(o, x) PROVE IInv'
  <2>1. text' = [text EXCEPT ![o] = x] /\ x \in Contents
    BY <1>2, <1>3, <1>6 DEF ConstructFrom
  <2>2. instance_count' = instance_count - One(Objs, text[o]) + One(Objs, x)
    BY <1>1, <1>2, <1>3, <1>6 DEF ConstructFrom
  <2>3. not_empty_count' = not_empty_count - One(Texts, text[o]) + One(Texts, x)
    BY <1>1, <1>2, <1>3, <1>6 DEF ConstructFrom
  <2> QED BY <2>1, <2>2, <2>3, OneObject
<1>7. ASSUME NEW o \in Objects, NEW x \in Texts, set(o, x) PROVE IInv'
  <2>1. text' = [text EXCEPT ![o] = x] /\ x \in Contents
    BY <1>2, <1>3, <1>7 DEF set
  <2>2. instance_count' = instance_count - One(Objs, text[o]) + One(Objs, x)
    BY <1>1, <1>2, <1>3, <1>7 DEF set
  <2>3. not_empty_count' = not_empty_count - One(Texts, text[o]) + One(Texts, x)
    BY <1>1, <1>2, <1>3, <1>7 DEF set
  <2> QED BY <2>1, <2>2, <2>3, OneObject
<1>8. ASSUME NEW o \in Objects, NEW t \in Objects, CopyConstruct(o, t) PROVE IInv'
  <2>1. text' = [text EXCEPT ![o] = text[t]] /\ text[t] \in Contents
    BY <1>2, <1>3, <1>8 DEF CopyConstruct
  <2>2. instance_count' = instance_count - One(Objs, text[o]) + One(Objs, text[t])
    BY <1>1, <1>2, <1>3, <1>8 DEF CopyConstruct
  <2>3. not_empty_count' = not_empty_count - One(Texts, text[o]) + One(Texts, text[t])
    BY <1>1, <1>2, <1>3, <1>8 DEF CopyConstruct
  <2> QED BY <2>1, <2>2, <2>3, OneObject
<1>9. ASSUME NEW o \in Objects, NEW t \in Objects, CopyAssign(o, t) PROVE IInv'
  <2>1. text' = [text EXCEPT ![o] = text[t]] /\ text[t] \in Contents
    BY <1>2, <1>3, <1>9 DEF CopyAssign
  <2>2. instance_count' = instance_count - One(Objs, text[o]) + One(Objs, text[t])
    BY <1>1, <1>2, <1>3, <1>9 DEF CopyAssign
  <2>3. not_empty_count' = not_empty_count - One(Texts, text[o]) + One(Texts, text[t])
    BY <1>1, <1>2, <1>3, <1>9 DEF CopyAssign
  <2> QED BY <2>1, <2>2, <2>3, OneObject
<1>10. ASSUME NEW o \in Objects, NEW t \in Objects, MoveConstruct(o, t) PROVE IInv'
  <2>1. text' = [[text EXCEPT ![o] = text[t]] EXCEPT ![t] = Empty]
    BY <1>2, <1>3, <1>10 DEF MoveConstruct
  <2>2. instance_count' = instance_count - One(Objs, text[o]) + One(Objs, Empty)
    BY <1>1, <1>2, <1>3, <1>10 DEF MoveConstruct
  <2>3. not_empty_count' = not_empty_count - One(Texts, text[o]) + One(Texts, Empty)
    BY <1>1, <1>2, <1>3, <1>10 DEF MoveConstruct
  <2> QED BY <2>1, <2>2, <2>3, TwoObjects
<1>11. ASSUME NEW o \in Objects, NEW t \in Objects, MoveAssign(o, t) PROVE IInv'
  <2>1. text' = [[text EXCEPT ![o] = text[t]] EXCEPT ![t] = Empty]
    BY <1>2, <1>3, <1>11 DEF MoveAssign
  <2>2. instance_count' = instance_count - One(Objs, text[o]) + One(Objs, Empty)
    BY <1>1, <1>2, <1>3, <1>11 DEF MoveAssign
  <2>3. not_empty_count' = not_empty_count - One(Texts, text[o]) + One(Texts, Empty)
    BY <1>1, <1>2, <1>3, <1>11 DEF MoveAssign
  <2> QED BY <2>1, <2>2, <2>3, TwoObjects
<1>12. CASE UNCHANGED trackedVars
  BY <1>12 DEF trackedVars, IInv, TypeOK, CountsExact, Living, NotEmpty
<1> QED
  BY <1>4, <1>5, <1>6, <1>7, <1>8, <1>9, <1>10, <1>11, <1>12 DEF TrackedNext

-----------------------------------------------------------------------------
\* The invariant holds in every state.
THEOREM Invariance == TrackedSpec => []IInv
<1> QED  BY InitInv, EveryStep, PTL DEF TrackedSpec

\* The counts of T are exact whatever objects are made, moved and destroyed.
THEOREM Counts == TrackedSpec => []CountsExact
<1>1. IInv => CountsExact
  BY DEF IInv
<1> QED  BY <1>1, Invariance, PTL

\* Every variable keeps its type.
THEOREM TypeCorrect == TrackedSpec => []TypeOK
<1>1. IInv => TypeOK
  BY DEF IInv
<1> QED  BY <1>1, Invariance, PTL

-----------------------------------------------------------------------------
(* PART 2, RbTreeCheck: what the checker of the trees finds out.             *)

\* What induction over the number of nodes is made of.
LEMMA Least ==
  ASSUME NEW S \in SUBSET Nat, S # {}
  PROVE  \E x \in S : \A y \in S : x <= y
<1> DEFINE R == OpToRel(<, Nat)
<1>1. IsWellFoundedOn(R, Nat)
  BY NatLessThanWellFounded
<1>2. \A x, y \in Nat : y < x => <<y, x>> \in R
  BY DEF OpToRel
<1> HIDE DEF R
<1>3. PICK x \in S : \A y \in S : ~ (<<y, x>> \in R)
  <2>1. S \subseteq Nat
    OBVIOUS
  <2> QED BY <1>1, <2>1, WFMin
<1>4. \A y \in S : ~ (y < x)
  BY <1>2, <1>3
<1> QED BY <1>4

-----------------------------------------------------------------------------
(* Recursion over the number of nodes: the functions that are defined by it   *)
(* exist, so that they are what their equations say.                         *)

\* What the definition of Trees makes of n.
Grown(g, n) ==
  IF n = 0 THEN {Null}
  ELSE UNION {[color : Colors, left : g[k], right : g[n - 1 - k]] : k \in 0 .. n - 1}

\* What grows on n nodes depends on the smaller trees only.
LEMMA GrownFrom ==
  ASSUME NEW n \in Nat, NEW g, NEW h, \A k \in 0 .. n - 1 : g[k] = h[k]
  PROVE  Grown(g, n) = Grown(h, n)
<1>1. CASE n = 0
  BY <1>1 DEF Grown
<1>2. CASE n # 0
  <2>1. \A k \in 0 .. n - 1 : n - 1 - k \in 0 .. n - 1
    OBVIOUS
  <2>2. \A k \in 0 .. n - 1 : g[k] = h[k] /\ g[n - 1 - k] = h[n - 1 - k]
    BY <2>1
  <2>3. ASSUME NEW k \in 0 .. n - 1
        PROVE  [color : Colors, left : g[k], right : g[n - 1 - k]]
                 = [color : Colors, left : h[k], right : h[n - 1 - k]]
    BY <2>2
  <2>4. {[color : Colors, left : g[k], right : g[n - 1 - k]] : k \in 0 .. n - 1}
          = {[color : Colors, left : h[k], right : h[n - 1 - k]] : k \in 0 .. n - 1}
    BY <2>3, Zenon
  <2> QED BY <1>2, <2>4, Zenon DEF Grown
<1> QED BY <1>1, <1>2

LEMMA Growing ==
  ASSUME NEW m \in Nat
  PROVE  \E g : g = [n \in 0 .. m |-> Grown(g, n)]
<1> DEFINE G(g, n) == g = [i \in 0 .. n |-> Grown(g, i)]
           S == {n \in Nat : ~ \E g : G(g, n)}
<1> SUFFICES S = {}
  OBVIOUS
<1>1. SUFFICES ASSUME S # {} PROVE FALSE
  OBVIOUS
<1>2. PICK n \in S : \A i \in S : n <= i
  BY <1>1, Least
<1>3. n # 0
  <2> DEFINE g == [i \in 0 .. 0 |-> {Null}]
  <2>1. \A i \in 0 .. 0 : Grown(g, i) = {Null}
    BY DEF Grown
  <2>2. G(g, 0)
    BY <2>1
  <2> QED BY <1>2, <2>2
<1>4. PICK g : G(g, n - 1)
  BY <1>2, <1>3
<1>7. \A i \in 0 .. n - 1 : g[i] = Grown(g, i)
  BY <1>4, Zenon
<1> DEFINE h == [i \in 0 .. n |-> IF i = n THEN Grown(g, n) ELSE g[i]]
<1>5. ASSUME NEW i \in 0 .. n
      PROVE  Grown(h, i) = Grown(g, i) /\ h[i] = Grown(g, i)
  <2>1. n \in Nat /\ \A k \in 0 .. i - 1 : k \in 0 .. n /\ k # n
    BY <1>2
  <2>2. \A k \in 0 .. i - 1 : h[k] = g[k]
    BY <2>1
  <2>3. i \in Nat
    OBVIOUS
  <2> HIDE DEF h
  <2>4. Grown(h, i) = Grown(g, i)
    BY <2>2, <2>3, GrownFrom
  <2>5. i # n => g[i] = Grown(g, i)
    BY <1>2, <1>7
  <2>6. h[i] = IF i = n THEN Grown(g, n) ELSE g[i]
    BY DEF h
  <2> QED BY <2>4, <2>5, <2>6
<1>6. h = [i \in 0 .. n |-> Grown(h, i)]
  <2>1. \A i \in 0 .. n : (IF i = n THEN Grown(g, n) ELSE g[i]) = Grown(h, i)
    BY <1>5
  <2> QED BY <2>1, Zenon
<1> QED BY <1>2, <1>6

LEMMA TreesAre ==
  \A n \in 0 .. MaxNodes : Trees[n] = Grown(Trees, n)
<1>1. \E g : g = [n \in 0 .. MaxNodes |-> Grown(g, n)]
  BY Growing, NodesAssumption
<1>2. Trees = [n \in 0 .. MaxNodes |-> Grown(Trees, n)]
  BY <1>1, Zenon DEF Trees, Grown
<1> QED BY <1>2

\* The trees of at most n nodes.
Low(n) == UNION {Trees[k] : k \in 0 .. n}

LEMMA NodeIs ==
  ASSUME NEW n \in 0 .. MaxNodes, NEW t \in Trees[n]
  PROVE  /\ n = 0 <=> t = Null
         /\ t # Null => /\ t.color \in Colors
                        /\ \E k \in 0 .. n - 1 : t.left \in Trees[k] /\ t.right \in Trees[n - 1 - k]
<1>1. t \in Grown(Trees, n)
  BY TreesAre
<1>2. CASE n = 0
  BY <1>1, <1>2 DEF Grown
<1>3. CASE n # 0
  <2>1. PICK k \in 0 .. n - 1 : t \in [color : Colors, left : Trees[k], right : Trees[n - 1 - k]]
    BY <1>1, <1>3 DEF Grown
  <2>2. t.color \in Colors /\ t.left \in Trees[k] /\ t.right \in Trees[n - 1 - k]
    BY <2>1
  <2>3. t # Null
    BY <2>2 DEF Null, Colors
  <2> QED BY <1>3, <2>2, <2>3
<1> QED BY <1>2, <1>3

LEMMA NullIs ==
  Trees[0] = {Null} /\ Null \in Tree
<1>1. 0 \in 0 .. MaxNodes
  BY NodesAssumption
<1>2. Trees[0] = {Null}
  BY <1>1, TreesAre DEF Grown
<1> QED BY <1>1, <1>2 DEF Tree

LEMMA LowIs ==
  ASSUME NEW n \in 0 .. MaxNodes, NEW t \in Low(n), t # Null
  PROVE  n # 0 /\ t.color \in Colors /\ t.left \in Low(n - 1) /\ t.right \in Low(n - 1)
<1>1. PICK i \in 0 .. n : t \in Trees[i]
  BY DEF Low
<1>2. i \in 0 .. MaxNodes /\ i \in Nat /\ n \in Nat
  BY NodesAssumption
<1>3. PICK k \in 0 .. i - 1 : t.left \in Trees[k] /\ t.right \in Trees[i - 1 - k]
  BY <1>1, <1>2, NodeIs
<1>4. k \in 0 .. n - 1 /\ i - 1 - k \in 0 .. n - 1
  BY <1>2
<1>5. t.left \in Low(n - 1) /\ t.right \in Low(n - 1)
  BY <1>3, <1>4 DEF Low
<1> QED BY <1>1, <1>2, <1>4, <1>5, NodeIs

LEMMA LowTree ==
  /\ Tree = Low(MaxNodes) /\ MaxNodes \in 0 .. MaxNodes
  /\ \A t \in Tree \ {Null} : t.color \in Colors /\ t.left \in Tree /\ t.right \in Tree
<1>1. Tree = Low(MaxNodes) /\ MaxNodes \in 0 .. MaxNodes /\ MaxNodes \in Nat
  BY NodesAssumption DEF Tree, Low
<1>2. ASSUME NEW t \in Tree, t # Null
      PROVE  t.color \in Colors /\ t.left \in Tree /\ t.right \in Tree
  <2>1. t.color \in Colors /\ t.left \in Low(MaxNodes - 1) /\ t.right \in Low(MaxNodes - 1)
    BY <1>1, <1>2, LowIs
  <2>2. 0 .. MaxNodes - 1 \subseteq 0 .. MaxNodes
    BY <1>1
  <2>3. Low(MaxNodes - 1) \subseteq Low(MaxNodes)
    BY <2>2 DEF Low
  <2> QED BY <1>1, <2>1, <2>3
<1> QED BY <1>1, <1>2

\* Induction over trees, stated of a set and not of a predicate.
LEMMA TreeInduction ==
  ASSUME NEW S, Null \in S,
         \A t \in Tree \ {Null} : t.left \in S /\ t.right \in S => t \in S
  PROVE  Tree \subseteq S
<1> DEFINE N == {n \in 0 .. MaxNodes : ~ (Low(n) \subseteq S)}
<1> SUFFICES ASSUME N # {} PROVE FALSE
  BY LowTree
<1>1. N \in SUBSET Nat
  BY NodesAssumption
<1>2. PICK n \in N : \A i \in N : n <= i
  BY <1>1, Least
<1>3. PICK t \in Low(n) : t \notin S
  BY <1>2
<1>4. t # Null /\ n \in 0 .. MaxNodes
  BY <1>2, <1>3
<1>5. n # 0 /\ t.left \in Low(n - 1) /\ t.right \in Low(n - 1)
  BY <1>4, LowIs
<1>6. n - 1 \in 0 .. MaxNodes /\ n - 1 \notin N
  BY <1>2, <1>4, <1>5, NodesAssumption
<1>7. t.left \in S /\ t.right \in S
  BY <1>5, <1>6
<1>8. t \in Tree
  <2>1. 0 .. n \subseteq 0 .. MaxNodes
    BY <1>4, NodesAssumption
  <2> QED BY <2>1 DEF Low, Tree
<1> QED BY <1>3, <1>4, <1>7, <1>8

\* What a function is to make of a tree, from what it makes of the children.
Folded(X, a, G, g, t) == IF t = Null THEN a ELSE G[<<t.color, g[t.left], g[t.right]>>]

\* A function defined by recursion over trees exists.
LEMMA Folding ==
  ASSUME NEW X, NEW a \in X, NEW G \in [Colors \X X \X X -> X]
  PROVE  \E g \in [Tree -> X] : \A t \in Tree : g[t] = Folded(X, a, G, g, t)
<1> DEFINE F(n) == \E g \in [Low(n) -> X] : \A t \in Low(n) : g[t] = Folded(X, a, G, g, t)
           N == {n \in 0 .. MaxNodes : ~ F(n)}
<1> SUFFICES ASSUME N # {} PROVE FALSE
  BY LowTree
<1>1. N \in SUBSET Nat
  BY NodesAssumption
<1>2. PICK n \in N : \A i \in N : n <= i
  BY <1>1, Least
<1>3. n \in 0 .. MaxNodes /\ n \in Nat /\ ~ F(n)
  BY <1>1, <1>2
<1>4. n # 0
  <2>1. \A t \in Low(0) : t = Null
    BY LowIs, NodesAssumption
  <2> DEFINE g == [t \in Low(0) |-> a]
  <2>2. g \in [Low(0) -> X] /\ \A t \in Low(0) : g[t] = Folded(X, a, G, g, t)
    BY <2>1 DEF Folded
  <2> QED BY <1>3, <2>2
<1>5. n - 1 \in 0 .. MaxNodes /\ 0 .. n - 1 \subseteq 0 .. n /\ ~ (n <= n - 1)
  <2> HIDE DEF N
  <2> QED BY <1>3, <1>4, NodesAssumption
<1>6. PICK g \in [Low(n - 1) -> X] : \A t \in Low(n - 1) : g[t] = Folded(X, a, G, g, t)
  <2>1. n - 1 \notin N
    BY <1>2, <1>5
  <2> QED BY <1>5, <2>1
<1> DEFINE h == [t \in Low(n) |-> Folded(X, a, G, g, t)]
<1>8. Low(n - 1) \subseteq Low(n)
  BY <1>5 DEF Low
<1>9. ASSUME NEW t \in Low(n) PROVE Folded(X, a, G, g, t) \in X
  <2>1. CASE t = Null
    BY <2>1 DEF Folded
  <2>2. CASE t # Null
    <3>1. t.color \in Colors /\ t.left \in Low(n - 1) /\ t.right \in Low(n - 1)
      BY <1>3, <2>2, LowIs
    <3>2. <<t.color, g[t.left], g[t.right]>> \in Colors \X X \X X
      BY <3>1
    <3> QED BY <2>2, <3>2 DEF Folded
  <2> QED BY <2>1, <2>2
<1>10. h \in [Low(n) -> X]
  BY <1>9
<1>11. \A t \in Low(n - 1) : h[t] = g[t]
  BY <1>6, <1>8
<1>12. ASSUME NEW t \in Low(n) PROVE h[t] = Folded(X, a, G, h, t)
  <2>1. h[t] = Folded(X, a, G, g, t)
    OBVIOUS
  <2>2. CASE t # Null
    <3>1. t.left \in Low(n - 1) /\ t.right \in Low(n - 1)
      BY <1>3, <2>2, LowIs
    <3>2. h[t.left] = g[t.left] /\ h[t.right] = g[t.right]
      BY <1>11, <3>1
    <3> HIDE DEF h
    <3> QED BY <2>1, <3>2 DEF Folded
  <2>3. CASE t = Null
    BY <2>1, <2>3 DEF Folded
  <2> QED BY <2>2, <2>3
<1> HIDE DEF h
<1> QED BY <1>3, <1>10, <1>12

Ways == SUBSET Seq(Colors)

LEMMA PathsAre ==
  /\ Paths \in [Tree -> Ways]
  /\ Paths[Null] = {<< >>}
  /\ \A t \in Tree \ {Null} :
       Paths[t] = {<<t.color>> \o p : p \in Paths[t.left] \cup Paths[t.right]}
<1> DEFINE G == [x \in Colors \X Ways \X Ways |-> {<<x[1]>> \o p : p \in x[2] \cup x[3]}]
           a == {<< >>}
<1>1. G \in [Colors \X Ways \X Ways -> Ways]
  <2>1. ASSUME NEW x \in Colors \X Ways \X Ways
        PROVE  {<<x[1]>> \o p : p \in x[2] \cup x[3]} \in Ways
    <3>1. \A p \in x[2] \cup x[3] : p \in Seq(Colors) /\ <<x[1]>> \in Seq(Colors)
      BY DEF Ways
    <3>2. \A p \in x[2] \cup x[3] : <<x[1]>> \o p \in Seq(Colors)
      BY <3>1, ConcatProperties
    <3> QED BY <3>2 DEF Ways
  <2> QED BY <2>1
<1>2. a \in Ways
  BY EmptySeq DEF Ways
<1>3. \A c \in Colors : \A l, r \in Ways : G[<<c, l, r>>] = {<<c>> \o p : p \in l \cup r}
  OBVIOUS
<1> HIDE DEF G, a
<1>4. PICK g \in [Tree -> Ways] : \A t \in Tree : g[t] = Folded(Ways, a, G, g, t)
  BY <1>1, <1>2, Folding
<1>5. ASSUME NEW t \in Tree
      PROVE  g[t] = IF t = Null THEN {<< >>} ELSE {<<t.color>> \o p : p \in g[t.left] \cup g[t.right]}
  <2>1. CASE t = Null
    BY <1>4, <2>1 DEF Folded, a
  <2>2. CASE t # Null
    <3>1. t.color \in Colors /\ g[t.left] \in Ways /\ g[t.right] \in Ways
      BY <2>2, LowTree
    <3>2. g[t] = G[<<t.color, g[t.left], g[t.right]>>]
      BY <1>4, <2>2 DEF Folded
    <3> QED BY <1>3, <2>2, <3>1, <3>2
  <2> QED BY <2>1, <2>2
<1>6. g = [t \in Tree |-> IF t = Null THEN {<< >>} ELSE {<<t.color>> \o p : p \in g[t.left] \cup g[t.right]}]
  BY <1>5
<1>7. Paths = [t \in Tree |-> IF t = Null THEN {<< >>}
                              ELSE {<<t.color>> \o p : p \in Paths[t.left] \cup Paths[t.right]}]
  BY <1>6, Zenon DEF Paths
<1>8. \A t \in Tree : Paths[t] = IF t = Null THEN {<< >>}
                                 ELSE {<<t.color>> \o p : p \in Paths[t.left] \cup Paths[t.right]}
  BY <1>7, Zenon
<1>9. DOMAIN Paths = Tree /\ Paths = [t \in DOMAIN Paths |-> Paths[t]]
  <2> DEFINE e(t) == IF t = Null THEN {<< >>}
                     ELSE {<<t.color>> \o p : p \in Paths[t.left] \cup Paths[t.right]}
  <2>1. Paths = [t \in Tree |-> e(t)]
    BY <1>7, Zenon
  <2> HIDE DEF e
  <2> QED BY <2>1
<1>10. \A t \in Tree : Paths[t] \in Ways
  <2> DEFINE S == {t \in Tree : Paths[t] \in Ways}
  <2>1. Null \in S
    BY <1>2, <1>8, NullIs DEF a
  <2>2. ASSUME NEW t \in Tree \ {Null}, t.left \in S /\ t.right \in S
        PROVE  t \in S
    <3>1. t.color \in Colors /\ Paths[t.left] \in Ways /\ Paths[t.right] \in Ways
      BY <2>2, LowTree
    <3>2. G[<<t.color, Paths[t.left], Paths[t.right]>>] \in Ways
      BY <1>1, <3>1
    <3>3. Paths[t] = {<<t.color>> \o p : p \in Paths[t.left] \cup Paths[t.right]}
      BY <1>8
    <3>4. G[<<t.color, Paths[t.left], Paths[t.right]>>]
            = {<<t.color>> \o p : p \in Paths[t.left] \cup Paths[t.right]}
      BY <1>3, <3>1, Zenon
    <3>5. Paths[t] \in Ways
      BY <3>2, <3>3, <3>4, Zenon
    <3> QED BY <3>5
  <2> HIDE DEF S
  <2>3. Tree \subseteq S
    BY <2>1, <2>2, TreeInduction
  <2> QED BY <2>3 DEF S
<1> QED BY <1>8, <1>9, <1>10, NullIs

Results == [ok : BOOLEAN, black : Nat]
Checks == [Calls -> Results]

LEMMA AtEndTyped ==
  ASSUME NEW c \in Calls
  PROVE  AtEnd(c) \in Results
BY DEF AtEnd, Calls, Results

LEMMA AtNodeTyped ==
  ASSUME NEW color \in Colors, NEW l \in Checks, NEW r \in Checks, NEW c \in Calls
  PROVE  AtNode(color, l, r, c) \in Results
<1> DEFINE below(b) == [black |-> b, cur_black |-> Counted(color, c.cur_black), color |-> color]
<1>1. \A b \in Nat : below(b) \in Calls
  BY DEF Calls, Counted
<1>2. \A b \in Nat : l[below(b)] \in Results /\ r[below(b)] \in Results
  BY <1>1 DEF Checks
<1>3. c.black \in Nat
  BY DEF Calls
<1>4. l[below(c.black)].black \in Nat
  BY <1>2, <1>3 DEF Results
<1>5. r[below(l[below(c.black)].black)] \in Results
  BY <1>2, <1>4
<1>6. [ok |-> FALSE, black |-> c.black] \in Results
  BY <1>3 DEF Results
<1>7. \/ AtNode(color, l, r, c) = [ok |-> FALSE, black |-> c.black]
      \/ AtNode(color, l, r, c) = r[below(l[below(c.black)].black)]
      \/ AtNode(color, l, r, c) = l[below(c.black)]
  BY DEF AtNode
<1> HIDE DEF below
<1> QED BY <1>2, <1>3, <1>5, <1>6, <1>7

LEMMA CheckIs ==
  /\ rbtree_check_balance \in [Tree -> Checks]
  /\ \A c \in Calls : rbtree_check_balance[Null][c] = AtEnd(c)
  /\ \A t \in Tree \ {Null} : \A c \in Calls :
       rbtree_check_balance[t][c]
         = AtNode(t.color, rbtree_check_balance[t.left], rbtree_check_balance[t.right], c)
<1> DEFINE G == [x \in Colors \X Checks \X Checks |-> [c \in Calls |-> AtNode(x[1], x[2], x[3], c)]]
           a == [c \in Calls |-> AtEnd(c)]
           e(f, t) == IF t = Null THEN [c \in Calls |-> AtEnd(c)]
                      ELSE [c \in Calls |-> AtNode(t.color, f[t.left], f[t.right], c)]
<1>1. G \in [Colors \X Checks \X Checks -> Checks]
  <2>1. ASSUME NEW x \in Colors \X Checks \X Checks
        PROVE  [c \in Calls |-> AtNode(x[1], x[2], x[3], c)] \in Checks
    BY AtNodeTyped DEF Checks
  <2> QED BY <2>1
<1>2. a \in Checks
  BY AtEndTyped DEF Checks
<1>3. \A k \in Colors : \A l, r \in Checks : G[<<k, l, r>>] = [c \in Calls |-> AtNode(k, l, r, c)]
  OBVIOUS
<1> HIDE DEF G
<1>4. PICK g \in [Tree -> Checks] : \A t \in Tree : g[t] = Folded(Checks, a, G, g, t)
  <2> HIDE DEF a
  <2> QED BY <1>1, <1>2, Folding
<1>5. ASSUME NEW t \in Tree
      PROVE  g[t] = e(g, t)
  <2>1. CASE t = Null
    BY <1>4, <2>1 DEF Folded
  <2>2. CASE t # Null
    <3>1. t.color \in Colors /\ g[t.left] \in Checks /\ g[t.right] \in Checks
      BY <2>2, LowTree
    <3>2. g[t] = G[<<t.color, g[t.left], g[t.right]>>]
      BY <1>4, <2>2 DEF Folded
    <3>3. g[t] = [c \in Calls |-> AtNode(t.color, g[t.left], g[t.right], c)]
      BY <1>3, <3>1, <3>2
    <3> QED BY <2>2, <3>3
  <2> QED BY <2>1, <2>2
<1>6. g = [t \in Tree |-> e(g, t)]
  <2> HIDE DEF e
  <2> QED BY <1>5
<1>7. rbtree_check_balance = [t \in Tree |-> e(rbtree_check_balance, t)]
  BY <1>6, Zenon DEF rbtree_check_balance
<1>8. \A t \in Tree : rbtree_check_balance[t] = e(rbtree_check_balance, t)
  BY <1>7, Zenon
<1>9. rbtree_check_balance = [t \in Tree |-> rbtree_check_balance[t]]
  <2> HIDE DEF e
  <2> QED BY <1>7
<1>10. \A t \in Tree : rbtree_check_balance[t] \in Checks
  <2> DEFINE S == {t \in Tree : rbtree_check_balance[t] \in Checks}
  <2>1. Null \in S
    <3>1. rbtree_check_balance[Null] = a
      BY <1>8, NullIs, Zenon
    <3> HIDE DEF a, e
    <3> QED BY <1>2, <3>1, NullIs
  <2>2. ASSUME NEW t \in Tree \ {Null}, t.left \in S /\ t.right \in S
        PROVE  t \in S
    <3>1. t.color \in Colors /\ rbtree_check_balance[t.left] \in Checks /\ rbtree_check_balance[t.right] \in Checks
      BY <2>2, LowTree
    <3>2. G[<<t.color, rbtree_check_balance[t.left], rbtree_check_balance[t.right]>>] \in Checks
      BY <1>1, <3>1
    <3>3. rbtree_check_balance[t]
            = [c \in Calls |-> AtNode(t.color, rbtree_check_balance[t.left], rbtree_check_balance[t.right], c)]
      BY <1>8, Zenon
    <3>4. rbtree_check_balance[t] \in Checks
      BY <1>3, <3>1, <3>2, <3>3
    <3> QED BY <3>4
  <2> HIDE DEF S
  <2>3. Tree \subseteq S
    BY <2>1, <2>2, TreeInduction
  <2> QED BY <2>3 DEF S
<1>11. rbtree_check_balance \in [Tree -> Checks]
  <2> HIDE DEF e
  <2> QED BY <1>9, <1>10
<1>12. \A t \in Tree \ {Null} : rbtree_check_balance[t]
         = [c \in Calls |-> AtNode(t.color, rbtree_check_balance[t.left], rbtree_check_balance[t.right], c)]
  BY <1>8, Zenon
<1>13. rbtree_check_balance[Null] = a
  BY <1>8, NullIs, Zenon
<1> HIDE DEF e
<1> QED BY <1>11, <1>12, <1>13

-----------------------------------------------------------------------------
(* The checker is right.                                                     *)

\* A path below a parent of a colour: no red follows a red.
Alternates(color, p) ==
  \A i \in 1 .. Len(p) : p[i] = "red" => IF i = 1 THEN color = "black" ELSE p[i - 1] = "black"

\* What the checker is to find out: nothing wrong below the parent, and n blacks
\* on every way down to an end.
Good(t, c, n) == \A p \in Paths[t] : Alternates(c.color, p) /\ c.cur_black + Blacks(p) = n

LEMMA BlacksIs ==
  ASSUME NEW p \in Seq(Colors), NEW color \in Colors
  PROVE  /\ Blacks(p) \in Nat
         /\ Blacks(<<color>> \o p) = Counted(color, Blacks(p))
<1> DEFINE q == <<color>> \o p
           P == {i \in DOMAIN p : p[i] = "black"}
           Q == {i \in DOMAIN q : q[i] = "black"}
           Q1 == {i \in DOMAIN q : i # 1 /\ q[i] = "black"}
           f == [i \in P |-> i + 1]
<1>1. /\ Len(p) \in Nat /\ DOMAIN p = 1 .. Len(p) /\ DOMAIN q = 1 .. Len(p) + 1
      /\ q[1] = color /\ \A i \in 1 .. Len(p) : q[i + 1] = p[i]
  <2>1. <<color>> \in Seq(Colors) /\ Len(<<color>>) = 1 /\ <<color>>[1] = color
    OBVIOUS
  <2> QED BY <2>1, ConcatProperties
<1>2. IsFiniteSet(P)
  <2>1. P \subseteq 1 .. Len(p) /\ IsFiniteSet(1 .. Len(p))
    BY <1>1, FS_Interval
  <2> QED BY <2>1, FS_Subset
<1>3. f \in Bijection(P, Q1)
  <2>1. \A i \in P : i + 1 \in Q1
    BY <1>1
  <2>2. f \in [P -> Q1]
    BY <2>1
  <2>3. \A i, j \in P : i # j => f[i] # f[j]
    BY <1>1
  <2>4. \A k \in Q1 : \E i \in P : f[i] = k
    <3> SUFFICES ASSUME NEW k \in Q1 PROVE \E i \in P : f[i] = k
      OBVIOUS
    <3>1. k - 1 \in 1 .. Len(p) /\ q[(k - 1) + 1] = p[k - 1] /\ (k - 1) + 1 = k
      BY <1>1
    <3>2. k - 1 \in P
      BY <1>1, <3>1
    <3> QED BY <3>1, <3>2
  <2> HIDE DEF f
  <2> QED BY <2>2, <2>3, <2>4 DEF Bijection, Injection, Surjection, IsInjective
<1>4. IsFiniteSet(Q1) /\ Cardinality(Q1) = Cardinality(P) /\ Cardinality(P) \in Nat
  <2> HIDE DEF P, Q1, f
  <2>1. IsFiniteSet(Q1) /\ Cardinality(Q1) = Cardinality(P)
    BY <1>2, <1>3, FS_Bijection, Zenon DEF ExistsBijection
  <2> QED BY <1>2, <2>1, FS_CardinalityType
<1>7. Blacks(p) = Cardinality(P) /\ Blacks(q) = Cardinality(Q)
  BY DEF Blacks
<1>5. CASE color = "black"
  <2>1. Q = Q1 \cup {1} /\ 1 \notin Q1
    BY <1>1, <1>5
  <2>2. Cardinality(Q) = Cardinality(Q1) + 1
    BY <1>4, <2>1, FS_AddElement
  <2> HIDE DEF P, Q, Q1
  <2> QED BY <1>4, <1>5, <1>7, <2>2 DEF Counted
<1>6. CASE color # "black"
  <2>1. Q = Q1
    BY <1>1, <1>6
  <2> HIDE DEF P, Q, Q1
  <2> QED BY <1>4, <1>6, <1>7, <2>1 DEF Counted
<1> QED BY <1>5, <1>6

LEMMA AlternatesIs ==
  ASSUME NEW p \in Seq(Colors), NEW color \in Colors, NEW above \in Colors
  PROVE  Alternates(above, <<color>> \o p)
           <=> (color = "red" => above = "black") /\ Alternates(color, p)
<1> DEFINE q == <<color>> \o p
<1>1. /\ Len(p) \in Nat /\ Len(q) = Len(p) + 1
      /\ q[1] = color /\ \A i \in 1 .. Len(p) : q[i + 1] = p[i]
  <2>1. <<color>> \in Seq(Colors) /\ Len(<<color>>) = 1 /\ <<color>>[1] = color
    OBVIOUS
  <2> QED BY <2>1, ConcatProperties
<1> HIDE DEF q
<1>2. ASSUME Alternates(above, q)
      PROVE  (color = "red" => above = "black") /\ Alternates(color, p)
  <2>1. color = "red" => above = "black"
    BY <1>1, <1>2 DEF Alternates
  <2>2. ASSUME NEW i \in 1 .. Len(p), p[i] = "red"
        PROVE  IF i = 1 THEN color = "black" ELSE p[i - 1] = "black"
    <3>1. i + 1 \in 1 .. Len(q) /\ q[i + 1] = "red" /\ i + 1 # 1 /\ (i + 1) - 1 = i
      BY <1>1, <2>2
    <3>2. q[i] = "black"
      BY <1>2, <3>1 DEF Alternates
    <3>3. i # 1 => i - 1 \in 1 .. Len(p) /\ (i - 1) + 1 = i
      BY <1>1
    <3> QED BY <1>1, <3>2, <3>3
  <2> QED BY <2>1, <2>2 DEF Alternates
<1>3. ASSUME color = "red" => above = "black", Alternates(color, p)
      PROVE  Alternates(above, q)
  <2> SUFFICES ASSUME NEW i \in 1 .. Len(q), q[i] = "red"
               PROVE  IF i = 1 THEN above = "black" ELSE q[i - 1] = "black"
    BY DEF Alternates
  <2>1. CASE i = 1
    BY <1>1, <1>3, <2>1
  <2>2. CASE i # 1
    <3>1. i - 1 \in 1 .. Len(p) /\ (i - 1) + 1 = i
      BY <1>1, <2>2
    <3>2. p[i - 1] = "red"
      BY <1>1, <3>1
    <3>3. IF i - 1 = 1 THEN color = "black" ELSE p[(i - 1) - 1] = "black"
      BY <1>3, <3>1, <3>2 DEF Alternates
    <3>4. i - 1 # 1 => (i - 1) - 1 \in 1 .. Len(p) /\ ((i - 1) - 1) + 1 = i - 1
      BY <3>1, <1>1
    <3> QED BY <1>1, <2>2, <3>3, <3>4
  <2> QED BY <2>1, <2>2
<1> QED BY <1>2, <1>3 DEF q

LEMMA SomePath ==
  ASSUME NEW t \in Tree
  PROVE  Paths[t] # {}
<1> DEFINE S == {u \in Tree : Paths[u] # {}}
<1>1. Null \in S
  BY PathsAre, NullIs
<1>2. ASSUME NEW u \in Tree \ {Null}, u.left \in S /\ u.right \in S
      PROVE  u \in S
  <2>1. PICK p \in Paths[u.left] : TRUE
    BY <1>2
  <2>2. Paths[u] = {<<u.color>> \o q : q \in Paths[u.left] \cup Paths[u.right]}
    BY PathsAre, Zenon
  <2>3. <<u.color>> \o p \in Paths[u]
    BY <2>1, <2>2
  <2> QED BY <2>3
<1> HIDE DEF S
<1>3. Tree \subseteq S
  BY <1>1, <1>2, TreeInduction
<1> QED BY <1>3 DEF S

\* What is wrong below a node is wrong there or below one of its children.
LEMMA GoodNode ==
  ASSUME NEW t \in Tree, t # Null, NEW c \in Calls, NEW d \in Calls, NEW n \in Nat,
         d.cur_black = Counted(t.color, c.cur_black), d.color = t.color
  PROVE  Good(t, c, n) <=> (t.color = "red" => c.color = "black") /\ Good(t.left, d, n) /\ Good(t.right, d, n)
<1>1. t.color \in Colors /\ t.left \in Tree /\ t.right \in Tree
  BY LowTree
<1>2. /\ Paths[t] = {<<t.color>> \o p : p \in Paths[t.left] \cup Paths[t.right]}
      /\ \A p \in Paths[t.left] \cup Paths[t.right] : p \in Seq(Colors)
  BY <1>1, PathsAre DEF Ways
<1>3. ASSUME NEW p \in Paths[t.left] \cup Paths[t.right]
      PROVE  (Alternates(c.color, <<t.color>> \o p) /\ c.cur_black + Blacks(<<t.color>> \o p) = n)
               <=> /\ t.color = "red" => c.color = "black"
                   /\ Alternates(d.color, p) /\ d.cur_black + Blacks(p) = n
  <2>1. Blacks(p) \in Nat /\ Blacks(<<t.color>> \o p) = Counted(t.color, Blacks(p))
    BY <1>1, <1>2, BlacksIs
  <2>2. c.cur_black \in Nat /\ c.color \in Colors
    BY DEF Calls
  <2>3. c.cur_black + Blacks(<<t.color>> \o p) = d.cur_black + Blacks(p)
    BY <2>1, <2>2 DEF Counted
  <2>4. Alternates(c.color, <<t.color>> \o p)
          <=> (t.color = "red" => c.color = "black") /\ Alternates(d.color, p)
    BY <1>1, <1>2, <2>2, AlternatesIs
  <2> QED BY <2>3, <2>4
<1>4. Paths[t.left] # {}
  BY <1>1, SomePath
<1>5. Good(t, c, n) <=>
        \A p \in Paths[t.left] \cup Paths[t.right] :
           Alternates(c.color, <<t.color>> \o p) /\ c.cur_black + Blacks(<<t.color>> \o p) = n
  BY <1>2, Zenon DEF Good
<1>6. (Good(t.left, d, n) /\ Good(t.right, d, n)) <=>
        \A p \in Paths[t.left] \cup Paths[t.right] :
           Alternates(d.color, p) /\ d.cur_black + Blacks(p) = n
  BY Zenon DEF Good
<1> QED BY <1>3, <1>4, <1>5, <1>6, Zenon

\* Of a call below which some way is to pass a black node.
Fit(t, c) == c.cur_black > 0 \/ (t # Null /\ c.color = "red")

\* What the result of a call says.
Told(t, c, result) ==
  /\ result.ok => /\ result.black > 0 /\ Good(t, c, result.black)
                  /\ c.black \in {0, result.black}
  /\ ~ result.ok => \A n \in Nat : c.black \in {0, n} => ~ Good(t, c, n)

LEMMA EndTold ==
  ASSUME NEW c \in Calls, Fit(Null, c)
  PROVE  Told(Null, c, AtEnd(c))
<1>1. c.cur_black \in Nat /\ c.cur_black > 0 /\ c.black \in Nat
  BY DEF Calls, Fit
<1>2. ASSUME NEW n PROVE Good(Null, c, n) <=> c.cur_black = n
  <2>1. Alternates(c.color, << >>)
    BY DEF Alternates
  <2>2. {i \in DOMAIN << >> : << >>[i] = "black"} = {}
    OBVIOUS
  <2>3. Blacks(<< >>) = 0
    BY <2>2, FS_EmptySet DEF Blacks
  <2>4. Good(Null, c, n) <=> c.cur_black + 0 = n
    BY <2>1, <2>3, PathsAre DEF Good
  <2> QED BY <1>1, <2>4
<1>3. CASE c.black > 0
  <2>1. AtEnd(c).ok = (c.cur_black = c.black) /\ AtEnd(c).black = c.black
    BY <1>3 DEF AtEnd
  <2>2. Good(Null, c, c.black) <=> c.cur_black = c.black
    BY <1>2
  <2>3. \A n \in Nat : c.black \in {0, n} => n = c.black
    BY <1>1, <1>3
  <2> QED BY <1>1, <1>3, <2>1, <2>2, <2>3 DEF Told
<1>4. CASE ~ (c.black > 0)
  <2>1. AtEnd(c).ok = TRUE /\ AtEnd(c).black = c.cur_black /\ c.black = 0
    BY <1>1, <1>4 DEF AtEnd
  <2>2. Good(Null, c, c.cur_black)
    BY <1>2
  <2> QED BY <1>1, <2>1, <2>2 DEF Told
<1> QED BY <1>3, <1>4

\* The first child tells the number of blacks, the second is held to it.
LEMMA NodeTold ==
  ASSUME NEW t \in Tree \ {Null}, NEW c \in Calls, Fit(t, c),
         \A u \in {t.left, t.right} : \A d \in Calls : Fit(u, d) => Told(u, d, rbtree_check_balance[u][d])
  PROVE  Told(t, c, rbtree_check_balance[t][c])
<1> DEFINE L == rbtree_check_balance[t.left]
           R == rbtree_check_balance[t.right]
           below(b) == [black |-> b, cur_black |-> Counted(t.color, c.cur_black), color |-> t.color]
           first == L[below(c.black)]
           second == R[below(first.black)]
<1>1. /\ t.color \in Colors /\ t.left \in Tree /\ t.right \in Tree
      /\ c.color \in Colors /\ c.cur_black \in Nat /\ c.black \in Nat
  BY LowTree DEF Calls
<1>2. rbtree_check_balance[t][c] = AtNode(t.color, L, R, c)
  BY CheckIs
<1>3. CASE c.color = "red" /\ t.color = "red"
  <2>1. rbtree_check_balance[t][c] = [ok |-> FALSE, black |-> c.black]
    BY <1>2, <1>3 DEF AtNode
  <2>2. ASSUME NEW n \in Nat PROVE ~ Good(t, c, n)
    <3>1. below(0) \in Calls
      BY <1>1 DEF Calls, Counted
    <3> QED BY <1>3, <3>1, GoodNode
  <2> QED BY <2>1, <2>2 DEF Told
<1>4. CASE ~ (c.color = "red" /\ t.color = "red")
  <2>1. rbtree_check_balance[t][c] = IF first.ok THEN second ELSE first
    BY <1>1, <1>2, <1>4 DEF AtNode, Colors
  <2>2. \A b \in Nat : below(b) \in Calls /\ below(b).cur_black > 0
    BY <1>1, <1>4 DEF Calls, Counted, Fit, Colors
  <2>3. first \in Results /\ Told(t.left, below(c.black), first)
    BY <1>1, <2>2, CheckIs DEF Fit, Checks
  <2>4. first.black \in Nat
    BY <2>3 DEF Results
  <2>5. second \in Results /\ Told(t.right, below(first.black), second)
    BY <1>1, <2>2, <2>4, CheckIs DEF Fit, Checks
  <2>6. second.black \in Nat /\ first.ok \in BOOLEAN /\ second.ok \in BOOLEAN
    BY <2>3, <2>5 DEF Results
  <2>7. ASSUME NEW n \in Nat, NEW b \in Nat
        PROVE  Good(t, c, n) <=> Good(t.left, below(b), n) /\ Good(t.right, below(b), n)
    BY <1>1, <1>4, <2>2, GoodNode DEF Colors
  <2>8. \A n, b, k : /\ Good(t.left, below(b), n) <=> Good(t.left, below(k), n)
                     /\ Good(t.right, below(b), n) <=> Good(t.right, below(k), n)
    BY DEF Good
  <2>9. \A b : below(b).black = b
    OBVIOUS
  <2> HIDE DEF first, second, below
  <2>10. CASE ~ first.ok
    <3>1. \A n \in Nat : c.black \in {0, n} => ~ Good(t.left, below(c.black), n)
      BY <2>3, <2>9, <2>10 DEF Told
    <3> QED BY <1>1, <2>1, <2>7, <2>10, <3>1 DEF Told
  <2>11. CASE first.ok /\ second.ok
    <3>1. /\ first.black > 0 /\ Good(t.left, below(c.black), first.black) /\ c.black \in {0, first.black}
          /\ second.black > 0 /\ Good(t.right, below(first.black), second.black)
          /\ first.black \in {0, second.black}
      BY <2>3, <2>5, <2>9, <2>11 DEF Told
    <3>2. second.black = first.black
      BY <2>4, <3>1
    <3>3. Good(t, c, second.black)
      BY <1>1, <2>4, <2>7, <2>8, <3>1, <3>2
    <3> QED BY <2>1, <2>11, <3>1, <3>2, <3>3 DEF Told
  <2>12. CASE first.ok /\ ~ second.ok
    <3> SUFFICES ASSUME NEW n \in Nat, c.black \in {0, n}, Good(t, c, n)
                 PROVE  FALSE
      BY <2>1, <2>12 DEF Told
    <3>1. Good(t.left, below(c.black), n) /\ Good(t.right, below(first.black), n)
      BY <1>1, <2>4, <2>7
    <3>2. Good(t.left, below(c.black), first.black)
      BY <2>3, <2>12 DEF Told
    <3>3. PICK p \in Paths[t.left] : TRUE
      BY <1>1, SomePath
    <3>4. n = first.black
      BY <3>1, <3>2, <3>3 DEF Good
    <3> QED BY <2>5, <2>9, <2>12, <3>1, <3>4 DEF Told
  <2> QED BY <2>6, <2>10, <2>11, <2>12
<1> QED BY <1>3, <1>4

LEMMA CheckTells ==
  \A t \in Tree : \A c \in Calls : Fit(t, c) => Told(t, c, rbtree_check_balance[t][c])
<1> DEFINE S == {t \in Tree : \A c \in Calls : Fit(t, c) => Told(t, c, rbtree_check_balance[t][c])}
<1>1. Null \in S
  BY EndTold, CheckIs, NullIs
<1>2. ASSUME NEW t \in Tree \ {Null}, t.left \in S /\ t.right \in S
      PROVE  t \in S
  <2>1. \A u \in {t.left, t.right} : \A d \in Calls : Fit(u, d) => Told(u, d, rbtree_check_balance[u][d])
    BY <1>2
  <2>2. \A c \in Calls : Fit(t, c) => Told(t, c, rbtree_check_balance[t][c])
    BY <2>1, NodeTold
  <2> QED BY <2>2
<1> HIDE DEF S
<1>3. Tree \subseteq S
  BY <1>1, <1>2, TreeInduction
<1> QED BY <1>3 DEF S

\* The checker accepts the red-black trees and no other, of any size.
THEOREM CheckerRight == \A t \in Tree \ {Null} : Balanced(t) <=> IsRedBlack(t)
<1> SUFFICES ASSUME NEW t \in Tree \ {Null} PROVE Balanced(t) <=> IsRedBlack(t)
  OBVIOUS
<1> DEFINE c == [black |-> 0, cur_black |-> 0, color |-> "red"]
           result == rbtree_check_balance[t][c]
<1>1. c \in Calls /\ c.color = "red" /\ c.black = 0 /\ c.cur_black = 0
  BY DEF Calls, Colors
<1>2. result \in Results /\ (Balanced(t) <=> result.ok)
  BY <1>1, CheckIs DEF Balanced, Checks
<1>3. Told(t, c, result)
  BY <1>1, CheckTells DEF Fit
<1> HIDE DEF result, c
<1>4. \A p \in Paths[t] : p \in Seq(Colors) /\ Len(p) \in Nat /\ Blacks(p) \in Nat
  BY PathsAre, BlacksIs DEF Ways, Colors
<1>5. ASSUME NEW p \in Paths[t]
      PROVE  Alternates("red", p) <=> \A i \in 1..Len(p) : p[i] = "red" => i > 1 /\ p[i - 1] = "black"
  BY <1>4 DEF Alternates
<1>6. ASSUME NEW n PROVE Good(t, c, n) <=> \A p \in Paths[t] : Alternates("red", p) /\ Blacks(p) = n
  BY <1>1, <1>4 DEF Good
<1>7. ASSUME result.ok PROVE IsRedBlack(t)
  <2>1. Good(t, c, result.black)
    BY <1>3, <1>7 DEF Told
  <2> QED BY <1>5, <1>6, <2>1 DEF IsRedBlack
<1>8. ASSUME IsRedBlack(t) PROVE result.ok
  <2>1. PICK p \in Paths[t] : TRUE
    BY SomePath
  <2>2. Good(t, c, Blacks(p))
    BY <1>5, <1>6, <1>8, <2>1 DEF IsRedBlack
  <2>3. Blacks(p) \in Nat
    BY <1>4
  <2> QED BY <1>1, <1>2, <1>3, <2>2, <2>3 DEF Told, Results
<1> QED BY <1>2, <1>7, <1>8

-----------------------------------------------------------------------------
(* PART 3, Lockstep: what the brute-force tests find out.                    *)

\* The empty tree is red-black, though no test asks the checker about it.
LEMMA NullRedBlack == IsRedBlack(Null)
<1>1. Paths[Null] = {<< >>}
  BY PathsAre
<1> QED BY <1>1 DEF IsRedBlack

\* What a container looks like, whatever is wrong with it: as it is walked, it
\* has a tree of as many nodes as elements, balanced or not.
Made(c) ==
  /\ c.fwd \in Seq(Nat) /\ c.bwd \in Seq(Nat) /\ c.size \in Int
  /\ IsTree /\ Len(c.fwd) <= MaxNodes => c.root \in Trees[Len(c.fwd)]

\* Where a check has passed, the container is what the reference is; after the
\* last assignment it is whatever a container can be, for no check follows; where
\* a check has failed, something is wrong.
LockInv ==
  /\ kind \in Kinds /\ wrong \in BOOLEAN /\ legal = TRUE
  /\ s_ref \in Seq(Vals) /\ Len(s_ref) <= MaxSize
  /\ pc \in AfterCheck \cup {"assigned", "failed"}
  /\ pc \in AfterCheck => Sound
  /\ Made(s) /\ (pc = "assigned" => ~ wrong)
  /\ pc = "failed" => ~ Sound

-----------------------------------------------------------------------------
LEMMA ReverseIs ==
  ASSUME NEW E, NEW x \in Seq(E)
  PROVE  Reverse(x) \in Seq(E) /\ Len(Reverse(x)) = Len(x)
         /\ \A i \in 1 .. Len(x) : Reverse(x)[i] = x[Len(x) + 1 - i]
<1>1. Len(x) \in Nat /\ \A i \in 1 .. Len(x) : (Len(x) - i) + 1 \in 1 .. Len(x) /\ (Len(x) - i) + 1 = Len(x) + 1 - i
  OBVIOUS
<1>2. \A i \in 1 .. Len(x) : x[(Len(x) - i) + 1] \in E
  BY <1>1
<1> QED BY <1>1, <1>2 DEF Reverse

LEMMA InsertedIs ==
  ASSUME NEW E, NEW x \in Seq(E), NEW i \in 1 .. Len(x) + 1, NEW v \in E
  PROVE  InsertAt(x, i, v) \in Seq(E) /\ Len(InsertAt(x, i, v)) = Len(x) + 1
<1>1. Len(x) \in Nat
  OBVIOUS
<1>2. SubSeq(x, 1, i - 1) \in Seq(E) /\ Len(SubSeq(x, 1, i - 1)) = i - 1
  BY <1>1, SubSeqProperties
<1>3. SubSeq(x, i, Len(x)) \in Seq(E) /\ Len(SubSeq(x, i, Len(x))) = Len(x) + 1 - i
  BY <1>1, SubSeqProperties
<1>4. <<v>> \in Seq(E) /\ Len(<<v>>) = 1
  OBVIOUS
<1>5. SubSeq(x, 1, i - 1) \o <<v>> \in Seq(E) /\ Len(SubSeq(x, 1, i - 1) \o <<v>>) = i
  BY <1>1, <1>2, <1>4, ConcatProperties
<1> DEFINE a == SubSeq(x, 1, i - 1) \o <<v>>
           b == SubSeq(x, i, Len(x))
<1>6. a \in Seq(E) /\ Len(a) = i /\ b \in Seq(E) /\ Len(b) = Len(x) + 1 - i
  BY <1>3, <1>5
<1>7. InsertAt(x, i, v) = a \o b
  BY DEF InsertAt
<1> HIDE DEF a, b
<1>8. a \o b \in Seq(E) /\ Len(a \o b) = Len(a) + Len(b)
  BY <1>6, ConcatProperties
<1> QED BY <1>1, <1>6, <1>7, <1>8

LEMMA CutIs ==
  ASSUME NEW E, NEW x \in Seq(E), NEW m \in 0 .. Len(x), NEW n \in 0 .. Len(x)
  PROVE  Cut(x, m, n) \in Seq(E)
<1>1. Len(x) \in Nat
  OBVIOUS
<1>2. SubSeq(x, 1, m) \in Seq(E)
  BY <1>1, SubSeqProperties
<1>3. SubSeq(x, n + 1, Len(x)) \in Seq(E)
  BY <1>1, SubSeqProperties
<1> QED BY <1>2, <1>3, ConcatProperties DEF Cut

LEMMA RemovedIs ==
  ASSUME NEW E, NEW x \in Seq(E), NEW i \in 1 .. Len(x)
  PROVE  RemoveAt(x, i) \in Seq(E)
<1>1. i - 1 \in 0 .. Len(x) /\ i \in 0 .. Len(x)
  OBVIOUS
<1>2. Cut(x, i - 1, i) \in Seq(E)
  BY <1>1, CutIs
<1> QED BY <1>2 DEF RemoveAt, Cut

LEMMA SkippingIs ==
  ASSUME NEW E, NEW x \in Seq(E), NEW b \in Skipping(x)
  PROVE  b \in Seq(E) /\ Len(x) # 0
<1>1. Reverse(x) \in Seq(E) /\ Len(Reverse(x)) = Len(x) /\ Len(x) \in Nat
  BY ReverseIs
<1>2. PICK i \in 1 .. Len(x) - 1 : b = RemoveAt(Reverse(x), i)
  BY DEF Skipping
<1> QED BY <1>1, <1>2, RemovedIs

LEMMA PrefixIs ==
  ASSUME NEW E, NEW b \in Seq(E), NEW x \in Seq(E)
  PROVE  IsPrefix(b, Reverse(x))
           <=> \A i \in DOMAIN b : i \in DOMAIN x /\ b[i] = x[Len(x) + 1 - i]
<1> DEFINE r == Reverse(x)
<1>1. /\ r \in Seq(E) /\ Len(r) = Len(x) /\ \A i \in 1 .. Len(x) : r[i] = x[Len(x) + 1 - i]
      /\ DOMAIN b = 1 .. Len(b) /\ DOMAIN x = 1 .. Len(x) /\ Len(b) \in Nat /\ Len(x) \in Nat
  BY ReverseIs
<1> HIDE DEF r
<1>2. CASE Len(b) <= Len(x)
  <2>1. /\ SubSeq(b, 1, Len(b)) = [i \in 1 .. Len(b) |-> b[i]]
        /\ SubSeq(r, 1, Len(b)) = [i \in 1 .. Len(b) |-> r[i]]
    BY <1>1, <1>2, SubSeqProperties
  <2>2. IsPrefix(b, r) <=> \A i \in 1 .. Len(b) : b[i] = r[i]
    BY <1>1, <1>2, <2>1 DEF IsPrefix
  <2>3. \A i \in 1 .. Len(b) : i \in DOMAIN x /\ r[i] = x[Len(x) + 1 - i]
    BY <1>1, <1>2
  <2>4. IsPrefix(b, r) <=> \A i \in DOMAIN b : i \in DOMAIN x /\ b[i] = x[Len(x) + 1 - i]
    BY <1>1, <2>2, <2>3
  <2> QED BY <2>4 DEF r
<1>3. CASE ~ (Len(b) <= Len(x))
  <2>1. ~ IsPrefix(b, r)
    BY <1>1, <1>3 DEF IsPrefix
  <2>2. Len(b) \in DOMAIN b /\ Len(b) \notin DOMAIN x
    BY <1>1, <1>3
  <2> QED BY <2>1, <2>2 DEF r
<1> QED BY <1>2, <1>3

-----------------------------------------------------------------------------
(* The check finds what the container is not.                                *)

LEMMA SeqWider == ASSUME NEW S, NEW T, S \subseteq T PROVE Seq(S) \subseteq Seq(T)
OBVIOUS

LEMMA SizesAre ==
  /\ MaxSize \in Nat /\ MaxNodes = MaxSize + 1 /\ MaxNodes \in Nat
  /\ Vals \subseteq Nat /\ 0 \in Vals /\ Seq(Vals) \subseteq Seq(Nat)
<1>1. Vals \subseteq Nat
  BY LockstepAssumption
<1>2. Seq(Vals) \subseteq Seq(Nat)
  BY <1>1, SeqWider
<1> QED BY <1>1, <1>2, LockstepAssumption, NodesAssumption

LEMMA RootIs ==
  ASSUME NEW n \in 0 .. MaxNodes, NEW t \in Trees[n]
  PROVE  t \in RedBlack[n] <=> (n > 0 => t # Null /\ Balanced(t))
<1>1. t \in Tree
  BY DEF Tree
<1>2. t \in RedBlack[n] <=> IsRedBlack(t)
  BY DEF RedBlack
<1>3. n > 0 <=> t # Null
  BY NodeIs, NodesAssumption
<1> QED BY <1>1, <1>2, <1>3, CheckerRight, NullRedBlack

\* The check passes exactly those that are what the reference is: here the
\* checker of the trees has to be right.
LEMMA CheckAgrees ==
  ASSUME NEW c, Made(c), NEW x \in Seq(Vals), Len(x) <= MaxSize
  PROVE  Check(c, x) <=> Agrees(c, x)
<1>1. /\ Len(x) \in Nat /\ Len(x) \in 0 .. MaxNodes /\ x \in Seq(Nat) /\ Len(x) <= MaxNodes
      /\ c.fwd \in Seq(Nat) /\ c.bwd \in Seq(Nat)
  BY SizesAre DEF Made
<1>2. (\A i \in DOMAIN c.bwd : i \in DOMAIN x /\ c.bwd[i] = x[Len(x) + 1 - i])
        <=> IsPrefix(c.bwd, Reverse(x))
  BY <1>1, PrefixIs
<1>3. (Len(c.fwd) = Len(x) /\ \A i \in DOMAIN c.fwd : c.fwd[i] = x[i]) <=> c.fwd = x
  <2>1. DOMAIN x = 1 .. Len(x) /\ DOMAIN c.fwd = 1 .. Len(c.fwd)
    BY <1>1
  <2> QED BY <1>1, <2>1, SeqEqual
<1>4. ASSUME c.fwd = x, IsTree, c.size = Len(x)
      PROVE  c.root \in RedBlack[Len(x)] <=> (c.size > 0 => c.root # Null /\ Balanced(c.root))
  BY <1>1, <1>4, RootIs DEF Made
<1> QED BY <1>2, <1>3, <1>4 DEF Check, Agrees

LEMMA RightMade ==
  ASSUME NEW x \in Seq(Nat), NEW c \in Right(x)
  PROVE  /\ Made(c)
         /\ c.fwd = x /\ c.size = Len(x) /\ c.bwd = Reverse(x)
         /\ DOMAIN c = {"fwd", "bwd", "size", "root"}
         /\ c = [fwd |-> x, bwd |-> Reverse(x), size |-> Len(x), root |-> c.root]
         /\ x \in Seq(Vals) /\ Len(x) <= MaxSize => Agrees(c, x)
<1>1. /\ c = [fwd |-> x, bwd |-> Reverse(x), size |-> Len(x), root |-> c.root]
      /\ IsTree => c.root \in RedBlack[Len(x)]
  BY DEF Right
<1>2. c.fwd = x /\ c.size = Len(x) /\ c.bwd = Reverse(x) /\ Len(x) \in Nat
  BY <1>1
<1>3. IsTree /\ Len(x) <= MaxNodes => c.root \in Trees[Len(x)]
  BY <1>1, <1>2, SizesAre DEF RedBlack
<1>4. Made(c)
  BY <1>2, <1>3, ReverseIs DEF Made
<1>5. IsPrefix(Reverse(x), Reverse(x))
  BY ReverseIs DEF IsPrefix
<1>6. Agrees(c, x)
  BY <1>1, <1>2, <1>5 DEF Agrees
<1> QED BY <1>1, <1>2, <1>4, <1>6

LEMMA RightInserted ==
  ASSUME NEW x \in Seq(Nat), NEW i \in 1 .. Len(x) + 1, NEW c \in Right(InsertAt(x, i, 0))
  PROVE  Made(c) /\ c.size = Len(x) + 1
<1>1. 0 \in Nat
  OBVIOUS
<1>2. InsertAt(x, i, 0) \in Seq(Nat) /\ Len(InsertAt(x, i, 0)) = Len(x) + 1
  BY <1>1, InsertedIs
<1> QED BY <1>2, RightMade

LEMMA WrongIs ==
  ASSUME NEW x, NEW c \in Wrong(x)
  PROVE  \/ \E i \in DOMAIN x : c \in Right(RemoveAt(x, i))
         \/ \E i \in 1 .. Len(x) + 1 : c \in Right(InsertAt(x, i, 0))
         \/ \E i \in DOMAIN x : c \in Right([x EXCEPT ![i] = @ + 1])
         \/ \E d \in Right(x) : c = [d EXCEPT !.size = @ + 1]
         \/ \E d \in Right(x), b \in Skipping(x) : c = [d EXCEPT !.bwd = b]
         \/ IsTree /\ \E d \in Right(x), t \in Trees[Len(x)] : c = [d EXCEPT !.root = t]
BY DEF Wrong

LEMMA WrongMade ==
  ASSUME NEW x \in Seq(Nat), NEW c \in Wrong(x)
  PROVE  Made(c)
<1>1. Len(x) \in Nat /\ DOMAIN x = 1 .. Len(x) /\ 0 \in Nat
  OBVIOUS
<1>2. CASE \E i \in DOMAIN x : c \in Right(RemoveAt(x, i))
  BY <1>1, <1>2, RemovedIs, RightMade
<1>3. CASE \E i \in 1 .. Len(x) + 1 : c \in Right(InsertAt(x, i, 0))
  BY <1>3, RightInserted
<1>4. CASE \E i \in DOMAIN x : c \in Right([x EXCEPT ![i] = @ + 1])
  <2>1. \A i \in DOMAIN x : x[i] + 1 \in Nat
    BY <1>1
  <2>2. \A i \in DOMAIN x : [x EXCEPT ![i] = @ + 1] \in Seq(Nat)
    BY <1>1, <2>1, ExceptSeq
  <2> QED BY <1>4, <2>2, RightMade
<1>5. CASE \E d \in Right(x) : c = [d EXCEPT !.size = @ + 1]
  <2>1. PICK d \in Right(x) : c = [d EXCEPT !.size = @ + 1]
    BY <1>5
  <2>2. c.fwd = d.fwd /\ c.bwd = d.bwd /\ c.root = d.root /\ c.size = Len(x) + 1
    BY <2>1, RightMade
  <2> QED BY <1>1, <2>2, RightMade DEF Made
<1>6. CASE \E d \in Right(x), b \in Skipping(x) : c = [d EXCEPT !.bwd = b]
  <2>1. PICK d \in Right(x), b \in Skipping(x) : c = [d EXCEPT !.bwd = b]
    BY <1>6
  <2>2. c.fwd = d.fwd /\ c.bwd = b /\ c.root = d.root /\ c.size = d.size
    BY <2>1, RightMade
  <2>3. b \in Seq(Nat)
    BY SkippingIs
  <2> QED BY <2>2, <2>3, RightMade DEF Made
<1>7. CASE IsTree /\ \E d \in Right(x), t \in Trees[Len(x)] : c = [d EXCEPT !.root = t]
  <2>1. PICK d \in Right(x), t \in Trees[Len(x)] : c = [d EXCEPT !.root = t]
    BY <1>7
  <2>2. c.fwd = d.fwd /\ c.bwd = d.bwd /\ c.root = t /\ d.fwd = x /\ c.size = d.size
    BY <2>1, RightMade
  <2> QED BY <2>2, RightMade DEF Made
<1> QED BY <1>2, <1>3, <1>4, <1>5, <1>6, <1>7, WrongIs

LEMMA GivesMade ==
  ASSUME Made(s), NEW x \in Seq(Nat), NEW c \in Gives(x)
  PROVE  Made(c)
<1>1. CASE c \in Right(x) \/ c \in Wrong(x)
  BY <1>1, RightMade, WrongMade
<1>2. CASE c = s
  BY <1>2
<1>3. CASE c \in [fwd : {x}, bwd : {Reverse(x)} \cup Skipping(x), size : {Len(x) + s.size - Len(s.fwd)},
                   root : IF IsTree THEN Trees[Len(x)] ELSE {Null}]
  <2>1. /\ c.fwd = x /\ c.bwd \in {Reverse(x)} \cup Skipping(x) /\ (IsTree => c.root \in Trees[Len(x)])
        /\ c.size = Len(x) + s.size - Len(s.fwd) /\ Len(x) \in Int /\ Len(s.fwd) \in Int /\ s.size \in Int
    BY <1>3 DEF Made
  <2>2. Reverse(x) \in Seq(Nat) /\ \A b \in Skipping(x) : b \in Seq(Nat)
    BY ReverseIs, SkippingIs
  <2> QED BY <2>1, <2>2 DEF Made
<1> QED BY <1>1, <1>2, <1>3 DEF Gives, Keeps

LEMMA WrongEmptyIs ==
  ASSUME NEW x \in Seq(Nat), NEW c \in Wrong(x)
  PROVE  Len(x) = 0 =>
           \/ \E i \in 1 .. Len(x) + 1 : c \in Right(InsertAt(x, i, 0))
           \/ \E d \in Right(x) : c = [d EXCEPT !.size = @ + 1]
           \/ IsTree /\ \E d \in Right(x), t \in Trees[Len(x)] : c = [d EXCEPT !.root = t]
<1>1. Len(x) = 0 => \A i : i \notin DOMAIN x /\ i \notin Skipping(x)
  <2>1. \A b \in Skipping(x) : Len(x) # 0
    BY SkippingIs, Zenon
  <2>2. Len(x) = 0 => \A i : i \notin DOMAIN x
    OBVIOUS
  <2> QED BY <2>1, <2>2, Zenon
<1>2. \/ \E i \in DOMAIN x : c \in Right(RemoveAt(x, i))
      \/ \E i \in 1 .. Len(x) + 1 : c \in Right(InsertAt(x, i, 0))
      \/ \E i \in DOMAIN x : c \in Right([x EXCEPT ![i] = @ + 1])
      \/ \E d \in Right(x) : c = [d EXCEPT !.size = @ + 1]
      \/ \E d \in Right(x), b \in Skipping(x) : c = [d EXCEPT !.bwd = b]
      \/ IsTree /\ \E d \in Right(x), t \in Trees[Len(x)] : c = [d EXCEPT !.root = t]
  BY WrongIs
<1> QED BY <1>1, <1>2, Zenon

LEMMA EmptyTreeIs ==
  ASSUME NEW x \in Seq(Nat), NEW d \in Right(x), NEW t \in Trees[Len(x)], IsTree
  PROVE  Len(x) = 0 => [d EXCEPT !.root = t] = d
<1>1. SUFFICES ASSUME Len(x) = 0 PROVE [d EXCEPT !.root = t] = d
  OBVIOUS
<1>2. /\ d = [fwd |-> x, bwd |-> Reverse(x), size |-> Len(x), root |-> d.root]
      /\ d.root \in RedBlack[Len(x)]
  BY DEF Right
<1>3. d.root \in Trees[0] /\ t \in Trees[0]
  BY <1>1, <1>2, SizesAre DEF RedBlack
<1>4. Trees[0] = {Null}
  BY SizesAre, NullIs
<1> QED BY <1>2, <1>3, <1>4

\* What a new container is like, and one that has an element and shows none.
LEMMA EmptyNoticed ==
  ASSUME NEW e \in Seq(Nat), NEW c \in Wrong(e), CheckEmpty(c), e = << >>
  PROVE  Agrees(c, e)
<1>1. c.size = 0 /\ Len(e) = 0 /\ e \in Seq(Vals) /\ Len(e) <= MaxSize
  BY SizesAre, EmptySeq DEF CheckEmpty
<1>2. ASSUME NEW i \in 1 .. Len(e) + 1, c \in Right(InsertAt(e, i, 0))
      PROVE  FALSE
  <2>1. c.size = Len(e) + 1
    BY <1>2, RightInserted, Zenon
  <2> QED BY <1>1, <2>1
<1>3. ASSUME NEW d \in Right(e), c = [d EXCEPT !.size = @ + 1]
      PROVE  FALSE
  <2>1. d.size = Len(e) /\ "size" \in DOMAIN d
    BY RightMade
  <2> QED BY <1>1, <1>3, <2>1
<1>4. ASSUME NEW d \in Right(e), NEW t \in Trees[Len(e)], IsTree, c = [d EXCEPT !.root = t]
      PROVE  Agrees(c, e)
  <2>1. Len(e) = 0 => [d EXCEPT !.root = t] = d
    BY <1>4, EmptyTreeIs, Zenon
  <2>2. e \in Seq(Vals) /\ Len(e) <= MaxSize => Agrees(d, e)
    BY RightMade, Zenon
  <2> QED BY <1>1, <1>4, <2>1, <2>2
<1>5. \/ \E i \in 1 .. Len(e) + 1 : c \in Right(InsertAt(e, i, 0))
      \/ \E d \in Right(e) : c = [d EXCEPT !.size = @ + 1]
      \/ IsTree /\ \E d \in Right(e), t \in Trees[Len(e)] : c = [d EXCEPT !.root = t]
  <2>1. Len(e) = 0 =>
           \/ \E i \in 1 .. Len(e) + 1 : c \in Right(InsertAt(e, i, 0))
           \/ \E d \in Right(e) : c = [d EXCEPT !.size = @ + 1]
           \/ IsTree /\ \E d \in Right(e), t \in Trees[Len(e)] : c = [d EXCEPT !.root = t]
    BY WrongEmptyIs, Zenon
  <2> QED BY <1>1, <2>1, Zenon
<1> QED BY <1>2, <1>3, <1>4, <1>5, Zenon

-----------------------------------------------------------------------------
(* Steps that both containers take.                                          *)

LEMMA SoundNext ==
  ASSUME kind' = kind
  PROVE  /\ Sound' <=> Agrees(s', s_ref') /\ ~ wrong'
         /\ Made(s)' <=> Made(s')
BY DEF Sound, Agrees, Made, IsTree

\* A step ends in a check that passes if and only if nothing is wrong.
LEMMA StepsHold ==
  ASSUME LockInv, NEW x \in Seq(Nat), NEW y \in Seq(Vals), NEW answered \in BOOLEAN,
         NEW next \in AfterCheck, Steps(x, y, answered, next),
         wrong' \in BOOLEAN, legal' = TRUE, answered <=> ~ wrong'
  PROVE  LockInv'
<1>1. /\ Len(y) <= MaxSize /\ s_ref' = y /\ s' \in Gives(x) /\ kind' = kind /\ kind \in Kinds
      /\ pc' = IF answered /\ Check(s', y) THEN next ELSE "failed"
  BY DEF Steps, LockInv
<1>2. Made(s')
  BY <1>1, GivesMade DEF LockInv
<1>3. Check(s', y) <=> Agrees(s', y)
  BY <1>1, <1>2, CheckAgrees
<1>4. (Sound' <=> Agrees(s', y) /\ ~ wrong') /\ Made(s)'
  BY <1>1, <1>2, SoundNext
<1>5. next \in AfterCheck /\ next # "failed" /\ next # "assigned" /\ AfterCheck' = AfterCheck
  BY DEF AfterCheck
<1>6. (pc' = next /\ Sound') \/ (pc' = "failed" /\ ~ Sound')
  BY <1>1, <1>3, <1>4
<1>7. "failed" \notin AfterCheck
  BY DEF AfterCheck
<1> QED BY <1>1, <1>4, <1>5, <1>6, <1>7 DEF LockInv

LEMMA BothHolds ==
  ASSUME LockInv, ~ wrong, legal' = TRUE, NEW x \in Seq(Nat), NEW y \in Seq(Vals),
         NEW next \in AfterCheck, Both(x, y, next)
  PROVE  LockInv'
<1>1. Steps(x, y, TRUE, next) /\ wrong' = wrong /\ wrong \in BOOLEAN
  BY DEF Both, LockInv
<1> QED BY <1>1, StepsHold

LEMMA AnsweringHolds ==
  ASSUME LockInv, ~ wrong, legal' = TRUE, NEW x \in Seq(Nat), NEW y \in Seq(Vals),
         NEW a, NEW b, a = b, NEW next \in AfterCheck, Answering(x, y, a, b, next)
  PROVE  LockInv'
<1>1. PICK r \in Returns(a) : Steps(x, y, r = b, next) /\ wrong' = (wrong \/ r # a)
  BY DEF Answering
<1>2. (r = b) \in BOOLEAN /\ wrong' \in BOOLEAN /\ ((r = b) <=> ~ wrong')
  BY <1>1
<1> QED BY <1>1, <1>2, StepsHold

LEMMA LooksHold ==
  ASSUME LockInv, ~ wrong, legal' = TRUE, NEW x \in Seq(Nat), NEW y \in Seq(Vals), Looks(x, y)
  PROVE  LockInv'
<1>1. "step" \in AfterCheck
  BY DEF AfterCheck
<1>2. CASE x = << >>
  BY <1>1, <1>2, BothHolds DEF Looks
<1>3. CASE x # << >>
  BY <1>1, <1>3, AnsweringHolds DEF Looks
<1> QED BY <1>2, <1>3

\* What is known where the last check has passed.
LEMMA Known ==
  ASSUME LockInv, pc \in AfterCheck
  PROVE  /\ s.fwd = s_ref /\ s.size = Len(s_ref) /\ ~ wrong /\ Agrees(s, s_ref) /\ Sound
         /\ Len(s_ref) \in Nat /\ s_ref \in Seq(Vals) /\ s_ref \in Seq(Nat) /\ legal = TRUE
BY SizesAre DEF LockInv, Sound, Agrees

LEMMA Asked ==
  ASSUME LockInv, pc \in AfterCheck, NEW n \in 0 .. Len(s_ref), Asks(n)
  PROVE  legal' = TRUE
<1>1. n <= Len(s.fwd) /\ n <= Len(s_ref) /\ legal = TRUE
  BY Known
<1>2. legal' = (legal /\ n <= Len(s.fwd) /\ n <= Len(s_ref))
  BY DEF Asks
<1> QED BY <1>1, <1>2

\* What is done to both, done rightly, keeps them alike.
LEMMA Alike ==
  ASSUME LockInv, pc \in AfterCheck, legal' = TRUE, NEW y \in Seq(Vals), NEW next \in AfterCheck
  PROVE  /\ Both(y, y, next) => LockInv'
         /\ \A a : Answering(y, y, a, a, next) => LockInv'
         /\ Looks(y, y) => LockInv'
<1>1. y \in Seq(Nat) /\ ~ wrong
  BY SizesAre, Known
<1>2. Both(y, y, next) => LockInv'
  BY <1>1, BothHolds
<1>3. ASSUME NEW a, Answering(y, y, a, a, next) PROVE LockInv'
  BY <1>1, <1>3, AnsweringHolds
<1>4. Looks(y, y) => LockInv'
  BY <1>1, LooksHold
<1> QED BY <1>2, <1>3, <1>4

-----------------------------------------------------------------------------
(* What the operations make of a sequence.                                    *)

LEMMA BoundsAre ==
  ASSUME NEW E, NEW x \in Seq(E), NEW val
  PROVE  lower_bound(x, val) \in 0 .. Len(x) /\ upper_bound(x, val) \in 0 .. Len(x)
<1>1. DOMAIN x = 1 .. Len(x) /\ Len(x) \in Nat
  OBVIOUS
<1>2. IsFiniteSet(1 .. Len(x)) /\ Cardinality(1 .. Len(x)) = Len(x)
  BY <1>1, FS_Interval
<1>3. ASSUME NEW T \in SUBSET (1 .. Len(x)) PROVE Cardinality(T) \in 0 .. Len(x)
  <2>1. IsFiniteSet(T) /\ Cardinality(T) <= Len(x)
    BY <1>2, FS_Subset
  <2>2. Cardinality(T) \in Nat
    BY <2>1, FS_CardinalityType
  <2> QED BY <1>1, <2>1, <2>2
<1>4. {i \in DOMAIN x : x[i] < val} \in SUBSET (1 .. Len(x)) /\ {i \in DOMAIN x : x[i] <= val} \in SUBSET (1 .. Len(x))
  BY <1>1
<1> QED BY <1>3, <1>4 DEF lower_bound, upper_bound

LEMMA PutIs ==
  ASSUME NEW E, NEW x \in Seq(E), NEW n \in 0 .. Len(x), NEW vals \in Seq(E)
  PROVE  SubSeq(x, 1, n) \o vals \o SubSeq(x, n + 1, Len(x)) \in Seq(E)
<1>1. Len(x) \in Nat
  OBVIOUS
<1>2. SubSeq(x, 1, n) \in Seq(E) /\ SubSeq(x, n + 1, Len(x)) \in Seq(E)
  BY <1>1, SubSeqProperties
<1>3. SubSeq(x, 1, n) \o vals \in Seq(E)
  BY <1>2, ConcatProperties
<1> QED BY <1>2, <1>3, ConcatProperties

LEMMA FrontIs ==
  ASSUME NEW E, NEW x \in Seq(E), Len(x) # 0
  PROVE  Front(x) \in Seq(E) /\ Tail(x) \in Seq(E)
<1>1. Len(x) \in Nat /\ x # << >>
  OBVIOUS
<1>2. SubSeq(x, 1, Len(x) - 1) \in Seq(E)
  BY <1>1, SubSeqProperties
<1> QED BY <1>1, <1>2 DEF Front

LEMMA GeneratedIs ==
  ASSUME NEW E, NEW n \in Nat, NEW vals \in SeqOf(E, n)
  PROVE  vals \in Seq(E)
BY DEF SeqOf

LEMMA ErasedIs ==
  ASSUME NEW E, NEW x \in Seq(E), NEW val
  PROVE  Without(x, val) \in Seq(E) /\ Erased(x, val) \in Seq(E)
<1>1. lower_bound(x, val) \in 0 .. Len(x) /\ upper_bound(x, val) \in 0 .. Len(x) /\ Len(x) \in Nat
  BY BoundsAre
<1>2. Without(x, val) \in Seq(E)
  BY <1>1, CutIs DEF Without
<1>3. lower_bound(x, val) # Len(x) => RemoveAt(x, lower_bound(x, val) + 1) \in Seq(E)
  <2>1. lower_bound(x, val) # Len(x) => lower_bound(x, val) + 1 \in 1 .. Len(x)
    BY <1>1
  <2> QED BY <2>1, RemovedIs
<1> QED BY <1>2, <1>3 DEF Erased

LEMMA InsertedIn ==
  ASSUME NEW E, NEW x \in Seq(E), NEW val \in E
  PROVE  Inserted(x, val) \in Seq(E)
<1>1. upper_bound(x, val) + 1 \in 1 .. Len(x) + 1
  BY BoundsAre
<1> QED BY <1>1, InsertedIs DEF Inserted

-----------------------------------------------------------------------------
(* One lemma per action.                                                     *)

LEMMA emplaceHolds == LockInv /\ emplace => LockInv'
<1>1. SUFFICES ASSUME LockInv, emplace PROVE LockInv'
  OBVIOUS
<1>2. pc \in AfterCheck /\ "step" \in AfterCheck
  BY <1>1 DEF emplace, Act, AfterCheck
<1>3. s.fwd = s_ref /\ s.size = Len(s_ref) /\ s_ref \in Seq(Vals) /\ Len(s_ref) \in Nat
  BY <1>1, <1>2, Known
<1>4. PICK n \in 0 .. Len(s_ref), val \in Vals :
        /\ Asks(n)
        /\ Answering(InsertAt(s_ref, n + 1, val), InsertAt(s_ref, n + 1, val), n, n, "step")
  BY <1>1, <1>3 DEF emplace
<1>5. InsertAt(s_ref, n + 1, val) \in Seq(Vals)
  <2>1. n + 1 \in 1 .. Len(s_ref) + 1
    BY <1>3
  <2> QED BY <1>3, <2>1, InsertedIs
<1>6. legal' = TRUE
  BY <1>1, <1>2, <1>4, Asked
<1> QED BY <1>1, <1>2, <1>4, <1>5, <1>6, Alike

LEMMA insertHolds == LockInv /\ insert => LockInv'
<1>1. SUFFICES ASSUME LockInv, insert PROVE LockInv'
  OBVIOUS
<1>2. pc \in AfterCheck /\ "step" \in AfterCheck
  BY <1>1 DEF insert, Act, AfterCheck
<1>3. s.fwd = s_ref /\ s.size = Len(s_ref) /\ s_ref \in Seq(Vals) /\ Len(s_ref) \in Nat
  BY <1>1, <1>2, Known
<1> DEFINE Put(n, vals) == SubSeq(s_ref, 1, n) \o vals \o SubSeq(s_ref, n + 1, Len(s_ref))
<1>4. PICK n \in 0 .. Len(s_ref), vals \in SeqOf(Vals, 2) :
        Asks(n) /\ Answering(Put(n, vals), Put(n, vals), n, n, "step")
  BY <1>1, <1>3 DEF insert
<1>5. Put(n, vals) \in Seq(Vals)
  BY <1>3, GeneratedIs, PutIs
<1>6. legal' = TRUE
  BY <1>1, <1>2, <1>4, Asked
<1> HIDE DEF Put
<1> QED BY <1>1, <1>2, <1>4, <1>5, <1>6, Alike

LEMMA eraseOneHolds == LockInv /\ erase_one => LockInv'
<1>1. SUFFICES ASSUME LockInv, erase_one PROVE LockInv'
  OBVIOUS
<1>2. pc \in AfterCheck /\ "step" \in AfterCheck
  BY <1>1 DEF erase_one, Act, AfterCheck
<1>3. s.fwd = s_ref /\ s.size = Len(s_ref) /\ s_ref \in Seq(Vals) /\ Len(s_ref) \in Nat
  BY <1>1, <1>2, Known
<1>4. PICK n \in 0 .. Len(s_ref) - 1 :
        Asks(n + 1) /\ Answering(RemoveAt(s_ref, n + 1), RemoveAt(s_ref, n + 1), n, n, "step")
  BY <1>1, <1>3 DEF erase_one
<1>5. n + 1 \in 1 .. Len(s_ref) /\ n + 1 \in 0 .. Len(s_ref)
  BY <1>3
<1>6. RemoveAt(s_ref, n + 1) \in Seq(Vals)
  BY <1>3, <1>5, RemovedIs
<1>7. legal' = TRUE
  BY <1>1, <1>2, <1>4, <1>5, Asked
<1> QED BY <1>1, <1>2, <1>4, <1>6, <1>7, Alike

LEMMA eraseRangeHolds == LockInv /\ erase_range => LockInv'
<1>1. SUFFICES ASSUME LockInv, erase_range PROVE LockInv'
  OBVIOUS
<1>2. pc \in AfterCheck /\ "step" \in AfterCheck
  BY <1>1 DEF erase_range, Act, AfterCheck
<1>3. s.fwd = s_ref /\ s.size = Len(s_ref) /\ s_ref \in Seq(Vals) /\ Len(s_ref) \in Nat
  BY <1>1, <1>2, Known
<1>4. PICK n \in 0 .. Len(s_ref) : \E k \in 0 .. Len(s_ref) - n :
        Asks(n + k) /\ Answering(Cut(s_ref, n, n + k), Cut(s_ref, n, n + k), n, n, "step")
  BY <1>1, <1>3 DEF erase_range
<1>8. PICK k \in 0 .. Len(s_ref) - n :
        Asks(n + k) /\ Answering(Cut(s_ref, n, n + k), Cut(s_ref, n, n + k), n, n, "step")
  BY <1>4
<1>5. n + k \in 0 .. Len(s_ref)
  BY <1>3
<1>6. Cut(s_ref, n, n + k) \in Seq(Vals)
  BY <1>3, <1>5, CutIs
<1>7. legal' = TRUE
  BY <1>1, <1>2, <1>8, <1>5, Asked
<1> QED BY <1>1, <1>2, <1>8, <1>6, <1>7, Alike

LEMMA EndsHold ==
  LockInv /\ (emplace_back \/ pop_back \/ emplace_front \/ pop_front \/ clear \/ resize) => LockInv'
<1>1. SUFFICES ASSUME LockInv, pc = "step",
                      emplace_back \/ pop_back \/ emplace_front \/ pop_front \/ clear \/ resize
               PROVE  LockInv'
  BY DEF emplace_back, pop_back, emplace_front, pop_front, clear, resize, Act
<1>2. pc \in AfterCheck /\ "step" \in AfterCheck
  BY <1>1 DEF AfterCheck
<1>3. s.fwd = s_ref /\ s.size = Len(s_ref) /\ s_ref \in Seq(Vals) /\ Len(s_ref) \in Nat
  BY <1>1, <1>2, Known
<1>4. 0 \in 0 .. Len(s_ref) /\ (Len(s_ref) # 0 => 1 \in 0 .. Len(s_ref))
  BY <1>3
<1>5. Asks(0) => legal' = TRUE
  BY <1>1, <1>2, <1>4, Asked
<1>6. Len(s_ref) # 0 /\ Asks(1) => legal' = TRUE
  BY <1>1, <1>2, <1>4, Asked
<1>7. ASSUME NEW y \in Seq(Vals), Looks(y, y), legal' = TRUE PROVE LockInv'
  BY <1>1, <1>2, <1>7, Alike
<1>8. CASE emplace_back
  <2>1. PICK val \in Vals : Looks(Append(s_ref, val), Append(s_ref, val))
    BY <1>3, <1>8 DEF emplace_back
  <2>2. Append(s_ref, val) \in Seq(Vals) /\ legal' = TRUE
    BY <1>3, <1>5, <1>8 DEF emplace_back
  <2> QED BY <1>7, <2>1, <2>2
<1>9. CASE pop_back
  <2>1. Len(s_ref) # 0 /\ Looks(Front(s_ref), Front(s_ref)) /\ legal' = TRUE
    BY <1>3, <1>6, <1>9 DEF pop_back
  <2> QED BY <1>3, <1>7, <2>1, FrontIs
<1>10. CASE emplace_front
  <2>1. PICK val \in Vals : Looks(<<val>> \o s_ref, <<val>> \o s_ref)
    BY <1>3, <1>10 DEF emplace_front
  <2>2. <<val>> \in Seq(Vals)
    OBVIOUS
  <2>3. <<val>> \o s_ref \in Seq(Vals) /\ legal' = TRUE
    BY <1>3, <1>5, <1>10, <2>2, ConcatProperties DEF emplace_front
  <2> QED BY <1>7, <2>1, <2>3
<1>11. CASE pop_front
  <2>1. Len(s_ref) # 0 /\ Looks(Tail(s_ref), Tail(s_ref)) /\ legal' = TRUE
    BY <1>3, <1>6, <1>11 DEF pop_front
  <2> QED BY <1>3, <1>7, <2>1, FrontIs
<1>12. CASE clear
  <2>1. Looks(<< >>, << >>) /\ legal' = TRUE
    BY <1>5, <1>12 DEF clear
  <2> QED BY <1>7, <2>1, EmptySeq
<1>13. CASE resize
  <2> DEFINE Resized(sz, val) == [i \in 1..sz |-> IF i <= Len(s_ref) THEN s_ref[i] ELSE val]
  <2>1. PICK sz \in 0 .. MaxSize, val \in Vals : Looks(Resized(sz, val), Resized(sz, val))
    BY <1>3, <1>13 DEF resize
  <2>2. sz \in Nat
    BY SizesAre
  <2>3. \A i \in 1 .. sz : (IF i <= Len(s_ref) THEN s_ref[i] ELSE val) \in Vals
    BY <1>3, <2>2
  <2>4. Resized(sz, val) \in Seq(Vals)
    BY <2>2, <2>3
  <2>5. legal' = TRUE
    BY <1>5, <1>13 DEF resize
  <2> HIDE DEF Resized
  <2> QED BY <1>7, <2>1, <2>4, <2>5
<1> QED BY <1>1, <1>8, <1>9, <1>10, <1>11, <1>12, <1>13

LEMMA VectorsHold == LockInv /\ (shrink_to_fit \/ tidy) => LockInv'
<1>1. SUFFICES ASSUME LockInv, pc = "step", shrink_to_fit \/ tidy PROVE LockInv'
  BY DEF shrink_to_fit, tidy, Act
<1>2. pc \in AfterCheck /\ "step" \in AfterCheck
  BY <1>1 DEF AfterCheck
<1>3. s.fwd = s_ref /\ s.size = Len(s_ref) /\ s_ref \in Seq(Vals) /\ 0 \in 0 .. Len(s_ref)
  BY <1>1, <1>2, Known
<1>4. legal' = TRUE
  <2>1. Asks(0)
    BY <1>1 DEF shrink_to_fit, tidy
  <2> QED BY <1>1, <1>2, <1>3, <2>1, Asked
<1>5. CASE shrink_to_fit
  <2>1. Answering(s_ref, s_ref, Len(s_ref), Len(s_ref), "step")
    BY <1>3, <1>5 DEF shrink_to_fit
  <2> QED BY <1>1, <1>2, <1>3, <1>4, <2>1, Alike
<1>6. CASE tidy
  <2>1. Answering(<< >>, << >>, 0, 0, "step") /\ << >> \in Seq(Vals)
    BY <1>6, EmptySeq DEF tidy
  <2> QED BY <1>1, <1>2, <1>4, <2>1, Alike
<1> QED BY <1>1, <1>5, <1>6

LEMMA FillHolds == LockInv /\ Fill => LockInv'
<1>1. SUFFICES ASSUME LockInv, Fill PROVE LockInv'
  OBVIOUS
<1>2. pc \in AfterCheck /\ "fill" \in AfterCheck /\ Asks(0)
  BY <1>1 DEF Fill, AfterCheck
<1>3. s.fwd = s_ref /\ s_ref \in Seq(Vals) /\ 0 \in 0 .. Len(s_ref)
  BY <1>1, <1>2, Known
<1>4. PICK val \in Vals : Both(Inserted(s_ref, val), Inserted(s_ref, val), "fill")
  BY <1>1, <1>3 DEF Fill
<1>5. Inserted(s_ref, val) \in Seq(Vals)
  BY <1>3, InsertedIn
<1>6. legal' = TRUE
  BY <1>1, <1>2, <1>3, Asked
<1> QED BY <1>1, <1>2, <1>4, <1>5, <1>6, Alike

LEMMA EraseHolds == LockInv /\ Erase => LockInv'
<1>1. SUFFICES ASSUME LockInv, Erase PROVE LockInv'
  OBVIOUS
<1>2. pc \in AfterCheck /\ "erase" \in AfterCheck /\ Asks(0)
  BY <1>1 DEF Erase, AfterCheck
<1>3. s.fwd = s_ref /\ s_ref \in Seq(Vals) /\ 0 \in 0 .. Len(s_ref)
  BY <1>1, <1>2, Known
<1>4. PICK val \in Vals :
        Answering(Without(s_ref, val), Without(s_ref, val), count(s_ref, val), count(s_ref, val), "erase")
  BY <1>1, <1>3 DEF Erase
<1>5. Without(s_ref, val) \in Seq(Vals)
  BY <1>3, ErasedIs
<1>6. legal' = TRUE
  BY <1>1, <1>2, <1>3, Asked
<1> QED BY <1>1, <1>2, <1>4, <1>5, <1>6, Alike

LEMMA DrainHolds == ASSUME NEW val \in Vals, LockInv, Drain(val) PROVE LockInv'
<1>2. pc \in AfterCheck /\ "drain" \in AfterCheck /\ Asks(0)
  BY DEF Drain, AfterCheck
<1>3. s.fwd = s_ref /\ s_ref \in Seq(Vals) /\ 0 \in 0 .. Len(s_ref)
  BY <1>2, Known
<1> DEFINE at == lower_bound(s_ref, val)
           less == IF at < Len(s_ref) THEN RemoveAt(s_ref, at + 1) ELSE s_ref
<1>4. Answering(less, less, at, at, "drain")
  BY <1>3 DEF Drain
<1>5. less \in Seq(Vals)
  <2>1. at \in 0 .. Len(s_ref) /\ Len(s_ref) \in Nat
    BY <1>3, BoundsAre
  <2>2. at < Len(s_ref) => at + 1 \in 1 .. Len(s_ref)
    BY <2>1
  <2>3. at < Len(s_ref) => RemoveAt(s_ref, at + 1) \in Seq(Vals)
    BY <1>3, <2>2, RemovedIs
  <2> QED BY <1>3, <2>3
<1>6. legal' = TRUE
  BY <1>2, <1>3, Asked
<1> HIDE DEF less, at
<1> QED BY <1>2, <1>4, <1>5, <1>6, Alike

LEMMA FollowHolds ==
  ASSUME LockInv, NEW from \in AfterCheck, NEW next \in AfterCheck, Follow(from, next)
  PROVE  LockInv'
<1>1. pc = from /\ s.fwd = s_ref /\ s.size = Len(s_ref) /\ s_ref \in Seq(Vals) /\ Sound
  BY Known DEF Follow
<1>2. pc' = next /\ UNCHANGED <<kind, s, s_ref, wrong, legal>>
  BY <1>1, EmptySeq DEF Follow
<1>3. Sound' /\ Made(s)' /\ AfterCheck' = AfterCheck /\ next # "failed" /\ next # "assigned"
  BY <1>1, <1>2, SoundNext DEF Sound, LockInv, AfterCheck
<1> QED BY <1>2, <1>3 DEF LockInv

LEMMA DrainedHolds == LockInv /\ Drained => LockInv'
<1>1. SUFFICES ASSUME LockInv, Drained PROVE LockInv'
  OBVIOUS
<1>2. /\ pc \in AfterCheck /\ AfterCheck' = AfterCheck
      /\ pc' \in AfterCheck /\ pc' # "failed" /\ pc' # "assigned"
      /\ s' \in Right(<< >>) /\ s_ref' = << >> /\ s_ref = << >> /\ UNCHANGED <<kind, wrong, legal>>
  BY <1>1 DEF Drained, AfterCheck
<1>3. << >> \in Seq(Nat) /\ << >> \in Seq(Vals) /\ Len(<< >>) <= MaxSize /\ ~ wrong
  BY <1>1, <1>2, SizesAre, Known DEF LockInv
<1>4. Agrees(s', << >>) /\ Made(s')
  BY <1>2, <1>3, RightMade
<1>5. Sound' /\ Made(s)'
  BY <1>2, <1>3, <1>4, SoundNext
<1> QED BY <1>1, <1>2, <1>3, <1>5 DEF LockInv

\* The copies: a right one passes its check, and so does a new container; one
\* that is wrong where it is looked at does not.
LEMMA CopiesChecked ==
  ASSUME LockInv, pc \in AfterCheck, NEW right \in Right(s.fwd), NEW new \in Right(<< >>)
  PROVE  /\ Check(right, s_ref) /\ Agrees(right, s_ref) /\ Agrees(new, << >>) /\ CheckEmpty(new)
         /\ \A d \in Wrong(s.fwd) : ~ Agrees(d, s_ref) => ~ Check(d, s_ref)
         /\ \A e \in Wrong(<< >>) : ~ Agrees(e, << >>) => ~ CheckEmpty(e)
<1>1. s.fwd = s_ref /\ s_ref \in Seq(Vals) /\ s_ref \in Seq(Nat) /\ Len(s_ref) <= MaxSize
  BY Known DEF LockInv
<1>2. << >> \in Seq(Vals) /\ << >> \in Seq(Nat) /\ Len(<< >>) = 0 /\ 0 <= MaxSize
  BY EmptySeq, SizesAre
<1>3. Agrees(right, s_ref) /\ Made(right)
  <2>1. right \in Right(s_ref)
    BY <1>1
  <2> QED BY <1>1, <2>1, RightMade
<1>4. Check(right, s_ref)
  BY <1>1, <1>3, CheckAgrees
<1>5. Agrees(new, << >>) /\ CheckEmpty(new)
  <2>1. new.fwd = << >> /\ new.size = Len(<< >>) /\ Agrees(new, << >>)
    BY <1>2, RightMade
  <2> QED BY <1>2, <2>1 DEF CheckEmpty
<1>6. ASSUME NEW d \in Wrong(s.fwd), Check(d, s_ref)
      PROVE  Agrees(d, s_ref)
  <2>1. Made(d)
    BY <1>1, WrongMade
  <2> QED BY <1>1, <1>6, <2>1, CheckAgrees
<1>7. ASSUME NEW e \in Wrong(<< >>), CheckEmpty(e)
      PROVE  Agrees(e, << >>)
  BY <1>2, <1>7, EmptyNoticed
<1> QED BY <1>3, <1>4, <1>5, <1>6, <1>7

LEMMA AssignHolds == LockInv /\ Assign => LockInv'
<1>1. SUFFICES ASSUME LockInv, Assign PROVE LockInv'
  OBVIOUS
<1>2. /\ pc \in AfterCheck /\ AfterCheck' = AfterCheck
      /\ "failed" \notin AfterCheck /\ "assigned" \notin AfterCheck
      /\ UNCHANGED <<kind, s_ref, legal>>
  BY <1>1 DEF Assign, AfterCheck
<1>3. s.fwd = s_ref /\ s_ref \in Seq(Nat) /\ ~ wrong /\ Made(s)
  BY <1>1, <1>2, Known DEF LockInv
<1>4. PICK right \in Right(s.fwd), new \in Right(<< >>) :
       \/ s' \in Gives(s.fwd) /\ wrong' = wrong /\ pc' = CheckedCopies(right, new)
       \/ /\ Sound /\ s' = right /\ wrong' = TRUE
          /\ \/ \E d \in Wrong(s.fwd) : ~ Agrees(d, s_ref) /\ pc' = CheckedCopies(d, new)
             \/ \E e \in Wrong(<< >>) : ~ Agrees(e, << >>) /\ pc' = CheckedCopies(right, e)
  BY <1>1 DEF Assign
<1>5. CASE s' \in Gives(s.fwd) /\ wrong' = wrong /\ pc' = CheckedCopies(right, new)
  <2>1. pc' = "assigned"
    BY <1>1, <1>2, <1>5, CopiesChecked DEF CheckedCopies
  <2>2. Made(s')
    BY <1>3, <1>5, GivesMade
  <2>3. Made(s)'
    BY <1>2, <2>2, SoundNext
  <2> QED BY <1>1, <1>2, <1>3, <1>5, <2>1, <2>3 DEF LockInv
<1>6. CASE /\ s' = right /\ wrong' = TRUE
           /\ \/ \E d \in Wrong(s.fwd) : ~ Agrees(d, s_ref) /\ pc' = CheckedCopies(d, new)
              \/ \E e \in Wrong(<< >>) : ~ Agrees(e, << >>) /\ pc' = CheckedCopies(right, e)
  <2>1. pc' = "failed"
    BY <1>1, <1>2, <1>6, CopiesChecked DEF CheckedCopies
  <2>2. ~ Sound'
    BY <1>6 DEF Sound
  <2>3. Made(s')
    BY <1>3, <1>6, RightMade
  <2>4. Made(s)'
    BY <1>2, <2>3, SoundNext
  <2> QED BY <1>1, <1>2, <1>6, <2>1, <2>2, <2>4 DEF LockInv
<1> QED BY <1>4, <1>5, <1>6

-----------------------------------------------------------------------------
LEMMA AnswersAre ==
  ASSUME NEW x, NEW val
  PROVE  /\ Answers(x, val)[1] = find(x, val) /\ Answers(x, val)[2] = lower_bound(x, val)
         /\ Answers(x, val)[3] = upper_bound(x, val) /\ Answers(x, val)[4] = lower_bound(x, val)
         /\ Answers(x, val)[5] = upper_bound(x, val) /\ Answers(x, val)[6] = count(x, val)
         /\ DOMAIN Answers(x, val) = 1 .. 6
BY DEF Answers

\* An answer that is one too great disagrees with another, or with the
\* reference.
LEMMA OneTooGreat ==
  ASSUME NEW E, NEW x \in Seq(E), NEW val, NEW k \in 1 .. 6
  PROVE  ~ Agree([Answers(x, val) EXCEPT ![k] = @ + 1], Answers(x, val))
<1> DEFINE a == Answers(x, val)
           b == [a EXCEPT ![k] = @ + 1]
<1>1. /\ lower_bound(x, val) \in Int /\ upper_bound(x, val) \in Int /\ Len(x) \in Int
  BY BoundsAre
<1>2. count(x, val) \in Int
  BY <1>1 DEF count
<1>3. find(x, val) \in Int
  BY <1>1 DEF find
<1>4. /\ DOMAIN a = 1 .. 6 /\ a[1] \in Int /\ a[2] \in Int /\ a[3] \in Int /\ a[6] \in Int
      /\ a[2] = a[4] /\ a[3] = a[5]
  BY <1>1, <1>2, <1>3, AnswersAre
<1> HIDE DEF a
<1>5. b[k] = a[k] + 1 /\ \A j \in 1 .. 6 : j # k => b[j] = a[j]
  BY <1>4
<1> HIDE DEF b
<1>6. ASSUME Agree(b, a) PROVE FALSE
  <2>1. b[2] = b[4] /\ b[3] = b[5] /\ b[6] = a[6] /\ b[1] = a[1] /\ b[2] = a[2] /\ b[3] = a[3]
    BY <1>6 DEF Agree
  <2>2. k \notin {1, 2, 3, 6}
    <3>1. b[1] = a[1] /\ b[2] = a[2] /\ b[3] = a[3] /\ b[6] = a[6]
      BY <2>1
    <3>2. a[k] # a[k] + 1
      BY <1>4
    <3> QED BY <1>5, <3>1, <3>2
  <2>3. k # 4
    <3>1. a[2] # a[2] + 1
      BY <1>4
    <3>2. k = 4 => b[4] = a[2] + 1 /\ b[2] = a[2]
      BY <1>4, <1>5, <2>1
    <3> QED BY <2>1, <3>1, <3>2
  <2>4. k # 5
    <3>1. a[3] # a[3] + 1
      BY <1>4
    <3>2. k = 5 => b[5] = a[3] + 1 /\ b[3] = a[3]
      BY <1>4, <1>5, <2>1
    <3> QED BY <2>1, <3>1, <3>2
  <2> QED BY <2>2, <2>3, <2>4
<1> QED BY <1>6 DEF a, b

LEMMA RangeHolds == LockInv /\ RangeStep => LockInv'
<1>1. SUFFICES ASSUME LockInv, RangeStep PROVE LockInv'
  OBVIOUS
<1>2. /\ AfterCheck' = AfterCheck /\ "range" \in AfterCheck
      /\ "failed" \notin AfterCheck /\ "assigned" \notin AfterCheck
      /\ pc \in {"assigned", "range"} /\ Asks(0)
  BY <1>1 DEF RangeStep, AfterCheck
<1>3. /\ s.fwd \in Seq(Nat) /\ s_ref \in Seq(Vals) /\ ~ wrong /\ Len(s_ref) \in Nat
      /\ Sound => s.fwd = s_ref
  <2>1. CASE pc = "assigned"
    BY <1>1, <2>1 DEF LockInv, Made, Sound, Agrees
  <2>2. CASE pc = "range"
    BY <1>1, <1>2, <2>2, Known
  <2> QED BY <1>2, <2>1, <2>2
<1>4. legal' = TRUE
  <2>1. Len(s.fwd) \in Nat /\ 0 <= Len(s.fwd) /\ 0 <= Len(s_ref)
    BY <1>3
  <2>2. legal' = (legal /\ 0 <= Len(s.fwd) /\ 0 <= Len(s_ref)) /\ legal = TRUE
    BY <1>1, <1>2 DEF Asks, LockInv
  <2> QED BY <2>1, <2>2
<1>5. PICK val \in Vals :
       LET right == Answers(s.fwd, val)  ref == Answers(s_ref, val)  at == lower_bound(s.fwd, val)
       IN  \/ /\ Agree(right, ref)
              /\ Answering(Erased(s.fwd, val), Erased(s_ref, val), at, lower_bound(s_ref, val), "range")
           \/ /\ Sound
              /\ \E k \in DOMAIN right :
                   LET a == [right EXCEPT ![k] = @ + 1]
                   IN  pc' = IF Agree(a, ref) THEN "range" ELSE "failed"
              /\ wrong' = TRUE /\ UNCHANGED <<kind, s, s_ref>>
           \/ ~ Agree(right, ref) /\ pc' = "failed" /\ UNCHANGED <<kind, s, s_ref, wrong>>
  BY <1>1 DEF RangeStep
<1> DEFINE right == Answers(s.fwd, val)
           ref == Answers(s_ref, val)
<1>6. CASE /\ Agree(right, ref)
           /\ Answering(Erased(s.fwd, val), Erased(s_ref, val), lower_bound(s.fwd, val),
                        lower_bound(s_ref, val), "range")
  <2>1. lower_bound(s.fwd, val) = lower_bound(s_ref, val)
    BY <1>6, AnswersAre DEF Agree
  <2>2. Erased(s.fwd, val) \in Seq(Nat) /\ Erased(s_ref, val) \in Seq(Vals)
    BY <1>3, ErasedIs
  <2> QED BY <1>1, <1>2, <1>3, <1>4, <1>6, <2>1, <2>2, AnsweringHolds
<1>7. CASE /\ Sound
           /\ \E k \in DOMAIN right :
                pc' = IF Agree([right EXCEPT ![k] = @ + 1], ref) THEN "range" ELSE "failed"
           /\ wrong' = TRUE /\ UNCHANGED <<kind, s, s_ref>>
  <2>1. PICK k \in 1 .. 6 :
          pc' = IF Agree([ref EXCEPT ![k] = @ + 1], ref) THEN "range" ELSE "failed"
    BY <1>3, <1>7, AnswersAre
  <2>2. ~ Agree([ref EXCEPT ![k] = @ + 1], ref)
    BY <1>3, OneTooGreat
  <2>3. pc' = "failed" /\ ~ Sound' /\ Made(s)'
    BY <1>1, <1>7, <2>1, <2>2, SoundNext DEF Sound, LockInv
  <2> QED BY <1>1, <1>2, <1>4, <1>7, <2>3 DEF LockInv
<1>8. CASE ~ Agree(right, ref) /\ pc' = "failed" /\ UNCHANGED <<kind, s, s_ref, wrong>>
  <2>1. right = ref => Agree(right, ref)
    <3>1. Agree(ref, ref)
      BY AnswersAre DEF Agree
    <3> QED BY <3>1
  <2>2. ~ Sound
    BY <1>3, <1>8, <2>1
  <2>3. ~ Sound' /\ Made(s)'
    BY <1>1, <1>8, <2>2, SoundNext DEF Sound, LockInv
  <2> QED BY <1>1, <1>2, <1>4, <1>8, <2>3 DEF LockInv
<1> QED BY <1>5, <1>6, <1>7, <1>8

-----------------------------------------------------------------------------
LEMMA InitHolds == Init => LockInv
<1>1. SUFFICES ASSUME Init PROVE LockInv
  OBVIOUS
<1>2. /\ s.fwd = << >> /\ s.bwd = << >> /\ s.size = 0 /\ s.root = Null /\ s_ref = << >>
      /\ wrong = FALSE /\ legal = TRUE /\ pc \in {"fill", "step"} /\ kind \in Kinds
  BY <1>1 DEF Init
<1>3. 0 <= MaxSize /\ 0 \in 0 .. MaxNodes /\ << >> \in Seq(Vals) /\ Len(<< >>) = 0
  BY SizesAre, EmptySeq
<1>4. IsPrefix(<< >>, Reverse(<< >>))
  <2>1. << >> \in Seq({}) /\ \A i : i \notin DOMAIN << >>
    BY EmptySeq
  <2> QED BY <2>1, PrefixIs
<1>5. Null \in RedBlack[0]
  BY <1>3, NullIs, NullRedBlack DEF RedBlack
<1>6. Sound
  BY <1>2, <1>3, <1>4, <1>5 DEF Sound, Agrees
<1>7. Made(s)
  BY <1>2, <1>3, NullIs, EmptySeq DEF Made
<1> QED BY <1>2, <1>3, <1>6, <1>7 DEF LockInv, AfterCheck

LEMMA StepHolds == LockInv /\ [Next]_vars => LockInv'
<1>1. SUFFICES ASSUME LockInv, [Next]_vars PROVE LockInv'
  OBVIOUS
<1>2. CASE emplace \/ insert \/ erase_one \/ erase_range
  BY <1>1, <1>2, emplaceHolds, insertHolds, eraseOneHolds, eraseRangeHolds
<1>3. CASE emplace_back \/ pop_back \/ emplace_front \/ pop_front \/ clear \/ resize
  BY <1>1, <1>3, EndsHold
<1>4. CASE shrink_to_fit \/ tidy
  BY <1>1, <1>4, VectorsHold
<1>5. CASE Fill \/ Assign \/ RangeStep
  BY <1>1, <1>5, FillHolds, AssignHolds, RangeHolds
<1>6. CASE Follow("range", "erase") \/ Follow("erase", "drain")
  <2>1. "range" \in AfterCheck /\ "erase" \in AfterCheck /\ "drain" \in AfterCheck
    BY DEF AfterCheck
  <2> QED BY <1>1, <1>6, <2>1, FollowHolds
<1>7. CASE Erase \/ (\E val \in Vals : Drain(val)) \/ Drained
  BY <1>1, <1>7, EraseHolds, DrainHolds, DrainedHolds
<1>8. CASE UNCHANGED vars
  BY <1>1, <1>8 DEF vars, LockInv, AfterCheck, Sound, Agrees, Made, IsTree
<1> QED BY <1>1, <1>2, <1>3, <1>4, <1>5, <1>6, <1>7, <1>8 DEF Next

LEMMA Inductive == Spec => []LockInv
BY InitHolds, StepHolds, PTL DEF Spec

\* After every check the container is what the reference is and every answer has
\* been right, whatever went wrong before: a step that goes wrong fails its check.
\* What is wrong with s = s3, which no check follows, has failed the range loop's
\* first step or has been mended by it: how far the latter goes says CopyNoticing.
THEOREM Noticing == Spec => []FaultsNoticed
<1>1. LockInv => FaultsNoticed
  BY DEF LockInv, FaultsNoticed
<1> QED BY <1>1, Inductive, PTL

-----------------------------------------------------------------------------
(* The copy that no check follows.                                           *)

LEMMA CutLen ==
  ASSUME NEW E, NEW x \in Seq(E), NEW m \in 0 .. Len(x), NEW n \in m .. Len(x)
  PROVE  Len(Cut(x, m, n)) = Len(x) - (n - m) /\ (m = n => Cut(x, m, n) = x)
<1>1. Len(x) \in Nat /\ n \in 0 .. Len(x)
  OBVIOUS
<1> DEFINE a == SubSeq(x, 1, m)
           b == SubSeq(x, n + 1, Len(x))
<1>2. a \in Seq(E) /\ Len(a) = m /\ \A i \in 1 .. m : a[i] = x[i]
  BY <1>1, SubSeqProperties
<1>3. b \in Seq(E) /\ Len(b) = Len(x) - n /\ \A i \in 1 .. Len(x) - n : b[i] = x[n + i]
  BY <1>1, SubSeqProperties
<1>4. Cut(x, m, n) = a \o b
  BY DEF Cut
<1> HIDE DEF a, b
<1>5. /\ a \o b \in Seq(E) /\ Len(a \o b) = m + (Len(x) - n)
      /\ \A i \in 1 .. m + (Len(x) - n) : (a \o b)[i] = IF i <= m THEN a[i] ELSE b[i - m]
  <2>1. a \o b \in Seq(E) /\ Len(a \o b) = Len(a) + Len(b)
    BY <1>2, <1>3, ConcatProperties
  <2>2. \A i \in 1 .. Len(a) + Len(b) : (a \o b)[i] = IF i <= Len(a) THEN a[i] ELSE b[i - Len(a)]
    BY <1>2, <1>3, ConcatProperties
  <2> QED BY <1>2, <1>3, <2>1, <2>2
<1>6. ASSUME m = n PROVE a \o b = x
  <2>1. Len(a \o b) = Len(x)
    BY <1>1, <1>5, <1>6
  <2>2. ASSUME NEW i \in 1 .. Len(x) PROVE (a \o b)[i] = x[i]
    <3>1. CASE i <= m
      BY <1>1, <1>2, <1>5, <1>6, <3>1
    <3>2. CASE ~ (i <= m)
      <4>1. i - m \in 1 .. Len(x) - n /\ n + (i - m) = i
        BY <1>1, <1>6, <3>2
      <4> QED BY <1>1, <1>3, <1>5, <1>6, <3>2, <4>1
    <3> QED BY <3>1, <3>2
  <2> QED BY <1>5, <2>1, <2>2, SeqEqual
<1> QED BY <1>1, <1>4, <1>5, <1>6

LEMMA Between ==
  ASSUME NEW x \in Seq(Nat), NEW val \in Nat
  PROVE  /\ lower_bound(x, val) <= upper_bound(x, val)
         /\ lower_bound(x, val) \in 0 .. Len(x) /\ upper_bound(x, val) \in 0 .. Len(x)
<1> DEFINE lower == {i \in DOMAIN x : x[i] < val}
           upper == {i \in DOMAIN x : x[i] <= val}
<1>1. DOMAIN x = 1 .. Len(x) /\ Len(x) \in Nat /\ \A i \in DOMAIN x : x[i] \in Nat
  OBVIOUS
<1>2. lower \subseteq upper /\ upper \subseteq 1 .. Len(x)
  BY <1>1
<1>3. IsFiniteSet(upper)
  <2>1. IsFiniteSet(1 .. Len(x))
    BY <1>1, FS_Interval
  <2> QED BY <1>2, <2>1, FS_Subset
<1>4. Cardinality(lower) <= Cardinality(upper)
  BY <1>2, <1>3, FS_Subset
<1> QED BY <1>4, BoundsAre DEF lower_bound, upper_bound

\* What a step of the range loop erases: the elements found; else the one after;
\* else nothing.
LEMMA ErasedCut ==
  ASSUME NEW x \in Seq(Nat), NEW val \in Nat,
         NEW lower, NEW upper, lower = lower_bound(x, val), upper = upper_bound(x, val)
  PROVE  /\ lower < upper => Erased(x, val) = Cut(x, lower, upper)
         /\ lower = upper /\ lower < Len(x) => Erased(x, val) = Cut(x, lower, lower + 1)
         /\ lower = upper /\ lower = Len(x) => Erased(x, val) = x
<1>1. lower \in 0 .. Len(x) /\ upper \in 0 .. Len(x) /\ Len(x) \in Nat /\ count(x, val) = upper - lower
  BY Between DEF count
<1>2. RemoveAt(x, lower + 1) = Cut(x, lower, lower + 1)
  <2>1. (lower + 1) - 1 = lower
    BY <1>1
  <2> QED BY <2>1 DEF RemoveAt, Cut
<1>3. Without(x, val) = Cut(x, lower, upper)
  BY DEF Without
<1>4. lower = upper => Cut(x, lower, upper) = x
  BY <1>1, CutLen
<1>5. Erased(x, val) = IF lower # Len(x) /\ count(x, val) = 0 THEN RemoveAt(x, lower + 1) ELSE Without(x, val)
  BY DEF Erased
<1> QED BY <1>1, <1>2, <1>3, <1>4, <1>5

\* Where the answers agree, the same stretch is erased of both, or nothing.
LEMMA ErasedAlike ==
  ASSUME NEW x \in Seq(Nat), NEW y \in Seq(Nat), NEW val \in Nat,
         Agree(Answers(x, val), Answers(y, val))
  PROVE  \/ Erased(x, val) = x /\ Erased(y, val) = y
         \/ \E m, n \in 0 .. Len(y) :
              /\ m < n /\ n <= Len(x)
              /\ Erased(x, val) = Cut(x, m, n) /\ Erased(y, val) = Cut(y, m, n)
<1> DEFINE m == lower_bound(y, val)
           n == upper_bound(y, val)
<1>1. lower_bound(x, val) = m /\ upper_bound(x, val) = n /\ find(x, val) = find(y, val)
  BY AnswersAre DEF Agree
<1>2. /\ m <= n /\ m \in 0 .. Len(x) /\ n \in 0 .. Len(x) /\ m \in 0 .. Len(y) /\ n \in 0 .. Len(y)
      /\ Len(x) \in Nat /\ Len(y) \in Nat
  <2>1. m <= n /\ m \in 0 .. Len(y) /\ n \in 0 .. Len(y)
    BY Between
  <2>2. lower_bound(x, val) \in 0 .. Len(x) /\ upper_bound(x, val) \in 0 .. Len(x)
    BY Between
  <2> QED BY <1>1, <2>1, <2>2
<1>3. m = n => Len(x) = Len(y)
  <2>1. count(x, val) = n - m /\ count(y, val) = n - m
    BY <1>1 DEF count
  <2>2. m = n => ~ (count(x, val) > 0) /\ ~ (count(y, val) > 0)
    BY <1>2, <2>1
  <2>3. m = n => find(x, val) = Len(x) /\ find(y, val) = Len(y)
    BY <2>2 DEF find
  <2> QED BY <1>1, <2>3
<1> HIDE DEF m, n
<1>4. /\ m < n => Erased(x, val) = Cut(x, m, n) /\ Erased(y, val) = Cut(y, m, n)
      /\ (m = n /\ m < Len(x)) => Erased(x, val) = Cut(x, m, m + 1)
      /\ (m = n /\ m < Len(y)) => Erased(y, val) = Cut(y, m, m + 1)
      /\ (m = n /\ m = Len(x)) => Erased(x, val) = x
      /\ (m = n /\ m = Len(y)) => Erased(y, val) = y
  BY <1>1, ErasedCut DEF m, n
<1>5. CASE m < n
  BY <1>2, <1>4, <1>5
<1>6. CASE m = n /\ m < Len(y)
  <2>1. m + 1 \in 0 .. Len(y) /\ m < m + 1 /\ m + 1 <= Len(x) /\ m < Len(x)
    BY <1>2, <1>3, <1>6
  <2> QED BY <1>2, <1>4, <1>6, <2>1
<1>7. CASE m = n /\ m = Len(y)
  BY <1>3, <1>4, <1>7
<1> QED BY <1>2, <1>5, <1>6, <1>7

\* The step keeps a wrong count: one that passes the check was right before.
LEMMA CountKept ==
  ASSUME NEW x \in Seq(Nat), x # s.fwd, NEW c \in Keeps(x)
  PROVE  c.fwd = x /\ c.size = Len(x) + s.size - Len(s.fwd)
BY DEF Keeps

LEMMA CopyStep ==
  ASSUME LockInv, RangeStep, pc = "assigned", pc' = "range", ~ Sound
  PROVE  /\ s.size = Len(s_ref)
         /\ \E m, n \in 0 .. Len(s_ref) :
              m < n /\ Cut(s.fwd, m, n) = s_ref' /\ Cut(s_ref, m, n) = s_ref'
<1>1. /\ s.fwd \in Seq(Nat) /\ s_ref \in Seq(Vals) /\ s_ref \in Seq(Nat) /\ Len(s_ref) <= MaxSize
      /\ Len(s.fwd) \in Nat /\ Len(s_ref) \in Nat /\ s.size \in Int /\ Made(s) /\ ~ wrong
  BY SizesAre DEF LockInv, Made
<1>2. PICK val \in Vals :
        /\ Agree(Answers(s.fwd, val), Answers(s_ref, val))
        /\ Answering(Erased(s.fwd, val), Erased(s_ref, val), lower_bound(s.fwd, val),
                     lower_bound(s_ref, val), "range")
  BY DEF RangeStep
<1> DEFINE x == Erased(s.fwd, val)
           y == Erased(s_ref, val)
<1>3. /\ s_ref' = y /\ Len(y) <= MaxSize /\ s' \in Gives(x) /\ Check(s', y)
  BY <1>2 DEF Answering, Steps
<1>4. val \in Nat /\ x \in Seq(Nat) /\ y \in Seq(Vals)
  BY <1>1, SizesAre, ErasedIs
<1>5. Made(s') /\ s' \in Keeps(x)
  BY <1>1, <1>3, <1>4, GivesMade DEF Gives
<1>6. Agrees(s', y)
  BY <1>3, <1>4, <1>5, CheckAgrees
<1>7. CASE x = s.fwd /\ y = s_ref
  <2>1. s' = s
    BY <1>5, <1>7 DEF Keeps
  <2> QED BY <1>1, <1>6, <1>7, <2>1 DEF Sound
<1>8. ASSUME NEW m \in 0 .. Len(s_ref), NEW n \in 0 .. Len(s_ref), m < n, n <= Len(s.fwd),
             x = Cut(s.fwd, m, n), y = Cut(s_ref, m, n)
      PROVE  s.size = Len(s_ref) /\ Cut(s.fwd, m, n) = s_ref' /\ Cut(s_ref, m, n) = s_ref'
  <2>1. Len(x) = Len(s.fwd) - (n - m) /\ Len(y) = Len(s_ref) - (n - m)
    <3>1. m \in 0 .. Len(s.fwd) /\ n \in m .. Len(s.fwd) /\ n \in m .. Len(s_ref)
      BY <1>1, <1>8
    <3> QED BY <1>1, <1>8, <3>1, CutLen
  <2>2. x # s.fwd
    BY <1>1, <1>8, <2>1
  <2>3. s'.fwd = x /\ s'.size = Len(x) + s.size - Len(s.fwd)
    BY <1>4, <1>5, <2>2, CountKept
  <2>4. s'.fwd = y /\ s'.size = Len(y)
    BY <1>6 DEF Agrees
  <2> QED BY <1>1, <1>3, <1>8, <2>1, <2>3, <2>4
<1>9. \/ x = s.fwd /\ y = s_ref
      \/ \E m, n \in 0 .. Len(s_ref) :
           m < n /\ n <= Len(s.fwd) /\ x = Cut(s.fwd, m, n) /\ y = Cut(s_ref, m, n)
  BY <1>1, <1>2, <1>4, ErasedAlike
<1> QED BY <1>7, <1>8, <1>9

\* A wrong s = s3 passes the first step of the range loop only if its count is
\* right and that step erases all that is wrong about its elements.
THEOREM CopyNoticing == Spec => CopyNoticed
<1>1. LockInv /\ [Next]_vars =>
        [pc = "assigned" /\ pc' = "range" /\ ~ Sound =>
           /\ s.size = Len(s_ref)
           /\ \E m, n \in 0 .. Len(s_ref) :
                m < n /\ Cut(s.fwd, m, n) = s_ref' /\ Cut(s_ref, m, n) = s_ref']_vars
  <2> SUFFICES ASSUME LockInv, Next, pc = "assigned", pc' = "range", ~ Sound
               PROVE  RangeStep
    BY CopyStep
  <2> QED BY DEF Next, emplace, insert, erase_one, erase_range, emplace_back, pop_back,
             emplace_front, pop_front, shrink_to_fit, clear, tidy, resize, Act, Fill, Assign,
             Follow, Erase, Drain, Drained
<1> QED BY <1>1, Inductive, PTL DEF Spec, CopyNoticed

\* A container that keeps its promises passes every check of its test.
THEOREM NoAlarm == Spec => []NoFalseAlarm
<1>1. LockInv => NoFalseAlarm
  BY DEF LockInv, NoFalseAlarm
<1> QED BY <1>1, Inductive, PTL

\* Every call is one that the container allows, whatever it tells of its size.
THEOREM Legal == Spec => []CallsAreLegal
<1>1. LockInv => CallsAreLegal
  BY DEF LockInv, CallsAreLegal
<1> QED BY <1>1, Inductive, PTL
=============================================================================
