--------------------------- MODULE ThrowAllocator ---------------------------
(***************************************************************************)
(* The instruments of exception/throw_allocator.h: limit_condition, which   *)
(* forces an error at a chosen condition and is set by nested adjustor      *)
(* objects, and throw_allocator_base over annotate_base, which notes every  *)
(* block and every object with the label in force.  Their users, container  *)
(* tests, make any sequence of calls, wrong deallocations included.         *)
(***************************************************************************)
EXTENDS Integers, Sequences, FiniteSets

CONSTANTS
  Nodes,       \* addresses std::allocator may give
  Sizes,       \* sizes asked for
  Labels,      \* labels a test gives to its steps
  Never,       \* std::numeric_limits<size_t>::max()
  MaxCount,    \* bound: conditions passed since the limit was last set
  MaxScopes    \* bound: adjustor objects alive at once

ASSUME ThrowAssumption ==
  /\ Sizes \subseteq Nat /\ Labels \subseteq Nat
  /\ Never \in Nat /\ MaxCount \in Nat /\ MaxScopes \in Nat
  /\ MaxCount < Never

VARIABLES
  limit,          \* limit_condition::limit()
  count,          \* limit_condition::count()
  adjustors,      \* adjustor objects alive, the innermost last
  label,          \* annotate_base::label()
  map_alloc,      \* annotate_base::map_alloc(): block -> label and size
  map_construct,  \* annotate_base::map_construct(): object -> label
  heap,           \* blocks std::allocator has given and not got back, sizes
  outcome         \* how the last call ended

condition == <<limit, count, adjustors>>
annotations == <<label, map_alloc, map_construct>>
vars == <<condition, annotations, heap, outcome>>

\* Of a block whose annotation failed: its address is gone with the exception.
Unowned == -1
Held == {p \in DOMAIN heap : heap[p] # Unowned}

NoEntries == [x \in {} |-> x]
Without(f, S) == [x \in DOMAIN f \ S |-> f[x]]
With(f, x, v) == [y \in DOMAIN f \cup {x} |-> IF y = x THEN v ELSE f[y]]

-----------------------------------------------------------------------------
(* limit_condition.                                                         *)

set_limit(l) == limit' = l /\ count' = 0

\* What the constructor of each kind of adjustor sets the limit to.
Sets(kind, l) == CASE kind = "never" -> Never
                   [] kind = "always" -> count
                   [] kind = "limit" -> l

Adjust(kind, l) ==
  /\ adjustors' = Append(adjustors, [kind |-> kind, orig |-> limit])
  /\ set_limit(Sets(kind, l))

\* A mutant for RestoredOutside: the destructor does not restore the limit.
RestoreForgets ==
  /\ adjustors # <<>>
  /\ set_limit(limit)
  /\ adjustors' = SubSeq(adjustors, 1, Len(adjustors) - 1)

Restore ==
  /\ adjustors # <<>>
  /\ set_limit(adjustors[Len(adjustors)].orig)
  /\ adjustors' = SubSeq(adjustors, 1, Len(adjustors) - 1)

Throws == count = limit

throw_conditionally ==
  /\ count < MaxCount
  /\ count' = IF Throws THEN count ELSE count + 1
  /\ UNCHANGED <<limit, adjustors>>

-----------------------------------------------------------------------------
(* annotate_base.                                                           *)

check_allocated(p, n) == p \in DOMAIN map_alloc /\ map_alloc[p][2] = n
check_constructed(p) == p \in DOMAIN map_construct

insert(p, n) == map_alloc' = With(map_alloc, p, <<label, n>>)

\* What check(label) and check() find.
Labelled(l) == {p \in DOMAIN map_alloc : map_alloc[p][1] = l}
                 \cup {p \in DOMAIN map_construct : map_construct[p] = l}
Left == DOMAIN map_alloc \cup DOMAIN map_construct

-----------------------------------------------------------------------------
(* The calls.                                                               *)

Init ==
  /\ limit = Never /\ count = 0 /\ adjustors = <<>>
  /\ label = Never
  /\ map_alloc = NoEntries /\ map_construct = NoEntries /\ heap = NoEntries
  /\ outcome = "none"

Enter ==
  /\ Len(adjustors) < MaxScopes
  /\ \E kind \in {"never", "always", "limit"}, l \in 0..MaxCount : Adjust(kind, l)
  /\ outcome' = "ok"
  /\ UNCHANGED <<annotations, heap>>

Exit == Restore /\ outcome' = "ok" /\ UNCHANGED <<annotations, heap>>

\* An operation of throw_value_base: its only effect is the condition.
Value ==
  /\ throw_conditionally
  /\ outcome' = IF Throws THEN "forced_error" ELSE "ok"
  /\ UNCHANGED <<annotations, heap>>

SetLabel(l) ==
  /\ label' = l /\ outcome' = "ok"
  /\ UNCHANGED <<condition, map_alloc, map_construct, heap>>

\* cleanup(): tests call it first, where no container is alive.
cleanup ==
  /\ Held = {}
  /\ label' = Never /\ map_alloc' = NoEntries /\ map_construct' = NoEntries
  /\ outcome' = "ok"
  /\ UNCHANGED <<condition, heap>>

allocate(p, n) ==
  /\ throw_conditionally
  /\ p \notin DOMAIN heap
  /\ IF Throws
       THEN outcome' = "forced_error" /\ UNCHANGED <<map_alloc, heap>>
       ELSE /\ heap' = With(heap, p, n)
            /\ IF p \in DOMAIN map_alloc
                 THEN outcome' = "logic_error" /\ UNCHANGED map_alloc
                 ELSE insert(p, n) /\ outcome' = "ok"
  /\ UNCHANGED <<label, map_construct>>

\* There is no memory: for so many elements, of std::allocator, or of the map that
\* insert, or insert_construct, adds an entry to.
bad_alloc(p) ==
  /\ \/ UNCHANGED <<condition, heap>>
     \/ /\ throw_conditionally /\ ~ Throws
        /\ \/ UNCHANGED heap
           \/ p \notin DOMAIN heap /\ heap' = With(heap, p, Unowned)
  /\ outcome' = "bad_alloc"
  /\ UNCHANGED annotations

\* A mutant for HeapAnnotated: a block of any size is accepted and its
\* annotation kept.
deallocateKeeps(p, n) ==
  /\ IF p \in DOMAIN map_alloc
       THEN heap' = Without(heap, {p}) /\ outcome' = "ok" /\ UNCHANGED map_alloc
       ELSE outcome' = "logic_error" /\ UNCHANGED <<map_alloc, heap>>
  /\ UNCHANGED <<condition, label, map_construct>>

deallocate(p, n) ==
  /\ IF check_allocated(p, n)
       THEN /\ map_alloc' = Without(map_alloc, {p})
            /\ heap' = Without(heap, {p})
            /\ outcome' = "ok"
       ELSE outcome' = "logic_error" /\ UNCHANGED <<map_alloc, heap>>
  /\ UNCHANGED <<condition, label, map_construct>>

construct(p) ==
  /\ throw_conditionally
  /\ IF Throws
       THEN outcome' = "forced_error" /\ UNCHANGED map_construct
       ELSE IF check_constructed(p)
              THEN outcome' = "logic_error" /\ UNCHANGED map_construct
              ELSE map_construct' = With(map_construct, p, label) /\ outcome' = "ok"
  /\ UNCHANGED <<label, map_alloc, heap>>

destroy(p) ==
  /\ IF check_constructed(p)
       THEN map_construct' = Without(map_construct, {p}) /\ outcome' = "ok"
       ELSE outcome' = "logic_error" /\ UNCHANGED map_construct
  /\ UNCHANGED <<condition, label, map_alloc, heap>>

Next ==
  \/ Enter \/ Exit \/ Value \/ cleanup
  \/ \E l \in Labels : SetLabel(l)
  \/ \E p \in Nodes : construct(p) \/ destroy(p) \/ bad_alloc(p)
  \/ \E p \in Nodes, n \in Sizes : allocate(p, n) \/ deallocate(p, n)

Spec == Init /\ [][Next]_vars

-----------------------------------------------------------------------------
TypeOK ==
  /\ limit \in Nat /\ count \in Nat
  /\ adjustors \in Seq([kind : {"never", "always", "limit"}, orig : Nat])
  /\ label \in Labels \cup {Never}
  /\ DOMAIN map_alloc \subseteq Nodes
  /\ \A p \in DOMAIN map_alloc : map_alloc[p] \in (Labels \cup {Never}) \X Sizes
  /\ DOMAIN map_construct \subseteq Nodes
  /\ \A p \in DOMAIN map_construct : map_construct[p] \in Labels \cup {Never}
  /\ outcome \in {"none", "ok", "forced_error", "logic_error", "bad_alloc"}

\* However adjustors nest and whatever is forced in between, no error can be
\* forced once the last of them is gone (throw_allocator.h:385, 421).
RestoredOutside == adjustors = <<>> => limit = Never

\* The annotations are the blocks that somebody holds: a refused deallocation, a
\* forced error and a bad_alloc leave them as they were.  A block lost to the
\* bad_alloc of insert has no annotation (throw_allocator.h:715, 721, 743).
HeapAnnotated ==
  /\ DOMAIN map_alloc = Held
  /\ \A p \in Held : map_alloc[p][2] = heap[p]

\* No condition is passed while an always_adjustor is the innermost adjustor
\* (throw_allocator.h:393: "Always enter the condition").
AlwaysForces ==
  [][(/\ adjustors # <<>> /\ adjustors' = adjustors
      /\ adjustors[Len(adjustors)].kind = "always") => count' <= count]_vars
=============================================================================
