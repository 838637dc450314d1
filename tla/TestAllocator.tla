---------------------------- MODULE TestAllocator ----------------------------
(***************************************************************************)
(* test_allocator of include/test_allocators.h: allocator objects that     *)
(* share statistics by counting references, and account for every block.   *)
(* The statistics are what the container tests read to tell whether an      *)
(* operation has allocated, and what catches a lost or foreign block.       *)
(* The users of an allocator, containers and tests, are any sequence of     *)
(* calls, erroneous deallocations included.                                 *)
(***************************************************************************)
EXTENDS Integers, FiniteSets

CONSTANTS
  Allocators,   \* allocator objects: variables and members of containers
  Stats,        \* addresses of alloc_stats_t objects; one may be used again
  nullptr,      \* alloc_stats_ of an object that does not exist
  Ptrs,         \* addresses of blocks
  Sizes,        \* sizes asked for
  MaxElements,  \* bound: both counters of elements stay within it
  NDEBUG        \* asserts are compiled out

ASSUME AllocatorAssumption ==
  /\ IsFiniteSet(Allocators)
  /\ IsFiniteSet(Ptrs)
  /\ nullptr \notin Stats
  /\ Sizes \subseteq Nat \ {0}
  /\ MaxElements \in Nat
  /\ NDEBUG \in BOOLEAN

VARIABLES
  alloc_stats_,    \* allocator object -> its statistics, nullptr if no object
  live,            \* statistics created and not deleted
  ref_count,       \* statistics -> number of references
  alloc_count,     \* statistics -> elements allocated and not deallocated
  alloc_detected,  \* statistics -> elements allocated since the last reset
  ptrs,            \* statistics -> (block -> its size)
  heap,            \* blocks std::allocator has given and not got back
  at_reset,        \* history: alloc_count when alloc_detected was last reset
  exhausted,       \* history: an allocation has thrown std::bad_alloc
  aborted          \* an assertion has failed

vars == <<alloc_stats_, live, ref_count, alloc_count, alloc_detected, ptrs,
          heap, at_reset, exhausted, aborted>>

accounts == <<alloc_count, alloc_detected, ptrs, heap, at_reset, exhausted>>

Exists(a) == alloc_stats_[a] # nullptr
Running == ~ aborted

-----------------------------------------------------------------------------
(* Construction, assignment, destruction.                                       *)

NoBlocks == [p \in {} |-> 0]

DefaultConstruct(a, s) ==
  /\ Running /\ ~ Exists(a)
  /\ s \in Stats \ live
  /\ live' = live \cup {s}
  /\ alloc_stats_' = [alloc_stats_ EXCEPT ![a] = s]
  /\ ref_count' = [ref_count EXCEPT ![s] = 1]
  /\ alloc_count' = [alloc_count EXCEPT ![s] = 0]
  /\ alloc_detected' = [alloc_detected EXCEPT ![s] = 0]
  /\ ptrs' = [ptrs EXCEPT ![s] = NoBlocks]
  /\ at_reset' = [at_reset EXCEPT ![s] = 0]
  /\ UNCHANGED <<heap, exhausted, aborted>>

\* Mutant: the copy takes no reference.
CopyConstructUncounted(a, other) ==
  /\ Running /\ ~ Exists(a) /\ Exists(other)
  /\ alloc_stats_' = [alloc_stats_ EXCEPT ![a] = alloc_stats_[other]]
  /\ UNCHANGED <<live, ref_count, aborted>> /\ UNCHANGED accounts

\* The copy constructors, that of another value type among them; moving copies,
\* as does select_on_container_copy_construction.
CopyConstruct(a, other) ==
  /\ Running /\ ~ Exists(a) /\ Exists(other)
  /\ alloc_stats_' = [alloc_stats_ EXCEPT ![a] = alloc_stats_[other]]
  /\ ref_count' = [ref_count EXCEPT ![alloc_stats_[other]] = @ + 1]
  /\ UNCHANGED <<live, aborted>> /\ UNCHANGED accounts

\* Mutant: the assertion is gone.
DropUnchecked(s) ==
  /\ live' = live \ {s}
  /\ alloc_count' = [alloc_count EXCEPT ![s] = 0]
  /\ alloc_detected' = [alloc_detected EXCEPT ![s] = 0]
  /\ ptrs' = [ptrs EXCEPT ![s] = NoBlocks]
  /\ at_reset' = [at_reset EXCEPT ![s] = 0]
  /\ UNCHANGED <<heap, exhausted, aborted>>

\* reset drops the last reference to s: the statistics go, or the assertion that
\* they hold no block fails.  What a deleted object held is forgotten.
Drop(s) ==
  IF ptrs[s] # NoBlocks /\ ~ NDEBUG
    THEN /\ aborted' = TRUE
         /\ UNCHANGED live /\ UNCHANGED accounts
    ELSE /\ live' = live \ {s}
         /\ alloc_count' = [alloc_count EXCEPT ![s] = 0]
         /\ alloc_detected' = [alloc_detected EXCEPT ![s] = 0]
         /\ ptrs' = [ptrs EXCEPT ![s] = NoBlocks]
         /\ at_reset' = [at_reset EXCEPT ![s] = 0]
         /\ UNCHANGED <<heap, exhausted, aborted>>

\* reset gives up the reference to s.
Release(s, count) ==
  IF count = 0 THEN Drop(s)
               ELSE UNCHANGED <<live, aborted>> /\ UNCHANGED accounts

\* The pointer is only replaced when the assertion has held.
Repoint(a, s) ==
  alloc_stats_' = IF aborted' THEN alloc_stats_
                              ELSE [alloc_stats_ EXCEPT ![a] = s]

Destroy(a) ==
  LET s == alloc_stats_[a] IN
  /\ Running /\ Exists(a)
  /\ ref_count' = [ref_count EXCEPT ![s] = @ - 1]
  /\ Release(s, ref_count[s] - 1)
  /\ Repoint(a, nullptr)

\* Mutant: assignment between objects that share their statistics is not skipped.
AssignUnguarded(a, other) ==
  LET s == alloc_stats_[a]
      t == alloc_stats_[other]
  IN
  /\ Running /\ Exists(a) /\ Exists(other)
  /\ ref_count' = [ref_count EXCEPT ![t] = @ + 1, ![s] = @ - 1]
  /\ Release(s, ref_count[s] - 1)
  /\ Repoint(a, t)

\* Assignment does nothing between objects that share their statistics already.
Assign(a, other) ==
  LET s == alloc_stats_[a]
      t == alloc_stats_[other]
  IN
  /\ Running /\ Exists(a) /\ Exists(other)
  /\ s # t
  /\ ref_count' = [ref_count EXCEPT ![t] = @ + 1, ![s] = @ - 1]
  /\ Release(s, ref_count[s] - 1)
  /\ Repoint(a, t)

swap(a, other) ==
  /\ Running /\ Exists(a) /\ Exists(other)
  /\ alloc_stats_' = [alloc_stats_ EXCEPT ![a] = alloc_stats_[other],
                                          ![other] = alloc_stats_[a]]
  /\ UNCHANGED <<live, ref_count, aborted>> /\ UNCHANGED accounts

-----------------------------------------------------------------------------
(* Blocks.                                                                      *)

With(f, p, sz) == [q \in DOMAIN f \cup {p} |-> IF q = p THEN sz ELSE f[q]]
Without(f, p) == [q \in DOMAIN f \ {p} |-> f[q]]

\* Mutant: an allocation is not detected.
CountUndetected(s, sz) ==
  /\ alloc_count[s] + sz <= MaxElements
  /\ alloc_count' = [alloc_count EXCEPT ![s] = @ + sz]
  /\ UNCHANGED alloc_detected

\* Both counters move before anything is allocated.
Count(s, sz) ==
  /\ alloc_count[s] + sz <= MaxElements /\ alloc_detected[s] + sz <= MaxElements
  /\ alloc_count' = [alloc_count EXCEPT ![s] = @ + sz]
  /\ alloc_detected' = [alloc_detected EXCEPT ![s] = @ + sz]

allocate(a, sz, p) ==
  LET s == alloc_stats_[a] IN
  /\ Running /\ Exists(a)
  /\ p \notin heap
  /\ Count(s, sz)
  /\ heap' = heap \cup {p}
  /\ ptrs' = [ptrs EXCEPT ![s] = With(@, p, sz)]
  /\ UNCHANGED <<alloc_stats_, live, ref_count, at_reset, exhausted, aborted>>

\* std::allocator throws, or the block is obtained but its entry cannot be.
AllocateThrows(a, sz) ==
  /\ Running /\ Exists(a)
  /\ Count(alloc_stats_[a], sz)
  /\ \/ heap' = heap
     \/ \E p \in Ptrs \ heap : heap' = heap \cup {p}
  /\ exhausted' = TRUE
  /\ UNCHANGED <<alloc_stats_, live, ref_count, ptrs, at_reset, aborted>>

IsKnown(s, p, sz) == p \in DOMAIN ptrs[s] /\ ptrs[s][p] = sz

\* Mutant: what is given back is still counted.
DeallocateUncounted(a, p, sz) ==
  LET s == alloc_stats_[a] IN
  /\ Running /\ Exists(a)
  /\ IsKnown(s, p, sz)
  /\ ptrs' = [ptrs EXCEPT ![s] = Without(@, p)]
  /\ heap' = heap \ {p}
  /\ UNCHANGED <<alloc_stats_, live, ref_count, alloc_count, alloc_detected,
                 at_reset, exhausted, aborted>>

deallocate(a, p, sz) ==
  LET s == alloc_stats_[a] IN
  /\ Running /\ Exists(a)
  /\ IsKnown(s, p, sz)
  /\ ptrs' = [ptrs EXCEPT ![s] = Without(@, p)]
  /\ alloc_count' = [alloc_count EXCEPT ![s] = @ - sz]
  /\ heap' = heap \ {p}
  /\ UNCHANGED <<alloc_stats_, live, ref_count, alloc_detected,
                 at_reset, exhausted, aborted>>

\* A foreign block or a wrong size is refused by an exception, "invalid
\* deallocation", that leaves the accounts alone.
DeallocateThrows(a, p, sz) ==
  /\ Running /\ Exists(a)
  /\ ~ IsKnown(alloc_stats_[a], p, sz)
  /\ UNCHANGED vars

reset_alloc_detected(a) ==
  LET s == alloc_stats_[a] IN
  /\ Running /\ Exists(a)
  /\ alloc_detected' = [alloc_detected EXCEPT ![s] = 0]
  /\ at_reset' = [at_reset EXCEPT ![s] = alloc_count[s]]
  /\ UNCHANGED <<alloc_stats_, live, ref_count, alloc_count, ptrs,
                 heap, exhausted, aborted>>

-----------------------------------------------------------------------------
Init ==
  /\ alloc_stats_ = [a \in Allocators |-> nullptr]
  /\ live = {}
  /\ ref_count = [s \in Stats |-> 0]
  /\ alloc_count = [s \in Stats |-> 0]
  /\ alloc_detected = [s \in Stats |-> 0]
  /\ ptrs = [s \in Stats |-> NoBlocks]
  /\ heap = {}
  /\ at_reset = [s \in Stats |-> 0]
  /\ exhausted = FALSE
  /\ aborted = FALSE

Aborted == ~ Running /\ UNCHANGED vars

Handles ==
  \E a \in Allocators :
    \/ \E s \in Stats : DefaultConstruct(a, s)
    \/ \E b \in Allocators : CopyConstruct(a, b) \/ Assign(a, b) \/ swap(a, b)
    \/ Destroy(a)

Blocks ==
  \E a \in Allocators :
    \/ \E sz \in Sizes, p \in Ptrs :
         allocate(a, sz, p) \/ deallocate(a, p, sz) \/ DeallocateThrows(a, p, sz)
    \/ \E sz \in Sizes : AllocateThrows(a, sz)
    \/ reset_alloc_detected(a)

Next == Handles \/ Blocks \/ Aborted

Spec == Init /\ [][Next]_vars

-----------------------------------------------------------------------------
(* Properties.                                                                  *)

Holders(s) == {a \in Allocators : alloc_stats_[a] = s}

\* Through every order of copies, assignments, swaps and destructions, the count of
\* references is the number of objects that refer to the statistics (82-89).
RefCountExact ==
  Running => \A s \in live : ref_count[s] = Cardinality(Holders(s))

\* Statistics live exactly as long as an object refers to them: none is used after
\* it was deleted, none is lost.
StatsLiveWhileHeld ==
  Running => \A s \in Stats : s \in live <=> Holders(s) # {}

\* The elements of known blocks: as many of each block as its size tells.
Elements(blocks) == UNION {{p} \X (1 .. blocks[p]) : p \in DOMAIN blocks}

\* A block belongs to one set of statistics, and to the one that will accept its
\* deallocation; get_alloc_count() is the number of elements in the blocks held, unless an
\* allocation has thrown, which leaves the counters ahead (51-53).
BlocksAccounted ==
  /\ \A s, t \in live : s # t => DOMAIN ptrs[s] \cap DOMAIN ptrs[t] = {}
  /\ \A s \in live : DOMAIN ptrs[s] \subseteq heap
  /\ \A s \in live : alloc_count[s] >= Cardinality(Elements(ptrs[s]))
  /\ ~ exhausted => \A s \in live : alloc_count[s] = Cardinality(Elements(ptrs[s]))

\* With asserts, a run whose last allocator object is gone has given back every
\* block: a leak ends the run at the assertion of reset (85).
NoLeakGoesUnnoticed ==
  Running /\ ~ NDEBUG /\ ~ exhausted /\ (\A a \in Allocators : ~ Exists(a)) => heap = {}

\* What a test concludes from get_alloc_detected() = 0: the count has not grown
\* since the reset.
DetectedBoundsGrowth ==
  \A s \in live : alloc_count[s] <= at_reset[s] + alloc_detected[s]

=============================================================================
