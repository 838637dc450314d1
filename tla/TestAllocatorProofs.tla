------------------------- MODULE TestAllocatorProofs -------------------------
(***************************************************************************)
(* Proofs about TestAllocator, for every number of allocator objects, of   *)
(* statistics and of blocks.                                               *)
(***************************************************************************)
EXTENDS TestAllocator, FiniteSetTheorems, TLAPS

-----------------------------------------------------------------------------
(* The inductive invariant.                                                     *)

\* The part of the types the steps rely on.
TypeInv ==
  /\ alloc_stats_ \in [Allocators -> Stats \cup {nullptr}]
  /\ live \subseteq Stats
  /\ ref_count \in [Stats -> Int]
  /\ alloc_count \in [Stats -> Int]
  /\ alloc_detected \in [Stats -> Int]
  /\ at_reset \in [Stats -> Int]
  /\ ptrs = [s \in Stats |-> ptrs[s]]
  /\ heap \subseteq Ptrs
  /\ exhausted \in BOOLEAN
  /\ aborted \in BOOLEAN

\* The blocks whose deallocation s accepts.
Known(s) == DOMAIN ptrs[s]

\* Blocks known to two statistics at once there are none, and unless an allocation
\* has thrown or statistics were deleted with blocks in them, every block is known.
HeapInv ==
  /\ \A s, t \in live : s # t => Known(s) \cap Known(t) = {}
  /\ \A s \in live : Known(s) \subseteq heap
  /\ ~ exhausted /\ ~ NDEBUG => \A p \in heap : \E s \in live : p \in Known(s)

IInv ==
  /\ TypeInv
  /\ RefCountExact
  /\ StatsLiveWhileHeld
  /\ HeapInv
  /\ DetectedBoundsGrowth

-----------------------------------------------------------------------------
(* Counting the holders of statistics.                                          *)

\* One holder more, one holder less.
LEMMA HolderCount ==
  ASSUME TypeInv, NEW s
  PROVE  /\ IsFiniteSet(Holders(s))
         /\ Cardinality(Holders(s)) \in Nat
         /\ Cardinality(Holders(s)) = 0 <=> Holders(s) = {}
         /\ \A a \in Allocators \ Holders(s) :
              Cardinality(Holders(s) \cup {a}) = Cardinality(Holders(s)) + 1
         /\ \A a \in Holders(s) :
              Cardinality(Holders(s) \ {a}) = Cardinality(Holders(s)) - 1
<1>1. Holders(s) \subseteq Allocators
  BY DEF Holders
<1>2. IsFiniteSet(Holders(s))
  BY <1>1, AllocatorAssumption, FS_Subset
<1> QED
  BY <1>2, FS_CardinalityType, FS_EmptySet, FS_AddElement, FS_RemoveElement

\* One object takes the place of another among the holders.
LEMMA Exchange ==
  ASSUME TypeInv, NEW s, NEW a \in Holders(s), NEW b \in Allocators \ Holders(s)
  PROVE  Cardinality((Holders(s) \ {a}) \cup {b}) = Cardinality(Holders(s))
<1>1. IsFiniteSet(Holders(s)) /\ Cardinality(Holders(s)) \in Nat
  BY HolderCount
<1>2. /\ IsFiniteSet(Holders(s) \ {a})
      /\ Cardinality(Holders(s) \ {a}) = Cardinality(Holders(s)) - 1
  BY <1>1, FS_RemoveElement
<1>3. Cardinality((Holders(s) \ {a}) \cup {b}) = Cardinality(Holders(s) \ {a}) + 1
  BY <1>2, FS_AddElement
<1> QED
  BY <1>1, <1>2, <1>3

\* The statistics of an object that exists are live.
LEMMA HeldIsLive ==
  ASSUME IInv, Running, NEW a \in Allocators, Exists(a)
  PROVE  /\ alloc_stats_[a] \in live
         /\ alloc_stats_[a] \in Stats
         /\ a \in Holders(alloc_stats_[a])
         /\ ref_count[alloc_stats_[a]] = Cardinality(Holders(alloc_stats_[a]))
<1>1. alloc_stats_[a] \in Stats /\ a \in Holders(alloc_stats_[a])
  BY DEF IInv, TypeInv, Exists, Holders
<1> QED
  BY <1>1 DEF IInv, RefCountExact, StatsLiveWhileHeld

\* The invariant holds before any object exists.
THEOREM InitIInv == Init => IInv
<1> SUFFICES ASSUME Init PROVE IInv
  OBVIOUS
<1> USE AllocatorAssumption
<1>1. TypeInv
  <2>1. ptrs = [s \in Stats |-> ptrs[s]]
    BY DEF Init
  <2>2. ref_count \in [Stats -> Int] /\ alloc_count \in [Stats -> Int]
    BY DEF Init
  <2>3. alloc_detected \in [Stats -> Int] /\ at_reset \in [Stats -> Int]
    BY DEF Init
  <2> QED
    BY <2>1, <2>2, <2>3 DEF Init, TypeInv
<1>2. RefCountExact /\ HeapInv /\ DetectedBoundsGrowth
  BY DEF Init, RefCountExact, HeapInv, DetectedBoundsGrowth
<1>3. StatsLiveWhileHeld
  BY DEF Init, StatsLiveWhileHeld, Holders
<1> QED
  BY <1>1, <1>2, <1>3 DEF IInv

\* A first object, with statistics of its own.
LEMMA StepDefaultConstruct ==
  ASSUME IInv, NEW a \in Allocators, NEW s \in Stats, DefaultConstruct(a, s)
  PROVE  IInv'
<1> USE AllocatorAssumption
<1>0. Running /\ Running' /\ ~ Exists(a) /\ s \notin live /\ a \notin Holders(s)
  BY DEF DefaultConstruct, Running, Exists, Holders
<1>1. TypeInv'
  <2>1. alloc_count' \in [Stats -> Int] /\ alloc_detected' \in [Stats -> Int]
    BY DEF IInv, TypeInv, DefaultConstruct
  <2>2. at_reset' \in [Stats -> Int] /\ ref_count' \in [Stats -> Int]
    BY DEF IInv, TypeInv, DefaultConstruct
  <2>3. alloc_stats_' \in [Allocators -> Stats \cup {nullptr}]
    BY DEF IInv, TypeInv, DefaultConstruct
  <2>4. ptrs' = [u \in Stats |-> ptrs'[u]]
    BY DEF IInv, TypeInv, DefaultConstruct
  <2> QED
    BY <2>1, <2>2, <2>3, <2>4 DEF IInv, TypeInv, DefaultConstruct
<1>2. Holders(s)' = {a}
  <2>1. Holders(s) = {}
    BY <1>0 DEF IInv, StatsLiveWhileHeld
  <2> QED
    BY <1>0, <2>1 DEF Holders, DefaultConstruct, IInv, TypeInv
<1>3. \A t \in Stats \ {s} : Holders(t)' = Holders(t)
  BY <1>0 DEF Holders, DefaultConstruct, IInv, TypeInv, Exists
<1>4. StatsLiveWhileHeld'
  BY <1>0, <1>2, <1>3 DEF IInv, StatsLiveWhileHeld, DefaultConstruct
<1>5. RefCountExact'
  <2>1. Cardinality({a}) = 1
    BY FS_Singleton
  <2> QED
    BY <1>0, <1>2, <1>3, <2>1 DEF IInv, TypeInv, RefCountExact, DefaultConstruct
<1>6. HeapInv'
  <2>1. Known(s)' = {}
    BY DEF Known, NoBlocks, DefaultConstruct, IInv, TypeInv
  <2>2. \A t \in live : Known(t)' = Known(t)
    BY <1>0 DEF Known, DefaultConstruct, IInv, TypeInv
  <2>3. live' = live \cup {s} /\ heap' = heap /\ exhausted' = exhausted
    BY DEF DefaultConstruct
  <2> QED
    BY <1>0, <2>1, <2>2, <2>3 DEF IInv, HeapInv
<1>7. DetectedBoundsGrowth'
  BY DEF IInv, TypeInv, DetectedBoundsGrowth, DefaultConstruct
<1> QED
  BY <1>1, <1>4, <1>5, <1>6, <1>7 DEF IInv

\* A step that leaves the accounts and the live statistics alone keeps what is
\* known of them.
LEMMA AccountsFrame ==
  ASSUME IInv, UNCHANGED accounts, UNCHANGED <<live, aborted>>
  PROVE  HeapInv' /\ DetectedBoundsGrowth'
  BY DEF IInv, HeapInv, Known, DetectedBoundsGrowth, accounts

\* A copy shares the statistics.
LEMMA StepCopyConstruct ==
  ASSUME IInv, NEW a \in Allocators, NEW b \in Allocators, CopyConstruct(a, b)
  PROVE  IInv'
<1> USE AllocatorAssumption
<1> DEFINE t == alloc_stats_[b]
<1>0. /\ Running /\ Running' /\ ~ Exists(a) /\ Exists(b)
      /\ t \in live /\ t \in Stats /\ ref_count[t] = Cardinality(Holders(t))
      /\ a \notin Holders(t) /\ b \in Holders(t)
  <2>1. Running /\ Running' /\ ~ Exists(a) /\ Exists(b)
    BY DEF CopyConstruct, Running
  <2> QED
    BY <2>1, HeldIsLive DEF Exists, Holders
<1>1. TypeInv'
  BY <1>0 DEF IInv, TypeInv, CopyConstruct, accounts
<1>2. Holders(t)' = Holders(t) \cup {a}
  BY <1>0 DEF Holders, CopyConstruct, IInv, TypeInv
<1>3. \A u \in Stats \ {t} : Holders(u)' = Holders(u)
  BY <1>0 DEF Holders, CopyConstruct, IInv, TypeInv, Exists
<1>4. StatsLiveWhileHeld'
  BY <1>0, <1>2, <1>3 DEF IInv, StatsLiveWhileHeld, CopyConstruct
<1>5. RefCountExact'
  <2>1. Cardinality(Holders(t) \cup {a}) = Cardinality(Holders(t)) + 1
    BY <1>0, HolderCount DEF IInv
  <2> QED
    BY <1>0, <1>2, <1>3, <2>1 DEF IInv, TypeInv, RefCountExact, CopyConstruct
<1>6. HeapInv' /\ DetectedBoundsGrowth'
  BY AccountsFrame DEF CopyConstruct
<1> QED
  BY <1>1, <1>4, <1>5, <1>6 DEF IInv

\* Giving up a reference deletes the statistics exactly when it is the last one,
\* and loses no block unless asserts are off.
LEMMA Released ==
  ASSUME IInv, NEW a \in Allocators, Running, Exists(a),
         NEW s, s = alloc_stats_[a], Release(s, ref_count[s] - 1)
  PROVE  /\ aborted' \in BOOLEAN
         /\ Running' => live' = IF Holders(s) = {a} THEN live \ {s} ELSE live
         /\ live' \subseteq Stats
         /\ alloc_count' \in [Stats -> Int]
         /\ alloc_detected' \in [Stats -> Int]
         /\ at_reset' \in [Stats -> Int]
         /\ ptrs' = [u \in Stats |-> ptrs'[u]]
         /\ heap' \subseteq Ptrs
         /\ exhausted' \in BOOLEAN
         /\ HeapInv'
         /\ DetectedBoundsGrowth'
<1> USE AllocatorAssumption
<1>1. /\ s \in live /\ s \in Stats /\ a \in Holders(s)
      /\ ref_count[s] = Cardinality(Holders(s))
  BY HeldIsLive
<1>2. ref_count[s] - 1 = 0 <=> Holders(s) = {a}
  <2>1. Cardinality(Holders(s) \ {a}) = ref_count[s] - 1
    BY <1>1, HolderCount DEF IInv
  <2>2. Holders(s) \ {a} = {} <=> Holders(s) = {a}
    BY <1>1
  <2>3. IsFiniteSet(Holders(s) \ {a})
    BY HolderCount, FS_Subset DEF IInv
  <2> QED
    BY <2>1, <2>2, <2>3, FS_EmptySet
<1>3. TypeInv
  BY DEF IInv
<1>4. CASE UNCHANGED live /\ UNCHANGED accounts
  <2>1. HeapInv' /\ DetectedBoundsGrowth'
    BY <1>4 DEF IInv, HeapInv, Known, DetectedBoundsGrowth, accounts
  <2>2. aborted' \in BOOLEAN
    BY <1>3 DEF Release, Drop, TypeInv
  <2>3. Running' => Holders(s) # {a}
    <3> SUFFICES ASSUME Running', Holders(s) = {a} PROVE FALSE
      OBVIOUS
    <3>1. Drop(s)
      BY <1>2 DEF Release
    <3> QED
      BY <1>1, <1>4, <3>1 DEF Drop, Running
  <2> QED
    BY <1>3, <1>4, <2>1, <2>2, <2>3 DEF TypeInv, accounts
<1>5. CASE ref_count[s] - 1 = 0 /\ ~ (ptrs[s] # NoBlocks /\ ~ NDEBUG)
  <2>1. /\ live' = live \ {s}
        /\ alloc_count' = [alloc_count EXCEPT ![s] = 0]
        /\ alloc_detected' = [alloc_detected EXCEPT ![s] = 0]
        /\ ptrs' = [ptrs EXCEPT ![s] = NoBlocks]
        /\ at_reset' = [at_reset EXCEPT ![s] = 0]
        /\ UNCHANGED <<heap, exhausted, aborted>>
    BY <1>5 DEF Release, Drop
  <2>2. \A u \in live' : Known(u)' = Known(u)
    BY <1>3, <2>1 DEF Known, TypeInv
  <2>3. ~ NDEBUG => Known(s) = {}
    BY <1>5 DEF Known, NoBlocks
  <2>4. HeapInv'
    BY <2>1, <2>2, <2>3 DEF IInv, HeapInv
  <2>5. DetectedBoundsGrowth'
    BY <1>3, <2>1 DEF IInv, TypeInv, DetectedBoundsGrowth
  <2>6. ptrs' = [u \in Stats |-> ptrs'[u]]
    BY <1>1, <1>3, <2>1 DEF TypeInv
  <2>7. /\ alloc_count' \in [Stats -> Int]
        /\ alloc_detected' \in [Stats -> Int]
        /\ at_reset' \in [Stats -> Int]
    <3>1. alloc_count' \in [Stats -> Int]
      BY <1>1, <1>3, <2>1 DEF TypeInv
    <3>2. alloc_detected' \in [Stats -> Int]
      BY <1>1, <1>3, <2>1 DEF TypeInv
    <3>3. at_reset' \in [Stats -> Int]
      BY <1>1, <1>3, <2>1 DEF TypeInv
    <3> QED
      BY <3>1, <3>2, <3>3
  <2>8. /\ live' \subseteq Stats /\ heap' \subseteq Ptrs
        /\ exhausted' \in BOOLEAN /\ aborted' \in BOOLEAN
    BY <1>3, <2>1 DEF TypeInv
  <2>9. live' = IF Holders(s) = {a} THEN live \ {s} ELSE live
    BY <1>2, <1>5, <2>1
  <2> QED
    BY <2>4, <2>5, <2>6, <2>7, <2>8, <2>9
<1> QED
  BY <1>4, <1>5 DEF Release, Drop

\* An object goes.
LEMMA StepDestroy ==
  ASSUME IInv, NEW a \in Allocators, NEW s, s = alloc_stats_[a], Destroy(a)
  PROVE  IInv'
<1> USE AllocatorAssumption
<1>0. /\ Running /\ Exists(a) /\ Release(s, ref_count[s] - 1)
      /\ ref_count' = [ref_count EXCEPT ![s] = @ - 1]
      /\ Repoint(a, nullptr)
  BY DEF Destroy
<1>1. /\ s \in live /\ s \in Stats /\ a \in Holders(s)
      /\ ref_count[s] = Cardinality(Holders(s))
  BY <1>0, HeldIsLive
<1>2. /\ aborted' \in BOOLEAN
      /\ Running' => live' = IF Holders(s) = {a} THEN live \ {s} ELSE live
      /\ live' \subseteq Stats
      /\ alloc_count' \in [Stats -> Int]
      /\ alloc_detected' \in [Stats -> Int]
      /\ at_reset' \in [Stats -> Int]
      /\ ptrs' = [u \in Stats |-> ptrs'[u]]
      /\ heap' \subseteq Ptrs
      /\ exhausted' \in BOOLEAN
      /\ HeapInv'
      /\ DetectedBoundsGrowth'
  BY <1>0, Released
<1>3. TypeInv'
  <2>1. alloc_stats_' \in [Allocators -> Stats \cup {nullptr}]
    BY <1>0 DEF IInv, TypeInv, Repoint
  <2>2. ref_count' \in [Stats -> Int]
    BY <1>0, <1>1 DEF IInv, TypeInv
  <2> QED
    BY <1>2, <2>1, <2>2 DEF TypeInv
<1>4. CASE aborted'
  BY <1>2, <1>3, <1>4 DEF IInv, RefCountExact, StatsLiveWhileHeld, Running
<1>5. CASE ~ aborted'
  <2>1. alloc_stats_' = [alloc_stats_ EXCEPT ![a] = nullptr]
    BY <1>0, <1>5 DEF Repoint
  <2>2. Holders(s)' = Holders(s) \ {a}
    BY <1>1, <2>1 DEF Holders, IInv, TypeInv
  <2>3. \A u \in Stats \ {s} : Holders(u)' = Holders(u)
    BY <1>1, <2>1 DEF Holders, IInv, TypeInv
  <2>4. live' = IF Holders(s) = {a} THEN live \ {s} ELSE live
    BY <1>2, <1>5 DEF Running
  <2>5. StatsLiveWhileHeld'
    BY <1>0, <1>1, <2>2, <2>3, <2>4 DEF IInv, StatsLiveWhileHeld
  <2>6. Cardinality(Holders(s) \ {a}) = Cardinality(Holders(s)) - 1
    BY <1>1, HolderCount DEF IInv
  <2>7. RefCountExact'
    BY <1>0, <1>1, <2>2, <2>3, <2>4, <2>6 DEF IInv, TypeInv, RefCountExact
  <2> QED
    BY <1>2, <1>3, <2>5, <2>7 DEF IInv
<1> QED
  BY <1>4, <1>5

\* An object changes its statistics for those of another.
LEMMA StepAssign ==
  ASSUME IInv, NEW a \in Allocators, NEW b \in Allocators,
         NEW s, s = alloc_stats_[a], NEW t, t = alloc_stats_[b], Assign(a, b)
  PROVE  IInv'
<1> USE AllocatorAssumption
<1>0. /\ Running /\ Exists(a) /\ Exists(b) /\ s # t
      /\ Release(s, ref_count[s] - 1)
      /\ ref_count' = [ref_count EXCEPT ![t] = @ + 1, ![s] = @ - 1]
      /\ Repoint(a, t)
  BY DEF Assign
<1>1. /\ s \in live /\ s \in Stats /\ a \in Holders(s) /\ a \notin Holders(t)
      /\ ref_count[s] = Cardinality(Holders(s))
  BY <1>0, HeldIsLive DEF Holders
<1>2. /\ t \in live /\ t \in Stats /\ b \in Holders(t)
      /\ ref_count[t] = Cardinality(Holders(t))
  BY <1>0, HeldIsLive
<1>3. /\ aborted' \in BOOLEAN
      /\ Running' => live' = IF Holders(s) = {a} THEN live \ {s} ELSE live
      /\ live' \subseteq Stats
      /\ alloc_count' \in [Stats -> Int]
      /\ alloc_detected' \in [Stats -> Int]
      /\ at_reset' \in [Stats -> Int]
      /\ ptrs' = [u \in Stats |-> ptrs'[u]]
      /\ heap' \subseteq Ptrs
      /\ exhausted' \in BOOLEAN
      /\ HeapInv'
      /\ DetectedBoundsGrowth'
  BY <1>0, Released
<1>4. /\ ref_count' \in [Stats -> Int]
      /\ ref_count'[s] = ref_count[s] - 1
      /\ ref_count'[t] = ref_count[t] + 1
      /\ \A u \in Stats \ {s, t} : ref_count'[u] = ref_count[u]
  BY <1>0, <1>1, <1>2 DEF IInv, TypeInv
<1>5. TypeInv'
  <2>1. alloc_stats_' \in [Allocators -> Stats \cup {nullptr}]
    BY <1>0, <1>2 DEF IInv, TypeInv, Repoint
  <2> QED
    BY <1>3, <1>4, <2>1 DEF TypeInv
<1>6. CASE aborted'
  BY <1>3, <1>5, <1>6 DEF IInv, RefCountExact, StatsLiveWhileHeld, Running
<1>7. CASE ~ aborted'
  <2>1. alloc_stats_' = [alloc_stats_ EXCEPT ![a] = t]
    BY <1>0, <1>7 DEF Repoint
  <2>2. Holders(s)' = Holders(s) \ {a}
    BY <1>0, <2>1 DEF Holders, IInv, TypeInv
  <2>3. Holders(t)' = Holders(t) \cup {a}
    BY <1>0, <2>1 DEF Holders, IInv, TypeInv
  <2>4. \A u \in Stats \ {s, t} : Holders(u)' = Holders(u)
    BY <1>1, <2>1 DEF Holders, IInv, TypeInv
  <2>5. live' = IF Holders(s) = {a} THEN live \ {s} ELSE live
    BY <1>3, <1>7 DEF Running
  <2>6. StatsLiveWhileHeld'
    <3>1. \A u \in Stats : u \in live <=> Holders(u) # {}
      BY <1>0 DEF IInv, StatsLiveWhileHeld
    <3> QED
      BY <1>0, <1>1, <1>2, <2>2, <2>3, <2>4, <2>5, <3>1 DEF StatsLiveWhileHeld
  <2>7. Cardinality(Holders(s) \ {a}) = Cardinality(Holders(s)) - 1
    BY <1>1, HolderCount DEF IInv
  <2>8. Cardinality(Holders(t) \cup {a}) = Cardinality(Holders(t)) + 1
    BY <1>1, HolderCount DEF IInv
  <2>9. RefCountExact'
    <3>1. \A u \in live : ref_count[u] = Cardinality(Holders(u)) /\ u \in Stats
      BY <1>0 DEF IInv, TypeInv, RefCountExact
    <3> SUFFICES ASSUME NEW u \in live' PROVE ref_count'[u] = Cardinality(Holders(u)')
      BY DEF RefCountExact
    <3>2. u \in live
      BY <2>5
    <3>3. CASE u = s
      BY <1>1, <1>4, <2>2, <2>7, <3>3
    <3>4. CASE u = t
      BY <1>2, <1>4, <2>3, <2>8, <3>4
    <3>5. CASE u # s /\ u # t
      BY <1>4, <2>4, <3>1, <3>2, <3>5
    <3> QED
      BY <3>3, <3>4, <3>5
  <2> QED
    BY <1>3, <1>5, <2>6, <2>9 DEF IInv
<1> QED
  BY <1>6, <1>7

\* Two objects exchange their statistics, an object with itself included.
LEMMA StepSwap ==
  ASSUME IInv, NEW a \in Allocators, NEW b \in Allocators,
         NEW s, s = alloc_stats_[a], NEW t, t = alloc_stats_[b], swap(a, b)
  PROVE  IInv'
<1> USE AllocatorAssumption
<1>0. /\ Running /\ Exists(a) /\ Exists(b)
      /\ alloc_stats_' = [alloc_stats_ EXCEPT ![a] = t, ![b] = s]
      /\ UNCHANGED <<live, ref_count, aborted>> /\ UNCHANGED accounts
  BY DEF swap
<1>1. /\ s \in live /\ s \in Stats /\ a \in Holders(s)
      /\ t \in live /\ t \in Stats /\ b \in Holders(t)
  BY <1>0, HeldIsLive
<1>2. TypeInv'
  BY <1>0, <1>1 DEF IInv, TypeInv, accounts
<1>3. HeapInv' /\ DetectedBoundsGrowth'
  BY <1>0, AccountsFrame
<1>4. CASE s = t
  <2>1. alloc_stats_' = alloc_stats_
    BY <1>0, <1>4 DEF IInv, TypeInv
  <2>2. \A u \in Stats : Holders(u)' = Holders(u)
    BY <2>1 DEF Holders
  <2> QED
    BY <1>0, <1>2, <1>3, <2>2 DEF IInv, TypeInv, RefCountExact, StatsLiveWhileHeld, Running
<1>5. CASE s # t
  <2>1. Holders(s)' = (Holders(s) \ {a}) \cup {b}
    BY <1>0, <1>5 DEF Holders, IInv, TypeInv
  <2>2. Holders(t)' = (Holders(t) \ {b}) \cup {a}
    BY <1>0, <1>5 DEF Holders, IInv, TypeInv
  <2>3. \A u \in Stats \ {s, t} : Holders(u)' = Holders(u)
    BY <1>0 DEF Holders, IInv, TypeInv
  <2>4. a \notin Holders(t) /\ b \notin Holders(s)
    BY <1>5 DEF Holders
  <2>5. Cardinality((Holders(s) \ {a}) \cup {b}) = Cardinality(Holders(s))
    BY <1>1, <2>4, Exchange DEF IInv
  <2>6. Cardinality((Holders(t) \ {b}) \cup {a}) = Cardinality(Holders(t))
    BY <1>1, <2>4, Exchange DEF IInv
  <2>7. ASSUME NEW u \in Stats
        PROVE  /\ Cardinality(Holders(u)') = Cardinality(Holders(u))
               /\ Holders(u)' # {} <=> Holders(u) # {}
    <3>1. CASE u = s
      BY <1>1, <2>1, <2>5, <3>1
    <3>2. CASE u = t
      BY <1>1, <2>2, <2>6, <3>2
    <3>3. CASE u \in Stats \ {s, t}
      BY <2>3, <3>3
    <3> QED
      BY <3>1, <3>2, <3>3
  <2>8. RefCountExact'
    <3> SUFFICES ASSUME NEW u \in live
                 PROVE  ref_count[u] = Cardinality(Holders(u)')
      BY <1>0 DEF RefCountExact
    <3>1. u \in Stats /\ ref_count[u] = Cardinality(Holders(u))
      BY <1>0 DEF IInv, TypeInv, RefCountExact
    <3> QED
      BY <2>7, <3>1
  <2>9. StatsLiveWhileHeld'
    <3> SUFFICES ASSUME NEW u \in Stats
                 PROVE  u \in live <=> Holders(u)' # {}
      BY <1>0 DEF StatsLiveWhileHeld
    <3>1. u \in live <=> Holders(u) # {}
      BY <1>0 DEF IInv, StatsLiveWhileHeld
    <3> QED
      BY <2>7, <3>1
  <2> QED
    BY <1>2, <1>3, <2>8, <2>9 DEF IInv
<1> QED
  BY <1>4, <1>5

\* A step that leaves the objects alone keeps what is known of references.
LEMMA ObjectsFrame ==
  ASSUME IInv, UNCHANGED <<alloc_stats_, live, ref_count, aborted>>
  PROVE  RefCountExact' /\ StatsLiveWhileHeld'
  BY DEF IInv, RefCountExact, StatsLiveWhileHeld, Holders, Running

\* A block is obtained and known.
LEMMA StepAllocate ==
  ASSUME IInv, NEW a \in Allocators, NEW sz \in Sizes, NEW p \in Ptrs,
         NEW s, s = alloc_stats_[a], allocate(a, sz, p)
  PROVE  IInv'
<1> USE AllocatorAssumption
<1>0. /\ Running /\ Exists(a) /\ p \notin heap /\ sz \in Int
      /\ alloc_count' = [alloc_count EXCEPT ![s] = @ + sz]
      /\ alloc_detected' = [alloc_detected EXCEPT ![s] = @ + sz]
      /\ heap' = heap \cup {p}
      /\ ptrs' = [ptrs EXCEPT ![s] = With(@, p, sz)]
      /\ UNCHANGED <<alloc_stats_, live, ref_count, at_reset, exhausted, aborted>>
  BY DEF allocate, Count
<1>1. s \in live /\ s \in Stats
  BY <1>0, HeldIsLive
<1>2. TypeInv'
  <2>1. alloc_count' \in [Stats -> Int] /\ alloc_detected' \in [Stats -> Int]
    BY <1>0, <1>1 DEF IInv, TypeInv
  <2>2. ptrs' = [u \in Stats |-> ptrs'[u]]
    BY <1>0, <1>1 DEF IInv, TypeInv
  <2> QED
    BY <1>0, <2>1, <2>2 DEF IInv, TypeInv
<1>3. HeapInv'
  <2>1. Known(s)' = Known(s) \cup {p}
    BY <1>0, <1>1 DEF Known, With, IInv, TypeInv
  <2>2. \A u \in Stats \ {s} : Known(u)' = Known(u)
    BY <1>0 DEF Known, IInv, TypeInv
  <2> QED
    BY <1>0, <1>1, <2>1, <2>2 DEF IInv, TypeInv, HeapInv
<1>4. DetectedBoundsGrowth'
  BY <1>0, <1>1 DEF IInv, TypeInv, DetectedBoundsGrowth
<1> QED
  BY <1>0, <1>2, <1>3, <1>4, ObjectsFrame DEF IInv

\* The counters have moved and the allocation has thrown.
LEMMA StepAllocateThrows ==
  ASSUME IInv, NEW a \in Allocators, NEW sz \in Sizes,
         NEW s, s = alloc_stats_[a], AllocateThrows(a, sz)
  PROVE  IInv'
<1> USE AllocatorAssumption
<1>0. /\ Running /\ Exists(a) /\ sz \in Int
      /\ alloc_count' = [alloc_count EXCEPT ![s] = @ + sz]
      /\ alloc_detected' = [alloc_detected EXCEPT ![s] = @ + sz]
      /\ heap \subseteq heap' /\ (heap' \subseteq Ptrs \/ heap' = heap)
      /\ exhausted' = TRUE
      /\ UNCHANGED <<alloc_stats_, live, ref_count, ptrs, at_reset, aborted>>
  BY DEF AllocateThrows, Count, IInv, TypeInv
<1>1. s \in live /\ s \in Stats
  BY <1>0, HeldIsLive
<1>2. TypeInv'
  <2>1. alloc_count' \in [Stats -> Int] /\ alloc_detected' \in [Stats -> Int]
    BY <1>0, <1>1 DEF IInv, TypeInv
  <2> QED
    BY <1>0, <2>1 DEF IInv, TypeInv
<1>3. HeapInv'
  BY <1>0 DEF IInv, HeapInv, Known
<1>4. DetectedBoundsGrowth'
  BY <1>0, <1>1 DEF IInv, TypeInv, DetectedBoundsGrowth
<1> QED
  BY <1>0, <1>2, <1>3, <1>4, ObjectsFrame DEF IInv

\* A block goes back to the statistics that know it.
LEMMA StepDeallocate ==
  ASSUME IInv, NEW a \in Allocators, NEW sz \in Sizes, NEW p \in Ptrs,
         NEW s, s = alloc_stats_[a], deallocate(a, p, sz)
  PROVE  IInv'
<1> USE AllocatorAssumption
<1>0. /\ Running /\ Exists(a) /\ p \in Known(s) /\ sz \in Nat
      /\ alloc_count' = [alloc_count EXCEPT ![s] = @ - sz]
      /\ heap' = heap \ {p}
      /\ ptrs' = [ptrs EXCEPT ![s] = Without(@, p)]
      /\ UNCHANGED <<alloc_stats_, live, ref_count, alloc_detected,
                     at_reset, exhausted, aborted>>
  BY DEF deallocate, IsKnown, Known
<1>1. s \in live /\ s \in Stats
  BY <1>0, HeldIsLive
<1>2. TypeInv'
  <2>1. alloc_count' \in [Stats -> Int]
    BY <1>0, <1>1 DEF IInv, TypeInv
  <2>2. ptrs' = [u \in Stats |-> ptrs'[u]]
    BY <1>0, <1>1 DEF IInv, TypeInv
  <2> QED
    BY <1>0, <2>1, <2>2 DEF IInv, TypeInv
<1>3. HeapInv'
  <2>1. Known(s)' = Known(s) \ {p}
    BY <1>0, <1>1 DEF Known, Without, IInv, TypeInv
  <2>2. \A u \in Stats \ {s} : Known(u)' = Known(u)
    BY <1>0 DEF Known, IInv, TypeInv
  <2> QED
    BY <1>0, <1>1, <2>1, <2>2 DEF IInv, TypeInv, HeapInv
<1>4. DetectedBoundsGrowth'
  BY <1>0, <1>1 DEF IInv, TypeInv, DetectedBoundsGrowth
<1> QED
  BY <1>0, <1>2, <1>3, <1>4, ObjectsFrame DEF IInv

\* The detection of allocations starts again.
LEMMA StepReset ==
  ASSUME IInv, NEW a \in Allocators,
         NEW s, s = alloc_stats_[a], reset_alloc_detected(a)
  PROVE  IInv'
<1> USE AllocatorAssumption
<1>0. /\ Running /\ Exists(a)
      /\ alloc_detected' = [alloc_detected EXCEPT ![s] = 0]
      /\ at_reset' = [at_reset EXCEPT ![s] = alloc_count[s]]
      /\ UNCHANGED <<alloc_stats_, live, ref_count, alloc_count, ptrs,
                     heap, exhausted, aborted>>
  BY DEF reset_alloc_detected
<1>1. s \in live /\ s \in Stats
  BY <1>0, HeldIsLive
<1>2. TypeInv'
  <2>1. alloc_detected' \in [Stats -> Int] /\ at_reset' \in [Stats -> Int]
    BY <1>0, <1>1 DEF IInv, TypeInv
  <2> QED
    BY <1>0, <2>1 DEF IInv, TypeInv
<1>3. HeapInv'
  BY <1>0 DEF IInv, HeapInv, Known
<1>4. DetectedBoundsGrowth'
  BY <1>0, <1>1 DEF IInv, TypeInv, DetectedBoundsGrowth
<1> QED
  BY <1>0, <1>2, <1>3, <1>4, ObjectsFrame DEF IInv

\* A step that changes nothing: a refused deallocation, the aborted program, or a
\* stutter.
LEMMA StepStutter ==
  ASSUME IInv, UNCHANGED vars
  PROVE  IInv'
<1>1. UNCHANGED accounts /\ UNCHANGED <<alloc_stats_, live, ref_count, aborted>>
  BY DEF vars, accounts
<1>2. TypeInv'
  BY DEF IInv, TypeInv, vars
<1> QED
  BY <1>1, <1>2, AccountsFrame, ObjectsFrame DEF IInv

-----------------------------------------------------------------------------
(* The theorems.                                                                *)

\* Every call an allocator takes preserves the invariant.
LEMMA NextIInv == IInv /\ [Next]_vars => IInv'
<1> SUFFICES ASSUME IInv, [Next]_vars PROVE IInv'
  OBVIOUS
<1>1. ASSUME NEW a \in Allocators, NEW s \in Stats, DefaultConstruct(a, s)
      PROVE  IInv'
  BY <1>1, StepDefaultConstruct
<1>2. ASSUME NEW a \in Allocators, NEW b \in Allocators,
             CopyConstruct(a, b) \/ Assign(a, b) \/ swap(a, b)
      PROVE  IInv'
  BY <1>2, StepCopyConstruct, StepAssign, StepSwap
<1>3. ASSUME NEW a \in Allocators, Destroy(a)
      PROVE  IInv'
  BY <1>3, StepDestroy
<1>4. ASSUME NEW a \in Allocators, NEW sz \in Sizes, NEW p \in Ptrs,
             allocate(a, sz, p) \/ deallocate(a, p, sz) \/ DeallocateThrows(a, p, sz)
      PROVE  IInv'
  BY <1>4, StepAllocate, StepDeallocate, StepStutter DEF DeallocateThrows
<1>5. ASSUME NEW a \in Allocators, NEW sz \in Sizes, AllocateThrows(a, sz)
      PROVE  IInv'
  BY <1>5, StepAllocateThrows
<1>6. ASSUME NEW a \in Allocators, reset_alloc_detected(a)
      PROVE  IInv'
  BY <1>6, StepReset
<1>7. CASE Aborted \/ UNCHANGED vars
  BY <1>7, StepStutter DEF Aborted
<1> QED
  BY <1>1, <1>2, <1>3, <1>4, <1>5, <1>6, <1>7 DEF Next, Handles, Blocks

\* The invariant holds in every state.
THEOREM Invariance == Spec => []IInv
  BY InitIInv, NextIInv, PTL DEF Spec

\* However objects are copied, assigned, swapped and destroyed, the count of
\* references of test_allocator (30-46, 82-89) is the number of objects.
THEOREM ReferencesExact == Spec => []RefCountExact
<1>1. IInv => RefCountExact
  BY DEF IInv
<1> QED
  BY <1>1, Invariance, PTL

\* No object refers to deleted statistics, and statistics nobody refers to are
\* deleted (84-87).
THEOREM NoDanglingStats == Spec => []StatsLiveWhileHeld
<1>1. IInv => StatsLiveWhileHeld
  BY DEF IInv
<1> QED
  BY <1>1, Invariance, PTL

\* With asserts, blocks that are never given back end the run: the last allocator
\* object cannot go while its statistics know a block (85).
THEOREM LeaksNoticed == Spec => []NoLeakGoesUnnoticed
<1>1. IInv => NoLeakGoesUnnoticed
  <2> SUFFICES ASSUME IInv, Running, ~ NDEBUG, ~ exhausted,
                      \A a \in Allocators : ~ Exists(a)
               PROVE  heap = {}
    BY DEF NoLeakGoesUnnoticed
  <2>1. \A s \in Stats : Holders(s) = {}
    BY AllocatorAssumption DEF Holders, Exists
  <2>2. live = {}
    BY <2>1 DEF IInv, TypeInv, StatsLiveWhileHeld
  <2> QED
    BY <2>2 DEF IInv, HeapInv
<1> QED
  BY <1>1, Invariance, PTL

\* get_alloc_detected() never understates what was allocated since the reset
\* (51-52, 73-74).
THEOREM DetectionSound == Spec => []DetectedBoundsGrowth
<1>1. IInv => DetectedBoundsGrowth
  BY DEF IInv
<1> QED
  BY <1>1, Invariance, PTL

-----------------------------------------------------------------------------
(* The elements counted.                                                        *)

\* What is counted is what the known blocks hold; the counter is ahead once an
\* allocation has thrown.
CountInv ==
  \A s \in live :
    /\ \A p \in Known(s) : ptrs[s][p] \in Nat
    /\ IsFiniteSet(Elements(ptrs[s]))
    /\ alloc_count[s] >= Cardinality(Elements(ptrs[s]))
    /\ ~ exhausted => alloc_count[s] = Cardinality(Elements(ptrs[s]))

\* The elements of a block.
LEMMA BlockSize ==
  ASSUME NEW p, NEW sz \in Nat
  PROVE  IsFiniteSet({p} \X (1 .. sz)) /\ Cardinality({p} \X (1 .. sz)) = sz
<1>1. IsFiniteSet({p}) /\ Cardinality({p}) = 1
  BY FS_Singleton
<1>2. IsFiniteSet(1 .. sz) /\ Cardinality(1 .. sz) = sz
  BY FS_Interval
<1>3. /\ IsFiniteSet({p} \X (1 .. sz))
      /\ Cardinality({p} \X (1 .. sz)) = Cardinality({p}) * Cardinality(1 .. sz)
  BY <1>1, <1>2, FS_Product
<1> QED
  BY <1>1, <1>2, <1>3

\* Two sets that share nothing are counted apart.
LEMMA DisjointUnion ==
  ASSUME NEW S, NEW T, IsFiniteSet(S), IsFiniteSet(T), S \cap T = {}
  PROVE  IsFiniteSet(S \cup T) /\ Cardinality(S \cup T) = Cardinality(S) + Cardinality(T)
<1>1. Cardinality(S) \in Nat /\ Cardinality(T) \in Nat /\ Cardinality(S \cap T) = 0
  BY FS_CardinalityType, FS_EmptySet
<1>2. /\ IsFiniteSet(S \cup T)
      /\ Cardinality(S \cup T) = Cardinality(S) + Cardinality(T) - Cardinality(S \cap T)
  BY FS_Union
<1> QED
  BY <1>1, <1>2

\* Nothing is counted of no blocks.
LEMMA NoElements == IsFiniteSet(Elements(NoBlocks)) /\ Cardinality(Elements(NoBlocks)) = 0
<1>1. Elements(NoBlocks) = {}
  BY DEF Elements, NoBlocks
<1> QED
  BY <1>1, FS_EmptySet

\* One block more.
LEMMA ElementsWith ==
  ASSUME NEW f, NEW p, p \notin DOMAIN f, NEW sz \in Nat, IsFiniteSet(Elements(f))
  PROVE  /\ IsFiniteSet(Elements(With(f, p, sz)))
         /\ Cardinality(Elements(With(f, p, sz))) = Cardinality(Elements(f)) + sz
<1> DEFINE block == {p} \X (1 .. sz)
           g == With(f, p, sz)
<1>1. DOMAIN g = DOMAIN f \cup {p} /\ g[p] = sz /\ \A q \in DOMAIN f : g[q] = f[q]
  BY DEF With
<1> HIDE DEF g
<1>2. Elements(g) = Elements(f) \cup block
  BY <1>1 DEF Elements
<1>3. Elements(f) \cap block = {}
  BY DEF Elements
<1>4. IsFiniteSet(block) /\ Cardinality(block) = sz
  BY BlockSize
<1> HIDE DEF block
<1> QED
  BY <1>2, <1>3, <1>4, DisjointUnion DEF g

\* One block less.
LEMMA ElementsWithout ==
  ASSUME NEW f, NEW p \in DOMAIN f, f[p] \in Nat, IsFiniteSet(Elements(f))
  PROVE  /\ IsFiniteSet(Elements(Without(f, p)))
         /\ Cardinality(Elements(f)) = Cardinality(Elements(Without(f, p))) + f[p]
<1> DEFINE block == {p} \X (1 .. f[p])
           g == Without(f, p)
<1>1. DOMAIN g = DOMAIN f \ {p} /\ \A q \in DOMAIN g : g[q] = f[q]
  BY DEF Without
<1> HIDE DEF g
<1>2. Elements(f) = Elements(g) \cup block
  BY <1>1 DEF Elements
<1>3. Elements(g) \cap block = {}
  BY <1>1 DEF Elements
<1>4. IsFiniteSet(block) /\ Cardinality(block) = f[p]
  BY BlockSize
<1> HIDE DEF block
<1>5. IsFiniteSet(Elements(g))
  BY <1>2, FS_Subset
<1> QED
  BY <1>2, <1>3, <1>4, <1>5, DisjointUnion DEF g

\* Statistics whose account a step leaves alone are counted as before.
LEMMA SameCount ==
  ASSUME CountInv, NEW s \in live, ptrs'[s] = ptrs[s], alloc_count'[s] = alloc_count[s],
         exhausted' = exhausted
  PROVE  /\ \A p \in Known(s)' : ptrs'[s][p] \in Nat
         /\ IsFiniteSet(Elements(ptrs'[s]))
         /\ alloc_count'[s] >= Cardinality(Elements(ptrs'[s]))
         /\ ~ exhausted' => alloc_count'[s] = Cardinality(Elements(ptrs'[s]))
  BY DEF CountInv, Known

\* New statistics count nothing yet.
LEMMA CountDefaultConstruct ==
  ASSUME IInv, CountInv, NEW a \in Allocators, NEW s \in Stats, DefaultConstruct(a, s)
  PROVE  CountInv'
<1>1. /\ ptrs'[s] = NoBlocks /\ alloc_count'[s] = 0 /\ exhausted' = exhausted
      /\ live' = live \cup {s} /\ s \notin live
      /\ \A t \in Stats \ {s} : ptrs'[t] = ptrs[t] /\ alloc_count'[t] = alloc_count[t]
  BY DEF DefaultConstruct, IInv, TypeInv
<1>2. Known(s)' = {}
  BY <1>1 DEF Known, NoBlocks
<1>3. \A t \in live : /\ \A p \in Known(t)' : ptrs'[t][p] \in Nat
                      /\ IsFiniteSet(Elements(ptrs'[t]))
                      /\ alloc_count'[t] >= Cardinality(Elements(ptrs'[t]))
                      /\ ~ exhausted' => alloc_count'[t] = Cardinality(Elements(ptrs'[t]))
  BY <1>1, SameCount DEF IInv, TypeInv
<1> QED
  BY <1>1, <1>2, <1>3, NoElements DEF CountInv

\* Giving a reference up changes no account but those of statistics deleted.
LEMMA CountReleased ==
  ASSUME IInv, CountInv, NEW s, NEW n, Release(s, n)
  PROVE  CountInv'
<1>1. /\ live' \subseteq live /\ exhausted' = exhausted
      /\ \A t \in live' : ptrs'[t] = ptrs[t] /\ alloc_count'[t] = alloc_count[t]
  <2>1. CASE UNCHANGED live /\ UNCHANGED accounts
    BY <2>1 DEF accounts
  <2>2. CASE /\ live' = live \ {s}
             /\ alloc_count' = [alloc_count EXCEPT ![s] = 0]
             /\ ptrs' = [ptrs EXCEPT ![s] = NoBlocks]
             /\ UNCHANGED exhausted
    BY <2>2 DEF IInv, TypeInv
  <2> QED
    BY <2>1, <2>2 DEF Release, Drop
<1> QED
  BY <1>1, SameCount DEF CountInv

LEMMA CountAllocate ==
  ASSUME IInv, CountInv, NEW a \in Allocators, NEW sz \in Sizes, NEW p \in Ptrs,
         NEW s, s = alloc_stats_[a], allocate(a, sz, p)
  PROVE  CountInv'
<1> USE AllocatorAssumption
<1>0. /\ Exists(a) /\ Running /\ p \notin heap /\ sz \in Nat
      /\ alloc_count' = [alloc_count EXCEPT ![s] = @ + sz]
      /\ ptrs' = [ptrs EXCEPT ![s] = With(@, p, sz)]
      /\ UNCHANGED <<live, exhausted>>
  BY DEF allocate, Count
<1>1. s \in live /\ s \in Stats /\ p \notin Known(s)
  BY <1>0, HeldIsLive DEF IInv, HeapInv
<1>2. /\ ptrs'[s] = With(ptrs[s], p, sz) /\ alloc_count'[s] = alloc_count[s] + sz
      /\ alloc_count[s] \in Int
      /\ \A t \in Stats \ {s} : ptrs'[t] = ptrs[t] /\ alloc_count'[t] = alloc_count[t]
  BY <1>0, <1>1 DEF IInv, TypeInv
<1>3. /\ IsFiniteSet(Elements(ptrs'[s]))
      /\ Cardinality(Elements(ptrs'[s])) = Cardinality(Elements(ptrs[s])) + sz
      /\ Cardinality(Elements(ptrs[s])) \in Nat
  <2>1. IsFiniteSet(Elements(ptrs[s]))
    BY <1>1 DEF CountInv
  <2> QED
    BY <1>0, <1>1, <1>2, <2>1, ElementsWith, FS_CardinalityType DEF Known
<1>4. \A q \in Known(s)' : ptrs'[s][q] \in Nat
  BY <1>0, <1>1, <1>2 DEF CountInv, Known, With
<1>5. /\ alloc_count'[s] >= Cardinality(Elements(ptrs'[s]))
      /\ ~ exhausted' => alloc_count'[s] = Cardinality(Elements(ptrs'[s]))
  BY <1>0, <1>1, <1>2, <1>3 DEF CountInv
<1>6. \A t \in live \ {s} : ptrs'[t] = ptrs[t] /\ alloc_count'[t] = alloc_count[t]
  BY <1>2 DEF IInv, TypeInv
<1> QED
  BY <1>0, <1>3, <1>4, <1>5, <1>6, SameCount DEF CountInv

LEMMA CountAllocateThrows ==
  ASSUME IInv, CountInv, NEW a \in Allocators, NEW sz \in Sizes,
         NEW s, s = alloc_stats_[a], AllocateThrows(a, sz)
  PROVE  CountInv'
<1> USE AllocatorAssumption
<1>0. /\ Exists(a) /\ Running /\ sz \in Nat /\ exhausted' = TRUE
      /\ alloc_count' = [alloc_count EXCEPT ![s] = @ + sz]
      /\ UNCHANGED <<live, ptrs>>
  BY DEF AllocateThrows, Count
<1>1. s \in live /\ s \in Stats
  BY <1>0, HeldIsLive
<1>2. \A t \in live : alloc_count'[t] >= alloc_count[t] /\ alloc_count[t] \in Int
                      /\ alloc_count'[t] \in Int
  BY <1>0, <1>1 DEF IInv, TypeInv
<1>3. ASSUME NEW t \in live
      PROVE  /\ \A p \in Known(t)' : ptrs'[t][p] \in Nat
             /\ IsFiniteSet(Elements(ptrs'[t]))
             /\ alloc_count'[t] >= Cardinality(Elements(ptrs'[t]))
  <2>1. IsFiniteSet(Elements(ptrs[t])) /\ Cardinality(Elements(ptrs[t])) \in Nat
    BY FS_CardinalityType DEF CountInv
  <2> QED
    BY <1>0, <1>2, <2>1 DEF CountInv, Known
<1> QED
  BY <1>0, <1>3 DEF CountInv

LEMMA CountDeallocate ==
  ASSUME IInv, CountInv, NEW a \in Allocators, NEW sz \in Sizes, NEW p \in Ptrs,
         NEW s, s = alloc_stats_[a], deallocate(a, p, sz)
  PROVE  CountInv'
<1> USE AllocatorAssumption
<1>0. /\ Exists(a) /\ Running /\ p \in Known(s) /\ ptrs[s][p] = sz /\ sz \in Nat
      /\ alloc_count' = [alloc_count EXCEPT ![s] = @ - sz]
      /\ ptrs' = [ptrs EXCEPT ![s] = Without(@, p)]
      /\ UNCHANGED <<live, exhausted>>
  BY DEF deallocate, IsKnown, Known
<1>1. s \in live /\ s \in Stats
  BY <1>0, HeldIsLive
<1>2. /\ ptrs'[s] = Without(ptrs[s], p) /\ alloc_count'[s] = alloc_count[s] - sz
      /\ alloc_count[s] \in Int
      /\ \A t \in Stats \ {s} : ptrs'[t] = ptrs[t] /\ alloc_count'[t] = alloc_count[t]
  BY <1>0, <1>1 DEF IInv, TypeInv
<1>3. /\ IsFiniteSet(Elements(ptrs'[s]))
      /\ Cardinality(Elements(ptrs[s])) = Cardinality(Elements(ptrs'[s])) + sz
      /\ Cardinality(Elements(ptrs'[s])) \in Nat
  <2>1. IsFiniteSet(Elements(ptrs[s]))
    BY <1>1 DEF CountInv
  <2> QED
    BY <1>0, <1>1, <1>2, <2>1, ElementsWithout, FS_CardinalityType DEF Known
<1>4. \A q \in Known(s)' : ptrs'[s][q] \in Nat
  BY <1>0, <1>1, <1>2 DEF CountInv, Known, Without
<1>5. /\ alloc_count'[s] >= Cardinality(Elements(ptrs'[s]))
      /\ ~ exhausted' => alloc_count'[s] = Cardinality(Elements(ptrs'[s]))
  BY <1>0, <1>1, <1>2, <1>3 DEF CountInv
<1>6. \A t \in live \ {s} : ptrs'[t] = ptrs[t] /\ alloc_count'[t] = alloc_count[t]
  BY <1>2 DEF IInv, TypeInv
<1> QED
  BY <1>0, <1>3, <1>4, <1>5, <1>6, SameCount DEF CountInv

\* Every other step leaves the accounts of live statistics alone.
LEMMA CountFrame ==
  ASSUME CountInv, UNCHANGED <<live, ptrs, alloc_count, exhausted>>
  PROVE  CountInv'
  BY DEF CountInv, Known

LEMMA NextCountInv == IInv /\ CountInv /\ [Next]_vars => CountInv'
<1> SUFFICES ASSUME IInv, CountInv, [Next]_vars PROVE CountInv'
  OBVIOUS
<1>1. ASSUME NEW a \in Allocators, NEW s \in Stats, DefaultConstruct(a, s)
      PROVE  CountInv'
  BY <1>1, CountDefaultConstruct
<1>2. ASSUME NEW a \in Allocators, NEW b \in Allocators, CopyConstruct(a, b) \/ swap(a, b)
      PROVE  CountInv'
  BY <1>2, CountFrame DEF CopyConstruct, swap, accounts
<1>3. ASSUME NEW a \in Allocators, NEW b \in Allocators, Assign(a, b) \/ Destroy(a)
      PROVE  CountInv'
  BY <1>3, CountReleased DEF Assign, Destroy
<1>4. ASSUME NEW a \in Allocators, NEW sz \in Sizes, NEW p \in Ptrs,
             allocate(a, sz, p) \/ deallocate(a, p, sz)
      PROVE  CountInv'
  BY <1>4, CountAllocate, CountDeallocate
<1>5. ASSUME NEW a \in Allocators, NEW sz \in Sizes, AllocateThrows(a, sz)
      PROVE  CountInv'
  BY <1>5, CountAllocateThrows
<1>6. ASSUME NEW a \in Allocators, reset_alloc_detected(a)
      PROVE  CountInv'
  BY <1>6, CountFrame DEF reset_alloc_detected
<1>7. CASE UNCHANGED vars
  BY <1>7, CountFrame DEF vars
<1> QED
  BY <1>1, <1>2, <1>3, <1>4, <1>5, <1>6, <1>7
  DEF Next, Handles, Blocks, Aborted, DeallocateThrows

\* Each block is known to one set of statistics, which counts its elements until it
\* has accepted it back (50-63).
THEOREM BlocksCounted == Spec => []BlocksAccounted
<1>1. Init => CountInv
  BY DEF Init, CountInv
<1>2. IInv /\ CountInv => BlocksAccounted
  BY DEF IInv, HeapInv, Known, CountInv, BlocksAccounted
<1> QED
  BY <1>1, <1>2, Invariance, NextCountInv, PTL DEF Spec

=============================================================================
