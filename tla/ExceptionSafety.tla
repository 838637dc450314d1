--------------------------- MODULE ExceptionSafety ---------------------------
(***************************************************************************)
(* The drivers of exception/safety.h: basic_safety, propagation_consistent  *)
(* and generation_prohibited call the member functions of a container and   *)
(* force an error at one throw point after another, with the instruments of *)
(* ThrowAllocator.  The container is a node-based one of uxs (external), by *)
(* the throw points its functions pass, correct or faulty.                  *)
(***************************************************************************)
EXTENDS ThrowAllocator, SequencesExt

CONSTANTS
  Kinds,        \* "list", "set": which traits<> apply
  Populations,  \* elements populate may draw, from 0 to 100
  Faults        \* what may be wrong with the container

ASSUME SafetyAssumption ==
  /\ Kinds \subseteq {"list", "set"}
  /\ Populations \subseteq Nat /\ \A n \in Populations : 2 * n <= Never
  /\ Nodes = 1..Cardinality(Nodes)

VARIABLES
  driver,       \* which of the three drivers runs
  Kind,         \* the container under test
  fault,        \* what is wrong with the container
  pc,           \* where the driver is
  at,           \* index of the function being tried
  step,         \* i, __step
  stage,        \* throw points of the call that are passed
  container,    \* nodes of the container the functions act on
  control,      \* nodes of container_control
  others,       \* _M_other of swap, assign_operator and move_assign_operator
  building,     \* nodes a call has taken and not linked
  made,         \* the static of generate_unique has been constructed
  copied,       \* history: container as the driver copied it
  forced,       \* history: kinds of throw points forced in this function
  untried,      \* history: throw points a function passed and was never failed at
  faulted       \* history: the fault has taken effect

where == <<driver, Kind, fault, at, made>>
contents == <<container, control, others>>
history == <<copied, forced, untried, faulted>>
safetyVars == <<vars, where, pc, step, stage, contents, building, history>>

Detects == [basic |-> {"leaks", "keeps", "forgets"}, consistent |-> {"keeps"},
            prohibited |-> {"throws"}]

\* A mutant for PopsSomething: the removals come before the insertions.
BasicOrderRemovesFirst ==
  <<"iterator_ops", "const_iterator_ops", "erase_point", "erase_range",
    "pop_front", "pop_back", "insert_point", "emplace", "emplace_point",
    "emplace_front", "emplace_back", "push_front", "push_back", "rehash",
    "swap", "assign_operator", "move_assign_operator", "clear">>

BasicOrder ==
  <<"iterator_ops", "const_iterator_ops", "erase_point", "erase_range",
    "insert_point", "emplace", "emplace_point", "emplace_front",
    "emplace_back", "pop_front", "pop_back", "push_front", "push_back",
    "rehash", "swap", "assign_operator", "move_assign_operator", "clear">>

ConsistentOrder ==
  <<"emplace", "emplace_point", "emplace_front", "emplace_back",
    "push_front", "push_back", "insert_point", "rehash">>

ProhibitedOrder ==
  <<"erase_point", "erase_range", "pop_front", "pop_back", "iterator_ops",
    "const_iterator_ops", "swap", "clear">>

Order == [basic |-> BasicOrder, consistent |-> ConsistentOrder,
          prohibited |-> ProhibitedOrder]

f == Order[driver][at]

\* The functions that are not empty for the container, by its traits<>.
Inserts == IF Kind = "list"
             THEN {"insert_point", "emplace_point", "emplace_front",
                   "emplace_back", "push_front", "push_back"}
             ELSE {"insert_point", "emplace", "emplace_point"}
Pops == IF Kind = "list" THEN {"pop_front", "pop_back"} ELSE {}
Removes == {"erase_point", "erase_range"} \cup Pops
             \cup IF Kind = "set" THEN {"clear"} ELSE {}

-----------------------------------------------------------------------------
(* The container (external): the throw points of each function, in order.   *)

\* n nodes, allocated and constructed one after the other.
Pair(n) == [k \in 1..2 * n |-> IF k % 2 = 1 THEN "alloc" ELSE "cons"]

Own == {"alloc", "cons", "cmp", "assign"}

\* An insertion: the static is incremented and copied, a set looks for the place.
Inserting == IF Kind = "list" THEN <<"inc", "copy", "alloc", "cons">>
             ELSE <<"inc", "copy", "cmp", "alloc", "cons">>

\* The static that generate_unique returns is constructed by the first call.
generate_unique(points) == IF made THEN points ELSE <<"static">> \o points

Points ==
  CASE f \in Inserts -> generate_unique(Inserting)
    [] f = "assign_operator" ->
         LET m == Len(container)  n == Len(others[f])
             Common == IF Kind = "list" THEN (IF m < n THEN m ELSE n) ELSE 0
         IN  Pair(m) \o [k \in 1..Common |-> "assign"] \o Pair(n - Common)
    [] f \in Removes \cup {"swap"} /\ fault = "throws" -> <<"copy">>
    [] OTHER -> << >>

\* Whether k conditions are passed outside of any call without an error.
Pass(k) == limit \notin count..(count + k - 1)

\* The k lowest addresses that are free.
Fresh(k) == SubSeq(SelectSeq([p \in 1..Cardinality(Nodes) |-> p],
                             LAMBDA p : p \notin DOMAIN heap), 1, k)

WithAll(g, S, v) == [p \in DOMAIN g \cup S |-> IF p \in S THEN v ELSE g[p]]

\* std::allocator gives addresses that are free, each once.
Take(ns) ==
  /\ IsInjective(ns) /\ Range(ns) \subseteq Nodes \ DOMAIN heap
  /\ heap' = WithAll(heap, Range(ns), 1)
  /\ map_alloc' = WithAll(map_alloc, Range(ns), <<label, 1>>)
  /\ map_construct' = WithAll(map_construct, Range(ns), label)

Free(S) ==
  /\ heap' = Without(heap, S)
  /\ map_alloc' = Without(map_alloc, S)
  /\ map_construct' = Without(map_construct, S)

-----------------------------------------------------------------------------
SafetyInit ==
  /\ Init
  /\ driver \in DOMAIN Order
  /\ Kind \in Kinds /\ fault \in Faults
  /\ pc = "setup" /\ at = 1 /\ step = 1 /\ stage = 0
  /\ container = << >> /\ control = << >>
  /\ others = [g \in {"swap", "assign_operator", "move_assign_operator"} |-> << >>]
  /\ building = << >> /\ made \in BOOLEAN
  /\ copied = << >> /\ forced = {} /\ untried = {} /\ faulted = FALSE

\* condition_type::never_adjustor off; populate of every container.  The
\* random_condition of generation_prohibited has no count: see Forces.
Setup ==
  /\ pc = "setup"
  /\ IF driver = "prohibited" THEN UNCHANGED condition ELSE Adjust("never", 0)
  /\ \E n, o \in Populations :
       LET ns == Fresh(n + IF driver = "consistent" THEN 0 ELSE 3 * o)
           Other(k) == SubSeq(ns, n + (k - 1) * o + 1, n + k * o)
           ms == SubSeq(ns, 1, n)
       IN  /\ Take(ns)
           /\ IF driver = "consistent"
                THEN control' = ms /\ UNCHANGED <<container, others>>
                ELSE /\ container' = ms
                     /\ others' = [swap |-> Other(1), assign_operator |-> Other(2),
                                   move_assign_operator |-> Other(3)]
                     /\ UNCHANGED control
  /\ pc' = "begin"
  /\ UNCHANGED <<label, outcome, where, step, stage, building, history>>

\* The head of the do loop of run_steps_to_limit; a plain call in
\* generation_prohibited, which calls no erase_point or pop where it is empty.
Begin ==
  /\ pc = "begin" /\ at <= Len(Order[driver])
  /\ stage' = 0
  /\ CASE driver = "basic" ->
            /\ label' = step
            /\ Adjust("limit", step)
            /\ pc' = IF container # << >> THEN "call"
                     ELSE IF f = "erase_point" THEN "failed"
                     ELSE IF f \in Pops THEN "undefined" ELSE "call"
            /\ UNCHANGED <<map_alloc, map_construct, heap, container, copied, at>>
       [] driver = "consistent" ->
            IF Pass(2 * Len(control))
              THEN LET ns == Fresh(Len(control))
                   IN  /\ Take(ns)
                       /\ container' = ns /\ copied' = ns
                       /\ Adjust("limit", step)
                       /\ pc' = "call"
                       /\ UNCHANGED <<label, at>>
              ELSE pc' = "failed" /\ UNCHANGED <<condition, annotations, heap, container, copied, at>>
       [] driver = "prohibited" ->
            /\ IF f \in {"erase_point"} \cup Pops /\ container = << >>
                 THEN pc' = "begin" /\ at' = at + 1
                 ELSE pc' = "call" /\ at' = at
            /\ UNCHANGED <<condition, annotations, heap, container, copied>>
  /\ UNCHANGED <<outcome, driver, Kind, fault, made, step, control, others, building, forced, untried, faulted>>

\* The random condition of generation_prohibited is always met.
Forces == IF driver = "prohibited" THEN TRUE ELSE Throws

Point ==
  /\ pc = "call" /\ stage < Len(Points)
  /\ LET k == Points[stage + 1] IN
       IF driver = "prohibited"
         THEN outcome' = "forced_error" /\ UNCHANGED <<condition, annotations, heap, building>>
         ELSE CASE k = "alloc" -> LET p == Fresh(1)[1] IN
                     /\ p \in Nodes /\ allocate(p, 1)
                     /\ building' = IF Throws THEN building ELSE Append(building, p)
                [] k = "cons" -> construct(Last(building)) /\ UNCHANGED building
                [] OTHER -> Value /\ UNCHANGED building
  /\ forced' = IF Forces THEN forced \cup {Points[stage + 1]} ELSE forced
  /\ stage' = IF Forces \/ Points[stage + 1] = "static" THEN stage ELSE stage + 1
  /\ made' = (made \/ (Points[stage + 1] = "static" /\ ~ Forces))
  /\ pc' = IF Forces THEN "thrown" ELSE "call"
  /\ UNCHANGED <<driver, Kind, fault, at, step, contents, copied, untried, faulted>>

\* The container undoes what the call has built, the adjustor restores.
Unwind ==
  /\ pc = "thrown"
  /\ LET node == Points[stage + 1] = "cons"
         kept == IF fault = "keeps" /\ node /\ f \in Inserts THEN building ELSE << >>
         lost == IF fault = "leaks" /\ node THEN {Last(building)} ELSE {}
     IN  /\ container' = container \o kept
         /\ Free(Range(building) \ (lost \cup Range(kept)))
         /\ faulted' = (faulted \/ kept # << >> \/ lost # {} \/ f \in Removes \cup {"swap"})
  /\ building' = << >>
  /\ IF driver = "prohibited"
       THEN pc' = "failed" /\ UNCHANGED condition
       ELSE pc' = "caught" /\ Restore
  /\ UNCHANGED <<label, outcome, where, step, stage, control, others, copied, forced, untried>>

\* A mutant for Terminates: the step that failed is tried again.
NextTrySame == step

NextTry == step + 1

\* Two containers that were equal are equal; the elements are compared with
\* an operator that may throw.
compare == container = copied /\ Pass(Len(container))

\* catch (const forced_error&): a.check(__step), compare(control, test).
Caught ==
  /\ pc = "caught"
  /\ IF driver = "basic"
       THEN /\ pc' = IF Labelled(step) = {} THEN "begin" ELSE "failed"
            /\ UNCHANGED <<map_alloc, map_construct, heap, container>>
       ELSE /\ pc' = IF compare THEN "begin" ELSE "failed"
            /\ Free(Range(container))
            /\ container' = << >>
  /\ step' = NextTry
  /\ UNCHANGED <<condition, label, outcome, where, stage, control, others, building, history>>

\* The positions the functors take: where a node goes, which nodes go.
push_front(s) == s = 0
emplace_front(s) == s = 0
push_back(s) == s = Len(container)
emplace_back(s) == s = Len(container)
insert_point(s) == s \in 0..Len(container)
emplace(s) == s \in 0..Len(container)
emplace_point(s) == s \in 0..Len(container)

erase_point(s, e) == e = s + 1
erase_range(s, e) == s <= e
pop_front(s, e) == s = 0 /\ e = 1
pop_back(s, e) == e = s + 1 /\ e = Len(container)
clear(s, e) == s = 0 /\ e = Len(container)

At(s) == CASE f = "push_front" -> push_front(s) [] f = "push_back" -> push_back(s)
           [] f = "emplace_front" -> emplace_front(s) [] f = "emplace_back" -> emplace_back(s)
           [] f = "insert_point" -> insert_point(s) [] f = "emplace" -> emplace(s)
           [] f = "emplace_point" -> emplace_point(s)
Over(s, e) == CASE f = "erase_point" -> erase_point(s, e) [] f = "erase_range" -> erase_range(s, e)
                [] f = "pop_front" -> pop_front(s, e) [] f = "pop_back" -> pop_back(s, e)
                [] f = "clear" -> clear(s, e)

InsertNode ==
  /\ \E s \in 0..Len(container) :
       /\ At(s)
       /\ container' = SubSeq(container, 1, s) \o building \o SubSeq(container, s + 1, Len(container))
  /\ UNCHANGED <<map_alloc, map_construct, heap, others>>

RemoveNodes ==
  \E s, e \in 0..Len(container) :
    /\ Over(s, e)
    /\ Free(Range(SubSeq(container, s + 1, e)))
    /\ container' = SubSeq(container, 1, s) \o SubSeq(container, e + 1, Len(container))
    /\ UNCHANGED others

swap ==
  /\ container' = others[f] /\ others' = [others EXCEPT ![f] = container]
  /\ UNCHANGED <<map_alloc, map_construct, heap>>

\* The clone that was assigned to is destroyed.
assign_operator == Free(Range(building)) /\ UNCHANGED <<container, others>>

move_assign_operator ==
  /\ container' = others[f] /\ others' = [others EXCEPT ![f] = << >>]
  /\ Free(Range(container))

\* The effect of a call that passes all its throw points.
Effect == CASE f \in Inserts -> InsertNode
            [] f \in Removes -> RemoveNodes
            [] f = "swap" -> swap
            [] f = "assign_operator" -> assign_operator
            [] f = "move_assign_operator" -> move_assign_operator
            [] OTHER -> UNCHANGED <<map_alloc, map_construct, heap, container, others>>

\* Mutants: every function starts with step 1, for NoFalseAlarm; with the step
\* the one before has come to, for ConsistentForcesAll.
NextStepOne == 1
NextStepCarried == step + 1

NextStep == IF driver = "basic" THEN step + 1 ELSE 1

\* If we get here, done: exit = true, and the next function.
Finish ==
  /\ pc = "call" /\ stage = Len(Points)
  /\ IF driver = "prohibited" THEN UNCHANGED condition ELSE Restore
  /\ IF driver = "consistent"
       THEN /\ Free(Range(container) \cup Range(building))
            /\ container' = << >> /\ UNCHANGED others
       ELSE Effect
  /\ building' = << >>
  /\ untried' = untried \cup {<<f, k>> : k \in (Range(Points) \cap Own) \ forced}
  /\ forced' = {}
  /\ at' = at + 1 /\ step' = NextStep
  /\ pc' = "begin"
  /\ UNCHANGED <<label, outcome, driver, Kind, fault, made, stage, control, copied, faulted>>

\* The end of run(): everything is destroyed, and basic_safety checks.
End ==
  /\ pc = "begin" /\ at > Len(Order[driver])
  /\ LET all == Range(container) \cup Range(control) \cup UNION {Range(others[g]) : g \in DOMAIN others}
         lost == IF fault = "forgets" /\ all # {} THEN {CHOOSE p \in all : TRUE} ELSE {}
     IN  /\ Free(all \ lost)
         /\ faulted' = (faulted \/ lost # {})
  /\ IF driver = "prohibited" THEN UNCHANGED condition ELSE Restore
  /\ pc' = IF driver = "basic" THEN "check" ELSE "passed"
  /\ container' = << >> /\ control' = << >>
  /\ others' = [g \in DOMAIN others |-> << >>]
  /\ UNCHANGED <<label, outcome, where, step, stage, building, copied, forced, untried>>

\* A mutant for FaultsNoticed: run() does not check at its end.
CheckSkipped ==
  /\ pc = "check" /\ pc' = "passed"
  /\ UNCHANGED <<vars, where, step, stage, contents, building, history>>

Check ==
  /\ pc = "check"
  /\ pc' = IF Left = {} THEN "passed" ELSE "failed"
  /\ UNCHANGED <<vars, where, step, stage, contents, building, history>>

SafetyNext == Setup \/ Begin \/ Point \/ Unwind \/ Caught \/ Finish \/ End \/ Check

SafetySpec == SafetyInit /\ [][SafetyNext]_safetyVars /\ WF_safetyVars(SafetyNext)
-----------------------------------------------------------------------------
\* A driver fails no container that keeps its promises: labels are fresh, and
\* errors are forced in the calls alone (safety.h:1001, 1151).
NoFalseAlarm == fault = "none" => pc # "failed"

\* A driver that ends well has not seen the faults it is there to notice: a
\* node lost when a value cannot be constructed or when the container is
\* destroyed, an element kept by a call that failed, a throw where none may be.
FaultsNoticed == pc = "passed" /\ fault \in Detects[driver] => ~ faulted

\* basic_safety never pops an empty container, which it does not ask
\* (safety.h:337, 352): the functions before have inserted enough.
PopsSomething == pc # "undefined"

\* Every throw point of the container a function passes is one at which
\* propagation_consistent has failed it before (safety.h:1159).
ConsistentForcesAll == driver = "consistent" => untried = {}

\* The same of basic_safety (safety.h:906: "For each member function, use
\* throw_value and throw_allocator [...] to force potential exception safety
\* errors").
BasicForcesAll == driver = "basic" => untried = {}

\* run_steps_to_limit comes to an end: some step is beyond the last throw
\* point (safety.h:1000, 1150).
Terminates == <>(pc \in {"passed", "failed"})
=============================================================================
