---------------------------- MODULE ParallelSweep ----------------------------
(***************************************************************************)
(* The parallel brute-force sweeps of src/string/cvt.cpp: six functions    *)
(* that share one loop.  Each batch hands g_proc_num iterations to as many *)
(* contexts: the first runs in the calling thread before any other starts, *)
(* the others in threads of their own; all are joined, then judged in      *)
(* order.  What an iteration does to the library under test is abstracted  *)
(* to the first case on which it misbehaves and the kinds of mismatch the  *)
(* case shows; this depends on the tested value alone.  Formatting,        *)
(* parsing and the progress display are left out.                          *)
(***************************************************************************)
EXTENDS Integers, Sequences, FiniteSets

CONSTANTS
  g_proc_num,   \* contexts of a batch: the -j option, at least 1 (main.cpp:296)
  iter_count,   \* iterations the test asks for
  bits,         \* width of the mantissa
  exhaustive,   \* a release build sweeping float: !is_debug && is float
  NCases,       \* cases one test_func call goes through
  Sweeps,       \* the sweeps considered, names of DOMAIN Table
  FaultKinds,   \* sets of mismatches a case of the library may show
  MaxFaulty     \* bound: values on which the library misbehaves

ASSUME SweepAssumption ==
  /\ g_proc_num \in Nat \ {0}
  /\ iter_count \in Nat
  /\ bits \in Nat \ {0}
  /\ exhaustive \in BOOLEAN
  /\ NCases \in Nat \ {0}
  /\ Sweeps \subseteq {"integer", "integer_locale", "fixed", "fixed_locale",
                       "sci", "hex", "roundtrip", "big_prec"}
  /\ FaultKinds \subseteq SUBSET {"format", "short", "value", "throw"}
  /\ MaxFaulty \in Nat

VARIABLES
  sweep,    \* the function that runs
  fault,    \* value of an iteration -> the case that misbehaves and how
  pc,       \* control of the calling thread
  iter,     \* the loop variable, advanced once per launched context
  proc,     \* the inner loops' variable
  drawn,    \* values drawn from the generator so far
  args,     \* context -> arguments bound for its test_func
  ctx,      \* context -> what test_func has written: result and k
  thrd,     \* context 1 .. g_proc_num - 1 -> state of its thread
  report,   \* what is printed of the first failure
  judged    \* history: iterations whose result was read and found 0

vars == <<sweep, fault, pc, iter, proc, drawn, args, ctx, thrd, report, judged>>

Procs == 0 .. g_proc_num - 1
\* Mutant: context 0 has a thread too.
WorkersWithContext0 == Procs

Workers == 1 .. g_proc_num - 1

\* Every iteration a sweep can reach: the last batch may run past iter_count.
Overrun == g_proc_num - 1
Iterations == 0 .. iter_count + Overrun - 1

-----------------------------------------------------------------------------
(* The six functions: the checks of a case, in the order they are made, with  *)
(* the result each one sets, and how the iteration's value is chosen.         *)

Check(kind, code) == [kind |-> kind, code |-> code]

bruteforce_integer(use_locale) ==
  [value |-> "drawn", draws_prec |-> FALSE, signed |-> FALSE,
   checks |-> IF use_locale
                THEN <<Check("format", 1)>>
                ELSE <<Check("format", 1), Check("short", 2), Check("value", 1)>>]

bruteforce_fp_fixed(use_locale) ==
  [value |-> IF exhaustive THEN "all" ELSE "scheduled",
   draws_prec |-> FALSE, signed |-> TRUE,
   checks |-> IF use_locale
                THEN <<Check("format", 1)>>
                ELSE <<Check("short", 2), Check("value", 2), Check("format", 1)>>]

bruteforce_fp_sci ==
  [value |-> IF exhaustive THEN "all" ELSE "scheduled",
   draws_prec |-> FALSE, signed |-> TRUE,
   checks |-> <<Check("format", 1), Check("short", 2), Check("value", 2)>>]

bruteforce_fp_hex ==
  [value |-> IF exhaustive THEN "all" ELSE "scheduled",
   draws_prec |-> FALSE, signed |-> TRUE,
   checks |-> <<Check("format", 1)>>]

bruteforce_fp_roundtrip ==
  [value |-> IF exhaustive THEN "all" ELSE "scheduled",
   draws_prec |-> FALSE, signed |-> TRUE,
   checks |-> <<Check("short", 2), Check("value", 2)>>]

bruteforce_fp_big_prec ==
  [value |-> "scheduled", draws_prec |-> TRUE, signed |-> TRUE,
   checks |-> <<Check("format", 1), Check("short", 2), Check("value", 2)>>]

Table ==
  [integer |-> bruteforce_integer(FALSE), integer_locale |-> bruteforce_integer(TRUE),
   fixed |-> bruteforce_fp_fixed(FALSE), fixed_locale |-> bruteforce_fp_fixed(TRUE),
   sci |-> bruteforce_fp_sci, hex |-> bruteforce_fp_hex,
   roundtrip |-> bruteforce_fp_roundtrip, big_prec |-> bruteforce_fp_big_prec]

-----------------------------------------------------------------------------
(* The value of an iteration.  A drawn value is known by its rank among the    *)
(* draws: the generator is seeded by default, so rank determines value.        *)

\* Iteration i of sweep s takes its mantissa from the generator.
DrawsMantissa(s, i) ==
  \/ Table[s].value = "drawn"
  \/ Table[s].value = "scheduled" /\ i > 2 * bits - 1

Draws(s, i) ==
  (IF DrawsMantissa(s, i) THEN 1 ELSE 0) + (IF Table[s].draws_prec THEN 1 ELSE 0)

\* Mutant: the mask of the mantissa lacks a value.
MantissaShortMask(s, i, d) ==
  CASE DrawsMantissa(s, i)                   -> [rank |-> d + 1]
    [] Table[s].value = "all"                -> [bits |-> i % (2^bits - 1)]
    [] Table[s].value = "scheduled" /\ i = 0 -> [bits |-> 0]
    [] OTHER                                 -> [bits |-> 2^(i - 1) % 2^bits]

\* The mantissa of iteration i when d values have been drawn before it.
Mantissa(s, i, d) ==
  CASE DrawsMantissa(s, i)                     -> [rank |-> d + 1]
    [] Table[s].value = "all"                  -> [bits |-> i % 2^bits]
    [] Table[s].value = "scheduled" /\ i = 0   -> [bits |-> 0]
    [] Table[s].value = "scheduled" /\ i \in 1 .. bits -> [bits |-> 2^(i - 1)]
    [] OTHER                                   -> [bits |-> (2^bits - 1) \div 2^(i - bits - 1)]

\* The arguments bound for test_func; prec is the rank of the precision drawn.
Args(s, i, d) ==
  [iter |-> i, mantissa |-> Mantissa(s, i, d),
   prec |-> IF Table[s].draws_prec THEN d + Draws(s, i) ELSE 0]

NoArgs == [iter |-> -1]

\* What the library is given: the sign is the parity of the iteration.
Value(s, a) ==
  [mantissa |-> a.mantissa, prec |-> a.prec,
   sign |-> IF Table[s].signed THEN a.iter % 2 ELSE 0]

\* The draws a sequential loop has made when it reaches iteration i, and the
\* arguments it would then bind.
DrawnBefore(s, i) ==
  (CASE Table[s].value = "drawn"     -> i
     [] Table[s].value = "scheduled" -> IF i > 2 * bits THEN i - 2 * bits ELSE 0
     [] OTHER                        -> 0) + (IF Table[s].draws_prec THEN i ELSE 0)

SequentialArgs(s, i) == Args(s, i, DrawnBefore(s, i))

-----------------------------------------------------------------------------
(* One case of test_func: the first check that fails sets the result.          *)

Failing(s, kinds) == {j \in DOMAIN Table[s].checks : Table[s].checks[j].kind \in kinds}

ResultOf(s, kinds) ==
  IF Failing(s, kinds) = {} THEN 0
  ELSE Table[s].checks[CHOOSE j \in Failing(s, kinds) :
                         \A l \in Failing(s, kinds) : j <= l].code

\* The mismatches the library shows on case k of value v.
Mismatches(v, k) ==
  IF v \in DOMAIN fault /\ fault[v].k = k THEN fault[v].kinds ELSE {}

\* What test_func leaves in its context when it is run to its end.
Outcome(s, v) ==
  IF v \in DOMAIN fault /\ ResultOf(s, fault[v].kinds) # 0
    THEN [result |-> ResultOf(s, fault[v].kinds), k |-> fault[v].k]
    ELSE [result |-> 0, k |-> NCases]

Throws(p) == "throw" \in Mismatches(Value(sweep, args[p]), ctx[p].k)

CaseResult(p) == ResultOf(sweep, Mismatches(Value(sweep, args[p]), ctx[p].k))

\* Mutant: a failed check does not leave the loop over the cases.
RunsCaseGoesOn(p) ==
  /\ ctx[p].k < NCases
  /\ ~ Throws(p)
  /\ ctx' = [ctx EXCEPT ![p] = IF CaseResult(p) = 0
                                 THEN [ctx[p] EXCEPT !.k = @ + 1]
                                 ELSE [result |-> CaseResult(p), k |-> ctx[p].k + 1]]

\* Mutant: the loop over the cases does not advance.
RunsCaseStuck(p) ==
  /\ ctx[p].k < NCases
  /\ ctx[p].result = 0
  /\ ~ Throws(p)
  /\ ctx' = [ctx EXCEPT ![p].result = CaseResult(p)]

\* test_func runs case ctx[p].k to its end: a failed check returns at once.
RunsCase(p) ==
  /\ ctx[p].k < NCases
  /\ ctx[p].result = 0
  /\ ~ Throws(p)
  /\ ctx' = [ctx EXCEPT ![p] = IF CaseResult(p) = 0
                                 THEN [result |-> 0, k |-> ctx[p].k + 1]
                                 ELSE [result |-> CaseResult(p), k |-> ctx[p].k]]

Returned(p) == ctx[p].k = NCases \/ ctx[p].result # 0

-----------------------------------------------------------------------------
(* The calling thread.                                                         *)

BeginBatch ==
  /\ pc = "head"
  /\ iter < iter_count
  /\ pc' = "launch"
  /\ proc' = 0
  /\ UNCHANGED <<sweep, fault, iter, drawn, args, ctx, thrd, report, judged>>

\* Mutant: no batch is started that would run past iter_count.
ReturnShort ==
  /\ pc = "head"
  /\ iter + g_proc_num > iter_count
  /\ pc' = "done"
  /\ UNCHANGED <<sweep, fault, iter, proc, drawn, args, ctx, thrd, report, judged>>

Return ==
  /\ pc = "head"
  /\ iter >= iter_count
  /\ pc' = "done"
  /\ UNCHANGED <<sweep, fault, iter, proc, drawn, args, ctx, thrd, report, judged>>

\* The value of the next iteration is chosen by the calling thread only.
Bind ==
  /\ args' = [args EXCEPT ![proc] = Args(sweep, iter, drawn)]
  /\ drawn' = drawn + Draws(sweep, iter)

\* Context 0 is served by the calling thread itself; test_func starts with
\* ctx.result = 0, which overwrites the -1 of the loop at once.
LaunchInline ==
  /\ pc = "launch"
  /\ proc = 0
  /\ Bind
  /\ ctx' = [ctx EXCEPT ![0] = [result |-> 0, k |-> 0]]
  /\ pc' = "inline"
  /\ UNCHANGED <<sweep, fault, iter, proc, thrd, report, judged>>

InlineCase ==
  /\ pc = "inline"
  /\ RunsCase(0)
  /\ UNCHANGED <<sweep, fault, pc, iter, proc, drawn, args, thrd, report, judged>>

InlineReturn ==
  /\ pc = "inline"
  /\ Returned(0)
  /\ pc' = "launch"
  /\ proc' = 1
  /\ iter' = iter + 1
  /\ UNCHANGED <<sweep, fault, drawn, args, ctx, thrd, report, judged>>

\* An exception of the library leaves the sweep; no thread exists yet.
InlineThrow ==
  /\ pc = "inline"
  /\ ~ Returned(0)
  /\ Throws(0)
  /\ pc' = "failed"
  /\ UNCHANGED <<sweep, fault, iter, proc, drawn, args, ctx, thrd, report, judged>>

\* Mutant: one thread too many is launched.
LaunchOneMore ==
  /\ pc = "launch"
  /\ proc \in 1 .. g_proc_num
  /\ Bind
  /\ ctx' = [p \in Procs |-> IF p = proc THEN [ctx[p] EXCEPT !.result = -1] ELSE ctx[p]]
  /\ thrd' = [p \in Workers |-> IF p = proc THEN "spawned" ELSE thrd[p]]
  /\ proc' = proc + 1
  /\ iter' = iter + 1
  /\ UNCHANGED <<sweep, fault, pc, report, judged>>

LaunchWorker ==
  /\ pc = "launch"
  /\ proc \in Workers
  /\ Bind
  /\ ctx' = [ctx EXCEPT ![proc].result = -1]
  /\ thrd' = [thrd EXCEPT ![proc] = "spawned"]
  /\ proc' = proc + 1
  /\ iter' = iter + 1
  /\ UNCHANGED <<sweep, fault, pc, report, judged>>

\* The std::thread constructor throws: the unwinding destroys the vector of
\* threads, and destroying a joinable thread ends the process.
ThreadCreationFails ==
  /\ pc = "launch"
  /\ proc \in Workers
  /\ Bind
  /\ ctx' = [ctx EXCEPT ![proc].result = -1]
  /\ pc' = IF \E p \in Workers : thrd[p] # "idle" THEN "terminated" ELSE "failed"
  /\ UNCHANGED <<sweep, fault, iter, proc, thrd, report, judged>>

EndLaunch ==
  /\ pc = "launch"
  /\ proc = g_proc_num
  /\ pc' = "join"
  /\ proc' = 1
  /\ UNCHANGED <<sweep, fault, iter, drawn, args, ctx, thrd, report, judged>>

Join ==
  /\ pc = "join"
  /\ proc \in Workers
  /\ thrd[proc] = "finished"
  /\ thrd' = [thrd EXCEPT ![proc] = "idle"]
  /\ proc' = proc + 1
  /\ UNCHANGED <<sweep, fault, pc, iter, drawn, args, ctx, report, judged>>

\* Mutant: the last thread is not joined.
EndJoinEarly ==
  /\ pc = "join"
  /\ proc = g_proc_num - 1
  /\ pc' = "check"
  /\ proc' = 0
  /\ UNCHANGED <<sweep, fault, iter, drawn, args, ctx, thrd, report, judged>>

EndJoin ==
  /\ pc = "join"
  /\ proc = g_proc_num
  /\ pc' = "check"
  /\ proc' = 0
  /\ UNCHANGED <<sweep, fault, iter, drawn, args, ctx, thrd, report, judged>>

CheckPass ==
  /\ pc = "check"
  /\ proc \in Procs
  /\ ctx[proc].result = 0
  /\ proc' = proc + 1
  /\ judged' = judged + 1
  /\ UNCHANGED <<sweep, fault, pc, iter, drawn, args, ctx, thrd, report>>

\* Mutant: the diagnosis is that of the last context that failed.
CheckFailLast ==
  LET failed == {p \in Procs : ctx[p].result # 0}
      last   == CHOOSE p \in failed : \A q \in failed : q <= p
  IN
  /\ pc = "check"
  /\ proc \in Procs
  /\ ctx[proc].result # 0
  /\ report' = [iter |-> iter, result |-> ctx[last].result, k |-> ctx[last].k]
  /\ pc' = "failed"
  /\ UNCHANGED <<sweep, fault, iter, proc, drawn, args, ctx, thrd, judged>>

\* The diagnosis shows iter, which the launch loop has already advanced past the
\* batch, and the context; N_err is 1, so that the first failure always throws.
CheckFail ==
  /\ pc = "check"
  /\ proc \in Procs
  /\ ctx[proc].result # 0
  /\ report' = [iter |-> iter, result |-> ctx[proc].result, k |-> ctx[proc].k]
  /\ pc' = "failed"
  /\ UNCHANGED <<sweep, fault, iter, proc, drawn, args, ctx, thrd, judged>>

EndCheck ==
  /\ pc = "check"
  /\ proc = g_proc_num
  /\ pc' = "head"
  /\ UNCHANGED <<sweep, fault, iter, proc, drawn, args, ctx, thrd, report, judged>>

Main ==
  \/ BeginBatch \/ Return
  \/ LaunchInline \/ InlineCase \/ InlineReturn \/ InlineThrow
  \/ LaunchWorker \/ ThreadCreationFails \/ EndLaunch
  \/ Join \/ EndJoin
  \/ CheckPass \/ CheckFail \/ EndCheck

-----------------------------------------------------------------------------
(* A worker thread.                                                            *)

\* Mutant: test_func does not set its result to 0.
StartTestKeepsResult(p) ==
  /\ thrd[p] = "spawned"
  /\ thrd' = [thrd EXCEPT ![p] = "running"]
  /\ ctx' = [ctx EXCEPT ![p].k = 0]
  /\ UNCHANGED <<sweep, fault, pc, iter, proc, drawn, args, report, judged>>

StartTest(p) ==
  /\ thrd[p] = "spawned"
  /\ thrd' = [thrd EXCEPT ![p] = "running"]
  /\ ctx' = [ctx EXCEPT ![p] = [result |-> 0, k |-> 0]]
  /\ UNCHANGED <<sweep, fault, pc, iter, proc, drawn, args, report, judged>>

WorkerCase(p) ==
  /\ thrd[p] = "running"
  /\ RunsCase(p)
  /\ UNCHANGED <<sweep, fault, pc, iter, proc, drawn, args, thrd, report, judged>>

WorkerReturn(p) ==
  /\ thrd[p] = "running"
  /\ Returned(p)
  /\ thrd' = [thrd EXCEPT ![p] = "finished"]
  /\ UNCHANGED <<sweep, fault, pc, iter, proc, drawn, args, ctx, report, judged>>

\* Nothing catches an exception in a worker: the process ends.
WorkerThrow(p) ==
  /\ thrd[p] = "running"
  /\ ~ Returned(p)
  /\ Throws(p)
  /\ pc' = "terminated"
  /\ UNCHANGED <<sweep, fault, iter, proc, drawn, args, ctx, thrd, report, judged>>

Worker(p) ==
  /\ pc # "terminated"
  /\ StartTest(p) \/ WorkerCase(p) \/ WorkerReturn(p) \/ WorkerThrow(p)

-----------------------------------------------------------------------------
Stopped == pc \in {"done", "failed", "terminated"}

\* A sweep that has stopped stays as it is.
Idle == Stopped /\ UNCHANGED vars

NoReport == [iter |-> -1, result |-> 0, k |-> 0]

SequentialValues(s) == {Value(s, SequentialArgs(s, i)) : i \in Iterations}

Init ==
  /\ sweep \in Sweeps
  /\ \E F \in SUBSET SequentialValues(sweep) :
       /\ Cardinality(F) <= MaxFaulty
       /\ fault \in [F -> [k : 0 .. NCases - 1, kinds : FaultKinds]]
  /\ pc = "head"
  /\ iter = 0
  /\ proc = 0
  /\ drawn = 0
  /\ args = [p \in Procs |-> NoArgs]
  /\ ctx = [p \in Procs |-> [result |-> 0, k |-> 0]]
  /\ thrd = [p \in Workers |-> "idle"]
  /\ report = NoReport
  /\ judged = 0

Next == Main \/ (\E p \in Workers : Worker(p)) \/ Idle

Spec == Init /\ [][Next]_vars

\* The scheduler runs every thread that can run.
Fairness == WF_vars(Main) /\ \A p \in Workers : WF_vars(Worker(p))

FairSpec == Spec /\ Fairness

-----------------------------------------------------------------------------
(* Properties.                                                                 *)

PossibleArgs ==
  {NoArgs} \cup
  {Args(sweep, i, d) : i \in Iterations, d \in 0 .. 2 * (iter_count + Overrun)}

Contexts == [result : -1 .. 2, k : 0 .. NCases]

\* Every variable keeps its type.
TypeOK ==
  /\ sweep \in Sweeps
  /\ \A v \in DOMAIN fault : fault[v] \in [k : 0 .. NCases - 1, kinds : FaultKinds]
  /\ pc \in {"head", "launch", "inline", "join", "check",
             "done", "failed", "terminated"}
  /\ iter \in 0 .. iter_count + Overrun
  /\ proc \in 0 .. g_proc_num
  /\ drawn \in 0 .. 2 * (iter_count + Overrun)
  /\ args \in [Procs -> PossibleArgs]
  /\ ctx \in [Procs -> Contexts]
  /\ thrd \in [Workers -> {"idle", "spawned", "running", "finished"}]
  /\ report \in [iter : -1 .. iter_count + Overrun, result : -1 .. 2, k : 0 .. NCases]
  /\ judged \in 0 .. iter_count + Overrun

\* When the calling thread reads a context (cvt.cpp:1489), its thread has been
\* joined, the context is the completed outcome of this batch's iteration and
\* not a leftover of the last one or the -1 of the launch, and the iteration had
\* the value a sequential run would have given it, whatever -j is.
ResultsAreFresh ==
  pc = "check" =>
    \A p \in Procs :
      /\ p \in Workers => thrd[p] = "idle"
      /\ args[p] = SequentialArgs(sweep, iter - g_proc_num + p)
      /\ ctx[p] = Outcome(sweep, Value(sweep, args[p]))

\* A sweep that returns, or that an exception leaves, has joined every thread it
\* has started: the unwinding of a diagnosed failure, of an exception thrown by
\* the inline test or by the first thread's creation never meets a joinable one.
\* An exception in a thread, or a later thread's creation that fails while others
\* are joinable, terminates the process instead.
NoOrphanThreads ==
  pc \in {"done", "failed"} => \A p \in Workers : thrd[p] = "idle"

\* Context 0 is finished before the first thread starts (cvt.cpp:1484), so that
\* -j N never runs N tests at once: at most N - 1, and with -j 2 just one.
BoundedParallelism ==
  LET active == {p \in Workers : thrd[p] \in {"spawned", "running"}}
      inline == IF pc = "inline" THEN 1 ELSE 0
      bound  == IF g_proc_num = 1 THEN 1 ELSE g_proc_num - 1
  IN  Cardinality(active) + inline <= bound

\* The iterations whose check the library fails.
Detects ==
  {i \in Iterations : Outcome(sweep, Value(sweep, SequentialArgs(sweep, i))).result # 0}

\* A failure is diagnosed with the result and the case of the first iteration
\* that fails, whichever thread found one first; the iter it prints names the end
\* of the batch, so that the culprit is one of the g_proc_num iterations before.
ReportNamesFirstFailure ==
  report # NoReport =>
    /\ judged \in Detects
    /\ \A i \in Detects : judged <= i
    /\ [result |-> report.result, k |-> report.k] =
         Outcome(sweep, Value(sweep, SequentialArgs(sweep, judged)))
    /\ judged \in report.iter - g_proc_num .. report.iter - 1

\* A sweep that returns has tried zero, every single-bit mantissa and every mask
\* of low bits; an exhaustive one has tried each of the 2^bits mantissas, the
\* odd ones negative and the even ones positive (cvt.cpp:1652 and 1565).
CoversMantissas ==
  LET tried == {Value(sweep, SequentialArgs(sweep, i)) : i \in 0 .. judged - 1}
      plain == {v.mantissa.bits : v \in {u \in tried : u.mantissa \in [bits : Nat]}}
  IN  pc = "done" =>
        CASE Table[sweep].value = "scheduled" /\ iter_count >= 2 * bits ->
               plain = {0} \cup {2^b : b \in 0 .. bits - 1} \cup
                       {2^b - 1 : b \in 2 .. bits}
          [] Table[sweep].value = "all" /\ iter_count >= 2^bits ->
               /\ plain = 0 .. 2^bits - 1
               /\ \A v \in tried : v.sign = v.mantissa.bits % 2
          [] OTHER -> TRUE

Verdict ==
  CASE pc = "done"                           -> "passed"
    [] pc = "failed" /\ report # NoReport   -> "failed"
    [] pc = "failed" /\ report = NoReport   -> "aborted"
    [] pc = "terminated"                     -> "aborted"
    [] OTHER                                 -> "running"

Sequential == INSTANCE Sweep WITH
  detects <- Detects,
  next <- judged,
  verdict <- Verdict,
  witness <- IF Verdict = "failed" THEN judged ELSE -1

\* However its threads interleave and however many there are, a sweep judges the
\* iterations as the sequential loop would: it implements Sweep.
ImplementsSequentialSweep == Sequential!Spec

\* Every sweep comes to an end: the joins wait for threads that return.
EventuallyStops == <>Stopped

\* What the comment on test_context says of result 1 (cvt.cpp:1398): the value
\* was turned into a wrong string.
Result1MeansWrongString ==
  report.result = 1 =>
    "format" \in fault[Value(sweep, SequentialArgs(sweep, judged))].kinds

=============================================================================
