------------------------- MODULE ParallelSweepProofs -------------------------
(***************************************************************************)
(* Proofs about ParallelSweep, for every number of threads, of iterations, *)
(* of cases and of misbehaving values.                                     *)
(***************************************************************************)
EXTENDS ParallelSweep, FiniteSetTheorems, WellFoundedInduction, TLAPS

-----------------------------------------------------------------------------
(* Facts about the operators.                                                  *)

\* What a row of Table looks like.
IsRow(row) ==
  /\ row.value \in {"drawn", "scheduled", "all"}
  /\ row.draws_prec \in BOOLEAN
  /\ DOMAIN row.checks \subseteq 1 .. 3
  /\ \A j \in DOMAIN row.checks : row.checks[j].code \in 1 .. 2

\* Each of the six functions makes at most three checks, with results 1 and 2.
LEMMA TableRows ==
  ASSUME NEW s \in Sweeps
  PROVE  IsRow(Table[s])
<1>1. /\ IsRow(bruteforce_integer(FALSE))
      /\ IsRow(bruteforce_integer(TRUE))
  BY DEF IsRow, bruteforce_integer, Check
<1>2. /\ IsRow(bruteforce_fp_fixed(FALSE))
      /\ IsRow(bruteforce_fp_fixed(TRUE))
  BY DEF IsRow, bruteforce_fp_fixed, Check
<1>3. IsRow(bruteforce_fp_sci) /\ IsRow(bruteforce_fp_hex)
  BY DEF IsRow, bruteforce_fp_sci, bruteforce_fp_hex, Check
<1>4. IsRow(bruteforce_fp_roundtrip) /\ IsRow(bruteforce_fp_big_prec)
  BY DEF IsRow, bruteforce_fp_roundtrip, bruteforce_fp_big_prec, Check
<1>5. s \in {"integer", "integer_locale", "fixed", "fixed_locale",
             "sci", "hex", "roundtrip", "big_prec"}
  BY SweepAssumption
<1>6. /\ Table["integer"] = bruteforce_integer(FALSE)
      /\ Table["integer_locale"] = bruteforce_integer(TRUE)
      /\ Table["fixed"] = bruteforce_fp_fixed(FALSE)
      /\ Table["fixed_locale"] = bruteforce_fp_fixed(TRUE)
  BY DEF Table
<1>7. /\ Table["sci"] = bruteforce_fp_sci
      /\ Table["hex"] = bruteforce_fp_hex
      /\ Table["roundtrip"] = bruteforce_fp_roundtrip
      /\ Table["big_prec"] = bruteforce_fp_big_prec
  BY DEF Table
<1> QED
  BY <1>1, <1>2, <1>3, <1>4, <1>5, <1>6, <1>7

\* A set of at most three check numbers has a least one.
LEMMA LeastCheck ==
  ASSUME NEW S \in SUBSET (1 .. 3), S # {}
  PROVE  \E j \in S : \A l \in S : j <= l
<1>1. CASE 1 \in S
  BY <1>1
<1>2. CASE 1 \notin S /\ 2 \in S
  BY <1>2
<1>3. CASE 1 \notin S /\ 2 \notin S
  <2>1. \A l \in S : l = 3
    BY <1>3
  <2>2. 3 \in S
    BY <2>1
  <2> QED
    BY <2>1, <2>2
<1> QED
  BY <1>1, <1>2, <1>3

\* A case without mismatch passes; any other gets 0, 1 or 2.
LEMMA ResultOfRange ==
  ASSUME NEW s \in Sweeps
  PROVE  /\ ResultOf(s, {}) = 0
         /\ \A kinds : ResultOf(s, kinds) \in 0 .. 2
<1>1. ResultOf(s, {}) = 0
  BY DEF ResultOf, Failing
<1>2. ASSUME NEW kinds
      PROVE  ResultOf(s, kinds) \in 0 .. 2
  <2>1. Failing(s, kinds) \in SUBSET (1 .. 3)
    BY TableRows DEF Failing, IsRow
  <2>2. CASE Failing(s, kinds) = {}
    BY <2>2 DEF ResultOf
  <2>3. CASE Failing(s, kinds) # {}
    <3> DEFINE least == CHOOSE j \in Failing(s, kinds) :
                          \A l \in Failing(s, kinds) : j <= l
    <3>1. least \in Failing(s, kinds)
      BY <2>1, <2>3, LeastCheck
    <3>2. least \in DOMAIN Table[s].checks
      BY <3>1 DEF Failing
    <3>3. ResultOf(s, kinds) = Table[s].checks[least].code
      BY <2>3 DEF ResultOf
    <3> QED
      BY <3>2, <3>3, TableRows DEF IsRow
  <2> QED
    BY <2>2, <2>3
<1> QED
  BY <1>1, <1>2

\* The count of draws is what a sequential loop adds up, one iteration at a time.
LEMMA DrawnStep ==
  ASSUME NEW s \in Sweeps, NEW i \in Nat
  PROVE  /\ DrawnBefore(s, 0) = 0
         /\ DrawnBefore(s, i) \in 0 .. 2 * i
         /\ DrawnBefore(s, i + 1) = DrawnBefore(s, i) + Draws(s, i)
  BY TableRows, SweepAssumption DEF DrawnBefore, Draws, DrawsMantissa, IsRow

\* An outcome is a context that test_func may leave.
LEMMA OutcomeType ==
  ASSUME TypeOK, NEW v
  PROVE  Outcome(sweep, v) \in Contexts
<1>1. sweep \in Sweeps
  BY DEF TypeOK
<1>2. CASE v \in DOMAIN fault /\ ResultOf(sweep, fault[v].kinds) # 0
  <2>1. fault[v].k \in 0 .. NCases - 1
    BY <1>2 DEF TypeOK
  <2>2. ResultOf(sweep, fault[v].kinds) \in 0 .. 2
    BY <1>1, ResultOfRange
  <2> QED
    BY <1>2, <2>1, <2>2, SweepAssumption DEF Outcome, Contexts
<1>3. CASE ~(v \in DOMAIN fault /\ ResultOf(sweep, fault[v].kinds) # 0)
  BY <1>3, SweepAssumption DEF Outcome, Contexts
<1> QED
  BY <1>2, <1>3

-----------------------------------------------------------------------------
(* The inductive invariant.                                                    *)

\* First iteration of the batch in hand.
Batch == IF pc = "check" THEN judged - proc ELSE judged

\* Context p serves an iteration of the batch in hand.
Launched(p) ==
  \/ pc = "launch" /\ p < proc
  \/ pc = "inline" /\ p = 0
  \/ pc \in {"join", "check"}

\* Where the loop variables are in each phase, and that a batch is only begun
\* below iter_count.
LoopInv ==
  /\ pc = "head" => iter = judged
  /\ pc \in {"launch", "inline"} => iter = judged + proc
  /\ pc = "inline" => proc = 0
  /\ pc = "join" => iter = judged + g_proc_num /\ proc >= 1
  /\ pc = "check" => iter = judged - proc + g_proc_num /\ proc <= judged
  /\ pc \in {"launch", "inline", "join", "check"} => Batch < iter_count

\* The generator is where a sequential loop would have it.
DrawInv ==
  /\ pc \in {"head", "launch", "join", "check"} => drawn = DrawnBefore(sweep, iter)
  /\ pc = "inline" => drawn = DrawnBefore(sweep, iter + 1)

\* Which threads are joinable.
ThreadInv ==
  /\ pc \in {"head", "inline", "check", "done", "failed"} =>
       \A p \in Workers : thrd[p] = "idle"
  /\ pc = "launch" => \A p \in Workers : thrd[p] = "idle" <=> p >= proc
  /\ pc = "join" => \A p \in Workers : thrd[p] = "idle" <=> p < proc

\* The arguments of every launched context are those of its iteration.
ArgsInv ==
  \A p \in Procs : Launched(p) => args[p] = SequentialArgs(sweep, Batch + p)

Runs(p) ==
  \/ p = 0 /\ pc = "inline"
  \/ p \in Workers /\ thrd[p] = "running"

HasFinished(p) ==
  \/ p = 0 /\ pc # "inline"
  \/ p \in Workers /\ thrd[p] \in {"finished", "idle"}

\* A test_func under way has met no failing check before case k, or has just
\* left the outcome of its value.
UnderWay(c, v) ==
  \/ /\ c.result = 0
     /\ v \in DOMAIN fault /\ ResultOf(sweep, fault[v].kinds) # 0 => c.k <= fault[v].k
  \/ c = Outcome(sweep, v)

CtxInv ==
  \A p \in Procs : Launched(p) =>
    /\ Runs(p) => UnderWay(ctx[p], Value(sweep, args[p]))
    /\ HasFinished(p) => ctx[p] = Outcome(sweep, Value(sweep, args[p]))

\* What has been judged was found right.
JudgedInv ==
  \A i \in 0 .. judged - 1 :
    Outcome(sweep, Value(sweep, SequentialArgs(sweep, i))).result = 0

\* A report is about the iteration that comes next.
ReportInv ==
  report # NoReport =>
    /\ pc = "failed"
    /\ report.result # 0
    /\ [result |-> report.result, k |-> report.k] =
         Outcome(sweep, Value(sweep, SequentialArgs(sweep, judged)))
    /\ judged \in report.iter - g_proc_num .. report.iter - 1
    /\ judged \in Iterations

IInv ==
  /\ TypeOK
  /\ LoopInv
  /\ DrawInv
  /\ ThreadInv
  /\ ArgsInv
  /\ CtxInv
  /\ JudgedInv
  /\ ReportInv

\* What a step that keeps sweep and fault keeps.
LEMMA Frame ==
  ASSUME UNCHANGED <<sweep, fault>>
  PROVE  /\ \A v : Outcome(sweep, v)' = Outcome(sweep, v)
         /\ \A c, v : UnderWay(c, v)' <=> UnderWay(c, v)
  BY DEF Outcome, UnderWay

\* The invariant holds when the sweep begins.
THEOREM InitIInv == Init => IInv
<1> SUFFICES ASSUME Init
             PROVE  IInv
  OBVIOUS
<1> USE SweepAssumption
<1>1. TypeOK
  BY DEF Init, TypeOK, Overrun, Procs, Workers, PossibleArgs, Contexts, NoReport
<1>2. LoopInv /\ ThreadInv /\ ArgsInv /\ CtxInv /\ JudgedInv /\ ReportInv
  BY DEF Init, LoopInv, ThreadInv, ArgsInv, CtxInv, JudgedInv, ReportInv, Launched
<1>3. DrawInv
  BY DrawnStep DEF Init, DrawInv
<1> QED
  BY <1>1, <1>2, <1>3 DEF IInv

\* The iteration of a context in hand is one the sweep can reach.
LEMMA BatchRange ==
  ASSUME TypeOK, LoopInv, NEW p \in Procs, Launched(p)
  PROVE  /\ Batch + p \in Iterations
         /\ Batch + p \in Nat
  BY SweepAssumption DEF TypeOK, LoopInv, Batch, Launched, Procs, Iterations, Overrun

\* Running a case keeps test_func under way.
LEMMA CaseStep ==
  ASSUME TypeOK, NEW p \in Procs, RunsCase(p),
         UnderWay(ctx[p], Value(sweep, args[p]))
  PROVE  /\ UnderWay(ctx'[p], Value(sweep, args[p]))
         /\ ctx' \in [Procs -> Contexts]
         /\ \A q \in Procs \ {p} : ctx'[q] = ctx[q]
<1> DEFINE v == Value(sweep, args[p])
<1> USE SweepAssumption
<1>1. /\ sweep \in Sweeps
      /\ ctx[p] \in Contexts
      /\ ctx[p].k \in 0 .. NCases - 1
      /\ ctx[p].result = 0
  BY DEF TypeOK, RunsCase, Contexts
<1>2. CaseResult(p) \in 0 .. 2
  BY <1>1, ResultOfRange DEF CaseResult
<1>3. /\ ctx'[p] = IF CaseResult(p) = 0 THEN [result |-> 0, k |-> ctx[p].k + 1]
                   ELSE [result |-> CaseResult(p), k |-> ctx[p].k]
      /\ ctx' \in [Procs -> Contexts]
      /\ \A q \in Procs \ {p} : ctx'[q] = ctx[q]
  BY <1>1, <1>2 DEF TypeOK, RunsCase, Contexts
<1>4. CASE v \in DOMAIN fault /\ ResultOf(sweep, fault[v].kinds) # 0
  <2>1. ctx[p].k <= fault[v].k /\ fault[v].k \in 0 .. NCases - 1
    BY <1>1, <1>4 DEF UnderWay, Outcome, TypeOK
  <2>2. CASE fault[v].k = ctx[p].k
    <3>1. CaseResult(p) = ResultOf(sweep, fault[v].kinds)
      BY <1>4, <2>2 DEF CaseResult, Mismatches
    <3> QED
      BY <1>3, <1>4, <2>2, <3>1 DEF UnderWay, Outcome
  <2>3. CASE fault[v].k # ctx[p].k
    <3>1. CaseResult(p) = 0
      BY <1>1, <1>4, <2>3, ResultOfRange DEF CaseResult, Mismatches
    <3> QED
      BY <1>1, <1>3, <2>1, <2>3, <3>1 DEF UnderWay
  <2> QED
    BY <2>2, <2>3
<1>5. CASE ~(v \in DOMAIN fault /\ ResultOf(sweep, fault[v].kinds) # 0)
  <2>1. CaseResult(p) = 0
    BY <1>1, <1>5, ResultOfRange DEF CaseResult, Mismatches
  <2> QED
    BY <1>3, <1>5, <2>1 DEF UnderWay
<1> QED
  BY <1>3, <1>4, <1>5

\* What test_func leaves when it returns is the outcome of its value.
LEMMA ReturnedOutcome ==
  ASSUME TypeOK, NEW p \in Procs, Returned(p),
         UnderWay(ctx[p], Value(sweep, args[p]))
  PROVE  ctx[p] = Outcome(sweep, Value(sweep, args[p]))
<1> DEFINE v == Value(sweep, args[p])
<1>1. ctx[p] \in Contexts
  BY DEF TypeOK
<1>2. SUFFICES ASSUME ctx[p] # Outcome(sweep, v)
               PROVE  FALSE
  OBVIOUS
<1>3. ctx[p].result = 0 /\ ctx[p].k = NCases
  BY <1>2 DEF UnderWay, Returned
<1>4. ~(v \in DOMAIN fault /\ ResultOf(sweep, fault[v].kinds) # 0)
  BY <1>2, <1>3, SweepAssumption DEF UnderWay, TypeOK
<1>5. Outcome(sweep, v) = [result |-> 0, k |-> NCases]
  BY <1>4 DEF Outcome
<1> QED
  BY <1>1, <1>2, <1>3, <1>5 DEF Contexts

\* A test_func that starts is under way.
LEMMA StartUnderWay ==
  ASSUME TypeOK, NEW v
  PROVE  UnderWay([result |-> 0, k |-> 0], v)
  BY SweepAssumption DEF UnderWay, TypeOK

\* Binding the next context moves the generator as the sequential loop would.
LEMMA BindStep ==
  ASSUME TypeOK, LoopInv, DrawInv, pc = "launch", proc \in Procs, Bind
  PROVE  /\ iter \in Iterations
         /\ drawn' = DrawnBefore(sweep, iter + 1)
         /\ drawn' \in 0 .. 2 * (iter_count + Overrun)
         /\ args' = [args EXCEPT ![proc] = SequentialArgs(sweep, iter)]
         /\ args' \in [Procs -> PossibleArgs]
<1> USE SweepAssumption
<1>1. iter \in Iterations /\ iter \in Nat /\ iter + 1 \in Nat /\ sweep \in Sweeps
  BY DEF TypeOK, LoopInv, Batch, Procs, Iterations, Overrun
<1>2. drawn = DrawnBefore(sweep, iter)
  BY DEF DrawInv
<1>3. drawn' = DrawnBefore(sweep, iter + 1)
  BY <1>1, <1>2, DrawnStep DEF Bind
<1>4. drawn' \in 0 .. 2 * (iter_count + Overrun)
  <2>1. DrawnBefore(sweep, iter + 1) \in 0 .. 2 * (iter + 1)
    BY <1>1, DrawnStep
  <2> QED
    BY <1>1, <1>3, <2>1 DEF Iterations, Overrun
<1>5. args' = [args EXCEPT ![proc] = SequentialArgs(sweep, iter)]
  BY <1>2 DEF Bind, SequentialArgs
<1>6. SequentialArgs(sweep, iter) \in PossibleArgs
  <2>1. drawn \in 0 .. 2 * (iter_count + Overrun)
    BY DEF TypeOK
  <2> QED
    BY <1>1, <1>2, <2>1 DEF SequentialArgs, PossibleArgs
<1>7. args' \in [Procs -> PossibleArgs]
  BY <1>5, <1>6 DEF TypeOK
<1> QED
  BY <1>1, <1>3, <1>4, <1>5, <1>7

\* A step that moves only the control of the calling thread, and the contexts,
\* keeps the types.
LEMMA ControlFrame ==
  ASSUME SweepAssumption, TypeOK,
         UNCHANGED <<sweep, fault, iter, drawn, args, thrd, report, judged>>,
         ctx' \in [Procs -> Contexts],
         pc' \in {"head", "launch", "inline", "join", "check",
                 "done", "failed", "terminated"},
         proc' \in 0 .. g_proc_num
  PROVE  TypeOK'
<1>1. (PossibleArgs)' = PossibleArgs /\ (Contexts)' = Contexts
  BY DEF PossibleArgs, Contexts, Overrun
<1> QED
  BY <1>1 DEF TypeOK, Overrun, Workers, Procs

\* A batch begins.
LEMMA StepBeginBatch ==
  ASSUME IInv, BeginBatch
  PROVE  IInv'
<1> USE SweepAssumption DEF IInv
<1>0. UNCHANGED <<sweep, fault>>
  BY DEF BeginBatch
<1>1. TypeOK'
  BY ControlFrame DEF BeginBatch, TypeOK
<1>2. LoopInv'
  BY DEF BeginBatch, TypeOK, LoopInv, Batch, Procs, Workers, Overrun
<1>3. DrawInv'
  BY DEF BeginBatch, DrawInv
<1>4. ThreadInv'
  BY DEF BeginBatch, TypeOK, ThreadInv, Workers, Procs
<1>5. ArgsInv'
  BY DEF BeginBatch, TypeOK, LoopInv, ArgsInv, Batch, Launched, Procs, Workers
<1>6. CtxInv'
  BY <1>0, Frame DEF BeginBatch, TypeOK, LoopInv, ThreadInv, CtxInv, Launched,
     Runs, HasFinished, Procs, Workers
<1>7. JudgedInv'
  BY <1>0, Frame DEF BeginBatch, TypeOK, JudgedInv
<1>8. ReportInv'
  BY <1>0, Frame DEF BeginBatch, TypeOK, ReportInv
<1> QED
  BY <1>1, <1>2, <1>3, <1>4, <1>5, <1>6, <1>7, <1>8

\* The sweep returns.
LEMMA StepReturn ==
  ASSUME IInv, Return
  PROVE  IInv'
<1> USE SweepAssumption DEF IInv
<1>0. UNCHANGED <<sweep, fault>>
  BY DEF Return
<1>1. TypeOK'
  BY ControlFrame DEF Return, TypeOK
<1>2. LoopInv'
  BY DEF Return, TypeOK, LoopInv, Batch, Procs, Workers, Overrun
<1>3. DrawInv'
  BY DEF Return, DrawInv
<1>4. ThreadInv'
  BY DEF Return, TypeOK, ThreadInv, Workers, Procs
<1>5. ArgsInv'
  BY DEF Return, TypeOK, LoopInv, ArgsInv, Batch, Launched, Procs, Workers
<1>6. CtxInv'
  BY <1>0, Frame DEF Return, TypeOK, LoopInv, ThreadInv, CtxInv, Launched,
     Runs, HasFinished, Procs, Workers
<1>7. JudgedInv'
  BY <1>0, Frame DEF Return, TypeOK, JudgedInv
<1>8. ReportInv'
  BY <1>0, Frame DEF Return, TypeOK, ReportInv
<1> QED
  BY <1>1, <1>2, <1>3, <1>4, <1>5, <1>6, <1>7, <1>8

\* An exception of the inline test.
LEMMA StepInlineThrow ==
  ASSUME IInv, InlineThrow
  PROVE  IInv'
<1> USE SweepAssumption DEF IInv
<1>0. UNCHANGED <<sweep, fault>>
  BY DEF InlineThrow
<1>1. TypeOK'
  BY DEF InlineThrow, TypeOK, PossibleArgs, Overrun, Procs, Workers, Contexts
<1>2. LoopInv'
  BY DEF InlineThrow, TypeOK, LoopInv, Batch, Procs, Workers, Overrun
<1>3. DrawInv'
  BY DEF InlineThrow, DrawInv
<1>4. ThreadInv'
  BY DEF InlineThrow, TypeOK, ThreadInv, Workers, Procs
<1>5. ArgsInv'
  BY DEF InlineThrow, TypeOK, LoopInv, ArgsInv, Batch, Launched, Procs,
     Workers
<1>6. CtxInv'
  BY <1>0, Frame DEF InlineThrow, TypeOK, LoopInv, ThreadInv, CtxInv,
     Launched, Runs, HasFinished, Procs, Workers
<1>7. JudgedInv'
  BY <1>0, Frame DEF InlineThrow, TypeOK, JudgedInv
<1>8. ReportInv'
  BY <1>0, Frame DEF InlineThrow, TypeOK, ReportInv
<1> QED
  BY <1>1, <1>2, <1>3, <1>4, <1>5, <1>6, <1>7, <1>8

\* The batch is launched.
LEMMA StepEndLaunch ==
  ASSUME IInv, EndLaunch
  PROVE  IInv'
<1> USE SweepAssumption DEF IInv
<1>0. UNCHANGED <<sweep, fault>>
  BY DEF EndLaunch
<1>1. TypeOK'
  BY ControlFrame DEF EndLaunch, TypeOK
<1>2. LoopInv'
  BY DEF EndLaunch, TypeOK, LoopInv, Batch, Procs, Workers, Overrun
<1>3. DrawInv'
  BY DEF EndLaunch, DrawInv
<1>4. ThreadInv'
  BY DEF EndLaunch, TypeOK, ThreadInv, Workers, Procs
<1>5. ArgsInv'
  BY DEF EndLaunch, TypeOK, LoopInv, ArgsInv, Batch, Launched, Procs, Workers
<1>6. CtxInv'
  BY <1>0, Frame DEF EndLaunch, TypeOK, LoopInv, ThreadInv, CtxInv, Launched,
     Runs, HasFinished, Procs, Workers
<1>7. JudgedInv'
  BY <1>0, Frame DEF EndLaunch, TypeOK, JudgedInv
<1>8. ReportInv'
  BY <1>0, Frame DEF EndLaunch, TypeOK, ReportInv
<1> QED
  BY <1>1, <1>2, <1>3, <1>4, <1>5, <1>6, <1>7, <1>8

\* A thread is joined.
LEMMA StepJoin ==
  ASSUME IInv, Join
  PROVE  IInv'
<1> USE SweepAssumption DEF IInv
<1>0. UNCHANGED <<sweep, fault>>
  BY DEF Join
<1>1. TypeOK'
  BY DEF Join, TypeOK, PossibleArgs, Overrun, Procs, Workers, Contexts
<1>2. LoopInv'
  BY DEF Join, TypeOK, LoopInv, Batch, Procs, Workers, Overrun
<1>3. DrawInv'
  BY DEF Join, DrawInv
<1>4. ThreadInv'
  BY DEF Join, TypeOK, ThreadInv, Workers, Procs
<1>5. ArgsInv'
  BY DEF Join, TypeOK, LoopInv, ArgsInv, Batch, Launched, Procs, Workers
<1>6. CtxInv'
  BY <1>0, Frame DEF Join, TypeOK, LoopInv, ThreadInv, CtxInv, Launched, Runs,
     HasFinished, Procs, Workers
<1>7. JudgedInv'
  BY <1>0, Frame DEF Join, TypeOK, JudgedInv
<1>8. ReportInv'
  BY <1>0, Frame DEF Join, TypeOK, ReportInv
<1> QED
  BY <1>1, <1>2, <1>3, <1>4, <1>5, <1>6, <1>7, <1>8

\* The batch is joined.
LEMMA StepEndJoin ==
  ASSUME IInv, EndJoin
  PROVE  IInv'
<1> USE SweepAssumption DEF IInv
<1>0. UNCHANGED <<sweep, fault>>
  BY DEF EndJoin
<1>1. TypeOK'
  BY ControlFrame DEF EndJoin, TypeOK
<1>2. LoopInv'
  BY DEF EndJoin, TypeOK, LoopInv, Batch, Procs, Workers, Overrun
<1>3. DrawInv'
  BY DEF EndJoin, DrawInv
<1>4. ThreadInv'
  BY DEF EndJoin, TypeOK, ThreadInv, Workers, Procs
<1>5. ArgsInv'
  BY DEF EndJoin, TypeOK, LoopInv, ArgsInv, Batch, Launched, Procs, Workers
<1>6. CtxInv'
  BY <1>0, Frame DEF EndJoin, TypeOK, LoopInv, ThreadInv, CtxInv, Launched,
     Runs, HasFinished, Procs, Workers
<1>7. JudgedInv'
  BY <1>0, Frame DEF EndJoin, TypeOK, JudgedInv
<1>8. ReportInv'
  BY <1>0, Frame DEF EndJoin, TypeOK, ReportInv
<1> QED
  BY <1>1, <1>2, <1>3, <1>4, <1>5, <1>6, <1>7, <1>8

\* The batch is judged.
LEMMA StepEndCheck ==
  ASSUME IInv, EndCheck
  PROVE  IInv'
<1> USE SweepAssumption DEF IInv
<1>0. UNCHANGED <<sweep, fault>>
  BY DEF EndCheck
<1>1. TypeOK'
  BY ControlFrame DEF EndCheck, TypeOK
<1>2. LoopInv'
  BY DEF EndCheck, TypeOK, LoopInv, Batch, Procs, Workers, Overrun
<1>3. DrawInv'
  BY DEF EndCheck, DrawInv
<1>4. ThreadInv'
  BY DEF EndCheck, TypeOK, ThreadInv, Workers, Procs
<1>5. ArgsInv'
  BY DEF EndCheck, TypeOK, LoopInv, ArgsInv, Batch, Launched, Procs, Workers
<1>6. CtxInv'
  BY <1>0, Frame DEF EndCheck, TypeOK, LoopInv, ThreadInv, CtxInv, Launched,
     Runs, HasFinished, Procs, Workers
<1>7. JudgedInv'
  BY <1>0, Frame DEF EndCheck, TypeOK, JudgedInv
<1>8. ReportInv'
  BY <1>0, Frame DEF EndCheck, TypeOK, ReportInv
<1> QED
  BY <1>1, <1>2, <1>3, <1>4, <1>5, <1>6, <1>7, <1>8

\* The inline test starts.
LEMMA StepLaunchInline ==
  ASSUME IInv, LaunchInline
  PROVE  IInv'
<1> USE SweepAssumption DEF IInv
<1>0. UNCHANGED <<sweep, fault>>
  BY DEF LaunchInline
<1>b. /\ iter \in Iterations
      /\ drawn' = DrawnBefore(sweep, iter + 1)
      /\ drawn' \in 0 .. 2 * (iter_count + Overrun)
      /\ args' = [args EXCEPT ![proc] = SequentialArgs(sweep, iter)]
      /\ args' \in [Procs -> PossibleArgs]
  BY BindStep DEF LaunchInline, Procs, Workers
<1>1. TypeOK'
  BY <1>b DEF LaunchInline, TypeOK, PossibleArgs, Overrun, Procs, Workers, Contexts
<1>2. LoopInv'
  BY DEF LaunchInline, TypeOK, LoopInv, Batch, Procs, Workers, Overrun
<1>3. DrawInv'
  BY <1>b DEF LaunchInline, DrawInv
<1>4. ThreadInv'
  BY DEF LaunchInline, TypeOK, ThreadInv, Workers, Procs
<1>5. ArgsInv'
  BY <1>b DEF LaunchInline, TypeOK, LoopInv, ArgsInv, Batch, Launched, Procs,
     Workers
<1>6. CtxInv'
  <2>1. UnderWay(ctx'[0], Value(sweep', args'[0]))
    <3>1. ctx'[0] = [result |-> 0, k |-> 0]
      BY DEF LaunchInline, TypeOK, Procs
    <3> QED
      BY <3>1, StartUnderWay
  <2>2. \A p \in Procs : Launched(p)' => p = 0
    BY DEF LaunchInline, Launched
  <2>3. Runs(0)' /\ ~ HasFinished(0)'
    BY DEF LaunchInline, Runs, HasFinished, Workers
  <2> QED
    BY <1>0, <2>1, <2>2, <2>3, Frame DEF CtxInv
<1>7. JudgedInv'
  BY <1>0, Frame DEF LaunchInline, TypeOK, JudgedInv
<1>8. ReportInv'
  BY <1>0, Frame DEF LaunchInline, TypeOK, ReportInv
<1> QED
  BY <1>1, <1>2, <1>3, <1>4, <1>5, <1>6, <1>7, <1>8

\* The inline test runs a case.
LEMMA StepInlineCase ==
  ASSUME IInv, InlineCase
  PROVE  IInv'
<1> USE SweepAssumption DEF IInv
<1>0. UNCHANGED <<sweep, fault>>
  BY DEF InlineCase
<1>c. /\ UnderWay(ctx'[0], Value(sweep, args[0]))
      /\ ctx' \in [Procs -> Contexts]
  <2>1. 0 \in Procs /\ UnderWay(ctx[0], Value(sweep, args[0]))
    BY DEF InlineCase, CtxInv, Launched, Runs, Procs
  <2> QED
    BY <2>1, CaseStep DEF InlineCase
<1>1. TypeOK'
  BY <1>c, ControlFrame DEF InlineCase, TypeOK
<1>2. LoopInv'
  BY DEF InlineCase, TypeOK, LoopInv, Batch, Procs, Workers, Overrun
<1>3. DrawInv'
  BY DEF InlineCase, DrawInv
<1>4. ThreadInv'
  BY DEF InlineCase, TypeOK, ThreadInv, Workers, Procs
<1>5. ArgsInv'
  BY DEF InlineCase, TypeOK, LoopInv, ArgsInv, Batch, Launched, Procs, Workers
<1>6. CtxInv'
  <2>1. \A p \in Procs : Launched(p)' => p = 0
    BY DEF InlineCase, Launched
  <2>2. Runs(0)' /\ ~ HasFinished(0)'
    BY DEF InlineCase, Runs, HasFinished, Workers
  <2>3. args' = args
    BY DEF InlineCase
  <2> QED
    BY <1>0, <1>c, <2>1, <2>2, <2>3, Frame DEF CtxInv
<1>7. JudgedInv'
  BY <1>0, Frame DEF InlineCase, TypeOK, JudgedInv
<1>8. ReportInv'
  BY <1>0, Frame DEF InlineCase, TypeOK, ReportInv
<1> QED
  BY <1>1, <1>2, <1>3, <1>4, <1>5, <1>6, <1>7, <1>8

\* The inline test returns.
LEMMA StepInlineReturn ==
  ASSUME IInv, InlineReturn
  PROVE  IInv'
<1> USE SweepAssumption DEF IInv
<1>0. UNCHANGED <<sweep, fault>>
  BY DEF InlineReturn
<1>1. TypeOK'
  BY SMTT(30) DEF InlineReturn, TypeOK, LoopInv, Batch, PossibleArgs, Overrun,
     Procs, Workers, Contexts
<1>2. LoopInv'
  BY DEF InlineReturn, TypeOK, LoopInv, Batch, Procs, Workers, Overrun
<1>3. DrawInv'
  BY DEF InlineReturn, DrawInv
<1>4. ThreadInv'
  BY DEF InlineReturn, TypeOK, ThreadInv, Workers, Procs
<1>5. ArgsInv'
  BY DEF InlineReturn, TypeOK, LoopInv, ArgsInv, Batch, Launched, Procs,
     Workers
<1>6. CtxInv'
  <2>1. ctx[0] = Outcome(sweep, Value(sweep, args[0]))
    <3>1. 0 \in Procs /\ UnderWay(ctx[0], Value(sweep, args[0]))
      BY DEF InlineReturn, CtxInv, Launched, Runs, Procs
    <3> QED
      BY <3>1, ReturnedOutcome DEF InlineReturn
  <2> QED
    BY <1>0, <2>1, Frame DEF InlineReturn, CtxInv, Launched, Runs, HasFinished,
       ThreadInv, Procs, Workers
<1>7. JudgedInv'
  BY <1>0, Frame DEF InlineReturn, TypeOK, JudgedInv
<1>8. ReportInv'
  BY <1>0, Frame DEF InlineReturn, TypeOK, ReportInv
<1> QED
  BY <1>1, <1>2, <1>3, <1>4, <1>5, <1>6, <1>7, <1>8

\* A thread is started.
LEMMA StepLaunchWorker ==
  ASSUME IInv, LaunchWorker
  PROVE  IInv'
<1> USE SweepAssumption DEF IInv
<1>0. UNCHANGED <<sweep, fault>>
  BY DEF LaunchWorker
<1>b. /\ iter \in Iterations
      /\ drawn' = DrawnBefore(sweep, iter + 1)
      /\ drawn' \in 0 .. 2 * (iter_count + Overrun)
      /\ args' = [args EXCEPT ![proc] = SequentialArgs(sweep, iter)]
      /\ args' \in [Procs -> PossibleArgs]
  BY BindStep DEF LaunchWorker, Procs, Workers
<1>1. TypeOK'
  <2>1. /\ ctx' \in [Procs -> Contexts]
        /\ thrd' \in [Workers -> {"idle", "spawned", "running", "finished"}]
    <3>1. proc \in Procs /\ proc \in Workers
      BY DEF LaunchWorker, Procs, Workers
    <3>2. [ctx[proc] EXCEPT !.result = -1] \in Contexts
      BY <3>1 DEF TypeOK, Contexts
    <3>3. ctx' = [ctx EXCEPT ![proc] = [ctx[proc] EXCEPT !.result = -1]]
      BY DEF LaunchWorker
    <3>4. ctx' \in [Procs -> Contexts]
      BY <3>2, <3>3 DEF TypeOK
    <3>5. thrd' \in [Workers -> {"idle", "spawned", "running", "finished"}]
      BY DEF LaunchWorker, TypeOK
    <3> QED
      BY <3>4, <3>5
  <2>2. /\ pc' \in {"launch", "failed", "terminated"}
        /\ iter' \in 0 .. iter_count + Overrun
        /\ proc' \in 0 .. g_proc_num
    <3>1. pc' = "launch"
      BY DEF LaunchWorker
    <3>2. iter' = iter + 1 /\ proc' = proc + 1 /\ proc \in 1 .. g_proc_num - 1
      BY DEF LaunchWorker, Workers
    <3> QED
      BY <1>b, <3>1, <3>2 DEF Iterations, Overrun
  <2> QED
    BY <1>0, <1>b, <2>1, <2>2 DEF LaunchWorker, TypeOK, PossibleArgs, Overrun
<1>2. LoopInv'
  <2>1. /\ pc = "launch" /\ pc' = "launch" /\ judged' = judged
        /\ iter' = iter + 1 /\ proc' = proc + 1 /\ Batch' = Batch
    BY DEF LaunchWorker, Batch
  <2>2. iter = judged + proc /\ Batch < iter_count /\ judged \in Int /\ proc \in Int
    BY <2>1 DEF LoopInv, TypeOK
  <2>3. iter' = judged' + proc' /\ Batch' < iter_count
    BY <2>1, <2>2
  <2> QED BY <2>1, <2>3 DEF LoopInv
<1>3. DrawInv'
  BY <1>b DEF LaunchWorker, DrawInv
<1>c. /\ pc = "launch" /\ pc' = "launch" /\ proc' = proc + 1
      /\ proc \in Procs /\ proc \in Workers /\ proc \in Int
      /\ Batch' = Batch /\ iter = Batch + proc
      /\ thrd' = [thrd EXCEPT ![proc] = "spawned"]
  BY DEF LaunchWorker, TypeOK, LoopInv, Batch, Procs, Workers
<1>4. ThreadInv'
  BY <1>c DEF TypeOK, ThreadInv, Workers, Procs
<1>5. ArgsInv'
  <2> SUFFICES ASSUME NEW p \in Procs, Launched(p)'
               PROVE  args'[p] = SequentialArgs(sweep, Batch + p)
    BY <1>0, <1>c DEF ArgsInv
  <2>1. p <= proc /\ p \in Int
    BY <1>c DEF Launched, Procs
  <2>2. CASE p = proc
    BY <1>b, <1>c, <2>2 DEF TypeOK
  <2>3. CASE p < proc
    <3>1. args[p] = SequentialArgs(sweep, Batch + p)
      BY <1>c, <2>3 DEF ArgsInv, Launched
    <3> QED
      BY <1>b, <2>1, <2>3, <3>1 DEF TypeOK
  <2> QED
    BY <1>c, <2>1, <2>2, <2>3
<1>6. CtxInv'
  <2>1. /\ \A p \in Procs \ {proc} : ctx'[p] = ctx[p] /\ args'[p] = args[p]
        /\ \A p \in Workers \ {proc} : thrd'[p] = thrd[p]
        /\ thrd'[proc] = "spawned"
    BY <1>b DEF LaunchWorker, TypeOK, Procs, Workers
  <2> QED
    BY <1>0, <2>1, Frame DEF LaunchWorker, TypeOK, CtxInv, Launched, Runs,
       HasFinished, Procs, Workers
<1>7. JudgedInv'
  BY <1>0, Frame DEF LaunchWorker, TypeOK, JudgedInv
<1>8. ReportInv'
  BY <1>0, Frame DEF LaunchWorker, TypeOK, ReportInv
<1> QED
  BY <1>1, <1>2, <1>3, <1>4, <1>5, <1>6, <1>7, <1>8

\* A thread cannot be started.
LEMMA StepThreadCreationFails ==
  ASSUME IInv, ThreadCreationFails
  PROVE  IInv'
<1> USE SweepAssumption DEF IInv
<1>0. UNCHANGED <<sweep, fault>>
  BY DEF ThreadCreationFails
<1>b. /\ iter \in Iterations
      /\ drawn' = DrawnBefore(sweep, iter + 1)
      /\ drawn' \in 0 .. 2 * (iter_count + Overrun)
      /\ args' = [args EXCEPT ![proc] = SequentialArgs(sweep, iter)]
      /\ args' \in [Procs -> PossibleArgs]
  BY BindStep DEF ThreadCreationFails, Procs, Workers
<1>1. TypeOK'
  <2>1. /\ ctx' \in [Procs -> Contexts]
        /\ thrd' \in [Workers -> {"idle", "spawned", "running", "finished"}]
    <3>1. proc \in Procs /\ proc \in Workers
      BY DEF ThreadCreationFails, Procs, Workers
    <3>2. [ctx[proc] EXCEPT !.result = -1] \in Contexts
      BY <3>1 DEF TypeOK, Contexts
    <3>3. ctx' = [ctx EXCEPT ![proc] = [ctx[proc] EXCEPT !.result = -1]]
      BY DEF ThreadCreationFails
    <3>4. ctx' \in [Procs -> Contexts]
      BY <3>2, <3>3 DEF TypeOK
    <3>5. thrd' \in [Workers -> {"idle", "spawned", "running", "finished"}]
      BY DEF ThreadCreationFails, TypeOK
    <3> QED
      BY <3>4, <3>5
  <2>2. /\ pc' \in {"launch", "failed", "terminated"}
        /\ iter' \in 0 .. iter_count + Overrun
        /\ proc' \in 0 .. g_proc_num
    BY <1>b DEF ThreadCreationFails, TypeOK, LoopInv, Workers, Iterations, Overrun
  <2> QED
    BY <1>0, <1>b, <2>1, <2>2 DEF ThreadCreationFails, TypeOK, PossibleArgs, Overrun
<1>2. LoopInv'
  BY DEF ThreadCreationFails, TypeOK, LoopInv, Batch, Procs, Workers, Overrun
<1>3. DrawInv'
  BY DEF ThreadCreationFails, DrawInv
<1>4. ThreadInv'
  BY DEF ThreadCreationFails, TypeOK, ThreadInv, Workers, Procs
<1>5. ArgsInv'
  BY DEF ThreadCreationFails, TypeOK, LoopInv, ArgsInv, Batch, Launched,
     Procs, Workers
<1>6. CtxInv'
  BY <1>0, Frame DEF ThreadCreationFails, TypeOK, LoopInv, ThreadInv, CtxInv,
     Launched, Runs, HasFinished, Procs, Workers
<1>7. JudgedInv'
  BY <1>0, Frame DEF ThreadCreationFails, TypeOK, JudgedInv
<1>8. ReportInv'
  BY <1>0, Frame DEF ThreadCreationFails, TypeOK, ReportInv
<1> QED
  BY <1>1, <1>2, <1>3, <1>4, <1>5, <1>6, <1>7, <1>8

\* The context in hand is that of the next iteration to be judged.
LEMMA JudgedContext ==
  ASSUME IInv, pc = "check", proc \in Procs
  PROVE  /\ judged \in Iterations
         /\ ctx[proc] = Outcome(sweep, Value(sweep, SequentialArgs(sweep, judged)))
<1> USE SweepAssumption DEF IInv
<1>1. Launched(proc) /\ HasFinished(proc)
  BY DEF Launched, HasFinished, ThreadInv, Procs, Workers
<1>2. Batch + proc = judged
  BY DEF Batch, TypeOK
<1> QED
  BY <1>1, <1>2, BatchRange DEF ArgsInv, CtxInv

\* A context is found right.
LEMMA StepCheckPass ==
  ASSUME IInv, CheckPass
  PROVE  IInv'
<1> USE SweepAssumption DEF IInv
<1>0. UNCHANGED <<sweep, fault>>
  BY DEF CheckPass
<1>c. /\ judged \in Iterations
      /\ ctx[proc] = Outcome(sweep, Value(sweep, SequentialArgs(sweep, judged)))
  BY JudgedContext DEF CheckPass
<1>1. TypeOK'
  BY <1>c DEF CheckPass, Iterations, TypeOK, PossibleArgs, Overrun, Procs, Workers, Contexts
<1>2. LoopInv'
  BY DEF CheckPass, TypeOK, LoopInv, Batch, Procs, Workers, Overrun
<1>3. DrawInv'
  BY DEF CheckPass, DrawInv
<1>4. ThreadInv'
  BY DEF CheckPass, TypeOK, ThreadInv, Workers, Procs
<1>5. ArgsInv'
  BY DEF CheckPass, TypeOK, LoopInv, ArgsInv, Batch, Launched, Procs, Workers
<1>6. CtxInv'
  BY <1>0, Frame DEF CheckPass, CtxInv, Launched, Runs, HasFinished
<1>7. JudgedInv'
  BY <1>0, <1>c, Frame DEF CheckPass, TypeOK, JudgedInv
<1>8. ReportInv'
  BY <1>0, Frame DEF CheckPass, TypeOK, ReportInv
<1> QED
  BY <1>1, <1>2, <1>3, <1>4, <1>5, <1>6, <1>7, <1>8

\* A context is found wrong and reported.
LEMMA StepCheckFail ==
  ASSUME IInv, CheckFail
  PROVE  IInv'
<1> USE SweepAssumption DEF IInv
<1>0. UNCHANGED <<sweep, fault>>
  BY DEF CheckFail
<1>c. /\ judged \in Iterations
      /\ ctx[proc] = Outcome(sweep, Value(sweep, SequentialArgs(sweep, judged)))
  BY JudgedContext DEF CheckFail
<1>1. TypeOK'
  <2>1. report' \in [iter : -1 .. iter_count + Overrun, result : -1 .. 2, k : 0 .. NCases]
    BY DEF CheckFail, TypeOK, Contexts, Overrun
  <2> QED
    BY <1>0, <2>1 DEF CheckFail, TypeOK, PossibleArgs, Overrun
<1>2. LoopInv'
  BY DEF CheckFail, TypeOK, LoopInv, Batch, Procs, Workers, Overrun
<1>3. DrawInv'
  BY DEF CheckFail, DrawInv
<1>4. ThreadInv'
  BY DEF CheckFail, TypeOK, ThreadInv, Workers, Procs
<1>5. ArgsInv'
  BY DEF CheckFail, TypeOK, LoopInv, ArgsInv, Batch, Launched, Procs, Workers
<1>6. CtxInv'
  BY <1>0, Frame DEF CheckFail, TypeOK, LoopInv, ThreadInv, CtxInv, Launched,
     Runs, HasFinished, Procs, Workers
<1>7. JudgedInv'
  BY <1>0, Frame DEF CheckFail, TypeOK, JudgedInv
<1>8. ReportInv'
  <2>1. [result |-> ctx[proc].result, k |-> ctx[proc].k] = ctx[proc]
    BY DEF CheckFail, TypeOK, Contexts
  <2> QED
    BY <1>0, <1>c, <2>1, Frame DEF CheckFail, TypeOK, ReportInv, LoopInv, Procs
<1> QED
  BY <1>1, <1>2, <1>3, <1>4, <1>5, <1>6, <1>7, <1>8

\* A worker can only move while its batch is launched or joined.
LEMMA WorkerIsLaunched ==
  ASSUME IInv, NEW p \in Workers, thrd[p] # "idle", pc # "terminated"
  PROVE  /\ p \in Procs
         /\ p # 0
         /\ Launched(p)
         /\ pc \in {"launch", "join"}
  BY SweepAssumption DEF IInv, TypeOK, ThreadInv, Launched, Workers, Procs

\* A worker starts its test.
LEMMA StepStartTest ==
  ASSUME IInv, NEW q \in Workers, pc # "terminated", StartTest(q)
  PROVE  IInv'
<1> USE SweepAssumption DEF IInv
<1>0. UNCHANGED <<sweep, fault>>
  BY DEF StartTest
<1>w. q \in Procs /\ q # 0 /\ Launched(q) /\ pc \in {"launch", "join"}
  BY WorkerIsLaunched DEF StartTest
<1>1. TypeOK'
  BY <1>w DEF StartTest, TypeOK, PossibleArgs, Overrun, Contexts
<1>2. LoopInv' /\ DrawInv' /\ ArgsInv' /\ JudgedInv' /\ ReportInv'
  BY <1>0, Frame DEF StartTest, LoopInv, DrawInv, ArgsInv, JudgedInv, ReportInv,
     Batch, Launched
<1>3. ThreadInv'
  BY <1>w DEF StartTest, TypeOK, ThreadInv
<1>4. CtxInv'
  <2>1. UnderWay(ctx'[q], Value(sweep, args[q]))
    <3>1. ctx'[q] = [result |-> 0, k |-> 0]
      BY <1>w DEF StartTest, TypeOK
    <3> QED
      BY <3>1, StartUnderWay
  <2>2. \A p \in Procs \ {q} : ctx'[p] = ctx[p] /\ (p \in Workers => thrd'[p] = thrd[p])
    BY DEF StartTest, TypeOK
  <2>3. thrd'[q] = "running"
    BY DEF StartTest, TypeOK
  <2> QED
    BY <1>0, <1>w, <2>1, <2>2, <2>3, Frame DEF StartTest, CtxInv, Launched, Runs,
       HasFinished
<1> QED
  BY <1>1, <1>2, <1>3, <1>4

\* A worker runs a case.
LEMMA StepWorkerCase ==
  ASSUME IInv, NEW q \in Workers, pc # "terminated", WorkerCase(q)
  PROVE  IInv'
<1> USE SweepAssumption DEF IInv
<1>0. UNCHANGED <<sweep, fault>>
  BY DEF WorkerCase
<1>w. q \in Procs /\ q # 0 /\ Launched(q) /\ pc \in {"launch", "join"}
  BY WorkerIsLaunched DEF WorkerCase
<1>c. /\ UnderWay(ctx'[q], Value(sweep, args[q]))
      /\ ctx' \in [Procs -> Contexts]
      /\ \A p \in Procs \ {q} : ctx'[p] = ctx[p]
  <2>1. UnderWay(ctx[q], Value(sweep, args[q]))
    BY <1>w DEF WorkerCase, CtxInv, Runs
  <2> QED
    BY <1>w, <2>1, CaseStep DEF WorkerCase
<1>1. TypeOK'
  BY <1>c DEF WorkerCase, TypeOK, PossibleArgs, Overrun
<1>2. LoopInv' /\ DrawInv' /\ ThreadInv' /\ ArgsInv' /\ JudgedInv' /\ ReportInv'
  BY <1>0, Frame DEF WorkerCase, LoopInv, DrawInv, ThreadInv, ArgsInv, JudgedInv,
     ReportInv, Batch, Launched
<1>3. CtxInv'
  BY <1>0, <1>w, <1>c, Frame DEF WorkerCase, CtxInv, Launched, Runs, HasFinished
<1> QED
  BY <1>1, <1>2, <1>3

\* A worker returns.
LEMMA StepWorkerReturn ==
  ASSUME IInv, NEW q \in Workers, pc # "terminated", WorkerReturn(q)
  PROVE  IInv'
<1> USE SweepAssumption DEF IInv
<1>0. UNCHANGED <<sweep, fault>>
  BY DEF WorkerReturn
<1>w. q \in Procs /\ q # 0 /\ Launched(q) /\ pc \in {"launch", "join"}
  BY WorkerIsLaunched DEF WorkerReturn
<1>c. ctx[q] = Outcome(sweep, Value(sweep, args[q]))
  <2>1. UnderWay(ctx[q], Value(sweep, args[q]))
    BY <1>w DEF WorkerReturn, CtxInv, Runs
  <2> QED
    BY <1>w, <2>1, ReturnedOutcome DEF WorkerReturn
<1>1. TypeOK'
  BY DEF WorkerReturn, TypeOK, PossibleArgs, Overrun
<1>2. LoopInv' /\ DrawInv' /\ ArgsInv' /\ JudgedInv' /\ ReportInv'
  BY <1>0, Frame DEF WorkerReturn, LoopInv, DrawInv, ArgsInv, JudgedInv,
     ReportInv, Batch, Launched
<1>3. ThreadInv'
  BY <1>w DEF WorkerReturn, TypeOK, ThreadInv
<1>4. CtxInv'
  <2>1. \A p \in Workers \ {q} : thrd'[p] = thrd[p]
    BY DEF WorkerReturn, TypeOK
  <2>2. thrd'[q] = "finished"
    BY DEF WorkerReturn, TypeOK
  <2> QED
    BY <1>0, <1>w, <1>c, <2>1, <2>2, Frame DEF WorkerReturn, CtxInv, Launched,
       Runs, HasFinished
<1> QED
  BY <1>1, <1>2, <1>3, <1>4

\* An exception in a worker ends the process.
LEMMA StepWorkerThrow ==
  ASSUME IInv, NEW q \in Workers, pc # "terminated", WorkerThrow(q)
  PROVE  IInv'
<1> USE SweepAssumption DEF IInv
<1>0. UNCHANGED <<sweep, fault>>
  BY DEF WorkerThrow
<1>w. pc \in {"launch", "join"}
  BY WorkerIsLaunched DEF WorkerThrow
<1>1. TypeOK'
  BY DEF WorkerThrow, TypeOK, PossibleArgs, Overrun
<1>2. LoopInv' /\ DrawInv' /\ ThreadInv' /\ ArgsInv' /\ CtxInv'
  BY DEF WorkerThrow, LoopInv, DrawInv, ThreadInv, ArgsInv, CtxInv, Launched
<1>3. JudgedInv' /\ ReportInv'
  BY <1>0, <1>w, Frame DEF WorkerThrow, JudgedInv, ReportInv
<1> QED
  BY <1>1, <1>2, <1>3

\* Nothing happens.
LEMMA StepStutter ==
  ASSUME IInv, UNCHANGED vars
  PROVE  IInv'
<1>0. UNCHANGED <<sweep, fault>>
  BY DEF vars
<1>1. TypeOK'
  BY DEF IInv, vars, TypeOK, PossibleArgs, Overrun
<1>2. LoopInv' /\ DrawInv' /\ ThreadInv' /\ ArgsInv'
  BY DEF IInv, vars, LoopInv, DrawInv, ThreadInv, ArgsInv, Batch, Launched
<1>3. CtxInv' /\ JudgedInv' /\ ReportInv'
  BY <1>0, Frame DEF IInv, vars, CtxInv, JudgedInv, ReportInv, Launched, Runs,
     HasFinished
<1> QED
  BY <1>1, <1>2, <1>3 DEF IInv

-----------------------------------------------------------------------------
(* Theorems.                                                                   *)

\* Every step keeps the invariant.
LEMMA NextIInv == IInv /\ [Next]_vars => IInv'
<1> SUFFICES ASSUME IInv, [Next]_vars
             PROVE  IInv'
  OBVIOUS
<1>1. CASE Main
  BY <1>1, StepBeginBatch, StepReturn, StepLaunchInline, StepInlineCase,
     StepInlineReturn, StepInlineThrow, StepLaunchWorker, StepThreadCreationFails,
     StepEndLaunch, StepJoin, StepEndJoin, StepCheckPass, StepCheckFail,
     StepEndCheck DEF Main
<1>2. ASSUME NEW p \in Workers, Worker(p)
      PROVE  IInv'
  BY <1>2, StepStartTest, StepWorkerCase, StepWorkerReturn, StepWorkerThrow DEF Worker
<1>3. CASE Idle
  BY <1>3, StepStutter DEF Idle
<1>4. CASE UNCHANGED vars
  BY <1>4, StepStutter
<1> QED
  BY <1>1, <1>2, <1>3, <1>4 DEF Next

\* The invariant holds in every behaviour of the sweep: in particular the types,
\* and that inputs, contexts and threads are where their phase wants them.
THEOREM Invariance == Spec => []IInv
<1>1. Init => IInv
  BY InitIInv
<1>2. IInv /\ [Next]_vars => IInv'
  BY NextIInv
<1> QED
  BY <1>1, <1>2, PTL DEF Spec

\* Every variable keeps its type.
THEOREM TypeCorrect == Spec => []TypeOK
<1>1. IInv => TypeOK
  BY DEF IInv
<1> QED
  BY <1>1, Invariance, PTL

\* Whatever the number of threads, a context is only read when its thread has been
\* joined, and then holds the outcome of the value of the sequential iteration.
THEOREM FreshResults == Spec => []ResultsAreFresh
<1>1. IInv => ResultsAreFresh
  <2> SUFFICES ASSUME IInv, pc = "check", NEW p \in Procs
               PROVE  /\ p \in Workers => thrd[p] = "idle"
                      /\ args[p] = SequentialArgs(sweep, iter - g_proc_num + p)
                      /\ ctx[p] = Outcome(sweep, Value(sweep, args[p]))
    BY DEF ResultsAreFresh
  <2>1. Launched(p) /\ (p \in Workers => thrd[p] = "idle")
    BY DEF IInv, ThreadInv, Launched
  <2>2. HasFinished(p)
    BY <2>1 DEF HasFinished, Procs, Workers
  <2>3. Batch + p = iter - g_proc_num + p
    BY SweepAssumption DEF IInv, LoopInv, TypeOK, Batch, Procs
  <2> QED
    BY <2>1, <2>2, <2>3 DEF IInv, ArgsInv, CtxInv
<1> QED
  BY <1>1, Invariance, PTL

\* No return and no exception of the calling thread finds a thread unjoined.
THEOREM NoOrphans == Spec => []NoOrphanThreads
<1>1. IInv => NoOrphanThreads
  BY DEF IInv, ThreadInv, NoOrphanThreads
<1> QED
  BY <1>1, Invariance, PTL

\* The diagnosis is about the first iteration the library fails.
THEOREM FirstFailure == Spec => []ReportNamesFirstFailure
<1>1. IInv => ReportNamesFirstFailure
  <2> SUFFICES ASSUME IInv, report # NoReport
               PROVE  /\ judged \in Detects
                      /\ \A i \in Detects : judged <= i
                      /\ [result |-> report.result, k |-> report.k] =
                           Outcome(sweep, Value(sweep, SequentialArgs(sweep, judged)))
                      /\ judged \in report.iter - g_proc_num .. report.iter - 1
    BY DEF ReportNamesFirstFailure
  <2> DEFINE out == Outcome(sweep, Value(sweep, SequentialArgs(sweep, judged)))
  <2>1. /\ report.result # 0
        /\ [result |-> report.result, k |-> report.k] = out
        /\ judged \in report.iter - g_proc_num .. report.iter - 1
        /\ judged \in Iterations
    BY DEF IInv, ReportInv
  <2>2. out.result = report.result
    BY <2>1
  <2>3. judged \in Detects
    BY <2>1, <2>2 DEF Detects
  <2>4. ASSUME NEW i \in Detects, ~(judged <= i)
        PROVE  FALSE
    <3>1. i \in 0 .. judged - 1
      BY <2>4, SweepAssumption DEF Detects, Iterations, Overrun, IInv, TypeOK
    <3> QED
      BY <3>1 DEF IInv, JudgedInv, Detects
  <2> QED
    BY <2>1, <2>3, <2>4
<1> QED
  BY <1>1, Invariance, PTL

\* Never more than g_proc_num - 1 tests run at once (1 when there is one context).
THEOREM Parallelism == Spec => []BoundedParallelism
<1>1. IInv => BoundedParallelism
  <2> SUFFICES ASSUME IInv
               PROVE  BoundedParallelism
    OBVIOUS
  <2> DEFINE active == {p \in Workers : thrd[p] \in {"spawned", "running"}}
  <2> USE SweepAssumption
  <2>1. /\ IsFiniteSet(Workers)
        /\ Cardinality(Workers) = g_proc_num - 1
    BY FS_Interval DEF Workers
  <2>2. /\ IsFiniteSet(active)
        /\ Cardinality(active) \in Nat
        /\ Cardinality(active) <= g_proc_num - 1
    BY <2>1, FS_Subset, FS_CardinalityType
  <2>3. pc = "inline" => active = {}
    BY DEF IInv, ThreadInv
  <2>4. pc = "inline" => Cardinality(active) = 0
    BY <2>3, FS_EmptySet
  <2> HIDE DEF active
  <2>5. Cardinality(active) + (IF pc = "inline" THEN 1 ELSE 0)
          <= (IF g_proc_num = 1 THEN 1 ELSE g_proc_num - 1)
    BY <2>2, <2>4
  <2> QED
    BY <2>5 DEF BoundedParallelism, active
<1> QED
  BY <1>1, Invariance, PTL

-----------------------------------------------------------------------------
(* The sweep implements the sequential one.                                    *)

\* What the library gets wrong is settled once for all.
LEMMA DetectsConstant ==
  ASSUME UNCHANGED <<sweep, fault>>
  PROVE  Detects' = Detects
  BY DEF Detects, Outcome

\* A step that judges nothing and does not stop the sweep is a stutter.
LEMMA Stutters ==
  ASSUME UNCHANGED <<sweep, fault, judged, report>>,
         pc' = pc \/ {pc, pc'} \cap {"done", "failed", "terminated"} = {}
  PROVE  UNCHANGED Sequential!vars
<1>1. Verdict' = Verdict
  BY DEF Verdict
<1> QED
  BY <1>1, DetectsConstant DEF Sequential!vars

\* An exception aborts.
LEMMA Aborts ==
  ASSUME UNCHANGED <<sweep, fault, judged, report>>, report = NoReport,
         pc \notin {"done", "failed", "terminated"}, pc' \in {"failed", "terminated"}
  PROVE  Sequential!Abort
<1>1. Verdict = "running" /\ Verdict' = "aborted"
  BY DEF Verdict
<1> QED
  BY <1>1, DetectsConstant DEF Sequential!Abort

\* A step of the calling thread is one of the sequential sweep, or a stutter.
LEMMA MainRefines ==
  ASSUME IInv, Main
  PROVE  Sequential!Next \/ UNCHANGED Sequential!vars
<1>r. pc # "failed" => report = NoReport
  BY DEF IInv, ReportInv
<1>1. CASE \/ BeginBatch \/ LaunchInline \/ InlineCase \/ InlineReturn
           \/ LaunchWorker \/ EndLaunch \/ Join \/ EndJoin \/ EndCheck
  BY <1>1, Stutters DEF BeginBatch, LaunchInline, InlineCase, InlineReturn,
     LaunchWorker, EndLaunch, Join, EndJoin, EndCheck
<1>2. CASE InlineThrow \/ ThreadCreationFails
  BY <1>2, <1>r, Aborts DEF InlineThrow, ThreadCreationFails, Sequential!Next
<1>3. CASE Return
  <2>1. judged >= iter_count
    BY <1>3 DEF Return, IInv, LoopInv
  <2>2. Verdict = "running" /\ Verdict' = "passed"
    BY <1>3 DEF Return, Verdict
  <2>3. Sequential!Pass
    BY <1>3, <2>1, <2>2, DetectsConstant DEF Return, Sequential!Pass
  <2> QED
    BY <2>3 DEF Sequential!Next
<1>4. CASE CheckPass
  <2>1. /\ judged \in Iterations
        /\ ctx[proc] = Outcome(sweep, Value(sweep, SequentialArgs(sweep, judged)))
    BY <1>4, JudgedContext DEF CheckPass
  <2>2. judged \notin Detects
    BY <1>4, <2>1 DEF CheckPass, Detects
  <2>3. Verdict = "running" /\ Verdict' = "running"
    BY <1>4 DEF CheckPass, Verdict
  <2>4. judged < iter_count + Overrun
    BY <2>1, SweepAssumption DEF Iterations, Overrun
  <2>5. Sequential!Accept
    BY <1>4, <2>2, <2>3, <2>4, DetectsConstant DEF CheckPass, Sequential!Accept
  <2> QED
    BY <2>5 DEF Sequential!Next
<1>5. CASE CheckFail
  <2>1. /\ judged \in Iterations
        /\ ctx[proc] = Outcome(sweep, Value(sweep, SequentialArgs(sweep, judged)))
    BY <1>5, JudgedContext DEF CheckFail
  <2>2. judged \in Detects
    BY <1>5, <2>1 DEF CheckFail, Detects
  <2>3. report' # NoReport
    BY <1>5 DEF CheckFail, NoReport
  <2>4. Verdict = "running" /\ Verdict' = "failed"
    BY <1>5, <2>3 DEF CheckFail, Verdict, NoReport
  <2>5. Sequential!Reject
    BY <1>5, <2>2, <2>4, DetectsConstant DEF CheckFail, Sequential!Reject
  <2> QED
    BY <2>5 DEF Sequential!Next
<1> QED
  BY <1>1, <1>2, <1>3, <1>4, <1>5 DEF Main

\* A step of a worker is a stutter, or it ends the process.
LEMMA WorkerRefines ==
  ASSUME IInv, NEW p \in Workers, Worker(p)
  PROVE  Sequential!Next \/ UNCHANGED Sequential!vars
<1>1. CASE StartTest(p) \/ WorkerCase(p) \/ WorkerReturn(p)
  BY <1>1, Stutters DEF StartTest, WorkerCase, WorkerReturn
<1>2. CASE WorkerThrow(p)
  <2>1. pc \in {"launch", "join"}
    BY <1>2, WorkerIsLaunched DEF WorkerThrow, Worker
  <2>2. report = NoReport
    BY <2>1 DEF IInv, ReportInv
  <2> QED
    BY <1>2, <2>1, <2>2, Aborts DEF WorkerThrow, Sequential!Next
<1> QED
  BY <1>1, <1>2 DEF Worker

\* Every behaviour of the parallel sweep is, through the iterations it has judged
\* and the way it ends, one of the sequential sweep: every number of threads, every
\* interleaving, every set of misbehaving values.
THEOREM Refinement == Spec => ImplementsSequentialSweep
<1>1. Init => Sequential!Init
  BY SweepAssumption DEF Init, Sequential!Init, Detects, Iterations, Verdict, NoReport
<1>2. IInv /\ [Next]_vars => [Sequential!Next]_(Sequential!vars)
  <2> SUFFICES ASSUME IInv, [Next]_vars
               PROVE  Sequential!Next \/ UNCHANGED Sequential!vars
    OBVIOUS
  <2>1. CASE UNCHANGED vars
    BY <2>1, Stutters DEF vars
  <2>2. CASE Idle
    BY <2>2, Stutters DEF Idle, vars
  <2> QED
    BY <2>1, <2>2, MainRefines, WorkerRefines DEF Next
<1> QED
  BY <1>1, <1>2, Invariance, PTL DEF Spec, Sequential!Spec, ImplementsSequentialSweep


-----------------------------------------------------------------------------
(* The mantissas tried.                                                        *)

\* A power of two counts the subsets of an interval: what the library proves of
\* subsets stands in for the recursion of ^.
LEMMA PowerOfTwo ==
  ASSUME NEW n \in Nat
  PROVE  /\ 2^n \in Nat
         /\ IsFiniteSet(SUBSET (1 .. n)) /\ Cardinality(SUBSET (1 .. n)) = 2^n
<1>1. IsFiniteSet(1 .. n) /\ Cardinality(1 .. n) = n
  BY FS_Interval
<1>2. IsFiniteSet(SUBSET (1 .. n)) /\ Cardinality(SUBSET (1 .. n)) = 2^Cardinality(1 .. n)
  BY <1>1, FS_SUBSET
<1>3. Cardinality(SUBSET (1 .. n)) = 2^n
  BY <1>1, <1>2
<1>4. Cardinality(SUBSET (1 .. n)) \in Nat
  BY <1>2, FS_CardinalityType
<1> QED BY <1>2, <1>3, <1>4

LEMMA PowerPositive ==
  ASSUME NEW n \in Nat
  PROVE 2^n \in Nat \ {0}
<1>1. SUBSET (1 .. n) # {}
 OBVIOUS
<1> QED BY <1>1, PowerOfTwo, FS_EmptySet

\* With one element more there are twice as many.
LEMMA PowerDoubles ==
  ASSUME NEW n \in Nat
  PROVE  2^(n + 1) = 2 * 2^n
<1> DEFINE S == SUBSET (1 .. n)
           T == {s \cup {n + 1} : s \in S}
           b == [s \in S |-> s \cup {n + 1}]
<1>1. IsFiniteSet(S) /\ Cardinality(S) = 2^n /\ 2^n \in Nat
  BY PowerOfTwo
<1>2. Cardinality(SUBSET (1 .. n + 1)) = 2^(n + 1)
  <2>1. n + 1 \in Nat
    OBVIOUS
  <2> QED BY <2>1, PowerOfTwo
<1>3. b \in Bijection(S, T)
  <2>1. b \in [S -> T] /\ \A t \in T : \E s \in S : b[s] = t
    OBVIOUS
  <2>2. \A s \in S : n + 1 \notin s
    OBVIOUS
  <2>3. \A s, t \in S : b[s] = b[t] => s = t
    BY <2>2
  <2>4. DOMAIN b = S
    OBVIOUS
  <2> HIDE DEF b, S, T
  <2>5. b \in Injection(S, T)
    BY <2>1, <2>3, <2>4 DEF Injection, IsInjective
  <2>6. b \in Surjection(S, T)
    BY <2>1 DEF Surjection
  <2> QED BY <2>5, <2>6 DEF Bijection
<1>4. IsFiniteSet(T) /\ Cardinality(T) = Cardinality(S)
  BY <1>1, <1>3, FS_Bijection DEF ExistsBijection
<1>5. SUBSET (1 .. n + 1) = S \cup T
  <2>1. 1 .. n + 1 = (1 .. n) \cup {n + 1}
    OBVIOUS
  <2>2. ASSUME NEW u \in SUBSET (1 .. n + 1), u \notin S
        PROVE  u \in T
    <3>1. u \ {n + 1} \in S /\ u = (u \ {n + 1}) \cup {n + 1}
      BY <2>1, <2>2
    <3> QED BY <3>1
  <2>3. ASSUME NEW u \in S \cup T
        PROVE  u \in SUBSET (1 .. n + 1)
    BY <2>1
  <2> QED BY <2>2, <2>3
<1>6. S \cap T = {}
  OBVIOUS
<1>7. IsFiniteSet({}) /\ Cardinality({}) = 0
  BY FS_EmptySet
<1> HIDE DEF S, T
<1>8. Cardinality(S \cup T) = 2^n + 2^n - 0
  BY <1>1, <1>4, <1>6, <1>7, FS_Union
<1>9. 2^n + 2^n - 0 = 2 * 2^n
  BY <1>1
<1> QED BY <1>2, <1>5, <1>8, <1>9

\* Induction over data, as the least counterexample.
LEMMA LeastOne ==
  ASSUME NEW S \in SUBSET Nat, S # {}
  PROVE  \E x \in S : \A y \in S : x <= y
<1> DEFINE R == OpToRel(<, Nat)
<1>1. IsWellFoundedOn(R, Nat)
  BY NatLessThanWellFounded
<1>2. \A x, y \in Nat : y < x => <<y, x>> \in R
  BY DEF OpToRel
<1> HIDE DEF R
<1>3. PICK x \in S : \A y \in S : ~ (<<y, x>> \in R)
  <2>1. S \subseteq Nat
   OBVIOUS
  <2> QED BY <1>1, <2>1, WFMin
<1>4. \A y \in S : ~ (y < x)
  BY <1>2, <1>3
<1> QED BY <1>4

LEMMA PowerAdds ==
  ASSUME NEW a \in Nat, NEW b \in Nat
  PROVE  2^(a + b) = 2^a * 2^b
<1> DEFINE S == {n \in Nat : 2^(a + n) # 2^a * 2^n}
<1>1. SUFFICES ASSUME S # {} PROVE FALSE
  OBVIOUS
<1>2. PICK n \in S : \A m \in S : n <= m
  BY <1>1, LeastOne
<1>3. 2^a \in Nat
  BY PowerOfTwo
<1>4. CASE n = 0
  <2>1. 2^0 = 1 /\ a + 0 = a
    OBVIOUS
  <2>2. 2^(a + n) = 2^a * 2^n
    BY <1>3, <1>4, <2>1
  <2> QED BY <2>2
<1>5. CASE n # 0
  <2>1. n - 1 \in Nat /\ n - 1 \notin S /\ (n - 1) + 1 = n /\ (a + (n - 1)) + 1 = a + n /\ a + (n - 1) \in Nat
    BY <1>2, <1>5
  <2>2. 2^(a + (n - 1)) = 2^a * 2^(n - 1)
    BY <2>1
  <2>3. 2^((n - 1) + 1) = 2 * 2^(n - 1) /\ 2^(n - 1) \in Nat
    BY <2>1, PowerDoubles, PowerOfTwo
  <2>4. 2^((a + (n - 1)) + 1) = 2 * 2^(a + (n - 1))
    BY <2>1, PowerDoubles
  <2>5. 2^n = 2 * 2^(n - 1) /\ 2^(a + n) = 2 * (2^a * 2^(n - 1))
    BY <2>1, <2>2, <2>3, <2>4
  <2>6. 2 * (2^a * 2^(n - 1)) = 2^a * (2 * 2^(n - 1))
    <3> DEFINE u == 2^a
               v == 2^(n - 1)
    <3>1. u \in Nat /\ v \in Nat
      BY <1>3, <2>3
    <3> HIDE DEF u, v
    <3>2. 2 * (u * v) = u * (2 * v)
      BY <3>1
    <3> QED BY <3>2 DEF u, v
  <2>7. 2^(a + n) = 2^a * 2^n
    BY <2>5, <2>6
  <2> QED BY <2>7
<1> QED BY <1>4, <1>5

LEMMA Quotient ==
  ASSUME NEW d \in Nat \ {0}, NEW q \in Nat, NEW r \in 0 .. d - 1
  PROVE  (q * d + r) \div d = q /\ (q * d + r) % d = r
  OBVIOUS

\* A mask of low bits is the mask of the mantissa, shifted right.
LEMMA ShiftedMask ==
  ASSUME NEW j \in 0 .. bits - 2
  PROVE  (2^bits - 1) \div 2^j = 2^(bits - j) - 1
<1>1. j \in Nat /\ bits - j \in Nat /\ (bits - j) + j = bits
  BY SweepAssumption
<1>2. 2^bits = 2^(bits - j) * 2^j
  BY <1>1, PowerAdds
<1>3. 2^j \in Nat \ {0} /\ 2^(bits - j) \in Nat \ {0}
  BY <1>1, PowerPositive
<1> DEFINE d == 2^j
           m == 2^(bits - j)
<1> HIDE DEF d, m
<1>4. d \in Nat \ {0} /\ m - 1 \in Nat /\ m \in Nat /\ 2^bits = m * d
  BY <1>2, <1>3 DEF d, m
<1>5. 2^bits - 1 = (m - 1) * d + (d - 1)
  BY <1>4
<1>6. d - 1 \in 0 .. d - 1
  BY <1>4
<1>7. ((m - 1) * d + (d - 1)) \div d = m - 1
  BY <1>4, <1>6, Quotient
<1> QED BY <1>5, <1>7 DEF d, m

\* The mantissas that are not drawn.
Plain(i) ==
  IF i = 0 THEN 0
  ELSE IF i <= bits THEN 2^(i - 1) ELSE 2^(2 * bits + 1 - i) - 1

LEMMA PlainMantissa ==
  ASSUME NEW s, Table[s].value = "scheduled", NEW i \in Nat, NEW d
  PROVE  /\ i <= 2 * bits - 1 => Mantissa(s, i, d) = [bits |-> Plain(i)] /\ Plain(i) \in Nat
         /\ i > 2 * bits - 1 => Mantissa(s, i, d) = [rank |-> d + 1]
<1> USE SweepAssumption
<1>1. DrawsMantissa(s, i) <=> i > 2 * bits - 1
  BY DEF DrawsMantissa
<1>2. CASE i > 2 * bits - 1
  BY <1>1, <1>2 DEF Mantissa
<1>3. CASE i = 0
  <2>1. ~ DrawsMantissa(s, i)
    BY <1>1, <1>3
  <2> QED BY <1>3, <2>1 DEF Mantissa, Plain
<1>4. CASE i \in 1 .. bits
  <2>1. ~ DrawsMantissa(s, i) /\ i # 0 /\ i - 1 \in Nat
    BY <1>1, <1>4
  <2>2. 2^(i - 1) \in Nat
    BY <2>1, PowerOfTwo
  <2>3. Mantissa(s, i, d) = [bits |-> 2^(i - 1)] /\ Plain(i) = 2^(i - 1)
    BY <1>4, <2>1 DEF Mantissa, Plain
  <2> QED BY <1>4, <2>2, <2>3
<1>5. CASE i \in bits + 1 .. 2 * bits - 1
  <2> DEFINE j == i - bits - 1
  <2>1. ~ DrawsMantissa(s, i) /\ i # 0 /\ i \notin 1 .. bits
    BY <1>1, <1>5
  <2>2. j \in 0 .. bits - 2 /\ bits - j = 2 * bits + 1 - i /\ bits - j \in Nat
    BY <1>5
  <2>3. Mantissa(s, i, d) = [bits |-> (2^bits - 1) \div 2^j] /\ Plain(i) = 2^(2 * bits + 1 - i) - 1
    BY <1>5, <2>1 DEF Mantissa, Plain
  <2> HIDE DEF j
  <2>4. (2^bits - 1) \div 2^j = 2^(bits - j) - 1
    BY <2>2, ShiftedMask
  <2>5. 2^(bits - j) \in Nat \ {0}
    BY <2>2, PowerPositive
  <2>6. 2^(bits - j) - 1 = Plain(i)
    BY <2>2, <2>3
  <2>7. Plain(i) \in Nat
    BY <2>5, <2>6
  <2> QED BY <1>5, <2>3, <2>4, <2>6, <2>7
<1> QED BY <1>2, <1>3, <1>4, <1>5

\* They are zero, the single bits and the masks of low bits.
LEMMA PlainSet ==
  {Plain(i) : i \in 0 .. 2 * bits - 1} =
    {0} \cup {2^b : b \in 0 .. bits - 1} \cup {2^b - 1 : b \in 2 .. bits}
<1> USE SweepAssumption
<1> DEFINE singles == {2^b : b \in 0 .. bits - 1}
           masks == {2^b - 1 : b \in 2 .. bits}
<1>1. ASSUME NEW i \in 0 .. 2 * bits - 1
      PROVE  Plain(i) \in {0} \cup singles \cup masks
  <2>1. CASE i = 0
    BY <2>1 DEF Plain
  <2>2. CASE i \in 1 .. bits
    <3>1. i - 1 \in 0 .. bits - 1 /\ Plain(i) = 2^(i - 1)
      BY <2>2 DEF Plain
    <3> QED BY <3>1
  <2>3. CASE i \in bits + 1 .. 2 * bits - 1
    <3>1. 2 * bits + 1 - i \in 2 .. bits /\ Plain(i) = 2^(2 * bits + 1 - i) - 1
      BY <2>3 DEF Plain
    <3> QED BY <3>1
  <2> QED BY <2>1, <2>2, <2>3
<1>2. Plain(0) = 0 /\ 0 \in 0 .. 2 * bits - 1
  BY DEF Plain
<1>3. ASSUME NEW b \in 0 .. bits - 1
      PROVE  b + 1 \in 0 .. 2 * bits - 1 /\ Plain(b + 1) = 2^b
  <2>1. b + 1 # 0 /\ b + 1 <= bits /\ (b + 1) - 1 = b /\ b + 1 \in 0 .. 2 * bits - 1
    OBVIOUS
  <2> QED BY <2>1 DEF Plain
<1>4. ASSUME NEW b \in 2 .. bits
      PROVE  2 * bits + 1 - b \in 0 .. 2 * bits - 1 /\ Plain(2 * bits + 1 - b) = 2^b - 1
  <2> DEFINE i == 2 * bits + 1 - b
  <2>1. i # 0 /\ ~ (i <= bits) /\ 2 * bits + 1 - i = b /\ i \in 0 .. 2 * bits - 1
    OBVIOUS
  <2> HIDE DEF i
  <2>2. Plain(i) = 2^b - 1
    BY <2>1 DEF Plain
  <2> QED BY <2>1, <2>2 DEF i
<1>5. singles \subseteq {Plain(i) : i \in 0 .. 2 * bits - 1}
  BY <1>3
<1>6. masks \subseteq {Plain(i) : i \in 0 .. 2 * bits - 1}
  BY <1>4
<1> HIDE DEF singles, masks
<1>7. {Plain(i) : i \in 0 .. 2 * bits - 1} = {0} \cup singles \cup masks
  BY <1>1, <1>2, <1>5, <1>6
<1> QED BY <1>7 DEF singles, masks

\* The sweeps that go through all mantissas give each its sign.
LEMMA AllSigned ==
  ASSUME NEW s \in Sweeps, Table[s].value = "all"
  PROVE  Table[s].signed /\ ~ Table[s].draws_prec
<1>1. s \in {"integer", "integer_locale", "fixed", "fixed_locale",
             "sci", "hex", "roundtrip", "big_prec"}
  BY SweepAssumption
<1>2. CASE s \in {"integer", "integer_locale", "big_prec"}
  BY <1>2 DEF Table, bruteforce_integer, bruteforce_fp_big_prec
<1>3. CASE s \in {"fixed", "fixed_locale"}
  BY <1>3 DEF Table, bruteforce_fp_fixed
<1>4. CASE s \in {"sci", "hex", "roundtrip"}
  BY <1>4 DEF Table, bruteforce_fp_sci, bruteforce_fp_hex, bruteforce_fp_roundtrip
<1> QED BY <1>1, <1>2, <1>3, <1>4

Tried == {Value(sweep, SequentialArgs(sweep, i)) : i \in 0 .. judged - 1}
PlainTried == {v.mantissa.bits : v \in {u \in Tried : u.mantissa \in [bits : Nat]}}

LEMMA TriedMantissa ==
  ASSUME NEW s, NEW i
  PROVE  /\ Value(s, SequentialArgs(s, i)).mantissa = Mantissa(s, i, DrawnBefore(s, i))
         /\ Table[s].signed => Value(s, SequentialArgs(s, i)).sign = i % 2
BY DEF Value, SequentialArgs, Args

LEMMA ScheduledTried ==
  ASSUME Table[sweep].value = "scheduled", judged \in Nat, judged >= 2 * bits
  PROVE  PlainTried = {Plain(i) : i \in 0 .. 2 * bits - 1}
<1> DEFINE v(i) == Value(sweep, SequentialArgs(sweep, i))
<1>1. ASSUME NEW i \in 0 .. judged - 1
      PROVE  /\ i <= 2 * bits - 1 => v(i).mantissa = [bits |-> Plain(i)] /\ Plain(i) \in Nat
             /\ i > 2 * bits - 1 => v(i).mantissa = [rank |-> DrawnBefore(sweep, i) + 1]
  <2>1. i \in Nat
    OBVIOUS
  <2>2. v(i).mantissa = Mantissa(sweep, i, DrawnBefore(sweep, i))
    BY TriedMantissa
  <2> HIDE DEF v
  <2> QED BY <2>1, <2>2, PlainMantissa
<1>2. Tried = {v(i) : i \in 0 .. judged - 1}
  BY DEF Tried
<1>3. 0 .. 2 * bits - 1 \subseteq 0 .. judged - 1
  BY SweepAssumption
<1> HIDE DEF v
<1>4. \A n : [rank |-> n] \notin [bits : Nat]
  <2> SUFFICES ASSUME NEW n, [rank |-> n] \in [bits : Nat] PROVE FALSE
    OBVIOUS
  <2>1. DOMAIN [rank |-> n] = {"rank"}
    OBVIOUS
  <2>2. PICK m \in Nat : [rank |-> n] = [bits |-> m]
    OBVIOUS
  <2>3. DOMAIN [bits |-> m] = {"bits"}
    OBVIOUS
  <2> QED BY <2>1, <2>2, <2>3
<1>5. ASSUME NEW i \in 0 .. judged - 1, v(i).mantissa \in [bits : Nat]
      PROVE  i \in 0 .. 2 * bits - 1 /\ v(i).mantissa.bits = Plain(i)
  <2>1. ~ (i > 2 * bits - 1)
    BY <1>1, <1>4, <1>5
  <2>2. i \in 0 .. 2 * bits - 1
    BY <2>1, SweepAssumption
  <2>3. i <= 2 * bits - 1
    BY <2>2, SweepAssumption
  <2>4. v(i).mantissa = [bits |-> Plain(i)]
    BY <1>1, <2>3
  <2> QED BY <2>2, <2>4
<1>6. ASSUME NEW i \in 0 .. 2 * bits - 1
      PROVE  v(i).mantissa \in [bits : Nat] /\ v(i).mantissa.bits = Plain(i) /\ v(i) \in Tried
  <2>1. i \in 0 .. judged - 1 /\ i <= 2 * bits - 1
    BY <1>3, <1>6
  <2>2. v(i).mantissa = [bits |-> Plain(i)] /\ Plain(i) \in Nat
    BY <1>1, <2>1
  <2> QED BY <1>2, <2>1, <2>2
<1>7. PlainTried \subseteq {Plain(i) : i \in 0 .. 2 * bits - 1}
  BY <1>2, <1>5 DEF PlainTried
<1>8. {Plain(i) : i \in 0 .. 2 * bits - 1} \subseteq PlainTried
  <2>1. \A i \in 0 .. 2 * bits - 1 : \E u \in Tried : u.mantissa \in [bits : Nat] /\ Plain(i) = u.mantissa.bits
    BY <1>6
  <2> QED BY <2>1 DEF PlainTried
<1> QED BY <1>7, <1>8

LEMMA AllTried ==
  ASSUME sweep \in Sweeps, Table[sweep].value = "all", judged \in Nat, judged >= 2^bits
  PROVE  PlainTried = 0 .. 2^bits - 1 /\ \A u \in Tried : u.sign = u.mantissa.bits % 2
<1> DEFINE v(i) == Value(sweep, SequentialArgs(sweep, i))
           n == 2^bits
<1>1. n \in Nat \ {0} /\ 2^(bits - 1) \in Nat /\ n = 2 * 2^(bits - 1)
  <2>1. bits \in Nat /\ bits - 1 \in Nat /\ (bits - 1) + 1 = bits
    BY SweepAssumption
  <2> QED BY <2>1, PowerPositive, PowerOfTwo, PowerDoubles
<1>2. ASSUME NEW i \in 0 .. judged - 1
      PROVE  v(i).mantissa = [bits |-> i % n] /\ v(i).sign = i % 2
  <2>1. ~ DrawsMantissa(sweep, i)
    BY DEF DrawsMantissa
  <2>2. Mantissa(sweep, i, DrawnBefore(sweep, i)) = [bits |-> i % n]
    BY <2>1 DEF Mantissa
  <2> QED BY <2>2, TriedMantissa, AllSigned
<1>3. Tried = {v(i) : i \in 0 .. judged - 1}
  BY DEF Tried
<1>4. 0 .. n - 1 \subseteq 0 .. judged - 1 /\ \A i \in 0 .. judged - 1 : i \in Nat
  BY <1>1
<1> HIDE DEF v, n
<1>5. ASSUME NEW i \in Nat
      PROVE  i % n \in 0 .. n - 1 /\ (i \in 0 .. n - 1 => i % n = i) /\ i % 2 = (i % n) % 2
  <2>1. i % n \in 0 .. n - 1 /\ i \div n \in Nat /\ i = n * (i \div n) + (i % n)
    BY <1>1
  <2>2. i \in 0 .. n - 1 => i % n = i
    BY <1>1
  <2> DEFINE k == 2^(bits - 1)
             q == i \div n
             r == i % n
  <2> HIDE DEF k, q, r
  <2>3. k \in Nat /\ q \in Nat /\ r \in Nat /\ i = (2 * k) * q + r
    BY <1>1, <2>1 DEF k, q, r
  <2>4. k * q \in Nat /\ (2 * k) * q = 2 * (k * q)
    BY <2>3
  <2> DEFINE h == k * q
  <2> HIDE DEF h
  <2>5. h \in Nat /\ i = 2 * h + r
    BY <2>3, <2>4 DEF h
  <2>6. i % 2 = r % 2
    BY <2>3, <2>5
  <2> QED BY <2>1, <2>2, <2>6 DEF r
<1>6. ASSUME NEW i \in 0 .. judged - 1
      PROVE  /\ v(i).mantissa \in [bits : Nat] /\ v(i).mantissa.bits = i % n /\ i % n \in 0 .. n - 1
             /\ v(i).sign = v(i).mantissa.bits % 2
  <2>1. i \in Nat /\ i % n \in 0 .. n - 1 /\ i % 2 = (i % n) % 2
    BY <1>4, <1>5
  <2>2. i % n \in Nat
    BY <1>1, <2>1
  <2>3. v(i).mantissa = [bits |-> i % n] /\ v(i).sign = i % 2
    BY <1>2
  <2>4. v(i).mantissa \in [bits : Nat] /\ v(i).mantissa.bits = i % n
    BY <2>2, <2>3
  <2> QED BY <2>1, <2>3, <2>4
<1>7. PlainTried \subseteq 0 .. n - 1
  BY <1>3, <1>6 DEF PlainTried
<1>8. ASSUME NEW i \in 0 .. n - 1
      PROVE  i \in PlainTried
  <2>1. i \in 0 .. judged - 1 /\ i \in Nat /\ i % n = i
    BY <1>1, <1>4, <1>5
  <2>2. v(i) \in Tried /\ v(i).mantissa \in [bits : Nat] /\ v(i).mantissa.bits = i
    BY <1>3, <1>6, <2>1
  <2> QED BY <2>2 DEF PlainTried
<1>9. PlainTried = 0 .. n - 1
  BY <1>7, <1>8
<1>10. \A u \in Tried : u.sign = u.mantissa.bits % 2
  BY <1>3, <1>6
<1> QED BY <1>9, <1>10 DEF n

\* A sweep returns at the head of its loop, past the iterations asked for.
ReturnInv == pc = "done" => judged >= iter_count

LEMMA ReturnKeeps == IInv /\ ReturnInv /\ [Next]_vars => ReturnInv'
<1> SUFFICES ASSUME IInv, ReturnInv, [Next]_vars, pc' = "done"
             PROVE  judged' >= iter_count'
  BY DEF ReturnInv
<1>1. CASE Return
  BY <1>1 DEF Return, IInv, LoopInv
<1>2. CASE ~ Return
  <2>1. pc = "done" /\ judged' = judged
    BY <1>2 DEF Next, Main, BeginBatch, LaunchInline, InlineCase, InlineReturn, InlineThrow,
       LaunchWorker, ThreadCreationFails, EndLaunch, Join, EndJoin, CheckPass, CheckFail, EndCheck,
       Worker, StartTest, WorkerCase, WorkerReturn, WorkerThrow, Idle, vars
  <2> QED BY <2>1 DEF ReturnInv
<1> QED BY <1>1, <1>2

\* A sweep that returns has tried zero, every single-bit mantissa and every mask of
\* low bits, whatever the width and however many threads; an exhaustive one every
\* mantissa, with the sign of its parity (cvt.cpp:1652 and 1565).
THEOREM Coverage == Spec => []CoversMantissas
<1>1. Init => ReturnInv
  BY DEF Init, ReturnInv
<1>2. IInv /\ ReturnInv => CoversMantissas
  <2> SUFFICES ASSUME IInv, ReturnInv, pc = "done"
               PROVE  CASE Table[sweep].value = "scheduled" /\ iter_count >= 2 * bits ->
                             PlainTried = {0} \cup {2^b : b \in 0 .. bits - 1} \cup {2^b - 1 : b \in 2 .. bits}
                        [] Table[sweep].value = "all" /\ iter_count >= 2^bits ->
                             /\ PlainTried = 0 .. 2^bits - 1
                             /\ \A v \in Tried : v.sign = v.mantissa.bits % 2
                        [] OTHER -> TRUE
    BY DEF CoversMantissas, PlainTried, Tried
  <2>1. judged \in Nat /\ judged >= iter_count /\ sweep \in Sweeps /\ iter_count \in Nat /\ bits \in Nat
    BY SweepAssumption DEF IInv, TypeOK, ReturnInv
  <2>2. 2^bits \in Nat
    BY <2>1, PowerOfTwo
  <2>3. CASE Table[sweep].value = "scheduled" /\ iter_count >= 2 * bits
    <3>1. judged >= 2 * bits
      BY <2>1, <2>3
    <3>2. PlainTried = {0} \cup {2^b : b \in 0 .. bits - 1} \cup {2^b - 1 : b \in 2 .. bits}
      BY <2>1, <2>3, <3>1, ScheduledTried, PlainSet
    <3> QED BY <2>3, <3>2
  <2>4. CASE Table[sweep].value = "all" /\ iter_count >= 2^bits
    <3>1. judged >= 2^bits
      BY <2>1, <2>2, <2>4
    <3>2. PlainTried = 0 .. 2^bits - 1 /\ \A u \in Tried : u.sign = u.mantissa.bits % 2
      BY <2>1, <2>4, <3>1, AllTried
    <3> QED BY <2>4, <3>2
  <2> QED BY <2>3, <2>4
<1> QED
  BY <1>1, <1>2, ReturnKeeps, Invariance, PTL DEF Spec
=============================================================================
