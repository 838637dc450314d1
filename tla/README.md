# A verification development for uxs-tests

The repository is a test suite: one executable that checks the `uxs` library
(`uxs` itself is a submodule and not part of this tree).  It has its own
machinery nevertheless, and a test suite whose machinery is wrong reports
success for the wrong reason.  That machinery is what is modelled here: the
parallel sweeps, the runner, the allocators that the container tests conclude
from, the element type that counts its objects, the device the stream tests
read and write, the tests that leave files behind, the drivers that force
exceptions, and the brute-force tests that walk a container and a reference in
lockstep.

* `*.tla`: one module per component, `MC*.tla` for the instances TLC checks,
  `*Proofs.tla` for the theorems TLAPS checks.
* `*.cfg`: the TLC configurations.
* `PROJECT.json`: components, runs, the source lines of every definition, the
  hazards, the findings, the theorems, and for every checked property a mutant
  of one definition that has to violate it.

To check: `tlc -config <cfg> <module>` for a run of the table below, `tlapm
<module>` for a proof module.

## 1. Inventory

| Component | State it keeps | Operations | How it interacts | What makes it correct |
|---|---|---|---|---|
| **Parallel sweeps** (`src/string/cvt.cpp` 1394–2206: `bruteforce_integer`, `_fp_fixed`, `_fp_sci`, `_fp_hex`, `_fp_roundtrip`, `_fp_big_prec`) | contexts, threads, loop variables, one random generator, a mantissa schedule | launch a batch, test inline, test in threads, join, judge, diagnose | called by the runner; `-j` sets `g_proc_num`; threads write contexts that the calling thread reads after the join | every value tested once, in an order that does not depend on `-j`; the first failure is the one reported; no thread left behind; it ends |
| **Test runner** (`src/main.cpp`, `include/test_suite.h`) | the chain of registered test cases, option lists, the table category → group → tests, leak counters | register, parse, select, perform a common or a tabular category, report | calls every test; reads `T::instance_count` and the global pool | what the options ask for is run once; a failure stops it; the exit status says what happened |
| **`test_allocator`** (`include/test_allocators.h`) | per statistics object: references, allocated elements, detected elements, block table | construct, copy, assign, swap, destroy, allocate, deallocate, reset the detection | lives in the containers under test; tests read the detected count | references exact; statistics live while referred to; blocks accounted; a leak cannot go unnoticed |
| **`T`** (`include/test_types.h`) | two static counters | constructors, assignments, `set`, destructor | element type of the container tests; the runner reads one counter | counters equal the live, and the non-empty, objects |
| **`memdev`** (`src/iobuf.cpp` 19–111) | a vector of words, a position, an end of data | `read`, `write`, `map`, `seek`, `ctrlesc_color`, copy | the streams of `uxs` read and write it; tests compare its bytes with a reference | it is a file of bytes; its assertions hold |
| **File mode tests** (`src/iobuf.cpp` 477–640) | `testdata/test_file.txt`, which outlives a session | open in 27 modes, write, read back, remove | `uxs` files, the file system; performed by the runner in the reverse order of registration | a correct library raises no alarm whatever was left; a wrong one is noticed |
| **Stream and zlib tests** (`src/iobuf.cpp` 113–475, 643–719) | local; files under `testdata/zlib` | write, read back and compare with a reference | `uxs` streams | each `VERIFY` |
| **Throwing allocator and values** (`include/gcc_testsuite/util/exception/throw_allocator.h`) | a limit, a count of conditions, a chain of adjustor objects; a label, a map of blocks and a map of objects | adjust the limit and restore it, pass a condition, allocate, construct, deallocate, check a label or all | elements, comparisons and allocators of a container under test pass the conditions | no limit outlives its adjustor; the annotations are the heap |
| **Exception safety drivers** (`…/exception/safety.h`) | containers, the number of the step, the function being tried | populate, force an error at one throw point after another, check what is left | run a container of `uxs` over the instruments above | a correct container passes, a faulty one is noticed, every throw point is forced, the loop ends |
| **Allocators with a personality and their tests** (`…/testsuite_allocator.h` 255–450, `gcc_testsuite/{vector,list,set}/allocator`) | a static map of blocks to personalities | allocate, deallocate with refusals; copy, move, assign and swap containers | the allocators live in the containers; tests compare personalities, iterators and a count | the map is the heap; a container that keeps the rules passes, one that does not is noticed |
| **Red-black tree checker** (`src/rbtree_check_balance.cpp`, `include/rbtree_tests.h`) | none | check | reads the nodes of `uxs` trees | accepts exactly the balanced trees |
| **Brute-force tests** (`src/rbtree_bruteforce.h`, `src/vector/bruteforce.cpp`, `src/list/bruteforce.cpp`) | a container and its reference | random operations on both, a comparison after each | `uxs` containers against those of the standard library | a difference is noticed in the step that makes it; no call out of bounds; the loops end |
| **Container, db_value, json, xml, intrusive scenarios** (`src/vector`, `src/list`, `src/set`, `src/db_value`, …) | local | straight-line checks | `uxs` types | each `VERIFY` |
| **Performance loops** (`src/rbtree_perf.h`, `*/perf.cpp`) | counters, clocks | estimate a number of loops, measure | the runner prints what they return | a number of loops that is positive and bounded |
| **Vector and matrix types** (`src/math.h`) | plain data | conversions to and from strings | user types of the format tests | – |
| **Table generators** (`src/helper`) | none | UTF ranges, CRC-32, powers, logarithms | their output is pasted into `uxs` | equal to their definitions |
| **Scripts** (`test.sh`, `test-batch.sh`, `*.ps1`) | `CMakeLists.txt`, build directories | build and run for each standard | edit the tree in place | one batch at a time |
| **other tests of gcc_testsuite**, **3rd_party**, **testdata** | – | – | – | taken over or data |

What is hard here, and hard to test: worker threads whose contexts are reused
batch after batch; the last batch that runs past the end; exceptions in each of
the places an exception may come from; registration in an order the linker
chooses; a hand-written reference count under assignment and self-assignment; a
vector whose length, end of data and position move by different rules; limits
that nest and are restored while an exception passes; a checker that is wrong
only for a lopsided tree; a static map that an earlier test has left something
in; and a long run of legal calls before anything shows.  Each such place is an entry of
`hazards` in `PROJECT.json`, at its line, with the properties that cover it.

## 2. Plan

Modules, in the order they were written; all but the last are done.

1. `ParallelSweep` implementing the abstract `Sweep`; proofs.
2. `TestRunner`; proofs.
3. `TestAllocator`; proofs.
4. `MemDev` implementing the abstract `ByteFile`; proofs.
5. `TrackedT`: the counters of `T` against the live objects; proofs.
6. `FileModes`: the file tests over a file that an earlier session may have
   left; proofs.
7. `ThrowAllocator`: the limit with its adjustors, the annotations.
8. `ExceptionSafety`, composed of `ThrowAllocator` and the three drivers:
   what they force, what they notice, that they end; proofs of both.
9. `RbTreeCheck` and `Lockstep`: the checker beside the definition of a
   red-black tree, and the brute-force tests that trust it; proofs of both.
10. `AllocatorScenarios`: assignment, construction and swap against the
    allocator traits; proofs.
11. *Left:* pure algorithms of the table generators against reference
    definitions, with TLC only where they are recursive: UTF range tables,
    CRC-32 and reflection, logarithm tables; `list_sort_test`; the comparison
    that the stream tests make.

Every property that a passing run checks is a theorem too, but for the three of
liveness (section 5).

## 3. Modules and code

### ParallelSweep and Sweep

The six `bruteforce_*` functions repeat one loop (cvt.cpp 1467–1503 for the
first), and `ParallelSweep` is that loop with a table of what differs: how a
value is chosen, whether a precision is drawn, and the checks of a case in their
order with the result each sets.

| Model | Code |
|---|---|
| `pc` "head" … "check" | the places of the outer loop: its condition, the launching loop, the inline call, the joining loop, the judging loop |
| `iter`, `proc` | the loop variables of the same names |
| `drawn` | how far the generator has got |
| `args[p]` | what is bound into the call for context p (1482, 1484) |
| `ctx[p]` | `test_context`: `result` and `k` |
| `thrd[p]` | `std::thread`: idle (not joinable), spawned, running, finished |
| `LaunchInline`, `InlineCase`, `InlineReturn`, `InlineThrow` | context 0, tested by the calling thread before any thread is started |
| `LaunchWorker`, `ThreadCreationFails`, `EndLaunch` | the construction of the threads; a creation that fails while an earlier thread is joinable terminates the process |
| `StartTest`, `WorkerCase`, `WorkerReturn`, `WorkerThrow` | a thread's `test_func`, one step per case; an exception in it terminates the process |
| `Join`, `EndJoin`, `CheckPass`, `CheckFail`, `EndCheck`, `Return` | joining and judging in order, `VERIFY` throwing out of the sweep |

The library under test is `fault`: an unknown function from tested values to the
case that misbehaves and the mismatches it shows, chosen once.  It is a function
of the value, since the conversions keep no state; so the same value drawn under
another `-j` shows the same mismatch, and that is what makes "the same result
for every `-j`" a question at all.  The writes of a context by its thread, one
case at a time, and the join as the only synchronisation are kept; the bytes of
the strings are not.

`Sweep` is the promise: a sequential loop over the iterations, of which the
first wrong one ends the sweep and is the one reported.  `ImplementsSequential-
Sweep` maps `judged` (history: iterations judged and passed) to the loop's
counter.  A process that terminates is an `Abort` of `Sweep`.

### TestRunner

`RegisterUnit` is the static initialization of one translation unit: its
`TestCase` objects put themselves in front of the chain, units in any order.
`Selected` is the condition of main.cpp 97–102, options being substring patterns
(`Occurs`), and `organize_test_cases` takes one test case of the list at a time
and puts it at the end of its group (`push_back`, which makes the entries of the
two maps where there are none).  `NextCategory`, `NextGroup` and `Call…` are the
nested loops of `perform_test_cases`: `cats_left`, `groups_left` and `tests_left`
are what their iterators have still before them, in the order of the keys, and
`Called` is every test of a group, or the front test of one that has a name for
the categories whose name contains `perf` or `info`.  `Call…` are the outcomes of
a call (zero, non-zero, exception, a process that dies), each with any change of
`T::instance_count` and of the pool.  `CheckLeaks` is the end of `main`.

### TestAllocator

An allocator object is a reference to statistics; `DefaultConstruct`,
`CopyConstruct`, `Assign`, `swap`, `Destroy` are the constructors, the two
assignments (copy and move do the same, lines 30–46) and the destructor,
`Release` and `Drop` are `reset`, which deletes the statistics with the last
reference and asserts that nothing is allocated.  `allocate` and
`AllocateThrows` differ in `std::allocator` having thrown after both counters
have moved (50–54); `deallocate` and `DeallocateThrows` in the `VERIFY` on the
block table.  Users are arbitrary: they deallocate through the wrong handle,
twice, or with the wrong size.  `NDEBUG` is a constant: a release build has no
assertions.  `BlocksAccounted` counts the elements in the blocks that a table
holds, one by one, rather than adding up their sizes.

### MemDev and ByteFile

`data_`, `pos_`, `top_` are the members, the vector as the bytes of its words.
`put` is `write`, whose `resize` may shrink the vector; `map_for_writing` grows
a full one by half, to 8 words at least; `seek` (with `MoveTo`) moves the end of
data with the position, or fails its `VERIFY`; `copy` is the copy constructor
the tests use to read back what a stream has written.  A stream that maps the
device is not part of the repository: `Store` and `Commit` are marked external,
and say that a stream stores bytes through the pointer, inside the size it was
given, and moves the position over them with `seek` before its next call: the
interface has no other way to tell the device how much was stored.

`ByteFile` is a file with a position, the mapping
`content = the first top_ bytes`, and `reply` in both makes the refinement
compare every value a call returns.

### TrackedT

`text[o]` is the `text` member of the object that lives at a place, or
`NoObject`; `not_empty_count` and `instance_count` are the static members.  One
action for each constructor, assignment, `set` and the destructor; in
`CopyAssign(o, t)` and `MoveAssign(o, t)` o and t may be the same object.  A
move empties its source, since the code clears it, so that a moved-from object
is one without a text and its share of the count has gone along.  The users
(containers, tests) are arbitrary, but destroy only what lives, and construct
only where nothing does.  `T_ThrowingMove` drops the `noexcept` of the moves and
delegates everything.  `T(int)` and `set` store the digits of a number, which
are never empty.

### FileModes

`disk` is the content of `test_file.txt`, and survives the sessions.  The calls
of `test_iobuf_file_modes` are the rows of `Cases`; `ProbeMissing` to `Remove`
are the statements of `test_iobuf_file_mode` that touch the file, each with the
`VERIFY` after it, `Text…` those of `test_iobuf_file_text_mode`.  A handle that
opens a file and the write that is flushed by its close are two steps, so that a
process may die with a file that is empty.  `Order` is the order in which the two
tests are performed: the runner takes the registered ones from the last to the
first (`RegisterUnit` in `TestRunner`), which is what lets a session recover.

The files of `uxs` are external, taken from what the calls expect of each mode:
`Opens`, `Opened`, `Written`, `Read`.  A library that is wrong takes flags of a
mode for missing or for given, in all modes or in some of them (`Fault`).
Contents are sequences of words, of which "Hello" and "HELLO" are equally long,
as they are in the test.

### ThrowAllocator

`limit` and `count` are the statics of `limit_condition`, `adjustors` the
objects alive, each with the limit it has found.  `Adjust` is the constructor of
each of the three kinds, `Restore` the destructors of all of them; both go
through `set_limit`, which zeroes the count.  `Throws` is the test in
`throw_conditionally`, whose count moves only when it does not throw.
`allocate`, `construct`, `destroy` and `deallocate` are those of
`throw_allocator_base` with the calls of `annotate_base` they make: the condition
comes before the block is taken, and a refusal before anything is freed.
`bad_alloc` is want of memory, in `allocate` and in `construct`, before the
condition or after it; when it is the map of annotations that cannot grow (721),
the block has been taken and its address goes with the exception: it stays in
`heap` as `Unowned`, and `Held` are the others.
`Labelled` and `Left` are what the two `check` look for.

### ExceptionSafety

The instruments are those of `ThrowAllocator` by EXTENDS.  `BasicOrder`,
`ConsistentOrder` and `ProhibitedOrder` are the orders in which the three drivers
go through the member functions; `Begin` is the head of `run_steps_to_limit`
(label, adjustor, for `propagation_consistent` a copy of the control container),
`Point` one throw point of the call, `Unwind` the way out through the container
and the adjustor, `Caught` the handler with its check, `Finish` a call that
passes, `End` and `Check` the end of `run`.  Step numbers, which are labels and
limits at once, carry over from function to function in `basic_safety` and begin
anew in `propagation_consistent` (`NextStep`).

The container is external: the throw points of a function are a sequence of
kinds (`Points`), among them that of the static of `generate_unique`, which is
constructed by the first call of a process only.  `Take` is what
`std::allocator` does: it gives addresses that are free, each once.  A faulty one loses a node when
the construction of its value fails, keeps it, throws where it must not, or
forgets a node when it is destroyed.

### RbTreeCheck and Lockstep

`rbtree_check_balance` is a recursive function: of a tree it makes the function
that takes the other arguments of a call (`Calls`) to the result and what is left
in the parameter that the code passes by reference.  `AtEnd` is what the code does
where a child is missing, on either side; `AtNode` the rest, `Balanced` the call
that `rbtree_check` makes.  `IsRedBlack` says the same by the colours on the
paths, without any of that.

A container `s` is what can be seen of it: its elements forwards, backwards, its
count, its tree.  `Right(x)` are the containers that hold x rightly, with *any*
red-black tree of that size, `Wrong(x)` those with one thing wrong, every other
coloured tree included; a call returns what it promises or something else.  The
container goes wrong once, in any step.  A wrong one takes the further steps with
its own elements and keeps what is wrong (`Keeps`): a wrong element until it is
erased, wrong links or a wrong tree until a step changes the container, a wrong
count for good.  After most steps a check
follows; `Assign` ends with `s = s3`, which nothing looks at before the first
`RangeStep` has used it, and which therefore has a property of its own,
`CopyNoticed`.  There is one action for each act of
`vector_test` and `list_test` (shared where they are the same), and `Fill`,
`Assign`, `RangeStep`, `Erase`, `Drain` for the five loops of
`rbtree_bruteforce_test`; `Check` is the three check functions, `Sound` what a
container is that they ought to accept.

### AllocatorScenarios

`alloc_map` is the static map of `uneq_allocator`, `heap` what the base allocator
has given.  A test is its list of statements (`Tests`) with the traits of the
allocator it uses, and one action performs each kind of statement; `VERIFY`
fails by an exception, after which the containers are destroyed, and a refused
`deallocate` throws, which leaves the statement or ends the program
where that may not throw.  The containers are external and of one element: the
contract leaves open whether an assignment reuses a node or takes a new one, and
whether a freed address comes back at once, so both are tried.  A fault is a rule
of allocator-aware containers that is broken throughout.

## 4. Runs

| Run | Instance | Distinct states | Shows |
|---|---|---|---|
| `sweep_threads` | `-j 3`, 4 iterations, 2 cases, two sweeps, up to 2 faulty values; fair | 83 180 | safety of the threads, the refinement of `Sweep`, a sweep ends |
| `sweep_codes` | `-j 2`, 8 iterations, 3-bit mantissas, all sweeps and sets of mismatches | 2 703 144 | which failure is reported, and which mantissas a finished sweep has tried |
| `sweep_result_code` | finding 1 below | – | violation |
| `runner_sessions` | 3 units, 5 tests, 5 command lines | 4 516 | selection, order, failure, status |
| `allocator_accounts` | 3 allocators, 3 statistics, 2 blocks, sizes 1 and 2 | 99 452 | the accounts |
| `memdev_file` | words of 2 bytes, least growth 2 words, position up to 5 | 22 835 | the assertions, the gaps, the refinement of `ByteFile` |
| `tracked_counts` | 4 objects, 2 texts | 256 | the two counts |
| `file_sessions` | 2 sessions, libraries with up to two faults | 113 562 | recovery from what was left, no false alarm, faults noticed |
| `throw_calls` | 2 addresses, 2 sizes, 2 adjustors, 2 conditions | 72 658 | no limit outlives, the annotations are the heap |
| `safety_drivers` | list and set, 1 or 2 elements, none or one of 4 faults; fair | 44 926 | no false alarm, faults noticed, everything forced, it ends |
| `lockstep` | 4 containers of up to 3 elements, 3 values; fair | 4 749 | after every check the container is the reference; what the step after `s = s3` can hide of a wrong copy; a right one never fails, no call out of bounds, the last loop ends |
| `allocator_scenarios` | 3 containers, none or one of 12 faults, 4 addresses | 1 949 | the map is the heap, no false alarm, which faults are noticed |

Why the bounds are enough.

* *Sweeps.*  Three contexts are the least with two threads, so that threads race
  each other and not only the caller; 4 iterations make two batches, the second
  overrunning by 2, so that contexts are reused and the end is crossed.  Two
  faulty values give a first and a second failure, in one batch or in two.  Two
  cases tell "went on after a mismatch" from "stopped".  `sweep_codes` needs no
  second thread (the order of checks is a matter of one test), so it takes every
  sweep and every set of mismatches.  Three bits are the least width at which a
  single-bit mantissa and a mask of low bits differ in more than one place, and
  8 iterations cover all of them.
* *Runner.*  Three units, so that a unit may register before, between and after
  the others; two sanity tests in different groups, two performance tests of one
  group in different units (only the last registered may run), and a brute-force
  test; command lines with no option and with each kind of option.  `MaxLeak` 1
  lets two tests leave one object and take away another, which the sum does not show.
* *Allocator.*  Three handles are the least for an assignment that moves a
  reference between two groups while a third holds one of them; two blocks may
  lie in one table or in two; `MaxElements` 2 reaches the counters from below
  and above.  Handles, statistics and blocks are interchangeable, which is the
  symmetry used; no liveness is checked under it.
* *Device.*  Word size 2 makes half-filled words; least growth 2 with a bound of
  5 bytes covers both arms of the growth rule (0 to 2 words, 2 to 3), and
  vectors that shrink again.  Strings of 0, 1 and 3 bytes end inside a word, at
  one, and in the next; offsets from -2 to 3 are refused, inside, at and past
  the end.

* *Files.*  The second session can find whatever a test that failed, or a process
  that died, has left.  Up to two flags too few or too many, in all modes, in
  those that have, or in those that lack, one flag: two faults may make up for
  each other, which one cannot.  The theorems say the same of any sets of flags
  and any number of sessions.
* *T.*  An operation touches two objects; with four there are always others
  that keep their texts.  The theorem says the same of any number.
* *Throwing allocator.*  Two adjustors are the least that nest, two conditions
  the least with one before the limit and one at it.  The theorems say the same
  of any number.
* *Drivers.*  The code draws sizes from 0 to 100; with 1 and 2 an erased, popped
  or assigned range may or may not be the whole container.  Size 0 is left to a
  configuration of its own, below.  Twenty addresses are more than are ever
  taken.  The drivers are sequential, so that the states are long runs and not
  interleavings.
* *Lockstep.*  With three elements there is a first, a middle and a last one;
  with three values an element may be drawn between, before, after or again.
  Wrong containers have up to four elements (`MaxNodes`, which
  `LockstepAssumption` ties to `MaxSize`), so that trees with two levels below the
  root, and one side longer by one node, occur.  The theorems say the same of any
  size.
* *Allocator scenarios.*  The tests put one element into each container, and
  four blocks are two for each of two containers, the old and the new.

Deadlock is checked in every run; a process that has ended stutters by an action
of its own (`Idle`, `Exited`, `Aborted`).

In `safety_drivers`, `lockstep` and `allocator_scenarios` deadlock is not
checked: the tests end.

*Fairness* is assumed in three runs.  `sweep_threads` has weak fairness of `Main`
and of each `Worker`: the operating system goes on scheduling threads that can
run, and nothing in the loop waits for anything but a `join`.  Nothing is assumed
of which thread runs first or how long a case takes; that a case itself comes to
an end is the abstraction of the conversion under test.  `safety_drivers` has
weak fairness of the whole: a sequential program goes on.  `lockstep` has it of
`Drain(0)`, which says that the generator goes on drawing the least value as long
as the last loop runs (with a generator that never does, the loop need not end),
and of `Drained`.

### Findings

1. `sweep_result_code`: the comment on `test_context` (cvt.cpp 1398–1399) says
   that result 1 is a failure from integer to string and 2 one from string to
   integer.  `bruteforce_integer` (1460) sets 1 when the *parsed* value is
   wrong, and 2 only for a short read, and the diagnosis (1495) shows the two
   values for 2 only.  A wrong parse is diagnosed as a wrong string, without the
   values that differ.

The following disagree with a comment or a document too, or are limits of a
test.  Each has a configuration that ends with a counterexample, to be run by
hand; they are not among the runs of `PROJECT.json`.

| Configuration (module) | Property | What it shows |
|---|---|---|
| `TestRunner_defaults.cfg` (`MCTestRunner`) | `DefaultRunsBruteTests` | README.md 67–70 says the brute-force category is included by default; `g_include_test_category` is empty (main.cpp 21), so that a run without options performs the sanity tests only, and succeeds. |
| `FileModes_truncate.cfg` (`MCFileModes`) | `TruncateIsNoticed` | `test_iobuf_file_mode` reads as many bytes as it expects (iobuf.cpp 541), so that the "HELLO" of the modes that truncate (for instance `w+`, 597) is also read from a file that still holds "HELLO, world".  Only truncate together with append is tested, since there the old content would come first. |
| `ThrowAllocator_always.cfg` (`MCThrowAllocator`) | `AlwaysForces` | throw_allocator.h 393 says of the always-adjustor "Always enter the condition"; it sets the limit to the count it finds, and `set_limit` zeroes the count (395, 423), so that after some conditions have passed the next one is not entered.  No test uses the one of the limit; the random one, which 25288.cpp and `generation_prohibited` use, is always entered. |
| `ExceptionSafety_basic.cfg` (`MCExceptionSafety`) | `BasicForcesAll` | safety.h 906 says that every member function has potential errors forced; the step number carries over from function to function (986), so that `insert_point` begins with step 5, beyond its throw points, and none of them is forced.  `propagation_consistent` begins anew and does force them (`ConsistentForcesAll`). |
| `ExceptionSafety_empty.cfg` (`MCExceptionSafety`) | `NoFalseAlarm` | `populate` may draw 0 elements, and `basic_safety` then fails a correct container: `erase_point` throws `std::logic_error` (236). |

## 5. What is proved

For every value of the constants, from the assumptions named in the modules
(`SweepAssumption`, `AllocatorAssumption`, `DeviceAssumption`,
`RunnerAssumption`, `EmptyNameAssumption`, `ObjectAssumption`,
`SessionAssumption`, `ThrowAssumption`, `SafetyAssumption`,
`ScenariosAssumption`, `NodesAssumption`, `LockstepAssumption`) and, but for `NoAlarm` of the drivers, nothing else.

**ParallelSweepProofs.**  The properties are not inductive: that a context read
in the judging loop is fresh depends on what its thread has done since it was
launched, on the arguments bound then, and on the draws made before.  The
invariant is the conjunction

`IInv == TypeOK /\ LoopInv /\ DrawInv /\ ThreadInv /\ ArgsInv /\ CtxInv /\ JudgedInv /\ ReportInv`

* `LoopInv`: at each `pc`, `iter` is the beginning of the batch plus the contexts
  launched, and `judged` is where the batch began, or has got to;
* `DrawInv`: the generator has got as far as the sequential run would have, for
  as many iterations;
* `ThreadInv`: which threads may be in which state at each place of the loop;
* `ArgsInv`: what is bound is what the sequential run would have chosen;
* `CtxInv`: a context is at the launch value, on its way through the cases, or
  the outcome of its value;
* `JudgedInv`, `ReportInv`: everything before `judged` has passed, and a report is
  that of `judged`.

Theorems: `Invariance`, `TypeCorrect`, `FreshResults`, `NoOrphans`,
`FirstFailure`, `Parallelism`, `Refinement` (the sweep implements `Sweep`), and
`Coverage`.  So the statement for three contexts is proved for every `-j`, every
number of iterations and cases, and every width.

`Coverage` (a sweep that has finished has tried the mantissas its schedule
promises) is about powers of two, of which the provers know nothing; what the
library says of the number of subsets (`FS_SUBSET`) makes 2^n double with n
(`PowerOfTwo`, `PowerDoubles`), and from that exponents add (`PowerAdds`).  That needs induction over n, which is done by a least
counterexample (`LeastOne`, from the well-foundedness of the natural numbers), a
theorem without an operator for a parameter.  `Quotient`, `ShiftedMask` and
`PlainMantissa` compute one mantissa of the schedule, `ScheduledTried` finds the
iteration that has tried it.

**TestRunnerProofs.**  `IInv == TypeInv /\ ListInv /\ TableInv /\ IdleInv /\
RunInv`, and in the loops `LoopInv /\ CallInv`.  `ListInv`: the list holds the
tests of the units initialized so far, each once, and those of one unit in the
reverse of their order.  `TableInv`: the tests of a group in the table are the
selected ones among those looked at, in the order of the list.  `LoopInv`: what
the iterators have still before them are the keys after those visited.
`CallInv`: what has been called is what was to be called of the categories,
groups and tests the loops have left behind; it is from here that success means
everything, and that sanity tests, whose category is the least name
(`EmptyNameAssumption`), are over before any other begins.  `RunInv` are
the history and the status.  Theorems: `Invariance`, `EachOnce`,
`SanityComesFirst`, `HonestStatus`, `OneFailure` (after a failing call none
follows: an action property that is proved here and checked by no run) and
`AssertHolds` (what main.cpp:104 asserts).

**TestAllocatorProofs.**  `IInv == TypeInv /\ RefCountExact /\ StatsLiveWhileHeld
/\ HeapInv /\ DetectedBoundsGrowth`.  `HeapInv` says that blocks known to live
statistics are on the heap and in one table only and, with assertions and as long
as no allocation has failed, that live statistics know every block of the heap.
The lemmas on the number of holders
(`HolderCount`, `Exchange`, `Released`) carry the reference count through
assignment, self-assignment and swap.  For the accounts, an allocation adds the
elements of a block to a set of pairs (block, index), and a deallocation takes
those of one block away; cardinalities do the rest.  Theorems: `ReferencesExact`,
`NoDanglingStats`, `LeaksNoticed`, `DetectionSound`, `BlocksCounted`.

**MemDevProofs.**  `IInv == TypeOK /\ DeviceInBounds /\ TailIsZero /\
PendingStored`.  `DeviceInBounds` is what the code asserts at the head of each
call; it is not enough for the refinement, since a seek past the end makes memory
part of the file that nobody has looked at since it was mapped.  `TailIsZero`
and `PendingStored` say what that memory is.  The lemmas `WordCount`,
`LeastWords` and `Growth` are the arithmetic of words and bytes: a resize always
holds what it must, a copy never reads past the vector, and a full vector that is
mapped grows.  Theorems: `TypeCorrect`, `AssertsHold`, `GapsAreZero`,
`Refinement`.

**FileModesProofs.**  That a call finds no file cannot be seen from the call
before: a new session begins with whatever is there.  The invariant relates the
place of the program to the tests it has left to perform (`TodoInv`): only with
both to do may `disk` hold a file between tests (`CleanInv`).

What a `VERIFY` notices is established over a call and forgotten at its end, so
that the invariant of the two other properties, `FullInv == IInv /\ CallInv /\
PastInv /\ CorrectInv`, follows the content through a call: `DiskAt` says what is
on disk at each place of it, for any library, as far as the `VERIFY`s passed so
far determine it; `ShownAt`, which flags of the mode they have shown to be taken
rightly; `PastInv`, that the calls before this one have noticed what they can
(`Noticed`), and all of them when the session has passed; `CorrectInv`, that a
correct library makes the next `VERIFY` hold.  The 27 rows enter through
one lemma only (`RowsFit`): what a row expects is a function of its flags.
Theorems: `Invariance`, `CleanStart`, `FaultsNoticed`, `NoAlarm`, for any library
and any number of sessions.

**ExceptionSafetyProofs.**  First the instruments: `IInv == TypeOK /\ Outermost /\
RestoredOutside /\ HeapAnnotated`.  `RestoredOutside` is not inductive: the last
destructor restores what its constructor has found.  `Outermost` says that the
outermost adjustor alive has found no limit; it is enough, since adjustors end in
the reverse order of their beginning, whatever is forced in between.
`HeapAnnotated` holds action by action (`AllocateKeeps`, `DeallocateKeeps`,
`BadAllocKeeps`); it is about the blocks `Held`, since one that is `Unowned` has no
annotation.
Theorems: `Invariance`, `TypeCorrect`, `NoLimitOutlives`, `AnnotationsAreHeap`.

Then the drivers, over any numbers of elements.  `SafetyInv` is the conjunction of

* `DriverTypes`, `PlacesInv`: the types, and which driver may be where;
* `ConditionInv`: the limit is the step, the count the throw points passed,
  between the adjustor's begin and end, and there is no limit outside of it;
* `BuildingInv`: the nodes a call has taken are those of the throw points passed;
* `ForcedInv`: `propagation_consistent` has failed the function at each of its
  throw points before the one its step has come to, so that it passes with
  `untried` empty;
* `PopsInv`: so many insertions have come before a pop that something is left;
* `OwnedInv`: what is allocated is what the containers and the call own, and what
  a fault has lost;
* `NoticedInv`: a fault that has taken effect shows in what the next check
  looks at;
* `CopiedInv`: the container is the copy, but for what a fault has kept.

Theorems: `DriverInvariance`, `Noticed`, `ConsistentForces`, `SomethingPopped`
and `NoAlarm`.  The last has a hypothesis, `0 \notin Populations`, and a further
invariant (`FaultlessInv`): where `populate` draws nothing `basic_safety` does
fail a correct container, as `ExceptionSafety_empty.cfg` shows.

**AllocatorScenariosProofs.**  `MapIsHeap` is inductive as it stands, but only
because an address that is given has been free: `insert` keeps an entry that is
there.  One lemma for each way a statement changes the memory
(`DeallocateKeeps`, `AllocateKeeps`, and on them `FreesKeeps`, `FillsKeeps`,
`MovesKeeps`, `DestroysKeeps`), and the theorem `MapExact`, for any set of
addresses, faults and containers, statements that throw included.

Whether a container comes through depends on each of the tests, which are
straight lines: an invariant that says of every position of every test what holds
there would repeat them.  It says where the program has come to instead, with
the statements as its only witnesses:

`Base /\ TraceInv`, where `Base == MapIsHeap /\ TypeInv /\ (status = "running" => HeldInv)`

* `HeldInv`: a block that a container holds is one that has been given, and no
  two hold the same: without it a refusal could come from a block long freed;
* `TraceInv`: there is a sequence of states `Trace` that begins with `Blank`,
  ends with `Now`, and of which each is made of the one before by the next
  statement of the test.

`Now` forgets the addresses.  It keeps the personality of each container, who its
block has gone to (or `Nobody`), whether it is where the iterator points, and the
count.  `Step` is what a statement does to that, with each choice that the
contract leaves; each action is shown to do its `Step` (`FreesDoes`,
`FreesAndTakesDoes`, `FillsDoes`, `TakesDoes`, `MovesEachDoes`, `ActsStep`), and a
container is destroyed without a refusal exactly if it is `Fair`.  The tests are
then unrolled once, without an action in sight: `AllPass` says that with no fault
every test `Passes`, being `Ready` for each of its statements wherever it has
come to; `Noticed` that for each fault there is one test (`NoticedBy`) at whose
end it cannot be `Fair`.  Theorems: `TestsAreTraced`, `NoAlarm`, and `Noticing`,
for which `NoticedInv` adds that nobody gets past the test `NoticedBy`.
`ScenariosAssumption` lists the kinds and the faults, which are the model's own.

**ContainerProofs.**  First the elements, `TrackedT`: `IInv == TypeOK /\ CountsExact` is inductive.  What takes
work is that the counts change by what an operation changes: `Change` says by how
much a new content of one place alters the number of places whose content lies
in a set, `Moved` applies it twice for a move (the same place twice when an
object is moved to itself), and every action is an instance of `OneObject` or
`TwoObjects`.  Theorems: `Invariance`, `TypeCorrect`, `Counts`.

Then the checker, `RbTreeCheck`: `CheckerRight` says that `Balanced` accepts the
red-black trees and no other, of whatever size.  It goes by induction over trees,
which `TreeInduction` states of a set of trees and proves by a tree with the least
number of nodes outside of it; `Folding` gives by the same argument that functions
defined by recursion over trees exist, so that `Paths` and `rbtree_check_balance`
are what their equations say (`PathsAre`, `CheckIs`).  The induction hypothesis is
`Told`: a call that succeeds has found the number of black nodes on every way
down, and it is the one it was told if it was told one; a call that fails excludes
every number.  It holds of calls below which a black node is met before the end,
or has been met before (`Fit`): otherwise a number 0 would be taken for one that
is not known.  The root is such a call only because its parent is taken for red.

Last the brute-force tests, `Lockstep`.  `LockInv` says that where a check has
passed the container is what the reference is and nothing has been answered
wrongly; that it is *made* somehow (`Made`) throughout, after the assignments
too, which are followed by a step and not by a check; and that where a check has
failed something is wrong.  `CheckAgrees` is the heart: of a container that is `Made`
(which `GivesMade` shows of whatever a call leaves, any fault included) the check
passes if and only if it `Agrees` with the reference, by `CheckerRight` and
`PrefixIs`.  The rest is one lemma per action: with a container that is right the
two sides are asked the same, so that a step keeps to `Alike`; in the range loop,
where they may differ, the answers are compared first, and one that is too great
disagrees with another or with the reference (`OneTooGreat`).  `EmptyNoticed` says
the same of the new container of the assignments.  `CopyNoticed` needs what the
first range step does to a wrong copy: its count keeps its error (`CountKept`)
and nothing is wrong with one that stays as it is, so that a range has been
erased; the answers agreed, which puts the range at the same place in both
(`ErasedAlike`), and the check at the end of the step says that the rest is
equal (`CopyStep`).  Theorems: `Noticing`, `CopyNoticing`, `NoAlarm`, `Legal`.

### Only model-checked

* Liveness (`EventuallyStops`, `Terminates`, `Drains`), which is out of the
  prover's reach.
* `NoFalseAlarm` of the drivers where `populate` draws nothing is refuted, see
  the table above.

## 6. What is not modelled

* The `uxs` library is an empty submodule here, as are zlib and libzip: the
  containers, conversions and streams under test are the environment of the
  models (an unknown fault, an arbitrary user, a stream that keeps to the
  interface).
* Scenario tests: straight-line code over those types, without state of its own;
  so are the intrusive lists, the db_value, variant, json, xml, cli, guid, span,
  iterator, algorithm, functional, conversion and format tests, and the tests of
  gcc_testsuite other than those of section 1.  A model of one would restate
  what the library promises and then find it.
* Stream and zlib tests: what they compare is what a library outside of this tree
  wrote and read; the device below is modelled.
* Performance loops: they measure and check nothing.
* The table generators: no state; planned as pure definitions (section 2).
* Scripts.
* Output, progress displays and tables, except for which failure is named.
* The pool check of `main` (main.cpp 70) walks a structure of `uxs`; the runner
  keeps whether it finds an object.
* In `MemDev`, several devices at once (a copy replaces the original), and sizes
  near 2^64.
* In `FileModes`, a write that a dying process has half finished, and a removal
  that the file system refuses; both tests of one directory run by two processes
  at once.
* In `TrackedT`, the extraction of a `T` from a stream (test_types.h 98, 101),
  which writes the text without counting and which no test calls.
* In `ParallelSweep`, memory ordering below the level of the join: contexts are
  written by one thread and read after it has been joined.
* In `ThrowAllocator`, the random condition as such (the drivers' use of it is in
  `ExceptionSafety`), and the arithmetic of throwing values, of which only the
  condition counts.  A block lost because the map of annotations cannot grow
  (throw_allocator.h 721) is in the model, but no property speaks of it: it has no
  annotation, so that no leak check can see it.  `ExceptionSafety` assumes that
  memory is never short, and has no `bad_alloc`.  In `ExceptionSafety`, the specialisations for
  `forward_list` and unordered containers, which no test of the repository
  uses, and those for a vector, whose throw points depend on when `uxs::vector`
  takes a larger block and whether it then copies or moves: nothing in this tree
  says so.  `generation_prohibited` sets a random condition that is always met,
  so that the first throw point is taken.
* In `Lockstep`: `list_sort_test`.  The walk backwards is compared as far as it
  goes, so that one that stops early is accepted (`Agrees` says so).  `find` in a
  multiset is taken to give the first of the equal elements, which the test
  demands and the standard does not.  `s = s1` and `s = s2` are overwritten before
  anything looks at them.  `s = s3` is first looked at by the next loop, and
  not everything that may be wrong with it is seen then: elements that are wrong
  within the range that the first range step erases (`s` with the one element 3,
  the reference with 2, and 0 drawn: every answer agrees and both end empty), and
  links or a tree that this erasure mends, are seen by nothing.  `CopyNoticed`
  says that a wrong count, or an element wrong anywhere else, is.
* In `AllocatorScenarios`: the set test that counts (move_assign.cpp 68) puts
  two elements into each container and verifies the count of constructions too;
  the model puts one and counts allocations, so that a container which constructs
  its elements anew in the nodes it reuses passes.  Left out are
  `tracker_allocator` with the two set tests that only count with it, and the
  tests of maps and multisets, which repeat those of the set.  A block that is not given back is never noticed, since nothing looks at the map
  at the end; an element that is lost, and an assignment that takes a new block
  where it might reuse one, only in a set; some faults are noticed only in that
  the program is terminated.
* `3rd_party` and `testdata`: vendored, or data.
