----------------------------- MODULE FileModes -----------------------------
(***************************************************************************)
(* The two sanity tests of src/iobuf.cpp on files, which share one file on   *)
(* disk, testdata/test_file.txt.  A test that fails, or a process that dies,  *)
(* leaves the file to the sessions that follow.  The files of uxs are the     *)
(* library under test: it is right, or takes mode flags for given or for      *)
(* missing; it may be another one in every session.                          *)
(***************************************************************************)
EXTENDS Integers, Sequences

CONSTANTS
  Libraries,    \* what the library may be, see Fault
  NoFile,       \* what is on disk when there is no file
  MaxSessions   \* bound: how often the program is started

\* What a content is made of; only "\n" changes in the text mode.
Words == {"Hello", ", world", "HELLO", "hello", "\n", "\r\n"}

ASSUME SessionAssumption == MaxSessions \in Nat /\ NoFile \notin Seq(Words)

VARIABLES
  disk,      \* the content of test_file.txt, or NoFile
  library,   \* how the library takes the flags of a mode
  session,   \* how often the program has been started
  todo,      \* the tests the session has still to perform
  row,       \* which call of test_iobuf_file_mode is being made
  pc

vars == <<disk, library, session, todo, row, pc>>

-----------------------------------------------------------------------------
(* The files of uxs.  A content is a sequence of words: that "Hello" and     *)
(* "HELLO" are as long as each other is what the expected contents rest on.  *)

Flags == {"create", "exclusive", "truncate", "append", "cr_lf"}

\* A fault hits the modes that have all flags of one set and none of another.
Fault(drops, adds, has, lacks) ==
  [drops |-> drops, adds |-> adds, has |-> has, lacks |-> lacks]

Correct == Fault({}, {}, {}, {})

Hits(mode) == library.has \subseteq mode /\ library.lacks \cap mode = {}

Taken(mode) ==
  IF Hits(mode) THEN (mode \ library.drops) \cup library.adds ELSE mode

Opens(mode) ==
  IF disk = NoFile THEN "create" \in Taken(mode)
                   ELSE ~ {"create", "exclusive"} \subseteq Taken(mode)

\* The file after an attempt to open it.
Opened(mode) ==
  IF ~ Opens(mode) THEN disk
  ELSE IF disk = NoFile \/ "truncate" \in Taken(mode) THEN <<>> ELSE disk

ToCrLf(s) == [i \in DOMAIN s |-> IF s[i] = "\n" THEN "\r\n" ELSE s[i]]
FromCrLf(s) == [i \in DOMAIN s |-> IF s[i] = "\r\n" THEN "\n" ELSE s[i]]

\* The file after a write and a close by a handle that was opened in the mode.
Written(mode, s) ==
  LET words == IF "cr_lf" \in Taken(mode) THEN ToCrLf(s) ELSE s
  IN  IF "append" \in Taken(mode) THEN disk \o words
      ELSE words \o SubSeq(disk, Len(words) + 1, Len(disk))

\* What a read of at most n words from the beginning gets.
Read(mode, n) ==
  LET file == Opened(mode)
      words == SubSeq(file, 1, IF n < Len(file) THEN n ELSE Len(file))
  IN  IF "cr_lf" \in Taken(mode) THEN FromCrLf(words) ELSE words

\* Mutant: only as much is compared as has been read.
ReadsAsFar(mode, s) ==
  LET words == Read(mode, Len(s))
  IN  Opens(mode) /\ words = SubSeq(s, 1, Len(words))

\* What the tests compare: as much of the file as they expect, from its beginning.
Reads(mode, s) == Opens(mode) /\ Read(mode, Len(s)) = s

-----------------------------------------------------------------------------
(* What the tests write and expect.                                         *)

Hello == <<"Hello", ", world">>
HELLO == <<"HELLO">>
Txt == <<"hello", "\n", "\n", "hello", "\n">>

Case(mode, new, existing, written, left) ==
  [mode |-> mode, can_create_new |-> new, can_open_when_existing |-> existing,
   what_to_write_when_existing |-> written, what_to_read_when_existing |-> left]

Reading(mode) == Case(mode, FALSE, FALSE, <<>>, <<>>)
Refusing(mode) == Case(mode, TRUE, FALSE, <<>>, <<>>)
Over(mode, new) == Case(mode, new, TRUE, HELLO, <<"HELLO", ", world">>)
Anew(mode, new) == Case(mode, new, TRUE, HELLO, HELLO)
After(mode, new) == Case(mode, new, TRUE, HELLO, Hello \o HELLO)

In == {"in"}
Out == {"out"}
r == {"in"}
w == {"out", "create", "truncate"}
a == {"out", "create", "append"}

\* The calls of test_iobuf_file_modes, in their order.
Cases == <<
  Reading(In),
  Over(Out, FALSE),
  Anew(Out \cup {"truncate"}, FALSE),
  Anew(Out \cup {"truncate", "append"}, FALSE),
  After(Out \cup {"append"}, FALSE),
  Over(Out \cup {"exclusive"}, FALSE),
  Anew(Out \cup {"exclusive", "truncate"}, FALSE),
  Anew(Out \cup {"exclusive", "truncate", "append"}, FALSE),
  After(Out \cup {"exclusive", "append"}, FALSE),
  Over(Out \cup {"create"}, TRUE),
  Anew(Out \cup {"create", "truncate"}, TRUE),
  Anew(Out \cup {"create", "truncate", "append"}, TRUE),
  After(Out \cup {"create", "append"}, TRUE),
  Refusing(Out \cup {"create", "exclusive"}),
  Refusing(Out \cup {"create", "exclusive", "truncate"}),
  Refusing(Out \cup {"create", "exclusive", "truncate", "append"}),
  Refusing(Out \cup {"create", "exclusive", "append"}),
  Reading(r),
  Over(r \cup {"out"}, FALSE),
  Anew(w, TRUE),
  Anew(w \cup {"in"}, TRUE),
  After(a, TRUE),
  After(a \cup {"in"}, TRUE),
  Refusing(w \cup {"exclusive"}),
  Refusing(w \cup {"in", "exclusive"}),
  Refusing(a \cup {"exclusive"}),
  Refusing(a \cup {"in", "exclusive"}) >>

-----------------------------------------------------------------------------
VERIFY(condition, next) == pc' = IF condition THEN next ELSE "failed"

Stay == UNCHANGED <<library, session, todo, row>>

\* An attempt to open the file and a VERIFY of what came of it.
OpenAndVerify(mode, expected, next) ==
  /\ disk' = Opened(mode)
  /\ VERIFY(Opens(mode) = expected, next)
  /\ Stay

WriteAndClose(mode, s, next) ==
  /\ disk' = Written(mode, s)
  /\ pc' = next
  /\ Stay

ReadAndVerify(mode, s, next) ==
  /\ disk' = Opened(mode)
  /\ VERIFY(Reads(mode, s), next)
  /\ Stay

-----------------------------------------------------------------------------
(* test_iobuf_file_text_mode.                                               *)

TextMode == Out \cup {"create", "truncate", "cr_lf"}

TextOpen ==
  /\ pc = "next" /\ todo # <<>> /\ Head(todo) = "text_mode"
  /\ OpenAndVerify(TextMode, TRUE, "text_write")

TextWrite == pc = "text_write" /\ WriteAndClose(TextMode, Txt, "text_raw")

TextReadRaw == pc = "text_raw" /\ ReadAndVerify(In, ToCrLf(Txt), "text_read")

TextRead == pc = "text_read" /\ ReadAndVerify(In \cup {"cr_lf"}, Txt, "text_remove")

TextRemove ==
  /\ pc = "text_remove"
  /\ disk' = NoFile
  /\ todo' = Tail(todo)
  /\ pc' = "next"
  /\ UNCHANGED <<library, session, row>>

-----------------------------------------------------------------------------
(* test_iobuf_file_modes: a call of test_iobuf_file_mode after the other.    *)

call == Cases[row]

ModesBegin ==
  /\ pc = "next" /\ todo # <<>> /\ Head(todo) = "modes"
  /\ row' = 1
  /\ pc' = "call"
  /\ UNCHANGED <<disk, library, session, todo>>

\* A mode for reading only: there is no file to read, then there is one.  (That
\* such a mode has "in" is true of both calls that have no "out".)
ProbeMissing ==
  /\ pc = "call" /\ "out" \notin call.mode
  /\ OpenAndVerify(call.mode, FALSE, "prepare")

Prepare == pc = "prepare" /\ OpenAndVerify(w, TRUE, "prepare_write")

PrepareWrite == pc = "prepare_write" /\ WriteAndClose(w, Hello, "read_in_mode")

ReadInMode == pc = "read_in_mode" /\ ReadAndVerify(call.mode, Hello, "remove")

\* A mode for writing: try create non-existing file.
CreateMissing ==
  /\ pc = "call" /\ "out" \in call.mode
  /\ OpenAndVerify(call.mode, call.can_create_new,
                   IF Opens(call.mode) THEN "write_new" ELSE "fallback")

WriteNew == pc = "write_new" /\ WriteAndClose(call.mode, Hello, "read_new")

ReadNew == pc = "read_new" /\ ReadAndVerify(r, Hello, "reopen")

\* It cannot be created in the mode: create it in another one.
Fallback == pc = "fallback" /\ OpenAndVerify(w, TRUE, "fallback_write")

FallbackWrite == pc = "fallback_write" /\ WriteAndClose(w, Hello, "reopen")

\* Try to work with existing file.
Reopen ==
  /\ pc = "reopen"
  /\ OpenAndVerify(call.mode, call.can_open_when_existing,
                   IF Opens(call.mode) THEN "write_existing" ELSE "remove")

WriteExisting ==
  /\ pc = "write_existing"
  /\ WriteAndClose(call.mode, call.what_to_write_when_existing, "read_existing")

ReadExisting ==
  /\ pc = "read_existing"
  /\ ReadAndVerify(r, call.what_to_read_when_existing, "remove")

\* The end of the call, and of the test after the last one.
Return ==
  IF row < Len(Cases)
  THEN row' = row + 1 /\ pc' = "call" /\ UNCHANGED todo
  ELSE pc' = "next" /\ todo' = Tail(todo) /\ UNCHANGED row

\* Mutant: a file that could not be opened again is not removed.
RemoveOpened ==
  /\ pc = "remove"
  /\ disk' = IF "out" \notin call.mode \/ call.can_open_when_existing THEN NoFile ELSE disk
  /\ Return
  /\ UNCHANGED <<library, session>>

Remove ==
  /\ pc = "remove"
  /\ disk' = NoFile
  /\ Return
  /\ UNCHANGED <<library, session>>

-----------------------------------------------------------------------------
(* Sessions.                                                                *)

\* Mutant: the tests are performed in the order of the source.
OrderOfSource == <<"modes", "text_mode">>

\* The tests, in the order they are performed: the last one registered first.
Order == <<"text_mode", "modes">>

Ended == {"passed", "failed", "died"}

AllPassed ==
  /\ pc = "next" /\ todo = <<>>
  /\ pc' = "passed"
  /\ UNCHANGED <<disk, library, session, todo, row>>

Die ==
  /\ pc \notin Ended
  /\ pc' = "died"
  /\ UNCHANGED <<disk, library, session, todo, row>>

Start ==
  /\ pc \in Ended
  /\ session < MaxSessions
  /\ session' = session + 1
  /\ library' \in Libraries
  /\ todo' = Order
  /\ row' = 1
  /\ pc' = "next"
  /\ UNCHANGED disk

NoMoreSessions ==
  /\ pc \in Ended
  /\ session = MaxSessions
  /\ UNCHANGED vars

Init ==
  /\ disk = NoFile
  /\ library \in Libraries
  /\ session = 1
  /\ todo = Order
  /\ row = 1
  /\ pc = "next"

Text == TextOpen \/ TextWrite \/ TextReadRaw \/ TextRead \/ TextRemove

Modes ==
  \/ ModesBegin \/ ProbeMissing \/ Prepare \/ PrepareWrite \/ ReadInMode
  \/ CreateMissing \/ WriteNew \/ ReadNew \/ Fallback \/ FallbackWrite
  \/ Reopen \/ WriteExisting \/ ReadExisting \/ Remove

Next == Text \/ Modes \/ AllPassed \/ Die \/ Start \/ NoMoreSessions

Spec == Init /\ [][Next]_vars

-----------------------------------------------------------------------------
(* Correctness.                                                            *)

\* Every call of test_iobuf_file_mode begins without a file, as its "try create
\* non-existing file" needs, whatever the calls and the sessions before it left.
CallsStartClean == pc = "call" => disk = NoFile

\* With a correct library no VERIFY fails, whatever an earlier session that
\* failed or died has left on disk: the text mode test opens what it finds,
\* truncates and removes it before the mode tests need it gone.
NoFalseAlarm == library = Correct => pc # "failed"

\* What a call makes sure of: whether its mode creates a file and insists on a new
\* one, and whether it keeps and extends a file that is there.
Noticed(c) ==
  LET Right(flag) == flag \in Taken(c.mode) <=> flag \in c.mode
      found == c.can_open_when_existing \/ "out" \notin c.mode
  IN  /\ Right("create")
      /\ "create" \in c.mode => Right("exclusive")
      /\ "truncate" \notin c.mode => /\ found => Right("truncate")
                                     /\ c.can_open_when_existing => Right("append")

\* A session that passes has been run on a library that takes these flags as each
\* mode of the calls gives them: whatever it does wrong in some of the modes, a
\* VERIFY has noticed, whatever else it does wrong.
FaultsAreNoticed == pc = "passed" => \A i \in DOMAIN Cases : Noticed(Cases[i])

\* The same for truncate: after "HELLO" has been written to an existing file in
\* one of its modes, "HELLO" is to be read from it, and not "HELLO, world".
TruncateIsNoticed ==
  pc = "passed" =>
    \A i \in DOMAIN Cases :
      LET mode == Cases[i].mode
      IN  "truncate" \in mode => "truncate" \in Taken(mode)

=============================================================================
