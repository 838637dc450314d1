-------------------------- MODULE FileModesProofs --------------------------
(***************************************************************************)
(* Theorems about FileModes, for any libraries and any number of sessions.  *)
(***************************************************************************)
EXTENDS FileModes, SequenceTheorems, TLAPS

TextPCs == {"text_write", "text_raw", "text_read", "text_remove"}
CallPCs == {"prepare", "prepare_write", "read_in_mode", "write_new", "read_new", "fallback",
            "fallback_write", "reopen", "write_existing", "read_existing", "remove"}

-----------------------------------------------------------------------------
(* The test on the text mode is the only one that may find a file: which     *)
(* tests are still to be performed says where the program is, and that it    *)
(* has removed the file.                                                     *)

TodoInv ==
  /\ todo \in {<<"text_mode", "modes">>, <<"modes">>, <<>>}
  /\ pc \in TextPCs => todo = <<"text_mode", "modes">>
  /\ pc \in CallPCs \cup {"call"} => todo = <<"modes">>

CleanInv ==
  /\ pc = "next" /\ todo # <<"text_mode", "modes">> => disk = NoFile
  /\ pc = "call" => disk = NoFile

PCInv == pc \in TextPCs \cup CallPCs \cup Ended \cup {"next", "call"}

IInv == PCInv /\ TodoInv /\ CleanInv

LEMMA Todo ==
  /\ Head(<<"text_mode", "modes">>) = "text_mode"
  /\ Tail(<<"text_mode", "modes">>) = <<"modes">>
  /\ Head(<<"modes">>) = "modes" /\ Tail(<<"modes">>) = <<>>
  /\ <<"text_mode", "modes">> # <<"modes">>
  /\ <<"text_mode", "modes">> # <<>> /\ <<"modes">> # <<>>
<1> QED  OBVIOUS

LEMMA InitInv == Init => IInv
<1> QED  BY DEF Init, IInv, PCInv, TodoInv, CleanInv, TextPCs, CallPCs, Ended, Order

\* A step inside a test changes neither what is to do nor, but for a VERIFY that
\* fails, the test it is in.
LEMMA InsideKeeps ==
  ASSUME IInv, UNCHANGED todo,
         \/ pc \in TextPCs /\ pc' \in TextPCs \cup {"failed"}
         \/ pc \in CallPCs \cup {"call"} /\ pc' \in CallPCs \cup {"failed"}
         \/ pc = "next" /\ Head(todo) = "text_mode" /\ todo # <<>>
            /\ pc' \in TextPCs \cup {"failed"}
  PROVE  IInv'
<1>1. PCInv'
  BY DEF PCInv, Ended
<1>2. TodoInv'
  BY Todo DEF IInv, TodoInv, TextPCs, CallPCs
<1>3. CleanInv'
  BY DEF CleanInv, TextPCs, CallPCs
<1> QED  BY <1>1, <1>2, <1>3 DEF IInv

LEMMA EveryStep == IInv /\ [Next]_vars => IInv'
<1> SUFFICES ASSUME IInv, [Next]_vars PROVE IInv'
  OBVIOUS
<1> USE DEF IInv
<1>1. CASE TextOpen \/ TextWrite \/ TextReadRaw \/ TextRead
  BY <1>1, InsideKeeps
     DEF TextOpen, TextWrite, TextReadRaw, TextRead, OpenAndVerify, WriteAndClose,
         ReadAndVerify, VERIFY, Stay, TextPCs
<1>2. CASE ProbeMissing \/ Prepare \/ PrepareWrite \/ ReadInMode
  BY <1>2, InsideKeeps
     DEF ProbeMissing, Prepare, PrepareWrite, ReadInMode, OpenAndVerify, WriteAndClose,
         ReadAndVerify, VERIFY, Stay, CallPCs
<1>3. CASE CreateMissing \/ WriteNew \/ ReadNew \/ Fallback \/ FallbackWrite
  BY <1>3, InsideKeeps
     DEF CreateMissing, WriteNew, ReadNew, Fallback, FallbackWrite, OpenAndVerify,
         WriteAndClose, ReadAndVerify, VERIFY, Stay, CallPCs
<1>4. CASE Reopen \/ WriteExisting \/ ReadExisting
  BY <1>4, InsideKeeps
     DEF Reopen, WriteExisting, ReadExisting, OpenAndVerify, WriteAndClose,
         ReadAndVerify, VERIFY, Stay, CallPCs
<1>5. CASE TextRemove
  BY <1>5, Todo
     DEF TextRemove, PCInv, TodoInv, CleanInv, TextPCs, CallPCs, Ended
<1>6. CASE ModesBegin
  BY <1>6, Todo
     DEF ModesBegin, PCInv, TodoInv, CleanInv, TextPCs, CallPCs, Ended
<1>7. CASE Remove
  BY <1>7, Todo
     DEF Remove, Return, PCInv, TodoInv, CleanInv, TextPCs, CallPCs, Ended
<1>8. CASE AllPassed \/ Die
  BY <1>8 DEF AllPassed, Die, PCInv, TodoInv, CleanInv, TextPCs, CallPCs, Ended
<1>9. CASE Start
  BY <1>9 DEF Start, Order, PCInv, TodoInv, CleanInv, TextPCs, CallPCs, Ended
<1>10. CASE NoMoreSessions \/ UNCHANGED vars
  BY <1>10 DEF NoMoreSessions, vars, PCInv, TodoInv, CleanInv
<1> QED
  BY <1>1, <1>2, <1>3, <1>4, <1>5, <1>6, <1>7, <1>8, <1>9, <1>10 DEF Next, Text, Modes

-----------------------------------------------------------------------------
\* The invariant holds in every state.
THEOREM Invariance == Spec => []IInv
<1> QED  BY InitInv, EveryStep, PTL DEF Spec

\* No call of test_iobuf_file_mode finds a file of an earlier call or session,
\* whatever the library does and wherever the sessions before have died.
THEOREM CleanStart == Spec => []CallsStartClean
<1>1. IInv => CallsStartClean
  BY DEF IInv, CleanInv, CallsStartClean
<1> QED  BY <1>1, Invariance, PTL

-----------------------------------------------------------------------------
(* The words of the mode tests have no line breaks in them.                  *)

Plain == {"Hello", ", world", "HELLO"}

\* What "HELLO" makes of "Hello, world" at its end and at its beginning.
Appended == <<"Hello", ", world", "HELLO">>
Overwritten == <<"HELLO", ", world">>

\* A sequence that begins with s and goes on with t.
LEMMA Joined ==
  ASSUME NEW S, NEW s \in Seq(S), NEW t \in Seq(S), NEW u \in Seq(S),
         Len(u) = Len(s) + Len(t),
         \A i \in 1 .. Len(s) : u[i] = s[i],
         \A i \in 1 .. Len(t) : u[Len(s) + i] = t[i]
  PROVE  s \o t = u
<1>1. s \o t \in Seq(S) /\ Len(s \o t) = Len(u)
  OBVIOUS
<1>2. ASSUME NEW i \in 1 .. Len(u) PROVE (s \o t)[i] = u[i]
  <2>1. CASE i <= Len(s)
    <3>1. (s \o t)[i] = s[i] /\ i \in 1 .. Len(s)
      BY <2>1
    <3> QED  BY <3>1
  <2>2. CASE i > Len(s)
    <3>1. (s \o t)[i] = t[i - Len(s)] /\ i - Len(s) \in 1 .. Len(t)
      BY <2>2
    <3>2. Len(s) + (i - Len(s)) = i
      OBVIOUS
    <3> QED  BY <3>1, <3>2
  <2> QED  BY <2>1, <2>2
<1> QED  BY <1>1, <1>2, SeqEqual

LEMMA JoinedTwoOne ==
  ASSUME NEW S, NEW s \in Seq(S), NEW t \in Seq(S), NEW u \in Seq(S),
         Len(s) = 2, Len(t) = 1, Len(u) = 3,
         u[1] = s[1], u[2] = s[2], u[3] = t[1]
  PROVE  s \o t = u
<1>1. Len(u) = Len(s) + Len(t)
  OBVIOUS
<1>2. \A i \in 1 .. Len(s) : u[i] = s[i]
  <2>1. \A i \in 1 .. 2 : i = 1 \/ i = 2
    OBVIOUS
  <2> QED  BY <2>1
<1>3. \A i \in 1 .. Len(t) : u[Len(s) + i] = t[i]
  <2>1. \A i \in 1 .. 1 : i = 1
    OBVIOUS
  <2>2. 2 + 1 = 3
    OBVIOUS
  <2> QED  BY <2>1, <2>2
<1> QED  BY <1>1, <1>2, <1>3, Joined

LEMMA JoinedOneOne ==
  ASSUME NEW S, NEW s \in Seq(S), NEW t \in Seq(S), NEW u \in Seq(S),
         Len(s) = 1, Len(t) = 1, Len(u) = 2, u[1] = s[1], u[2] = t[1]
  PROVE  s \o t = u
<1>0. \A i \in 1 .. 1 : i = 1
  OBVIOUS
<1>1. Len(u) = Len(s) + Len(t)
  OBVIOUS
<1>2. \A i \in 1 .. Len(s) : u[i] = s[i]
  BY <1>0
<1>3. \A i \in 1 .. Len(t) : u[Len(s) + i] = t[i]
  <2>2. 1 + 1 = 2
    OBVIOUS
  <2> QED  BY <1>0, <2>2
<1> QED  BY <1>1, <1>2, <1>3, Joined

LEMMA SecondOfTwo ==
  ASSUME NEW S, NEW s \in Seq(S), Len(s) = 2
  PROVE  /\ SubSeq(s, 2, 2) \in Seq(S)
         /\ Len(SubSeq(s, 2, 2)) = 1
         /\ SubSeq(s, 2, 2)[1] = s[2]
<1>1. SubSeq(s, 2, 2) = [i \in 1 .. 1 |-> s[i + 1]]
  OBVIOUS
<1>2. s[2] \in S
  OBVIOUS
<1> QED  BY <1>1, <1>2

LEMMA Texts ==
  /\ Hello \in Seq(Plain) /\ Len(Hello) = 2 /\ Hello[1] = "Hello" /\ Hello[2] = ", world"
  /\ HELLO \in Seq(Plain) /\ Len(HELLO) = 1 /\ HELLO[1] = "HELLO"
  /\ Appended \in Seq(Plain) /\ Len(Appended) = 3 /\ Appended[1] = "Hello"
  /\ Overwritten \in Seq(Plain) /\ Len(Overwritten) = 2 /\ Overwritten[1] = "HELLO"
<1>1. Hello \in Seq(Plain) /\ Overwritten \in Seq(Plain)
  BY DEF Hello, Overwritten, Plain
<1>2. Len(Hello) = 2 /\ Hello[1] = "Hello" /\ Hello[2] = ", world"
  BY DEF Hello
<1>3. HELLO \in Seq(Plain) /\ Appended \in Seq(Plain)
  BY DEF HELLO, Appended, Plain
<1>4. Len(HELLO) = 1 /\ HELLO[1] = "HELLO"
  BY DEF HELLO
<1>5. Len(Appended) = 3 /\ Appended[1] = "Hello"
  BY DEF Appended
<1>6. Len(Overwritten) = 2 /\ Overwritten[1] = "HELLO"
  BY DEF Overwritten
<1> QED  BY <1>1, <1>2, <1>3, <1>4, <1>5, <1>6

LEMMA Made ==
  /\ Hello \o HELLO = Appended
  /\ HELLO \o SubSeq(Hello, 2, 2) = Overwritten
<1>1. Appended[2] = ", world" /\ Appended[3] = "HELLO" /\ Overwritten[2] = ", world"
  BY DEF Appended, Overwritten
<1>2. Hello \o HELLO = Appended
  BY <1>1, Texts, JoinedTwoOne
<1>3. HELLO \o SubSeq(Hello, 2, 2) = Overwritten
  <2>1. /\ SubSeq(Hello, 2, 2) \in Seq(Plain) /\ Len(SubSeq(Hello, 2, 2)) = 1
        /\ SubSeq(Hello, 2, 2)[1] = ", world"
    BY Texts, SecondOfTwo
  <2> QED  BY <1>1, <2>1, Texts, JoinedOneOne
<1> QED  BY <1>2, <1>3

LEMMA NoWords == \A s \in Seq(Plain) : s # NoFile
<1>1. Plain \subseteq Words
  BY DEF Plain, Words
<1> QED  BY <1>1, SeqMonotonic, SessionAssumption

LEMMA Unbroken ==
  ASSUME NEW s \in Seq(Plain)
  PROVE  ToCrLf(s) = s /\ FromCrLf(s) = s
<1>1. \A i \in DOMAIN s : s[i] \in Plain
  OBVIOUS
<1>2. \A i \in DOMAIN s : s[i] # "\n" /\ s[i] # "\r\n"
  BY <1>1 DEF Plain
<1>3. s = [i \in DOMAIN s |-> s[i]]
  OBVIOUS
<1> QED  BY <1>2, <1>3 DEF ToCrLf, FromCrLf

\* What the flags a library takes for given make of a new file, of a file that is
\* there, and of a read.
LEMMA WrittenNew ==
  ASSUME disk = <<>>, NEW mode, NEW s \in Seq(Plain)
  PROVE  Written(mode, s) = s
<1>1. ToCrLf(s) = s
  BY Unbroken
<1>2. <<>> \o s = s /\ s \o <<>> = s
  BY ConcatEmptySeq
<1>3. SubSeq(disk, Len(s) + 1, Len(disk)) = <<>>
  OBVIOUS
<1> QED  BY <1>1, <1>2, <1>3 DEF Written

LEMMA WrittenConverted ==
  ASSUME NEW mode, NEW s, "cr_lf" \in Taken(mode), "append" \notin Taken(mode)
  PROVE  Written(mode, s) = ToCrLf(s) \o SubSeq(disk, Len(ToCrLf(s)) + 1, Len(disk))
<1> QED  BY DEF Written

LEMMA WrittenOver ==
  ASSUME disk = Hello, NEW mode
  PROVE  Written(mode, HELLO) =
           IF "append" \in Taken(mode) THEN Appended ELSE Overwritten
<1>1. ToCrLf(HELLO) = HELLO
  BY Unbroken, Texts
<1>3. HELLO \o SubSeq(Hello, 2, 2) = Overwritten
  BY Made
<1>4. Len(HELLO) = 1 /\ Len(Hello) = 2
  BY Texts
<1>5. Len(HELLO) + 1 = 2
  BY <1>4
<1> QED  BY <1>1, <1>3, <1>4, <1>5, Made DEF Written

LEMMA ReadsPrefix ==
  ASSUME disk \in Seq(Plain), NEW mode, NEW s \in Seq(Plain), s # <<>>
  PROVE  Reads(mode, s) <=>
           /\ Opens(mode) /\ "truncate" \notin Taken(mode)
           /\ Len(s) <= Len(disk) /\ \A i \in 1 .. Len(s) : disk[i] = s[i]
<1>0. disk # NoFile /\ Len(s) \in Nat \ {0} /\ Len(disk) \in Nat
  BY NoWords
<1> DEFINE file == Opened(mode)
           n == IF Len(s) < Len(file) THEN Len(s) ELSE Len(file)
           words == SubSeq(file, 1, n)
<1>1. Opens(mode) => file = IF "truncate" \in Taken(mode) THEN <<>> ELSE disk
  BY <1>0 DEF Opened
<1>2. ASSUME Opens(mode) PROVE Read(mode, Len(s)) = words /\ file \in Seq(Plain)
  <2>1. file \in Seq(Plain)
    <3>1. file = <<>> \/ file = disk
      BY <1>1, <1>2
    <3>2. <<>> \in Seq(Plain)
      BY EmptySeq
    <3> QED  BY <3>1, <3>2
  <2>2. words \in Seq(Plain)
    BY <2>1
  <2>3. FromCrLf(words) = words
    BY <2>2, Unbroken
  <2> QED  BY <2>1, <2>3 DEF Read
<1>3. CASE Opens(mode) /\ "truncate" \in Taken(mode)
  <2>1. file = <<>>
    BY <1>1, <1>3
  <2>2. words = <<>>
    BY <1>0, <2>1
  <2> QED  BY <1>2, <1>3, <2>2 DEF Reads
<1>4. CASE Opens(mode) /\ "truncate" \notin Taken(mode)
  <2>1. file = disk
    BY <1>1, <1>4
  <2>2. words = SubSeq(disk, 1, IF Len(s) < Len(disk) THEN Len(s) ELSE Len(disk))
    BY <2>1
  <2> HIDE DEF words, file, n
  <2>3. /\ words \in Seq(Plain)
        /\ Len(words) = IF Len(s) < Len(disk) THEN Len(s) ELSE Len(disk)
        /\ \A i \in 1 .. Len(words) : words[i] = disk[i]
    BY <1>0, <2>2
  <2>4. words = s <=> Len(s) <= Len(disk) /\ \A i \in 1 .. Len(s) : disk[i] = s[i]
    <3>1. CASE Len(s) <= Len(disk)
      <4>1. Len(words) = Len(s)
        BY <1>0, <2>3, <3>1
      <4>2. words = s <=> \A i \in 1 .. Len(s) : words[i] = s[i]
        BY <2>3, <4>1, SeqEqual
      <4> QED  BY <2>3, <3>1, <4>1, <4>2
    <3>2. CASE Len(s) > Len(disk)
      BY <1>0, <2>3, <3>2
    <3> QED  BY <1>0, <3>1, <3>2
  <2>5. Read(mode, Len(s)) = words
    BY <1>2, <1>4 DEF words, file, n
  <2> QED  BY <1>4, <2>4, <2>5 DEF Reads
<1>5. CASE ~ Opens(mode)
  BY <1>5 DEF Reads
<1> QED  BY <1>3, <1>4, <1>5

-----------------------------------------------------------------------------
(* What the calls of test_iobuf_file_modes have in common: the expectations   *)
(* of each are those its mode calls for.                                     *)

Flagged == SUBSET {"in", "out", "create", "exclusive", "truncate", "append"}

Fits(c) ==
  /\ "out" \notin c.mode => /\ c.mode = {"in"}
                            /\ ~ c.can_open_when_existing
  /\ "out" \in c.mode =>
       /\ c.can_create_new <=> "create" \in c.mode
       /\ c.can_open_when_existing <=> ~ {"create", "exclusive"} \subseteq c.mode
       /\ c.can_open_when_existing =>
            /\ c.what_to_write_when_existing = HELLO
            /\ c.what_to_read_when_existing =
                 IF "truncate" \in c.mode THEN HELLO
                 ELSE IF "append" \in c.mode THEN Appended
                 ELSE Overwritten

Calls ==
  {c \in [mode : Flagged, can_create_new : BOOLEAN, can_open_when_existing : BOOLEAN,
          what_to_write_when_existing : Seq(Plain), what_to_read_when_existing : Seq(Plain)] :
     Fits(c)}

LEMMA ReadingFits == Reading({"in"}) \in Calls
<1>1. <<>> \in Seq(Plain)
  BY EmptySeq
<1> QED  BY <1>1 DEF Reading, Case, Calls, Flagged, Fits

LEMMA RefusingFits ==
  ASSUME NEW mode \in Flagged, "out" \in mode, {"create", "exclusive"} \subseteq mode
  PROVE  Refusing(mode) \in Calls
<1>1. <<>> \in Seq(Plain)
  BY EmptySeq
<1> QED  BY <1>1 DEF Refusing, Case, Calls, Fits

LEMMA OpeningFits ==
  ASSUME NEW mode \in Flagged, NEW new \in BOOLEAN, "out" \in mode,
         ~ {"create", "exclusive"} \subseteq mode, new <=> "create" \in mode
  PROVE  /\ "truncate" \in mode => Anew(mode, new) \in Calls
         /\ "truncate" \notin mode /\ "append" \in mode => After(mode, new) \in Calls
         /\ "truncate" \notin mode /\ "append" \notin mode => Over(mode, new) \in Calls
<1> USE Texts DEF Case, Calls, Fits
<1>1. "truncate" \in mode => Anew(mode, new) \in Calls
  BY DEF Anew
<1>2. "truncate" \notin mode /\ "append" \in mode => After(mode, new) \in Calls
  BY Made DEF After
<1>3. "truncate" \notin mode /\ "append" \notin mode => Over(mode, new) \in Calls
  BY DEF Over, Overwritten
<1> QED  BY <1>1, <1>2, <1>3

LEMMA TwentySeven ==
  ASSUME NEW S,
         NEW c1 \in S, NEW c2 \in S, NEW c3 \in S, NEW c4 \in S, NEW c5 \in S,
         NEW c6 \in S, NEW c7 \in S, NEW c8 \in S, NEW c9 \in S, NEW c10 \in S,
         NEW c11 \in S, NEW c12 \in S, NEW c13 \in S, NEW c14 \in S, NEW c15 \in S,
         NEW c16 \in S, NEW c17 \in S, NEW c18 \in S, NEW c19 \in S, NEW c20 \in S,
         NEW c21 \in S, NEW c22 \in S, NEW c23 \in S, NEW c24 \in S, NEW c25 \in S,
         NEW c26 \in S, NEW c27 \in S
  PROVE  <<c1, c2, c3, c4, c5, c6, c7, c8, c9, c10, c11, c12, c13, c14,
           c15, c16, c17, c18, c19, c20, c21, c22, c23, c24, c25, c26, c27>> \in Seq(S)
<1> QED  OBVIOUS

LEMMA RowsFit == Cases \in Seq(Calls)
<1> USE DEF In, Out, r, w, a, Flagged
<1>1. Reading(In) \in Calls /\ Reading(r) \in Calls
  BY ReadingFits
<1>2. /\ Over(Out, FALSE) \in Calls
      /\ Over(Out \cup {"exclusive"}, FALSE) \in Calls
      /\ Over(r \cup {"out"}, FALSE) \in Calls
      /\ Over(Out \cup {"create"}, TRUE) \in Calls
  BY OpeningFits
<1>3. /\ Anew(Out \cup {"truncate"}, FALSE) \in Calls
      /\ Anew(Out \cup {"truncate", "append"}, FALSE) \in Calls
      /\ Anew(Out \cup {"exclusive", "truncate"}, FALSE) \in Calls
      /\ Anew(Out \cup {"exclusive", "truncate", "append"}, FALSE) \in Calls
  BY OpeningFits
<1>4. /\ Anew(Out \cup {"create", "truncate"}, TRUE) \in Calls
      /\ Anew(Out \cup {"create", "truncate", "append"}, TRUE) \in Calls
      /\ Anew(w, TRUE) \in Calls
      /\ Anew(w \cup {"in"}, TRUE) \in Calls
  BY OpeningFits
<1>5. /\ After(Out \cup {"append"}, FALSE) \in Calls
      /\ After(Out \cup {"exclusive", "append"}, FALSE) \in Calls
      /\ After(Out \cup {"create", "append"}, TRUE) \in Calls
      /\ After(a, TRUE) \in Calls
      /\ After(a \cup {"in"}, TRUE) \in Calls
  BY OpeningFits
<1>6. /\ Refusing(Out \cup {"create", "exclusive"}) \in Calls
      /\ Refusing(Out \cup {"create", "exclusive", "truncate"}) \in Calls
      /\ Refusing(Out \cup {"create", "exclusive", "truncate", "append"}) \in Calls
      /\ Refusing(Out \cup {"create", "exclusive", "append"}) \in Calls
  BY RefusingFits
<1>7. /\ Refusing(w \cup {"exclusive"}) \in Calls
      /\ Refusing(w \cup {"in", "exclusive"}) \in Calls
      /\ Refusing(a \cup {"exclusive"}) \in Calls
      /\ Refusing(a \cup {"in", "exclusive"}) \in Calls
  BY RefusingFits
<1> HIDE DEF In, Out, r, w, a, Flagged
<1> QED  BY <1>1, <1>2, <1>3, <1>4, <1>5, <1>6, <1>7, TwentySeven, ZenonT(60) DEF Cases

LEMMA CallFits ==
  /\ DOMAIN Cases = 1 .. Len(Cases) /\ Len(Cases) \in Nat
  /\ \A i \in DOMAIN Cases : Cases[i] \in Calls
<1> QED  BY RowsFit, LenProperties, ElementOfSeq

-----------------------------------------------------------------------------
(* Where a call stands: what is on disk at each place of it, and which flags *)
(* of its mode the VERIFYs behind it have shown to be taken as they are       *)
(* given.                                                                   *)

Missing == {"prepare", "fallback"}
Empty == {"prepare_write", "write_new", "fallback_write"}
Filled == {"read_in_mode", "read_new", "reopen"}
ReadingPCs == {"prepare", "prepare_write", "read_in_mode"}
ExistingPCs == {"write_existing", "read_existing"}
WritingPCs == {"write_new", "read_new", "fallback", "fallback_write", "reopen"} \cup ExistingPCs

Right(flag, mode) == flag \in Taken(mode) <=> flag \in mode

\* What "HELLO" written to an existing file makes of it.
Left(mode) ==
  IF "truncate" \in Taken(mode) THEN HELLO
  ELSE IF "append" \in Taken(mode) THEN Appended
  ELSE Overwritten

DiskAt(c) ==
  /\ pc \in Missing => disk = NoFile
  /\ pc \in Empty => disk = <<>>
  /\ pc \in Filled => disk = Hello
  /\ pc = "write_existing" => disk = IF "truncate" \in Taken(c.mode) THEN <<>> ELSE Hello
  /\ pc = "read_existing" => disk = Left(c.mode)

ShownAt(c) ==
  /\ pc \in ReadingPCs => "out" \notin c.mode
  /\ pc \in WritingPCs => "out" \in c.mode
  /\ pc \in ReadingPCs \cup WritingPCs => Right("create", c.mode)
  /\ pc \in ExistingPCs => /\ c.can_open_when_existing
                           /\ "create" \in c.mode => Right("exclusive", c.mode)
  /\ pc = "remove" => Noticed(c)

CallInv ==
  /\ row \in DOMAIN Cases
  /\ \A c : c = Cases[row] => DiskAt(c) /\ ShownAt(c)

\* The calls that are over have noticed what they can.
PastInv ==
  /\ pc \in CallPCs \cup {"call"} => \A i \in 1 .. row - 1 : Noticed(Cases[i])
  /\ pc = "passed" \/ (pc = "next" /\ todo = <<>>) => \A i \in DOMAIN Cases : Noticed(Cases[i])

\* With a correct library nothing has failed, and the text mode test finds what it
\* has written.
CorrectInv ==
  library = Correct =>
    /\ pc # "failed"
    /\ pc = "text_write" => disk = <<>>
    /\ pc \in {"text_raw", "text_read"} => disk = ToCrLf(Txt)

FullInv == IInv /\ CallInv /\ PastInv /\ CorrectInv

-----------------------------------------------------------------------------
(* What an attempt to open a file shows, and what a correct library does.    *)

LEMMA OpensOrNot ==
  ASSUME NEW mode
  PROVE  Opens(mode) \in BOOLEAN
<1>1. CASE disk = NoFile
  <2>1. Opens(mode) = ("create" \in Taken(mode))
    BY <1>1, Zenon DEF Opens
  <2> QED  BY <2>1
<1>2. CASE disk # NoFile
  <2>1. Opens(mode) = (~ {"create", "exclusive"} \subseteq Taken(mode))
    BY <1>2, Zenon DEF Opens
  <2> QED  BY <2>1
<1> QED  BY <1>1, <1>2

LEMMA NewFile ==
  ASSUME disk = NoFile, NEW mode
  PROVE  /\ Opens(mode) <=> "create" \in Taken(mode)
         /\ Opens(mode) => Opened(mode) = <<>>
         /\ ~ Opens(mode) => Opened(mode) = NoFile
<1> QED  BY DEF Opens, Opened

LEMMA OldFile ==
  ASSUME disk \in Seq(Plain), NEW mode
  PROVE  /\ Opens(mode) <=> ~ {"create", "exclusive"} \subseteq Taken(mode)
         /\ Opens(mode) => Opened(mode) = IF "truncate" \in Taken(mode) THEN <<>> ELSE disk
<1>1. disk # NoFile
  BY NoWords
<1> QED  BY <1>1 DEF Opens, Opened

LEMMA CorrectTakes ==
  ASSUME library = Correct, NEW mode
  PROVE  Taken(mode) = mode
<1>1. library.has = {} /\ library.lacks = {} /\ library.drops = {} /\ library.adds = {}
  BY DEF Correct, Fault
<1> QED  BY <1>1 DEF Taken, Hits

LEMMA SameLibrary ==
  ASSUME library' = library
  PROVE  /\ \A mode : Taken(mode)' = Taken(mode)
         /\ \A c : Noticed(c)' <=> Noticed(c)
<1>1. \A mode : Taken(mode)' = Taken(mode)
  BY DEF Taken, Hits
<1>2. ASSUME NEW c PROVE Noticed(c)' <=> Noticed(c)
  BY <1>1 DEF Noticed
<1> QED  BY <1>1, <1>2

\* The two short texts tell the ways of taking "truncate" and "append" apart.
LEMMA TellsApart ==
  ASSUME NEW mode, NEW read, NEW s, "truncate" \notin mode, disk = Left(mode),
         Reads(read, s), s = IF "append" \in mode THEN Appended ELSE Overwritten
  PROVE  Right("truncate", mode) /\ Right("append", mode)
<1>1. Appended # <<>> /\ Overwritten # <<>>
  BY DEF Appended, Overwritten
<1>2. disk \in Seq(Plain)
  BY Texts DEF Left
<1>3. Len(disk) \in Nat
  BY <1>2
<1>4. Len(HELLO) = 1 /\ Len(Appended) = 3 /\ Len(Overwritten) = 2
  BY Texts
<1>5. CASE "append" \in mode
  <2>1. Len(Appended) <= Len(disk)
    BY <1>1, <1>2, <1>5, Texts, ReadsPrefix
  <2>2. Len(disk) # 1 /\ Len(disk) # 2
    BY <1>3, <1>4, <2>1
  <2>3. "truncate" \notin Taken(mode) /\ "append" \in Taken(mode)
    BY <1>4, <2>2 DEF Left
  <2> QED  BY <1>5, <2>3 DEF Right
<1>6. CASE "append" \notin mode
  <2>1. Len(Overwritten) <= Len(disk) /\ \A i \in 1 .. Len(Overwritten) : disk[i] = Overwritten[i]
    BY <1>1, <1>2, <1>6, Texts, ReadsPrefix
  <2>2. Len(disk) # 1
    BY <1>3, <1>4, <2>1
  <2>3. disk[1] = Overwritten[1]
    BY <1>4, <2>1
  <2>4. disk[1] # Appended[1]
    BY <2>3 DEF Appended, Overwritten
  <2>5. "truncate" \notin Taken(mode) /\ "append" \notin Taken(mode)
    BY <1>4, <2>2, <2>4 DEF Left
  <2> QED  BY <1>6, <2>5 DEF Right
<1> QED  BY <1>5, <1>6

-----------------------------------------------------------------------------
(* A step inside a call.                                                    *)

At(c) == DiskAt(c) /\ ShownAt(c)

\* A correct library fails no VERIFY of the step.
Sound == library = Correct => pc' # "failed"

LEMMA ProbingStep ==
  ASSUME FullInv, ProbeMissing, NEW c \in Calls, c = Cases[row]
  PROVE  At(c)' /\ Sound
<1> DEFINE T == Taken(c.mode)
<1>1. /\ pc = "call" /\ disk = NoFile /\ c.mode = {"in"} /\ disk' = Opened(c.mode)
      /\ pc' = IF Opens(c.mode) = FALSE THEN "prepare" ELSE "failed"
  BY DEF ProbeMissing, OpenAndVerify, VERIFY, FullInv, IInv, CleanInv, call, Calls, Fits
<1>2. T' = T
  BY SameLibrary DEF ProbeMissing, OpenAndVerify, Stay
<1>3. Opens(c.mode) <=> "create" \in T
  BY <1>1, NewFile
<1>4. ~ Opens(c.mode) => disk' = NoFile
  BY <1>1, NewFile
<1>5. library = Correct => T = c.mode
  BY CorrectTakes
<1> HIDE DEF T
<1>6. Sound
  BY <1>1, <1>3, <1>5 DEF Sound
<1>7. pc' \in {"prepare", "failed"} /\ (pc' = "prepare" => ~ Opens(c.mode))
  BY <1>1
<1>8. DiskAt(c)'
  BY <1>4, <1>7 DEF DiskAt, Missing, Empty, Filled
<1>9. pc' = "prepare" => Right("create", c.mode)'
  BY <1>1, <1>2, <1>3, <1>7 DEF Right, T
<1>10. ShownAt(c)'
  BY <1>1, <1>7, <1>9 DEF ShownAt, ReadingPCs, WritingPCs, ExistingPCs
<1> QED  BY <1>6, <1>8, <1>10 DEF At

\* The mode "w" creates a file for the calls whose own mode does not.
LEMMA PreparingStep ==
  ASSUME FullInv, Prepare \/ Fallback, NEW c \in Calls, c = Cases[row]
  PROVE  At(c)' /\ Sound
<1>1. /\ disk = NoFile /\ disk' = Opened(w)
      /\ Prepare => /\ pc = "prepare"
                    /\ pc' = IF Opens(w) = TRUE THEN "prepare_write" ELSE "failed"
      /\ Fallback => /\ pc = "fallback"
                     /\ pc' = IF Opens(w) = TRUE THEN "fallback_write" ELSE "failed"
  BY DEF Prepare, Fallback, OpenAndVerify, VERIFY, FullInv, CallInv, DiskAt, Missing
<1>2. Taken(c.mode)' = Taken(c.mode)
  BY SameLibrary DEF Prepare, Fallback, OpenAndVerify, Stay
<1>3. Opens(w) <=> "create" \in Taken(w)
  BY <1>1, NewFile
<1>4. Opens(w) => disk' = <<>>
  BY <1>1, NewFile
<1>5. library = Correct => Taken(w) = w
  BY CorrectTakes
<1>6. Sound
  BY <1>1, <1>3, <1>5 DEF Sound, w
<1>7. /\ Prepare => pc' \in {"prepare_write", "failed"}
      /\ Fallback => pc' \in {"fallback_write", "failed"}
      /\ pc' # "failed" => Opens(w)
  BY <1>1
<1>8. DiskAt(c)'
  BY <1>4, <1>7 DEF DiskAt, Missing, Empty, Filled
<1>9. /\ Right("create", c.mode)
      /\ Prepare => "out" \notin c.mode
      /\ Fallback => "out" \in c.mode
  BY <1>1 DEF FullInv, CallInv, ShownAt, ReadingPCs, WritingPCs
<1>10. Right("create", c.mode)'
  BY <1>2, <1>9 DEF Right
<1>11. ShownAt(c)'
  BY <1>7, <1>9, <1>10 DEF ShownAt, ReadingPCs, WritingPCs, ExistingPCs
<1> QED  BY <1>6, <1>8, <1>11 DEF At

\* "Hello, world" is written to a new file.
LEMMA FillingStep ==
  ASSUME FullInv, PrepareWrite \/ WriteNew \/ FallbackWrite, NEW c \in Calls, c = Cases[row]
  PROVE  At(c)' /\ Sound
<1>1. /\ disk = <<>>
      /\ disk' = Written(w, Hello) \/ disk' = Written(c.mode, Hello)
      /\ PrepareWrite => pc = "prepare_write" /\ pc' = "read_in_mode"
      /\ WriteNew => pc = "write_new" /\ pc' = "read_new"
      /\ FallbackWrite => pc = "fallback_write" /\ pc' = "reopen"
  BY DEF PrepareWrite, WriteNew, FallbackWrite, WriteAndClose, FullInv, CallInv, DiskAt, Empty, call
<1>2. Taken(c.mode)' = Taken(c.mode)
  BY SameLibrary DEF PrepareWrite, WriteNew, FallbackWrite, WriteAndClose, Stay
<1>3. disk' = Hello
  BY <1>1, WrittenNew, Texts
<1>4. DiskAt(c)'
  BY <1>1, <1>3 DEF DiskAt, Missing, Empty, Filled
<1>5. /\ Right("create", c.mode)
      /\ PrepareWrite => "out" \notin c.mode
      /\ WriteNew \/ FallbackWrite => "out" \in c.mode
  BY <1>1 DEF FullInv, CallInv, ShownAt, ReadingPCs, WritingPCs
<1>6. Right("create", c.mode)'
  BY <1>2, <1>5 DEF Right
<1>7. ShownAt(c)'
  BY <1>1, <1>5, <1>6 DEF ShownAt, ReadingPCs, WritingPCs, ExistingPCs
<1>8. Sound
  BY <1>1 DEF Sound
<1> QED  BY <1>4, <1>7, <1>8 DEF At

LEMMA ReadingStep ==
  ASSUME FullInv, ReadInMode, NEW c \in Calls, c = Cases[row]
  PROVE  At(c)' /\ Sound
<1>1. /\ disk = Hello /\ "out" \notin c.mode /\ c.mode = {"in"} /\ Right("create", c.mode)
      /\ ~ c.can_open_when_existing
      /\ pc' = IF Reads(c.mode, Hello) THEN "remove" ELSE "failed"
  BY DEF ReadInMode, ReadAndVerify, VERIFY, FullInv, CallInv, DiskAt, ShownAt, Filled,
         ReadingPCs, WritingPCs, call, Calls, Fits
<1>2. Reads(c.mode, Hello) <=> Opens(c.mode) /\ "truncate" \notin Taken(c.mode)
  <2>1. Hello # <<>>
    BY DEF Hello
  <2>2. Hello \in Seq(Plain) /\ Len(Hello) = 2
    BY Texts
  <2>3. /\ disk \in Seq(Plain) /\ Len(Hello) <= Len(disk)
        /\ \A i \in 1 .. Len(Hello) : disk[i] = Hello[i]
    BY <1>1, <2>2
  <2> QED  BY <2>1, <2>2, <2>3, ReadsPrefix
<1>3. Opens(c.mode) <=> ~ {"create", "exclusive"} \subseteq Taken(c.mode)
  BY <1>1, OldFile, Texts
<1>4. library = Correct => Taken(c.mode) = c.mode
  BY CorrectTakes
<1>5. Sound
  BY <1>1, <1>2, <1>3, <1>4 DEF Sound
<1>6. pc' \in {"remove", "failed"} /\ (pc' = "remove" => Reads(c.mode, Hello))
  BY <1>1
<1>7. DiskAt(c)'
  BY <1>6 DEF DiskAt, Missing, Empty, Filled
<1>8. pc' = "remove" => Noticed(c)
  BY <1>1, <1>2, <1>6 DEF Noticed, Right
<1>9. Noticed(c)' <=> Noticed(c)
  BY SameLibrary DEF ReadInMode, ReadAndVerify, Stay
<1>10. ShownAt(c)'
  BY <1>6, <1>8, <1>9 DEF ShownAt, ReadingPCs, WritingPCs, ExistingPCs
<1> QED  BY <1>5, <1>7, <1>10 DEF At

LEMMA CreatingStep ==
  ASSUME FullInv, CreateMissing, NEW c \in Calls, c = Cases[row]
  PROVE  At(c)' /\ Sound
<1>1. /\ pc = "call" /\ disk = NoFile /\ "out" \in c.mode /\ disk' = Opened(c.mode)
      /\ c.can_create_new \in BOOLEAN /\ (c.can_create_new <=> "create" \in c.mode)
      /\ pc' = IF Opens(c.mode) = c.can_create_new
               THEN IF Opens(c.mode) THEN "write_new" ELSE "fallback"
               ELSE "failed"
  BY DEF CreateMissing, OpenAndVerify, VERIFY, FullInv, IInv, CleanInv, call, Calls, Fits
<1>2. Taken(c.mode)' = Taken(c.mode)
  BY SameLibrary DEF CreateMissing, OpenAndVerify, Stay
<1>3. Opens(c.mode) <=> "create" \in Taken(c.mode)
  BY <1>1, NewFile
<1>4. disk' = IF Opens(c.mode) THEN <<>> ELSE NoFile
  BY <1>1, NewFile
<1>5. Opens(c.mode) \in BOOLEAN
  BY OpensOrNot
<1>6. library = Correct => Taken(c.mode) = c.mode
  BY CorrectTakes
<1>7. /\ pc' \in {"write_new", "fallback", "failed"}
      /\ pc' = "write_new" => Opens(c.mode) /\ "create" \in c.mode
      /\ pc' = "fallback" => ~ Opens(c.mode) /\ "create" \notin c.mode
      /\ (Opens(c.mode) <=> "create" \in c.mode) => pc' # "failed"
  BY <1>1, <1>5
<1>8. Sound
  BY <1>3, <1>6, <1>7 DEF Sound
<1>9. DiskAt(c)'
  BY <1>4, <1>7 DEF DiskAt, Missing, Empty, Filled
<1>10. pc' # "failed" => Right("create", c.mode)'
  BY <1>2, <1>3, <1>7 DEF Right
<1>11. ShownAt(c)'
  BY <1>1, <1>7, <1>10 DEF ShownAt, ReadingPCs, WritingPCs, ExistingPCs
<1> QED  BY <1>8, <1>9, <1>11 DEF At

LEMMA CheckingStep ==
  ASSUME FullInv, ReadNew, NEW c \in Calls, c = Cases[row]
  PROVE  At(c)' /\ Sound
<1>1. /\ disk = Hello /\ disk' = Opened(r) /\ "out" \in c.mode /\ Right("create", c.mode)
      /\ pc' = IF Reads(r, Hello) THEN "reopen" ELSE "failed"
  BY DEF ReadNew, ReadAndVerify, VERIFY, FullInv, CallInv, DiskAt, ShownAt, Filled,
         ReadingPCs, WritingPCs
<1>2. Reads(r, Hello) <=> Opens(r) /\ "truncate" \notin Taken(r)
  <2>1. Hello # <<>>
    BY DEF Hello
  <2>2. Hello \in Seq(Plain) /\ Len(Hello) = 2
    BY Texts
  <2>3. /\ disk \in Seq(Plain) /\ Len(Hello) <= Len(disk)
        /\ \A i \in 1 .. Len(Hello) : disk[i] = Hello[i]
    BY <1>1, <2>2
  <2> QED  BY <2>1, <2>2, <2>3, ReadsPrefix
<1>3. /\ Opens(r) <=> ~ {"create", "exclusive"} \subseteq Taken(r)
      /\ Opens(r) => disk' = IF "truncate" \in Taken(r) THEN <<>> ELSE Hello
  BY <1>1, OldFile, Texts
<1>4. library = Correct => Taken(r) = r
  BY CorrectTakes
<1>5. Sound
  BY <1>1, <1>2, <1>3, <1>4 DEF Sound, r
<1>6. pc' \in {"reopen", "failed"} /\ (pc' = "reopen" => disk' = Hello)
  BY <1>1, <1>2, <1>3
<1>7. DiskAt(c)'
  BY <1>6 DEF DiskAt, Missing, Empty, Filled
<1>8. Right("create", c.mode)'
  BY <1>1, SameLibrary DEF Right, ReadNew, ReadAndVerify, Stay
<1>9. ShownAt(c)'
  BY <1>1, <1>6, <1>8 DEF ShownAt, ReadingPCs, WritingPCs, ExistingPCs
<1> QED  BY <1>5, <1>7, <1>9 DEF At

\* The second attempt on the file shows how "exclusive" is taken, or ends the call.
LEMMA ReopeningStep ==
  ASSUME FullInv, Reopen, NEW c \in Calls, c = Cases[row]
  PROVE  At(c)' /\ Sound
<1> DEFINE right == "create" \in c.mode => Right("exclusive", c.mode)
<1>1. /\ disk = Hello /\ disk' = Opened(c.mode)
      /\ "out" \in c.mode /\ Right("create", c.mode)
      /\ c.can_open_when_existing \in BOOLEAN
      /\ c.can_open_when_existing <=> ~ {"create", "exclusive"} \subseteq c.mode
      /\ pc' = IF Opens(c.mode) = c.can_open_when_existing
               THEN IF Opens(c.mode) THEN "write_existing" ELSE "remove"
               ELSE "failed"
  BY DEF Reopen, OpenAndVerify, VERIFY, FullInv, CallInv, DiskAt, ShownAt, Filled,
         ReadingPCs, WritingPCs, call, Calls, Fits
<1>2. /\ Opens(c.mode) <=> ~ {"create", "exclusive"} \subseteq Taken(c.mode)
      /\ Opens(c.mode) => disk' = IF "truncate" \in Taken(c.mode) THEN <<>> ELSE Hello
  BY <1>1, OldFile, Texts
<1>3. Opens(c.mode) \in BOOLEAN
  BY OpensOrNot
<1>4. library = Correct => Taken(c.mode) = c.mode
  BY CorrectTakes
<1>5. /\ pc' \in {"write_existing", "remove", "failed"}
      /\ pc' = "write_existing" => Opens(c.mode) /\ c.can_open_when_existing
      /\ pc' = "remove" => ~ Opens(c.mode) /\ ~ c.can_open_when_existing
      /\ (Opens(c.mode) <=> c.can_open_when_existing) => pc' # "failed"
  BY <1>1, <1>3
<1>6. Sound
  BY <1>1, <1>2, <1>4, <1>5 DEF Sound
<1>7. pc' # "failed" => right
  BY <1>1, <1>2, <1>5 DEF Right
<1>8. pc' = "remove" => Noticed(c)
  BY <1>1, <1>5, <1>7 DEF Noticed, Right
<1>9. /\ Taken(c.mode)' = Taken(c.mode)
      /\ Noticed(c)' <=> Noticed(c)
  BY SameLibrary DEF Reopen, OpenAndVerify, Stay
<1>10. DiskAt(c)'
  BY <1>2, <1>5, <1>9 DEF DiskAt, Missing, Empty, Filled
<1>11. ShownAt(c)'
  BY <1>1, <1>5, <1>7, <1>8, <1>9 DEF ShownAt, Right, ReadingPCs, WritingPCs, ExistingPCs
<1> QED  BY <1>6, <1>10, <1>11 DEF At

LEMMA OverwritingStep ==
  ASSUME FullInv, WriteExisting, NEW c \in Calls, c = Cases[row]
  PROVE  At(c)' /\ Sound
<1>1. /\ pc = "write_existing" /\ pc' = "read_existing"
      /\ disk = IF "truncate" \in Taken(c.mode) THEN <<>> ELSE Hello
      /\ "out" \in c.mode /\ Right("create", c.mode) /\ c.can_open_when_existing
      /\ "create" \in c.mode => Right("exclusive", c.mode)
      /\ c.what_to_write_when_existing = HELLO
      /\ disk' = Written(c.mode, HELLO)
  BY DEF WriteExisting, WriteAndClose, FullInv, CallInv, DiskAt, ShownAt, ReadingPCs,
         WritingPCs, ExistingPCs, call, Calls, Fits
<1>2. Taken(c.mode)' = Taken(c.mode)
  BY SameLibrary DEF WriteExisting, WriteAndClose, Stay
<1>3. disk' = Left(c.mode)
  BY <1>1, WrittenNew, WrittenOver, Texts DEF Left
<1>4. Left(c.mode)' = Left(c.mode)
  BY <1>2 DEF Left
<1>5. DiskAt(c)'
  BY <1>1, <1>3, <1>4 DEF DiskAt, Missing, Empty, Filled
<1>6. ShownAt(c)'
  BY <1>1, <1>2 DEF ShownAt, Right, ReadingPCs, WritingPCs, ExistingPCs
<1>7. Sound
  BY <1>1 DEF Sound
<1> QED  BY <1>5, <1>6, <1>7 DEF At

LEMMA ComparingStep ==
  ASSUME FullInv, ReadExisting, NEW c \in Calls, c = Cases[row]
  PROVE  At(c)' /\ Sound
<1> DEFINE s == c.what_to_read_when_existing
<1>1. /\ pc = "read_existing" /\ disk = Left(c.mode)
      /\ "out" \in c.mode /\ Right("create", c.mode) /\ c.can_open_when_existing
      /\ "create" \in c.mode => Right("exclusive", c.mode)
      /\ s = IF "truncate" \in c.mode THEN HELLO
             ELSE IF "append" \in c.mode THEN Appended ELSE Overwritten
      /\ pc' = IF Reads(r, s) THEN "remove" ELSE "failed"
  BY DEF ReadExisting, ReadAndVerify, VERIFY, FullInv, CallInv, DiskAt, ShownAt, ReadingPCs,
         WritingPCs, ExistingPCs, call, Calls, Fits
<1> HIDE DEF s
<1>2. pc' \in {"remove", "failed"} /\ (pc' = "remove" <=> Reads(r, s))
  BY <1>1
<1>3. pc' = "remove" => Noticed(c)
  <2>1. Reads(r, s) /\ "truncate" \notin c.mode => Right("truncate", c.mode) /\ Right("append", c.mode)
    BY <1>1, TellsApart
  <2> QED  BY <1>1, <1>2, <2>1 DEF Noticed, Right
<1>4. Noticed(c)' <=> Noticed(c)
  BY SameLibrary DEF ReadExisting, ReadAndVerify, Stay
<1>5. Sound
  <2> SUFFICES ASSUME library = Correct PROVE Reads(r, s)
    BY <1>2 DEF Sound
  <2>1. Taken(c.mode) = c.mode /\ Taken(r) = r
    BY CorrectTakes
  <2>2. disk = s
    BY <1>1, <2>1 DEF Left
  <2>3. s \in Seq(Plain) /\ s # <<>>
    <3>1. HELLO # <<>> /\ Appended # <<>> /\ Overwritten # <<>>
      BY DEF HELLO, Appended, Overwritten
    <3> QED  BY <1>1, <3>1, Texts
  <2>4. Opens(r)
    BY <2>1, <2>2, <2>3, OldFile DEF r
  <2>5. Len(s) <= Len(disk) /\ \A i \in 1 .. Len(s) : disk[i] = s[i]
    BY <2>2, <2>3
  <2>6. "truncate" \notin Taken(r)
    BY <2>1 DEF r
  <2> QED  BY <2>2, <2>3, <2>4, <2>5, <2>6, ReadsPrefix
<1>6. DiskAt(c)'
  BY <1>2 DEF DiskAt, Missing, Empty, Filled
<1>7. ShownAt(c)'
  BY <1>2, <1>3, <1>4 DEF ShownAt, ReadingPCs, WritingPCs, ExistingPCs
<1> QED  BY <1>5, <1>6, <1>7 DEF At

-----------------------------------------------------------------------------
(* The text mode: the line breaks are changed on the way to the file and back.*)

Lines == {"hello", "\n"}

LEMMA Converted ==
  ASSUME NEW s \in Seq(Lines)
  PROVE  /\ ToCrLf(s) \in Seq(Words) /\ Len(ToCrLf(s)) = Len(s)
         /\ FromCrLf(ToCrLf(s)) = s
<1>1. \A i \in DOMAIN s : s[i] \in Lines
  OBVIOUS
<1>2. DOMAIN s = 1 .. Len(s) /\ Len(s) \in Nat
  OBVIOUS
<1> DEFINE t == ToCrLf(s)
<1>3. /\ DOMAIN t = DOMAIN s
      /\ \A i \in DOMAIN s : t[i] = IF s[i] = "\n" THEN "\r\n" ELSE s[i]
      /\ t = [i \in 1 .. Len(s) |-> t[i]]
  BY <1>2 DEF ToCrLf
<1> HIDE DEF t
<1>4. \A i \in DOMAIN s : t[i] \in Words
  BY <1>1, <1>3 DEF Lines, Words
<1>5. t \in Seq(Words) /\ Len(t) = Len(s)
  BY <1>2, <1>3, <1>4
<1>6. FromCrLf(t) = s
  <2>1. FromCrLf(t) = [i \in DOMAIN s |-> IF t[i] = "\r\n" THEN "\n" ELSE t[i]]
    BY <1>3 DEF FromCrLf
  <2>2. \A i \in DOMAIN s : (IF t[i] = "\r\n" THEN "\n" ELSE t[i]) = s[i]
    BY <1>1, <1>3 DEF Lines
  <2>3. s = [i \in DOMAIN s |-> s[i]]
    OBVIOUS
  <2> QED  BY <2>1, <2>2, <2>3
<1> QED  BY <1>5, <1>6 DEF t

LEMMA TxtConverted ==
  /\ ToCrLf(Txt) \in Seq(Words) /\ Len(ToCrLf(Txt)) = Len(Txt)
  /\ FromCrLf(ToCrLf(Txt)) = Txt
<1>1. Txt \in Seq(Lines)
  BY DEF Txt, Lines
<1> QED  BY <1>1, Converted

\* A correct library reads the file it is asked for, line breaks as the mode says.
LEMMA WholeRead ==
  ASSUME library = Correct, disk = ToCrLf(Txt), NEW mode, mode \cap {"create", "truncate"} = {},
         NEW s, Len(s) = Len(disk),
         s = IF "cr_lf" \in mode THEN Txt ELSE ToCrLf(Txt)
  PROVE  Reads(mode, s) /\ Opened(mode) = disk
<1>1. disk \in Seq(Words) /\ disk # NoFile
  BY TxtConverted, SessionAssumption
<1>2. Taken(mode) = mode
  BY CorrectTakes
<1>3. Opens(mode) /\ Opened(mode) = disk
  BY <1>1, <1>2 DEF Opens, Opened
<1>4. SubSeq(disk, 1, Len(disk)) = disk
  BY <1>1
<1>5. Len(disk) \in Nat
  BY <1>1
<1>6. Read(mode, Len(s)) = s
  BY <1>2, <1>3, <1>4, <1>5, TxtConverted DEF Read
<1> QED  BY <1>3, <1>6 DEF Reads

LEMMA TextStep ==
  ASSUME FullInv, Text
  PROVE  CorrectInv'
<1> SUFFICES ASSUME library' = Correct
             PROVE  /\ pc' # "failed"
                    /\ pc' = "text_write" => disk' = <<>>
                    /\ pc' \in {"text_raw", "text_read"} => disk' = ToCrLf(Txt)
  BY DEF CorrectInv, ToCrLf, Txt
<1>1. library = Correct
  BY DEF Text, TextOpen, TextWrite, TextReadRaw, TextRead, TextRemove, OpenAndVerify,
         WriteAndClose, ReadAndVerify, Stay
<1>2. \A mode : Taken(mode) = mode
  BY <1>1, CorrectTakes
<1>3. CASE TextOpen
  <2>1. Opens(TextMode) /\ Opened(TextMode) = <<>>
    BY <1>2 DEF Opens, Opened, TextMode, Out
  <2> QED  BY <1>3, <2>1 DEF TextOpen, OpenAndVerify, VERIFY
<1>4. CASE TextWrite
  <2>1. disk = <<>> /\ disk' = Written(TextMode, Txt) /\ pc' = "text_raw"
    BY <1>1, <1>4 DEF TextWrite, WriteAndClose, FullInv, CorrectInv
  <2>2. Len(ToCrLf(Txt)) \in Nat /\ ToCrLf(Txt) \o <<>> = ToCrLf(Txt)
    BY TxtConverted, ConcatEmptySeq
  <2>3. SubSeq(disk, Len(ToCrLf(Txt)) + 1, Len(disk)) = <<>>
    BY <2>1, <2>2
  <2>4. "append" \notin TextMode /\ "cr_lf" \in TextMode
    BY DEF TextMode, Out
  <2>5. Written(TextMode, Txt)
          = ToCrLf(Txt) \o SubSeq(disk, Len(ToCrLf(Txt)) + 1, Len(disk))
    BY <1>2, <2>4, WrittenConverted
  <2> QED  BY <2>1, <2>2, <2>3, <2>5
<1>5. CASE TextReadRaw
  <2>1. /\ disk = ToCrLf(Txt) /\ disk' = Opened(In)
        /\ pc' = IF Reads(In, ToCrLf(Txt)) THEN "text_read" ELSE "failed"
    BY <1>1, <1>5 DEF TextReadRaw, ReadAndVerify, VERIFY, FullInv, CorrectInv
  <2>2. In \cap {"create", "truncate"} = {} /\ "cr_lf" \notin In
    BY DEF In
  <2>3. Reads(In, ToCrLf(Txt)) /\ Opened(In) = disk
    BY <1>1, <2>1, <2>2, WholeRead
  <2> QED  BY <2>1, <2>3
<1>6. CASE TextRead
  <2> DEFINE mode == In \cup {"cr_lf"}
  <2>1. /\ disk = ToCrLf(Txt)
        /\ pc' = IF Reads(mode, Txt) THEN "text_remove" ELSE "failed"
    BY <1>1, <1>6 DEF TextRead, ReadAndVerify, VERIFY, FullInv, CorrectInv
  <2>2. mode \cap {"create", "truncate"} = {} /\ "cr_lf" \in mode
    BY DEF In
  <2> HIDE DEF mode
  <2>3. Reads(mode, Txt)
    BY <1>1, <2>1, <2>2, WholeRead, TxtConverted
  <2> QED  BY <2>1, <2>3
<1>7. CASE TextRemove
  BY <1>7 DEF TextRemove
<1> QED  BY <1>3, <1>4, <1>5, <1>6, <1>7 DEF Text

-----------------------------------------------------------------------------
(* The whole invariant.                                                     *)

InCall ==
  \/ ProbeMissing \/ Prepare \/ PrepareWrite \/ ReadInMode
  \/ CreateMissing \/ WriteNew \/ ReadNew \/ Fallback \/ FallbackWrite
  \/ Reopen \/ WriteExisting \/ ReadExisting

LEMMA InCallStep ==
  ASSUME FullInv, InCall
  PROVE  CallInv' /\ PastInv' /\ CorrectInv'
<1>1. PICK c : c = Cases[row]
  OBVIOUS
<1>2. row \in DOMAIN Cases /\ c \in Calls
  BY <1>1, CallFits DEF FullInv, CallInv
<1>3. At(c)' /\ Sound
  BY <1>1, <1>2, ProbingStep, PreparingStep, FillingStep, ReadingStep, CreatingStep,
     CheckingStep, ReopeningStep, OverwritingStep, ComparingStep DEF InCall
<1>4. /\ row' = row /\ library' = library
      /\ pc \in CallPCs \cup {"call"} /\ pc' \in CallPCs \cup {"failed"}
  BY DEF InCall, ProbeMissing, Prepare, PrepareWrite, ReadInMode, CreateMissing, WriteNew,
         ReadNew, Fallback, FallbackWrite, Reopen, WriteExisting, ReadExisting,
         OpenAndVerify, WriteAndClose, ReadAndVerify, VERIFY, Stay, CallPCs
<1>5. CallInv'
  BY <1>1, <1>2, <1>3, <1>4 DEF CallInv, At
<1>6. PastInv'
  BY <1>4, SameLibrary DEF FullInv, PastInv, CallPCs
<1>7. CorrectInv'
  BY <1>3, <1>4 DEF Sound, CorrectInv, CallPCs
<1> QED  BY <1>5, <1>6, <1>7

LEMMA RemoveStep ==
  ASSUME FullInv, Remove
  PROVE  CallInv' /\ PastInv' /\ CorrectInv'
<1>1. /\ row \in DOMAIN Cases /\ Noticed(Cases[row])
      /\ \A i \in 1 .. row - 1 : Noticed(Cases[i])
  BY DEF Remove, FullInv, CallInv, PastInv, ShownAt, CallPCs
<1>2. row \in 1 .. Len(Cases) /\ Len(Cases) \in Nat /\ DOMAIN Cases = 1 .. Len(Cases)
  BY <1>1, CallFits
<1>3. \A i \in 1 .. row : Noticed(Cases[i])
  <2>1. \A i \in 1 .. row : i = row \/ i \in 1 .. row - 1
    BY <1>2
  <2> QED  BY <1>1, <2>1
<1>4. \A c : Noticed(c)' <=> Noticed(c)
  BY SameLibrary DEF Remove
<1>5. CASE row < Len(Cases)
  <2>1. row' = row + 1 /\ pc' = "call" /\ row' - 1 = row /\ row' \in DOMAIN Cases
    BY <1>2, <1>5 DEF Remove, Return
  <2>2. CallInv'
    BY <2>1 DEF CallInv, DiskAt, ShownAt, Missing, Empty, Filled, ReadingPCs, WritingPCs, ExistingPCs
  <2>3. PastInv'
    BY <1>3, <1>4, <2>1 DEF PastInv
  <2> QED  BY <2>1, <2>2, <2>3 DEF CorrectInv
<1>6. CASE ~ (row < Len(Cases))
  <2>1. row' = row /\ pc' = "next"
    BY <1>6 DEF Remove, Return
  <2>2. row = Len(Cases)
    <3>1. PICK n \in Nat : n = Len(Cases)
      BY <1>2
    <3>2. row \in 1 .. n /\ ~ (row < n)
      BY <1>2, <1>6, <3>1
    <3> QED  BY <3>1, <3>2
  <2>3. CallInv'
    BY <1>1, <2>1 DEF CallInv, DiskAt, ShownAt, Missing, Empty, Filled, ReadingPCs, WritingPCs,
                      ExistingPCs
  <2>4. PastInv'
    BY <1>2, <1>3, <1>4, <2>1, <2>2 DEF PastInv, CallPCs
  <2> QED  BY <2>1, <2>3, <2>4 DEF CorrectInv
<1> QED  BY <1>5, <1>6

\* Outside the calls nothing is said of a call.
LEMMA OutsideCalls ==
  ASSUME row' \in DOMAIN Cases, pc' \notin CallPCs
  PROVE  CallInv'
<1> QED  BY DEF CallInv, CallPCs, DiskAt, ShownAt, Missing, Empty, Filled, ReadingPCs, WritingPCs,
                ExistingPCs

LEMMA FirstRow == 1 \in DOMAIN Cases
<1> QED  BY DEF Cases

LEMMA OtherStep ==
  ASSUME FullInv, Text \/ ModesBegin \/ AllPassed \/ Die \/ Start \/ NoMoreSessions \/ UNCHANGED vars
  PROVE  CallInv' /\ PastInv' /\ CorrectInv'
<1>1. CASE Text
  <2>1. /\ row' = row /\ pc' \in TextPCs \cup {"failed", "next"}
        /\ pc' = "next" => TextRemove
    BY <1>1 DEF Text, TextOpen, TextWrite, TextReadRaw, TextRead, TextRemove, OpenAndVerify,
                WriteAndClose, ReadAndVerify, VERIFY, Stay, TextPCs
  <2>2. pc' = "next" => todo' = <<"modes">>
    BY <2>1, Todo DEF TextRemove, FullInv, IInv, TodoInv, TextPCs
  <2>3. PastInv'
    BY <2>1, <2>2, Todo DEF PastInv, TextPCs, CallPCs
  <2>4. CallInv'
    BY <2>1, OutsideCalls DEF FullInv, CallInv, TextPCs, CallPCs
  <2> QED  BY <1>1, <2>3, <2>4, TextStep
<1>2. CASE ModesBegin
  <2>1. row' = 1 /\ pc' = "call"
    BY <1>2 DEF ModesBegin
  <2>2. CallInv'
    BY <2>1, FirstRow, OutsideCalls DEF CallPCs
  <2>3. PastInv'
    BY <2>1 DEF PastInv
  <2> QED  BY <2>1, <2>2, <2>3 DEF CorrectInv
<1>3. CASE AllPassed
  <2>1. pc = "next" /\ todo = <<>> /\ pc' = "passed" /\ row' = row /\ library' = library
    BY <1>3 DEF AllPassed
  <2>2. CallInv'
    BY <2>1, OutsideCalls DEF FullInv, CallInv, CallPCs
  <2>3. PastInv'
    BY <2>1, SameLibrary DEF FullInv, PastInv, CallPCs
  <2> QED  BY <2>1, <2>2, <2>3 DEF CorrectInv
<1>4. CASE Die
  <2>1. pc' = "died" /\ row' = row
    BY <1>4 DEF Die
  <2> QED  BY <2>1, OutsideCalls DEF FullInv, CallInv, PastInv, CorrectInv, CallPCs
<1>5. CASE Start
  <2>1. pc' = "next" /\ row' = 1 /\ todo' = <<"text_mode", "modes">>
    BY <1>5 DEF Start, Order
  <2>2. CallInv'
    BY <2>1, FirstRow, OutsideCalls DEF CallPCs
  <2>3. PastInv'
    BY <2>1, Todo DEF PastInv, CallPCs
  <2> QED  BY <2>1, <2>2, <2>3 DEF CorrectInv
<1>6. CASE NoMoreSessions \/ UNCHANGED vars
  <2>1. UNCHANGED <<disk, library, todo, row, pc>>
    BY <1>6 DEF NoMoreSessions, vars
  <2>2. CallInv' /\ CorrectInv'
    BY <2>1, SameLibrary
       DEF FullInv, CallInv, CorrectInv, DiskAt, ShownAt, Right, Left, ToCrLf, Txt
  <2>3. PastInv'
    BY <2>1, SameLibrary DEF FullInv, PastInv
  <2> QED  BY <2>2, <2>3
<1> QED  BY <1>1, <1>2, <1>3, <1>4, <1>5, <1>6

LEMMA InitFull == Init => FullInv
<1> SUFFICES ASSUME Init PROVE FullInv
  OBVIOUS
<1>1. /\ pc = "next" /\ row = 1 /\ todo = <<"text_mode", "modes">>
  BY DEF Init, Order
<1>2. CallInv
  BY <1>1, FirstRow
     DEF CallInv, DiskAt, ShownAt, Missing, Empty, Filled, ReadingPCs, WritingPCs, ExistingPCs
<1>3. PastInv /\ CorrectInv
  BY <1>1, Todo DEF PastInv, CorrectInv, CallPCs
<1> QED  BY <1>2, <1>3, InitInv DEF FullInv

LEMMA FullStep == FullInv /\ [Next]_vars => FullInv'
<1> SUFFICES ASSUME FullInv, [Next]_vars PROVE FullInv'
  OBVIOUS
<1>1. IInv'
  BY EveryStep DEF FullInv
<1>2. CallInv' /\ PastInv' /\ CorrectInv'
  BY InCallStep, RemoveStep, OtherStep DEF InCall, Next, Modes
<1> QED  BY <1>1, <1>2 DEF FullInv

LEMMA FullInvariance == Spec => []FullInv
<1> QED  BY InitFull, FullStep, PTL DEF Spec

\* A session that passes has been run on a library that takes "create",
\* "exclusive", "truncate" and "append" as each mode of the calls gives them, as
\* far as the VERIFYs of test_iobuf_file_mode look: whatever the library does.
THEOREM FaultsNoticed == Spec => []FaultsAreNoticed
<1>1. FullInv => FaultsAreNoticed
  BY DEF FullInv, PastInv, FaultsAreNoticed
<1> QED  BY <1>1, FullInvariance, PTL

\* With a correct library no VERIFY of the two tests fails, whatever the sessions
\* before have left on disk.
THEOREM NoAlarm == Spec => []NoFalseAlarm
<1>1. FullInv => NoFalseAlarm
  BY DEF FullInv, CorrectInv, NoFalseAlarm
<1> QED  BY <1>1, FullInvariance, PTL

=============================================================================
