------------------------------ MODULE ByteFile ------------------------------
(***************************************************************************)
(* What a stream relies on when it works over a device of iobuf.cpp: a      *)
(* file of bytes with one position.  Reading moves the position, writing    *)
(* replaces or extends, seeking past the end extends with zero bytes, and   *)
(* bytes stored through a mapping belong to the file once the position has  *)
(* been moved over them.                                                    *)
(***************************************************************************)
EXTENDS Integers, Sequences

CONSTANTS
  Byte,       \* values of a byte
  Zero,       \* the value of a byte nobody has written
  ReadSizes,  \* sizes a stream asks to read
  Chunks,     \* byte strings a stream writes
  Escapes,    \* control sequences that set a colour
  Offsets     \* arguments of seek

VARIABLES
  content,  \* the bytes of the file
  pos,      \* the position
  room,     \* bytes that may be stored through the mapping, 0 if there is none
  pending,  \* bytes stored through the mapping, the position not moved yet
  reply     \* what the last call has returned

vars == <<content, pos, room, pending, reply>>

Larger(m, n) == IF m > n THEN m ELSE n
Smaller(m, n) == IF m < n THEN m ELSE n

Answer(n, bytes) == [n |-> n, bytes |-> bytes]
Refused == Answer(-1, <<>>)

\* s with b put at offset p; bytes between the end of s and p are zero.
Overwrite(s, p, b) ==
  [i \in 1 .. Larger(Len(s), p + Len(b)) |->
     IF p < i /\ i <= p + Len(b) THEN b[i - p]
     ELSE IF i <= Len(s) THEN s[i]
     ELSE Zero]

\* A stream moves over what it has stored before it does anything else.
Idle == pending = <<>>

-----------------------------------------------------------------------------
Init ==
  /\ content = <<>>
  /\ pos = 0
  /\ room = 0
  /\ pending = <<>>
  /\ reply = Answer(0, <<>>)

Read(sz) ==
  /\ Idle
  /\ LET n == Smaller(sz, Len(content) - pos)
     IN  /\ reply' = Answer(n, [i \in 1 .. n |-> content[pos + i]])
         /\ pos' = pos + n
  /\ room' = 0
  /\ UNCHANGED <<content, pending>>

Put(b) ==
  /\ Idle
  /\ content' = Overwrite(content, pos, b)
  /\ pos' = pos + Len(b)
  /\ room' = 0
  /\ UNCHANGED pending

Write(b) == Put(b) /\ reply' = Answer(Len(b), <<>>)

CtrlEscColor(e) == Put(e) /\ reply' = Answer(0, <<>>)

MapForReading ==
  /\ Idle
  /\ LET n == Len(content) - pos
     IN  reply' = Answer(n, [i \in 1 .. n |-> content[pos + i]])
  /\ room' = 0
  /\ UNCHANGED <<content, pos, pending>>

\* However large the file is, there is room for one byte at least.
MapForWriting ==
  /\ Idle
  /\ room' \in Nat \ {0}
  /\ reply' = Answer(room', <<>>)
  /\ UNCHANGED <<content, pos, pending>>

\* A byte stored over the present content is seen at once.
Store(x) ==
  /\ Len(pending) < room
  /\ pending' = Append(pending, x)
  /\ content' = [i \in 1 .. Len(content) |->
                   IF i = pos + Len(pending) + 1 THEN x ELSE content[i]]
  /\ UNCHANGED <<pos, room, reply>>

Commit ==
  /\ ~ Idle
  /\ content' = Overwrite(content, pos, pending)
  /\ pos' = pos + Len(pending)
  /\ pending' = <<>>
  /\ room' = 0
  /\ reply' = Answer(pos', <<>>)

Target(off, dir) ==
  off + CASE dir = "beg"  -> 0
          [] dir = "curr" -> pos
          [] dir = "end"  -> Len(content)

Seek(off, dir) ==
  /\ Idle
  /\ IF Target(off, dir) >= 0
     THEN /\ pos' = Target(off, dir)
          /\ content' = Overwrite(content, pos', <<>>)
          /\ reply' = Answer(pos', <<>>)
     ELSE /\ reply' = Refused
          /\ UNCHANGED <<content, pos>>
  /\ room' = 0
  /\ UNCHANGED pending

\* Work goes on with a copy of the file, at its beginning.
Copy ==
  /\ Idle
  /\ pos' = 0
  /\ room' = 0
  /\ reply' = Answer(0, <<>>)
  /\ UNCHANGED <<content, pending>>

Next ==
  \/ \E sz \in ReadSizes : Read(sz)
  \/ \E b \in Chunks : Write(b)
  \/ \E e \in Escapes : CtrlEscColor(e)
  \/ MapForReading
  \/ MapForWriting
  \/ \E x \in Byte : Store(x)
  \/ Commit
  \/ \E off \in Offsets, dir \in {"beg", "curr", "end"} : Seek(off, dir)
  \/ Copy

Spec == Init /\ [][Next]_vars

=============================================================================
