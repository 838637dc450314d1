------------------------------- MODULE MemDev -------------------------------
(***************************************************************************)
(* The device memdev of iobuf.cpp, on which the streams under test read     *)
(* and write: a vector of machine words whose length, end of data and       *)
(* position are kept apart, and which grows and shrinks by several rules.   *)
(* The streams are not part of the repository: they make any sequence of    *)
(* calls of the device's interface, and use a mapping as they must: they    *)
(* move the position over what they have stored before the next call.       *)
(***************************************************************************)
EXTENDS Integers, Sequences

CONSTANTS
  Byte, Zero, ReadSizes, Chunks, Escapes, Offsets,   \* as in ByteFile
  word_size,  \* sizeof(std::max_align_t)
  min_words,  \* the least number of words a mapping grows the vector to
  MaxBytes    \* bound: the position stays within it

ASSUME DeviceAssumption ==
  /\ Zero \in Byte
  /\ ReadSizes \subseteq Nat
  /\ Chunks \subseteq Seq(Byte)
  /\ Escapes \subseteq Seq(Byte)
  /\ Offsets \subseteq Int
  /\ word_size \in Nat \ {0}
  /\ min_words \in Nat \ {0, 1}
  /\ MaxBytes \in Nat

VARIABLES
  data_,    \* the bytes of the vector's words
  pos_,     \* the position
  top_,     \* the end of the data
  room,     \* bytes left in the mapping for writing, 0 if there is none
  pending,  \* bytes the stream has stored through the mapping
  reply     \* what the last call has returned

vars == <<data_, pos_, top_, room, pending, reply>>

Larger(m, n) == IF m > n THEN m ELSE n
Smaller(m, n) == IF m < n THEN m ELSE n

Answer(n, bytes) == [n |-> n, bytes |-> bytes]

to_word_count(sz) == (sz + word_size - 1) \div word_size
to_byte_count(sz) == sz * word_size

words == Len(data_) \div word_size

\* data_.resize(n): words that are kept keep their bytes, new ones are zero.
Resized(n) ==
  [i \in 1 .. to_byte_count(n) |-> IF i <= Len(data_) THEN data_[i] ELSE Zero]

\* std::copy_n of b to offset p.
CopyTo(s, p, b) ==
  [i \in 1 .. Len(s) |-> IF p < i /\ i <= p + Len(b) THEN b[i - p] ELSE s[i]]

FromPos(n) == [i \in 1 .. n |-> data_[pos_ + i]]

Idle == pending = <<>>

-----------------------------------------------------------------------------
Init ==
  /\ data_ = <<>>
  /\ pos_ = 0
  /\ top_ = 0
  /\ room = 0
  /\ pending = <<>>
  /\ reply = Answer(0, <<>>)

read(sz) ==
  /\ Idle
  /\ LET n_read == Smaller(sz, top_ - pos_)
     IN  /\ reply' = Answer(n_read, FromPos(n_read))
         /\ pos_' = pos_ + n_read
  /\ room' = 0
  /\ UNCHANGED <<data_, top_, pending>>

\* Mutant: the end of the data follows the position backwards.
PutTruncates(b) ==
  /\ Idle
  /\ pos_ + Len(b) <= MaxBytes
  /\ data_' = CopyTo(IF pos_ + Len(b) > top_
                       THEN Resized(to_word_count(pos_ + Len(b)))
                       ELSE data_,
                     pos_, b)
  /\ pos_' = pos_ + Len(b)
  /\ top_' = pos_'
  /\ room' = 0
  /\ UNCHANGED pending

\* The vector is made as long as the data need: this may shrink it.
put(b) ==
  /\ Idle
  /\ pos_ + Len(b) <= MaxBytes
  /\ data_' = CopyTo(IF pos_ + Len(b) > top_
                       THEN Resized(to_word_count(pos_ + Len(b)))
                       ELSE data_,
                     pos_, b)
  /\ pos_' = pos_ + Len(b)
  /\ top_' = Larger(top_, pos_')
  /\ room' = 0
  /\ UNCHANGED pending

write(b) == put(b) /\ reply' = Answer(Len(b), <<>>)

ctrlesc_color(e) == put(e) /\ reply' = Answer(0, <<>>)

map_for_reading ==
  /\ Idle
  /\ reply' = Answer(top_ - pos_, FromPos(top_ - pos_))
  /\ room' = 0
  /\ UNCHANGED <<data_, pos_, top_, pending>>

map_for_writing ==
  /\ Idle
  /\ data_' = IF Len(data_) = pos_
                THEN Resized(Larger(min_words, (3 * words) \div 2))
                ELSE data_
  /\ room' = Len(data_') - pos_
  /\ reply' = Answer(room', <<>>)
  /\ UNCHANGED <<pos_, top_, pending>>

\* The stream stores the next byte through the pointer map has returned.
Store(x) ==
  /\ Len(pending) < room
  /\ pos_ + Len(pending) < MaxBytes
  /\ data_' = CopyTo(data_, pos_ + Len(pending), <<x>>)
  /\ pending' = Append(pending, x)
  /\ UNCHANGED <<pos_, top_, room, reply>>

\* Mutant: the end of the data is moved only when the vector has to grow.
MoveLeavesTop(target) ==
  /\ pos_' = target
  /\ top_' = IF target > Len(data_) THEN target ELSE top_
  /\ data_' = IF top_' > Len(data_) THEN Resized(to_word_count(top_')) ELSE data_
  /\ reply' = Answer(target, <<>>)

MoveTo(target) ==
  /\ pos_' = target
  /\ top_' = Larger(top_, target)
  /\ data_' = IF top_' > Len(data_) THEN Resized(to_word_count(top_')) ELSE data_
  /\ reply' = Answer(target, <<>>)

Base(dir) ==
  CASE dir = "beg" -> 0 [] dir = "curr" -> pos_ [] dir = "end" -> top_

\* Mutant: a negative offset is not checked.
SeekUnchecked(off, dir) ==
  /\ Idle
  /\ off + Base(dir) <= MaxBytes
  /\ MoveTo(Base(dir) + off)
  /\ room' = 0
  /\ UNCHANGED pending

\* Moving before the beginning fails a VERIFY and changes nothing.
seek(off, dir) ==
  /\ Idle
  /\ off + Base(dir) <= MaxBytes
  /\ IF off >= 0 \/ -off <= Base(dir)
     THEN MoveTo(Base(dir) + off)
     ELSE reply' = Answer(-1, <<>>) /\ UNCHANGED <<data_, pos_, top_>>
  /\ room' = 0
  /\ UNCHANGED pending

\* The stream moves the position over what it has stored.
Commit ==
  /\ ~ Idle
  /\ MoveTo(pos_ + Len(pending))
  /\ pending' = <<>>
  /\ room' = 0

\* Mutant: an incomplete last word is not copied.
CopyWholeWords ==
  /\ Idle
  /\ data_' = [i \in 1 .. to_byte_count(top_ \div word_size) |-> data_[i]]
  /\ pos_' = 0
  /\ room' = 0
  /\ reply' = Answer(0, <<>>)
  /\ UNCHANGED <<top_, pending>>

\* The test goes on with a copy of the device: the words that hold data.
copy ==
  /\ Idle
  /\ data_' = [i \in 1 .. to_byte_count(to_word_count(top_)) |-> data_[i]]
  /\ pos_' = 0
  /\ room' = 0
  /\ reply' = Answer(0, <<>>)
  /\ UNCHANGED <<top_, pending>>

Next ==
  \/ \E sz \in ReadSizes : read(sz)
  \/ \E b \in Chunks : write(b)
  \/ \E e \in Escapes : ctrlesc_color(e)
  \/ map_for_reading
  \/ map_for_writing
  \/ \E x \in Byte : Store(x)
  \/ Commit
  \/ \E off \in Offsets, dir \in {"beg", "curr", "end"} : seek(off, dir)
  \/ copy

Spec == Init /\ [][Next]_vars

-----------------------------------------------------------------------------
(* Correctness.                                                            *)

\* Every variable keeps its type; the vector holds whole words.
TypeOK ==
  /\ data_ \in Seq(Byte)
  /\ Len(data_) % word_size = 0
  /\ pos_ \in Nat
  /\ top_ \in Nat
  /\ room \in Nat
  /\ pending \in Seq(Byte)
  /\ reply \in [n : Int, bytes : Seq(Byte)]

\* What every call of the device asserts on entry, after any sequence of the
\* calls before it: the position is within the data, the data are within the
\* vector; and the memory map has handed out lies in the vector as it is now.
DeviceInBounds ==
  /\ pos_ <= top_
  /\ top_ <= Len(data_)
  /\ pos_ + room <= Len(data_)
  /\ Len(pending) <= room

\* The memory past the end of the data is zero but for what the stream has
\* just stored there: only so does a seek past the end leave a gap of zeros,
\* whatever growing, shrinking and mapping came before.
TailIsZero ==
  \A i \in top_ + 1 .. Len(data_) :
    data_[i] = IF pos_ < i /\ i <= pos_ + Len(pending) THEN pending[i - pos_]
               ELSE Zero

\* The device is a file of bytes: every call returns what the file returns,
\* and a mapping for writing always has room.
File == INSTANCE ByteFile WITH
  content <- [i \in 1 .. top_ |-> data_[i]],
  pos <- pos_

ImplementsByteFile == File!Spec

=============================================================================
