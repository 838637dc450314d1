---------------------------- MODULE MemDevProofs ----------------------------
(***************************************************************************)
(* Theorems about MemDev, for every word size, every least growth of two    *)
(* words or more, and every set of bytes, sizes, strings and offsets.       *)
(***************************************************************************)
EXTENDS MemDev, TLAPS

-----------------------------------------------------------------------------
(* Words and bytes.                                                        *)

\* A number of words is a whole number of bytes.
LEMMA ByteCount ==
  ASSUME NEW n \in Nat
  PROVE  to_byte_count(n) \in Nat /\ to_byte_count(n) % word_size = 0
<1>1. word_size \in Nat /\ word_size > 0
  BY DeviceAssumption
<1>2. n * word_size \in Nat
  BY <1>1
<1>3. (n * word_size) % word_size = 0
  BY <1>1, Z3T(30)
<1> QED  BY <1>2, <1>3 DEF to_byte_count

\* The words counted for a number of bytes hold that many.
LEMMA WordCount ==
  ASSUME NEW sz \in Nat
  PROVE  to_word_count(sz) \in Nat /\ sz <= to_byte_count(to_word_count(sz))
<1>1. word_size \in Nat /\ word_size > 0
  BY DeviceAssumption
<1> DEFINE m == sz + word_size - 1
<1>2. m \in Nat
  BY <1>1
<1>3. m \div word_size \in Nat
  BY <1>1, <1>2, Z3T(30)
<1>4. m = (m \div word_size) * word_size + (m % word_size)
      /\ (m % word_size) \in 0 .. word_size - 1
  BY <1>1, <1>2, Z3T(30)
<1>5. (m \div word_size) * word_size \in Nat
  BY <1>1, <1>3
<1> HIDE DEF m
<1>6. sz <= (m \div word_size) * word_size
  <2>1. sz = m - word_size + 1
    BY <1>1 DEF m
  <2> QED BY <1>1, <1>2, <1>4, <1>5, <2>1
<1> QED  BY <1>3, <1>6 DEF to_byte_count, to_word_count, m

\* They are the fewest that do.
LEMMA LeastWords ==
  ASSUME NEW sz \in Nat, NEW n \in Nat, n % word_size = 0, sz <= n
  PROVE  to_byte_count(to_word_count(sz)) <= n
<1>1. word_size \in Nat /\ word_size > 0
  BY DeviceAssumption
<1> DEFINE m == sz + word_size - 1
           q == m \div word_size
           w == n \div word_size
<1>2. m \in Nat
  BY <1>1
<1>3. q \in Nat /\ w \in Nat
  BY <1>1, <1>2, Z3T(30)
<1>4. q * word_size <= m
  BY <1>1, <1>2, Z3T(30)
<1>5. n = w * word_size
  BY <1>1, Z3T(30)
<1>6. q * word_size < (w + 1) * word_size
  <2>1. q * word_size \in Int
    BY <1>1, <1>3
  <2>2. (w + 1) * word_size = n + word_size
    BY <1>1, <1>3, <1>5, Z3T(30)
  <2> QED BY <1>1, <1>2, <1>4, <2>1, <2>2
<1> HIDE DEF m, q, w
<1>7. q < w + 1
  BY <1>1, <1>3, <1>6, Z3T(30)
<1>8. q * word_size <= w * word_size
  BY <1>1, <1>3, <1>7, Z3T(30)
<1> QED  BY <1>5, <1>8 DEF to_byte_count, to_word_count, m, q

\* A vector of whole words that is full grows when it is mapped.
LEMMA Growth ==
  ASSUME NEW n \in Nat, n % word_size = 0,
         NEW w, w = n \div word_size
  PROVE  /\ Larger(min_words, (3 * w) \div 2) \in Nat
         /\ n < to_byte_count(Larger(min_words, (3 * w) \div 2))
<1>1. word_size \in Nat /\ word_size > 0 /\ min_words \in Nat /\ min_words > 1
  BY DeviceAssumption
<1>2. w \in Nat
  BY <1>1, Z3T(30)
<1>3. n = w * word_size
  BY <1>1, Z3T(30)
<1> DEFINE g == Larger(min_words, (3 * w) \div 2)
<1>4. g \in Nat /\ w < g
  BY <1>1, <1>2 DEF Larger
<1> HIDE DEF g
<1>5. w * word_size < g * word_size
  BY <1>1, <1>2, <1>4, Z3T(30)
<1> QED  BY <1>3, <1>4, <1>5 DEF to_byte_count, g

-----------------------------------------------------------------------------
(* The vector.                                                             *)

\* What resize leaves in the vector.
LEMMA Resize ==
  ASSUME NEW n \in Nat, data_ \in Seq(Byte)
  PROVE  /\ Resized(n) \in Seq(Byte)
         /\ Len(Resized(n)) = to_byte_count(n)
         /\ \A i \in 1 .. to_byte_count(n) :
              Resized(n)[i] = IF i <= Len(data_) THEN data_[i] ELSE Zero
<1>1. to_byte_count(n) \in Nat
  BY ByteCount
<1>2. Zero \in Byte
  BY DeviceAssumption
<1>3. \A i \in 1 .. to_byte_count(n) :
        (IF i <= Len(data_) THEN data_[i] ELSE Zero) \in Byte
  BY <1>1, <1>2
<1> QED  BY <1>1, <1>3 DEF Resized

\* What a copy leaves in the vector.
LEMMA CopyIn ==
  ASSUME NEW s \in Seq(Byte), NEW p \in Nat, NEW b \in Seq(Byte)
  PROVE  /\ CopyTo(s, p, b) \in Seq(Byte)
         /\ Len(CopyTo(s, p, b)) = Len(s)
         /\ \A i \in 1 .. Len(s) :
              CopyTo(s, p, b)[i] = IF p < i /\ i <= p + Len(b) THEN b[i - p] ELSE s[i]
<1>1. \A i \in 1 .. Len(s) :
        (IF p < i /\ i <= p + Len(b) THEN b[i - p] ELSE s[i]) \in Byte
  OBVIOUS
<1> QED  BY <1>1 DEF CopyTo

\* What is read from the position on is a string of bytes.
LEMMA FromPosIsString ==
  ASSUME data_ \in Seq(Byte), pos_ \in Nat, NEW n \in Nat, pos_ + n <= Len(data_)
  PROVE  FromPos(n) \in Seq(Byte)
BY DEF FromPos

-----------------------------------------------------------------------------
(* The inductive invariant.  Bytes stored through a mapping lie in the      *)
(* vector from the position on, wherever the end of the data is; together   *)
(* with the zeros behind them this is all one has to know of the memory     *)
(* that is not part of the file yet.                                        *)

PendingStored ==
  \A i \in 1 .. Len(pending) : data_[pos_ + i] = pending[i]

IInv == TypeOK /\ DeviceInBounds /\ TailIsZero /\ PendingStored

\* The content of the file.
Content == [i \in 1 .. top_ |-> data_[i]]

LEMMA InitInv == Init => IInv
<1> SUFFICES ASSUME Init PROVE IInv
  OBVIOUS
<1>1. word_size \in Nat /\ word_size > 0
  BY DeviceAssumption
<1>2. TypeOK
  BY <1>1, Z3T(30) DEF Init, TypeOK, Answer
<1>3. DeviceInBounds /\ TailIsZero /\ PendingStored
  BY DEF Init, DeviceInBounds, TailIsZero, PendingStored
<1> QED  BY <1>2, <1>3 DEF IInv

\* With nothing pending the memory past the data is zero.
LEMMA IdleTail ==
  ASSUME IInv, Idle
  PROVE  \A i \in top_ + 1 .. Len(data_) : data_[i] = Zero
BY DEF Idle, IInv, TypeOK, DeviceInBounds, TailIsZero

\* A step that leaves the vector and the end of the data alone, and moves the
\* position within the data.
LEMMA ReadOnlyStep ==
  ASSUME IInv, Idle, UNCHANGED <<data_, top_, pending>>,
         NEW p \in 0 .. top_, pos_' = p, room' = 0,
         reply' \in [n : Int, bytes : Seq(Byte)]
  PROVE  IInv' /\ Content' = Content
<1>1. TypeOK'
  BY DEF IInv, TypeOK
<1>2. DeviceInBounds'
  BY DEF Idle, IInv, TypeOK, DeviceInBounds
<1>3. TailIsZero'
  <2>1. \A i \in top_ + 1 .. Len(data_) : data_[i] = Zero
    BY IdleTail
  <2>2. data_' = data_ /\ top_' = top_ /\ Len(pending') = 0
    BY DEF Idle
  <2>3. top_ \in Nat /\ Len(data_) \in Nat /\ p \in Nat /\ p <= top_
    BY DEF IInv, TypeOK
  <2> QED BY <2>1, <2>2, <2>3 DEF TailIsZero
<1>4. PendingStored'
  BY DEF Idle, PendingStored
<1> QED  BY <1>1, <1>2, <1>3, <1>4 DEF IInv, Content

\* Writing at the position.
LEMMA PutStep ==
  ASSUME IInv, NEW b \in Seq(Byte), put(b),
         reply' \in [n : Int, bytes : Seq(Byte)]
  PROVE  IInv' /\ Content' = File!Overwrite(Content, pos_, b)
<1> DEFINE end == pos_ + Len(b)
           s   == IF end > top_ THEN Resized(to_word_count(end)) ELSE data_
<1>1. /\ pending = <<>> /\ pending' = <<>> /\ room' = 0
      /\ data_' = CopyTo(s, pos_, b) /\ pos_' = end /\ top_' = Larger(top_, end)
  BY DEF put, Idle
<1>2. /\ data_ \in Seq(Byte) /\ Len(data_) % word_size = 0 /\ Len(b) \in Nat
      /\ pos_ \in Nat /\ top_ \in Nat /\ end \in Nat
      /\ pos_ <= top_ /\ top_ <= Len(data_)
  BY DEF IInv, TypeOK, DeviceInBounds
<1> DEFINE n == to_word_count(end)
<1>3. n \in Nat /\ end <= to_byte_count(n)
  BY <1>2, WordCount
<1>4. to_byte_count(n) \in Nat /\ to_byte_count(n) % word_size = 0
  BY <1>3, ByteCount
<1>5. /\ Resized(n) \in Seq(Byte) /\ Len(Resized(n)) = to_byte_count(n)
      /\ \A i \in 1 .. to_byte_count(n) :
           Resized(n)[i] = IF i <= Len(data_) THEN data_[i] ELSE Zero
  BY <1>2, <1>3, Resize
<1> HIDE DEF n
<1>6. /\ s \in Seq(Byte) /\ Len(s) % word_size = 0 /\ Len(s) \in Nat
      /\ Larger(top_, end) <= Len(s)
      /\ \A i \in 1 .. Len(s) : s[i] = IF i <= top_ THEN data_[i] ELSE Zero
  <2>1. \A i \in top_ + 1 .. Len(data_) : data_[i] = Zero
    BY <1>1, IdleTail DEF Idle
  <2>2. CASE end > top_
    BY <1>2, <1>3, <1>4, <1>5, <2>1, <2>2 DEF Larger, n
  <2>3. CASE ~ (end > top_)
    BY <1>2, <2>1, <2>3 DEF Larger
  <2> QED BY <2>2, <2>3
<1> HIDE DEF s
<1>7. /\ data_' \in Seq(Byte) /\ Len(data_') = Len(s)
      /\ \A i \in 1 .. Len(s) :
           data_'[i] = IF pos_ < i /\ i <= end THEN b[i - pos_] ELSE s[i]
  BY <1>1, <1>2, <1>6, CopyIn
<1>8. TypeOK'
  BY <1>1, <1>2, <1>6, <1>7 DEF TypeOK, Larger
<1>9. DeviceInBounds'
  BY <1>1, <1>2, <1>6, <1>7 DEF DeviceInBounds, Larger
<1>10. TailIsZero'
  BY <1>1, <1>2, <1>6, <1>7 DEF TailIsZero, Larger
<1>11. PendingStored'
  BY <1>1 DEF PendingStored
<1>12. Content' = File!Overwrite(Content, pos_, b)
  <2>1. Len(Content) = top_ /\ \A i \in 1 .. top_ : Content[i] = data_[i]
    BY <1>2 DEF Content
  <2>2. \A i \in 1 .. Larger(top_, end) :
          data_'[i] = IF pos_ < i /\ i <= end THEN b[i - pos_]
                      ELSE IF i <= top_ THEN Content[i] ELSE Zero
    <3> HIDE DEF end
    <3> SUFFICES ASSUME NEW i \in 1 .. Larger(top_, end)
                 PROVE  data_'[i] = IF pos_ < i /\ i <= end THEN b[i - pos_]
                                    ELSE IF i <= top_ THEN Content[i] ELSE Zero
      OBVIOUS
    <3>1. i \in 1 .. Len(s)
      BY <1>2, <1>6 DEF Larger
    <3>2. s[i] = IF i <= top_ THEN Content[i] ELSE Zero
      BY <1>2, <1>6, <2>1, <3>1
    <3> QED BY <1>7, <3>1, <3>2
  <2> QED BY <1>1, <2>1, <2>2 DEF Content, File!Overwrite, File!Larger, Larger
<1> QED  BY <1>8, <1>9, <1>10, <1>11, <1>12 DEF IInv

\* Moving the position, over what is pending if anything is.
LEMMA MoveStep ==
  ASSUME IInv, NEW target \in Nat, MoveTo(target),
         pending = <<>> \/ target = pos_ + Len(pending),
         room' = 0, pending' = <<>>
  PROVE  /\ IInv'
         /\ Content' = IF pending = <<>> THEN File!Overwrite(Content, target, <<>>)
                                         ELSE File!Overwrite(Content, pos_, pending)
<1> DEFINE t == Larger(top_, target)
           n == to_word_count(t)
<1>1. /\ pos_' = target /\ top_' = t /\ reply' = Answer(target, <<>>)
      /\ data_' = IF t > Len(data_) THEN Resized(n) ELSE data_
  BY DEF MoveTo
<1>2. /\ data_ \in Seq(Byte) /\ Len(data_) % word_size = 0 /\ pending \in Seq(Byte)
      /\ pos_ \in Nat /\ top_ \in Nat /\ t \in Nat /\ top_ <= t /\ target <= t
      /\ pos_ <= top_ /\ top_ <= Len(data_) /\ pos_ + Len(pending) <= Len(data_)
  BY DEF IInv, TypeOK, DeviceInBounds, Larger
<1>3. n \in Nat /\ t <= to_byte_count(n)
  BY <1>2, WordCount
<1>4. to_byte_count(n) \in Nat /\ to_byte_count(n) % word_size = 0
  BY <1>3, ByteCount
<1>5. /\ Resized(n) \in Seq(Byte) /\ Len(Resized(n)) = to_byte_count(n)
      /\ \A i \in 1 .. to_byte_count(n) :
           Resized(n)[i] = IF i <= Len(data_) THEN data_[i] ELSE Zero
  BY <1>2, <1>3, Resize
<1>6. /\ data_' \in Seq(Byte) /\ Len(data_') % word_size = 0 /\ t <= Len(data_')
      /\ \A i \in 1 .. Len(data_') :
           data_'[i] = IF i <= Len(data_) THEN data_[i] ELSE Zero
  <2> HIDE DEF n, t
  <2>1. CASE t > Len(data_)
    BY <1>1, <1>2, <1>3, <1>4, <1>5, <2>1
  <2>2. CASE ~ (t > Len(data_))
    BY <1>1, <1>2, <2>2
  <2> QED BY <2>1, <2>2
<1> HIDE DEF n
<1>7. /\ \A i \in 1 .. Len(pending) : data_[pos_ + i] = pending[i]
      /\ \A i \in top_ + 1 .. Len(data_) : i > pos_ + Len(pending) => data_[i] = Zero
  BY <1>2 DEF IInv, PendingStored, TailIsZero
<1>8. pos_ + Len(pending) <= t
  BY <1>2 DEF Larger
<1>9. TypeOK'
  BY <1>1, <1>2, <1>6 DEF TypeOK, Answer
<1>10. DeviceInBounds'
  BY <1>1, <1>2, <1>6 DEF DeviceInBounds
<1>11. TailIsZero'
  BY <1>1, <1>2, <1>6, <1>7, <1>8 DEF TailIsZero
<1>12. PendingStored'
  BY DEF PendingStored
<1>13. Content' = IF pending = <<>> THEN File!Overwrite(Content, target, <<>>)
                                    ELSE File!Overwrite(Content, pos_, pending)
  <2>1. Len(Content) = top_ /\ \A i \in 1 .. top_ : Content[i] = data_[i]
    BY <1>2 DEF Content
  <2>2. CASE pending = <<>>
    <3>1. \A i \in 1 .. t : data_'[i] = IF i <= top_ THEN Content[i] ELSE Zero
      BY <1>2, <1>6, <1>7, <2>1, <2>2
    <3>2. Content' = [i \in 1 .. t |-> IF i <= top_ THEN Content[i] ELSE Zero]
      BY <1>1, <3>1 DEF Content
    <3>3. File!Overwrite(Content, target, <<>>) =
            [i \in 1 .. t |-> IF i <= top_ THEN Content[i] ELSE Zero]
      BY <1>2, <2>1 DEF File!Overwrite, File!Larger, Larger
    <3> QED BY <2>2, <3>2, <3>3
  <2>3. CASE pending # <<>>
    <3>1. \A i \in 1 .. t :
            data_'[i] = IF pos_ < i /\ i <= target THEN pending[i - pos_]
                        ELSE IF i <= top_ THEN Content[i] ELSE Zero
      <4> SUFFICES ASSUME NEW i \in 1 .. t
                   PROVE  data_'[i] = IF pos_ < i /\ i <= target THEN pending[i - pos_]
                                      ELSE IF i <= top_ THEN Content[i] ELSE Zero
        OBVIOUS
      <4>1. target = pos_ + Len(pending)
        BY <2>3
      <4>2. CASE pos_ < i /\ i <= target
        <5>1. i - pos_ \in 1 .. Len(pending)
          BY <1>2, <4>1, <4>2
        <5>2. data_[pos_ + (i - pos_)] = pending[i - pos_]
          BY <1>7, <5>1
        <5>3. pos_ + (i - pos_) = i
          BY <1>2
        <5>4. data_'[i] = data_[i]
          BY <1>2, <1>6, <5>1
        <5> QED BY <4>2, <5>2, <5>3, <5>4
      <4>3. CASE ~ (pos_ < i /\ i <= target)
        BY <1>2, <1>6, <1>7, <2>1, <4>1, <4>3
      <4> QED BY <4>2, <4>3
    <3>2. File!Overwrite(Content, pos_, pending) =
            [i \in 1 .. t |-> IF pos_ < i /\ i <= target THEN pending[i - pos_]
                              ELSE IF i <= top_ THEN Content[i] ELSE Zero]
      BY <1>2, <2>1, <2>3 DEF File!Overwrite, File!Larger, Larger
    <3>3. Content' =
            [i \in 1 .. t |-> IF pos_ < i /\ i <= target THEN pending[i - pos_]
                              ELSE IF i <= top_ THEN Content[i] ELSE Zero]
      BY <1>1, <3>1 DEF Content
    <3> QED BY <2>3, <3>2, <3>3
  <2> QED BY <2>2, <2>3
<1> QED  BY <1>9, <1>10, <1>11, <1>12, <1>13 DEF IInv

-----------------------------------------------------------------------------
(* One lemma per call: it keeps the invariant and does to the file what the *)
(* call of the file does.                                                  *)

\* The file's view of what lies between the position and the end of the data.
LEMMA FromPosIsContent ==
  ASSUME IInv, NEW n \in Nat, pos_ + n <= top_
  PROVE  /\ FromPos(n) \in Seq(Byte)
         /\ FromPos(n) = [i \in 1 .. n |-> Content[pos_ + i]]
<1>1. /\ data_ \in Seq(Byte) /\ pos_ \in Nat /\ top_ \in Nat /\ top_ <= Len(data_)
  BY DEF IInv, TypeOK, DeviceInBounds
<1>2. FromPos(n) \in Seq(Byte)
  BY <1>1, FromPosIsString
<1>3. \A i \in 1 .. n : Content[pos_ + i] = data_[pos_ + i]
  BY <1>1 DEF Content
<1> QED  BY <1>2, <1>3 DEF FromPos

LEMMA StepRead ==
  ASSUME IInv, NEW sz \in ReadSizes, read(sz)
  PROVE  IInv' /\ File!Read(sz)
<1> DEFINE n == Smaller(sz, top_ - pos_)
<1>1. pos_ \in Nat /\ top_ \in Nat /\ sz \in Nat /\ pos_ <= top_
  BY DeviceAssumption DEF IInv, TypeOK, DeviceInBounds
<1>2. n \in Nat /\ pos_ + n <= top_ /\ pos_ + n \in 0 .. top_
  BY <1>1 DEF Smaller
<1>3. /\ Idle /\ reply' = Answer(n, FromPos(n)) /\ pos_' = pos_ + n
      /\ room' = 0 /\ UNCHANGED <<data_, top_, pending>>
  BY DEF read
<1>4. /\ FromPos(n) \in Seq(Byte)
      /\ FromPos(n) = [i \in 1 .. n |-> Content[pos_ + i]]
  BY <1>2, FromPosIsContent
<1>5. reply' \in [n : Int, bytes : Seq(Byte)]
  BY <1>2, <1>3, <1>4 DEF Answer
<1>6. IInv' /\ Content' = Content
  BY <1>2, <1>3, <1>5, ReadOnlyStep
<1>7. Len(Content) = top_
  BY <1>1 DEF Content
<1> QED
  BY <1>3, <1>4, <1>6, <1>7
     DEF File!Read, File!Idle, File!Smaller, File!Answer, Content, Idle, Smaller, Answer

LEMMA StepMapForReading ==
  ASSUME IInv, map_for_reading
  PROVE  IInv' /\ File!MapForReading
<1> DEFINE n == top_ - pos_
<1>1. pos_ \in Nat /\ top_ \in Nat /\ pos_ <= top_
  BY DEF IInv, TypeOK, DeviceInBounds
<1>2. n \in Nat /\ pos_ + n <= top_ /\ pos_ \in 0 .. top_
  BY <1>1
<1>3. /\ Idle /\ reply' = Answer(n, FromPos(n)) /\ pos_' = pos_
      /\ room' = 0 /\ UNCHANGED <<data_, top_, pending>>
  BY DEF map_for_reading
<1>4. /\ FromPos(n) \in Seq(Byte)
      /\ FromPos(n) = [i \in 1 .. n |-> Content[pos_ + i]]
  BY <1>2, FromPosIsContent
<1>5. reply' \in [n : Int, bytes : Seq(Byte)]
  BY <1>2, <1>3, <1>4 DEF Answer
<1>6. IInv' /\ Content' = Content
  BY <1>2, <1>3, <1>5, ReadOnlyStep
<1>7. Len(Content) = top_
  BY <1>1 DEF Content
<1> QED
  BY <1>3, <1>4, <1>6, <1>7
     DEF File!MapForReading, File!Idle, File!Answer, Content, Idle, Answer

LEMMA StepWrite ==
  ASSUME IInv, NEW b \in Chunks, write(b)
  PROVE  IInv' /\ File!Write(b)
<1>1. b \in Seq(Byte)
  BY DeviceAssumption
<1>2. put(b) /\ reply' = Answer(Len(b), <<>>)
  BY DEF write
<1>3. reply' \in [n : Int, bytes : Seq(Byte)]
  BY <1>1, <1>2 DEF Answer
<1>4. IInv' /\ Content' = File!Overwrite(Content, pos_, b)
  BY <1>1, <1>2, <1>3, PutStep
<1> QED
  BY <1>2, <1>4
     DEF File!Write, File!Put, File!Idle, File!Answer, Content, put, Idle, Answer

LEMMA StepCtrlEscColor ==
  ASSUME IInv, NEW e \in Escapes, ctrlesc_color(e)
  PROVE  IInv' /\ File!CtrlEscColor(e)
<1>1. e \in Seq(Byte)
  BY DeviceAssumption
<1>2. put(e) /\ reply' = Answer(0, <<>>)
  BY DEF ctrlesc_color
<1>3. reply' \in [n : Int, bytes : Seq(Byte)]
  BY <1>2 DEF Answer
<1>4. IInv' /\ Content' = File!Overwrite(Content, pos_, e)
  BY <1>1, <1>2, <1>3, PutStep
<1> QED
  BY <1>2, <1>4
     DEF File!CtrlEscColor, File!Put, File!Idle, File!Answer, Content, put, Idle, Answer

LEMMA StepMapForWriting ==
  ASSUME IInv, map_for_writing
  PROVE  IInv' /\ File!MapForWriting
<1> DEFINE g == Larger(min_words, (3 * words) \div 2)
<1>1. /\ Idle /\ pending' = pending /\ pos_' = pos_ /\ top_' = top_
      /\ data_' = IF Len(data_) = pos_ THEN Resized(g) ELSE data_
      /\ room' = Len(data_') - pos_ /\ reply' = Answer(room', <<>>)
  BY DEF map_for_writing
<1>2. /\ data_ \in Seq(Byte) /\ Len(data_) \in Nat /\ Len(data_) % word_size = 0
      /\ pos_ \in Nat /\ top_ \in Nat /\ pos_ <= top_ /\ top_ <= Len(data_)
  BY DEF IInv, TypeOK, DeviceInBounds
<1>3. g \in Nat /\ Len(data_) < to_byte_count(g)
  BY <1>2, Growth DEF words
<1>4. to_byte_count(g) \in Nat /\ to_byte_count(g) % word_size = 0
  BY <1>3, ByteCount
<1>5. /\ Resized(g) \in Seq(Byte) /\ Len(Resized(g)) = to_byte_count(g)
      /\ \A i \in 1 .. to_byte_count(g) :
           Resized(g)[i] = IF i <= Len(data_) THEN data_[i] ELSE Zero
  BY <1>2, <1>3, Resize
<1> HIDE DEF g
<1>6. /\ data_' \in Seq(Byte) /\ Len(data_') % word_size = 0
      /\ Len(data_) <= Len(data_') /\ pos_ < Len(data_')
      /\ \A i \in 1 .. Len(data_') :
           data_'[i] = IF i <= Len(data_) THEN data_[i] ELSE Zero
  <2>1. CASE Len(data_) = pos_
    BY <1>1, <1>2, <1>3, <1>4, <1>5, <2>1
  <2>2. CASE Len(data_) # pos_
    BY <1>1, <1>2, <2>2
  <2> QED BY <2>1, <2>2
<1>7. room' \in Nat \ {0} /\ pos_ + room' = Len(data_')
  BY <1>1, <1>2, <1>6
<1>8. \A i \in top_ + 1 .. Len(data_) : data_[i] = Zero
  BY <1>1, IdleTail
<1>9. pending' = <<>>
  BY <1>1 DEF Idle
<1>10. TypeOK'
  BY <1>1, <1>2, <1>6, <1>7, <1>9 DEF TypeOK, Answer
<1>11. DeviceInBounds'
  BY <1>1, <1>2, <1>6, <1>7, <1>9 DEF DeviceInBounds
<1>12. TailIsZero'
  BY <1>1, <1>2, <1>6, <1>8, <1>9 DEF TailIsZero
<1>13. PendingStored'
  BY <1>9 DEF PendingStored
<1>14. Content' = Content
  BY <1>1, <1>2, <1>6 DEF Content
<1> QED
  BY <1>1, <1>7, <1>10, <1>11, <1>12, <1>13, <1>14
     DEF IInv, File!MapForWriting, File!Idle, File!Answer, Content, Idle, Answer

LEMMA StepStore ==
  ASSUME IInv, NEW x \in Byte, Store(x)
  PROVE  IInv' /\ File!Store(x)
<1> DEFINE at == pos_ + Len(pending)
<1>1. /\ Len(pending) < room
      /\ data_' = CopyTo(data_, at, <<x>>)
      /\ pending' = Append(pending, x)
      /\ pos_' = pos_ /\ top_' = top_ /\ room' = room /\ reply' = reply
  BY DEF Store
<1>2. /\ data_ \in Seq(Byte) /\ Len(data_) \in Nat /\ Len(data_) % word_size = 0
      /\ pos_ \in Nat /\ top_ \in Nat /\ pos_ <= top_ /\ top_ <= Len(data_)
      /\ room \in Nat /\ pos_ + room <= Len(data_)
      /\ pending \in Seq(Byte) /\ Len(pending) \in Nat
      /\ reply \in [n : Int, bytes : Seq(Byte)]
  BY DEF IInv, TypeOK, DeviceInBounds
<1>3. at \in Nat /\ at < Len(data_)
  BY <1>1, <1>2
<1>4. /\ data_' \in Seq(Byte) /\ Len(data_') = Len(data_)
      /\ \A i \in 1 .. Len(data_) : data_'[i] = IF i = at + 1 THEN x ELSE data_[i]
  <2> DEFINE one == <<x>>
  <2>1. one \in Seq(Byte) /\ Len(one) = 1 /\ one[1] = x
    OBVIOUS
  <2>2. data_' = CopyTo(data_, at, one)
    BY <1>1
  <2> HIDE DEF at, one
  <2>3. /\ data_' \in Seq(Byte) /\ Len(data_') = Len(data_)
        /\ \A i \in 1 .. Len(data_) :
             data_'[i] = IF at < i /\ i <= at + Len(one) THEN one[i - at] ELSE data_[i]
    <3>1. data_ \in Seq(Byte) /\ at \in Nat /\ one \in Seq(Byte)
      BY <1>2, <1>3, <2>1
    <3> QED BY <2>2, <3>1, CopyIn
  <2>4. ASSUME NEW i \in 1 .. Len(data_)
        PROVE  data_'[i] = IF i = at + 1 THEN x ELSE data_[i]
    <3>1. CASE i = at + 1
      <4>1. i - at = 1 /\ at < i /\ i <= at + Len(one)
        BY <1>3, <2>1, <3>1
      <4> QED BY <2>1, <2>3, <3>1, <4>1
    <3>2. CASE i # at + 1
      <4>1. ~ (at < i /\ i <= at + Len(one))
        BY <1>2, <1>3, <2>1, <3>2
      <4> QED BY <2>3, <3>2, <4>1
    <3> QED BY <3>1, <3>2
  <2> QED BY <2>3, <2>4
<1>5. /\ pending' \in Seq(Byte) /\ Len(pending') = Len(pending) + 1
      /\ \A i \in 1 .. Len(pending) : pending'[i] = pending[i]
      /\ pending'[Len(pending) + 1] = x
  BY <1>1, <1>2
<1>6. TypeOK'
  BY <1>1, <1>2, <1>4, <1>5 DEF TypeOK
<1>7. DeviceInBounds'
  BY <1>1, <1>2, <1>4, <1>5 DEF DeviceInBounds
<1>8. TailIsZero'
  <2> SUFFICES ASSUME NEW i \in top_ + 1 .. Len(data_)
               PROVE  data_'[i] = IF pos_ < i /\ i <= at + 1 THEN pending'[i - pos_]
                                  ELSE Zero
    <3>1. pos_' + Len(pending') = at + 1
      BY <1>1, <1>2, <1>5
    <3>2. pos_' = pos_ /\ top_' = top_ /\ Len(data_') = Len(data_)
      BY <1>1, <1>4
    <3> HIDE DEF at
    <3> QED BY <3>1, <3>2 DEF TailIsZero
  <2>1. i \in 1 .. Len(data_) /\ i - pos_ \in Nat \ {0} /\ pos_ < i
    BY <1>2
  <2>2. data_[i] = IF pos_ < i /\ i <= at THEN pending[i - pos_] ELSE Zero
    BY DEF IInv, TailIsZero
  <2>3. CASE i = at + 1
    <3>1. i - pos_ = Len(pending) + 1
      BY <1>2, <2>3
    <3> QED BY <1>3, <1>4, <1>5, <2>1, <2>3, <3>1
  <2>4. CASE i <= at
    <3>1. i - pos_ \in 1 .. Len(pending)
      BY <1>2, <2>1, <2>4
    <3> QED BY <1>3, <1>4, <1>5, <2>1, <2>2, <2>4, <3>1
  <2>5. CASE i > at + 1
    BY <1>3, <1>4, <2>1, <2>2, <2>5
  <2> QED BY <1>3, <2>1, <2>3, <2>4, <2>5
<1>9. PendingStored'
  <2> SUFFICES ASSUME NEW i \in 1 .. Len(pending) + 1
               PROVE  data_'[pos_ + i] = pending'[i]
    BY <1>1, <1>5 DEF PendingStored
  <2>1. pos_ + i \in 1 .. Len(data_)
    BY <1>2, <1>3
  <2>2. CASE i = Len(pending) + 1
    BY <1>2, <1>4, <1>5, <2>1, <2>2
  <2>3. CASE i \in 1 .. Len(pending)
    <3>1. data_[pos_ + i] = pending[i]
      BY <2>3 DEF IInv, PendingStored
    <3> QED BY <1>2, <1>4, <1>5, <2>1, <2>3, <3>1
  <2> QED BY <1>2, <2>2, <2>3
<1>10. Content' = [i \in 1 .. Len(Content) |-> IF i = at + 1 THEN x ELSE Content[i]]
  <2>1. Len(Content) = top_ /\ \A i \in 1 .. top_ : Content[i] = data_[i]
    BY <1>2 DEF Content
  <2>2. \A i \in 1 .. top_ : data_'[i] = IF i = at + 1 THEN x ELSE Content[i]
    BY <1>2, <1>4, <2>1
  <2> QED BY <1>1, <2>1, <2>2 DEF Content
<1> QED
  BY <1>1, <1>6, <1>7, <1>8, <1>9, <1>10 DEF IInv, File!Store, Content

LEMMA StepCommit ==
  ASSUME IInv, Commit
  PROVE  IInv' /\ File!Commit
<1>1. /\ pending # <<>> /\ pending' = <<>> /\ room' = 0
      /\ MoveTo(pos_ + Len(pending))
  BY DEF Commit, Idle
<1>2. pos_ + Len(pending) \in Nat
  BY DEF IInv, TypeOK
<1>3. IInv' /\ Content' = File!Overwrite(Content, pos_, pending)
  BY <1>1, <1>2, MoveStep
<1>4. pos_' = pos_ + Len(pending) /\ reply' = Answer(pos_', <<>>)
  BY <1>1 DEF MoveTo
<1> QED
  BY <1>1, <1>3, <1>4
     DEF File!Commit, File!Idle, File!Answer, Content, Answer

LEMMA StepSeek ==
  ASSUME IInv, NEW off \in Offsets, NEW dir \in {"beg", "curr", "end"}, seek(off, dir)
  PROVE  IInv' /\ File!Seek(off, dir)
<1>1. off \in Int /\ pos_ \in Nat /\ top_ \in Nat /\ pos_ <= top_
  BY DeviceAssumption DEF IInv, TypeOK, DeviceInBounds
<1>2. Base(dir) \in Nat
  BY <1>1 DEF Base
<1>3. Len(Content) = top_
  BY <1>1 DEF Content
<1>4. File!Target(off, dir) = off + Base(dir)
  BY <1>1, <1>3 DEF File!Target, Base, Content
<1>5. Idle /\ room' = 0 /\ pending' = pending /\ pending = <<>>
  BY DEF seek, Idle
<1>6. CASE off + Base(dir) >= 0
  <2> DEFINE target == Base(dir) + off
  <2>1. target \in Nat /\ target = off + Base(dir) /\ MoveTo(target)
    BY <1>1, <1>2, <1>6 DEF seek
  <2>2. IInv' /\ Content' = File!Overwrite(Content, target, <<>>)
    BY <1>5, <2>1, MoveStep
  <2>3. pos_' = target /\ reply' = Answer(target, <<>>)
    BY <2>1 DEF MoveTo
  <2> QED
    BY <1>4, <1>5, <1>6, <2>1, <2>2, <2>3
       DEF File!Seek, File!Idle, File!Answer, Content, Answer
<1>7. CASE ~ (off + Base(dir) >= 0)
  <2>1. reply' = Answer(-1, <<>>) /\ UNCHANGED <<data_, pos_, top_>>
    BY <1>1, <1>2, <1>7 DEF seek
  <2>2. reply' \in [n : Int, bytes : Seq(Byte)]
    BY <2>1 DEF Answer
  <2>3. IInv' /\ Content' = Content
    BY <1>1, <1>5, <2>1, <2>2, ReadOnlyStep
  <2> QED
    BY <1>4, <1>5, <1>7, <2>1, <2>3
       DEF File!Seek, File!Idle, File!Refused, File!Answer, Content, Answer
<1> QED  BY <1>6, <1>7

LEMMA StepCopy ==
  ASSUME IInv, copy
  PROVE  IInv' /\ File!Copy
<1> DEFINE n == to_byte_count(to_word_count(top_))
<1>1. /\ Idle /\ pending = <<>> /\ pending' = pending /\ room' = 0 /\ pos_' = 0
      /\ top_' = top_ /\ reply' = Answer(0, <<>>)
      /\ data_' = [i \in 1 .. n |-> data_[i]]
  BY DEF copy, Idle
<1>2. /\ data_ \in Seq(Byte) /\ Len(data_) \in Nat /\ Len(data_) % word_size = 0
      /\ top_ \in Nat /\ top_ <= Len(data_)
  BY DEF IInv, TypeOK, DeviceInBounds
<1>3. to_word_count(top_) \in Nat /\ top_ <= n
  BY <1>2, WordCount
<1>4. n \in Nat /\ n % word_size = 0
  BY <1>3, ByteCount
<1>5. n <= Len(data_)
  BY <1>2, LeastWords
<1> HIDE DEF n
<1>6. /\ data_' \in Seq(Byte) /\ Len(data_') = n
      /\ \A i \in 1 .. n : data_'[i] = data_[i]
  BY <1>1, <1>2, <1>4, <1>5
<1>7. \A i \in top_ + 1 .. Len(data_) : data_[i] = Zero
  BY <1>1, IdleTail
<1>8. TypeOK'
  BY <1>1, <1>2, <1>4, <1>6 DEF TypeOK, Answer
<1>9. DeviceInBounds'
  BY <1>1, <1>2, <1>3, <1>4, <1>6 DEF DeviceInBounds
<1>10. TailIsZero'
  BY <1>1, <1>2, <1>3, <1>4, <1>5, <1>6, <1>7 DEF TailIsZero
<1>11. PendingStored'
  BY <1>1 DEF PendingStored
<1>12. Content' = Content
  BY <1>1, <1>2, <1>3, <1>4, <1>6 DEF Content
<1> QED
  BY <1>1, <1>8, <1>9, <1>10, <1>11, <1>12
     DEF IInv, File!Copy, File!Idle, File!Answer, Content, Answer

-----------------------------------------------------------------------------
(* The theorems.                                                           *)

LEMMA EveryStep == IInv /\ [Next]_vars => IInv' /\ [File!Next]_File!vars
<1> SUFFICES ASSUME IInv, [Next]_vars
             PROVE  IInv' /\ [File!Next]_File!vars
  OBVIOUS
<1>1. ASSUME NEW sz \in ReadSizes, read(sz) PROVE IInv' /\ File!Next
  BY <1>1, StepRead DEF File!Next
<1>2. ASSUME NEW b \in Chunks, write(b) PROVE IInv' /\ File!Next
  BY <1>2, StepWrite DEF File!Next
<1>3. ASSUME NEW e \in Escapes, ctrlesc_color(e) PROVE IInv' /\ File!Next
  BY <1>3, StepCtrlEscColor DEF File!Next
<1>4. CASE map_for_reading
  BY <1>4, StepMapForReading DEF File!Next
<1>5. CASE map_for_writing
  BY <1>5, StepMapForWriting DEF File!Next
<1>6. ASSUME NEW x \in Byte, Store(x) PROVE IInv' /\ File!Next
  BY <1>6, StepStore DEF File!Next
<1>7. CASE Commit
  BY <1>7, StepCommit DEF File!Next
<1>8. ASSUME NEW off \in Offsets, NEW dir \in {"beg", "curr", "end"}, seek(off, dir)
      PROVE  IInv' /\ File!Next
  BY <1>8, StepSeek DEF File!Next
<1>9. CASE copy
  BY <1>9, StepCopy DEF File!Next
<1>10. CASE UNCHANGED vars
  BY <1>10 DEF vars, File!vars, IInv, TypeOK, DeviceInBounds, TailIsZero, PendingStored
<1> QED
  BY <1>1, <1>2, <1>3, <1>4, <1>5, <1>6, <1>7, <1>8, <1>9, <1>10 DEF Next

\* The invariant holds in every state of the device.
THEOREM Invariance == Spec => []IInv
<1>1. Init => IInv
  BY InitInv
<1>2. IInv /\ [Next]_vars => IInv'
  BY EveryStep
<1> QED  BY <1>1, <1>2, PTL DEF Spec

\* Every variable of the device keeps its type.
THEOREM TypeCorrect == Spec => []TypeOK
<1>1. IInv => TypeOK
  BY DEF IInv
<1> QED  BY <1>1, Invariance, PTL

\* The assertions at the head of the device's calls hold at every call.
THEOREM AssertsHold == Spec => []DeviceInBounds
<1>1. IInv => DeviceInBounds
  BY DEF IInv
<1> QED  BY <1>1, Invariance, PTL

\* The memory past the data never shows through a gap.
THEOREM GapsAreZero == Spec => []TailIsZero
<1>1. IInv => TailIsZero
  BY DEF IInv
<1> QED  BY <1>1, Invariance, PTL

\* The device implements the file of bytes.
THEOREM Refinement == Spec => ImplementsByteFile
<1>1. Init => File!Init
  BY DEF Init, File!Init, File!Answer, Answer
<1>2. IInv /\ [Next]_vars => [File!Next]_File!vars
  BY EveryStep
<1> QED
  BY <1>1, <1>2, Invariance, PTL DEF Spec, ImplementsByteFile, File!Spec

=============================================================================
