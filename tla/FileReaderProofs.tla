-------------------------- MODULE FileReaderProofs --------------------------
(***************************************************************************)
(* TLAPS proofs about FileReader, for any files, any size of the buffer    *)
(* and any lengths of reads: its buffer is a window of the file, and it    *)
(* implements ByteReader.                                                  *)
(***************************************************************************)
EXTENDS FileReader, SequenceTheorems, TLAPS

\* s is what the file f has from position at on.
Piece(f, s, at) ==
    /\ s \in Seq(Byte)
    /\ Len(s) > 0 => at + Len(s) <= Len(f)
    /\ \A i \in 1..Len(s) : s[i] = f[at + i]

\* What a Read has copied so far lies just before the position.
CopiedInOrder ==
    /\ GetPos - Len(dst) \in Nat
    /\ Piece(file, dst, GetPos - Len(dst))
    /\ Len(dst) + need <= MaxLen

IdleIsDone == pc = "idle" => dst = << >> /\ need = 0

\* A mapped reader has all of the file and reads in one step.
WindowOfKind ==
    IF mapped THEN pc = "idle" /\ filePos = 0 /\ buf = file ELSE used <= BufSize

\* After the last refill the rest is in the window, unless the file ends there or
\* the system disturbed the call.
RestIsThere ==
    pc = "last" =>
        /\ need <= BufSize
        /\ disturbed \/ filePos + used >= Len(file) \/ (used = BufSize /\ ptr = 0)

IInv ==
    /\ TypeOK
    /\ Piece(file, buf, filePos) /\ ptr <= used
    /\ CopiedInOrder
    /\ IdleIsDone
    /\ WindowOfKind
    /\ RestIsThere

-----------------------------------------------------------------------------
(* Pieces of a file. *)

\* Min of two numbers, as the code's std::min.
LEMMA MinOfTwo ==
    ASSUME NEW a \in Int, NEW b \in Int
    PROVE  Min({a, b}) = IF a <= b THEN a ELSE b
<1>1. \E x \in {a, b} : \A y \in {a, b} : x <= y
  OBVIOUS
<1> QED
  BY <1>1 DEF Min

\* A part of a piece is a piece further on.
LEMMA PieceOfPiece ==
    ASSUME NEW f \in Seq(Byte), NEW s, NEW at \in Nat, Piece(f, s, at),
           NEW m \in Nat \ {0}, NEW n \in Nat, n <= Len(s)
    PROVE  /\ Piece(f, SubSeq(s, m, n), at + m - 1)
           /\ Len(SubSeq(s, m, n)) = IF m <= n THEN n - m + 1 ELSE 0
<1>1. s \in Seq(Byte) /\ Len(s) \in Nat /\ \A i \in 1..Len(s) : s[i] \in Byte
  BY LenProperties DEF Piece
<1>2. \A i \in m..n : s[i] \in Byte
  BY <1>1
<1>3. /\ SubSeq(s, m, n) \in Seq(Byte)
      /\ Len(SubSeq(s, m, n)) = IF m <= n THEN n - m + 1 ELSE 0
      /\ \A i \in 1..(n - m + 1) : SubSeq(s, m, n)[i] = s[m + i - 1]
  BY <1>2, SubSeqProperties
<1>4. ASSUME NEW i \in 1..Len(SubSeq(s, m, n))
      PROVE  SubSeq(s, m, n)[i] = f[at + m - 1 + i]
  <2>1. i \in 1..(n - m + 1) /\ m + i - 1 \in 1..Len(s)
    BY <1>1, <1>3
  <2>2. s[m + i - 1] = f[at + (m + i - 1)]
    BY <2>1 DEF Piece
  <2>3. at + (m + i - 1) = at + m - 1 + i
    BY <2>1
  <2> QED
    BY <1>3, <2>1, <2>2, <2>3
<1>5. Len(SubSeq(s, m, n)) > 0 => at + m - 1 + Len(SubSeq(s, m, n)) <= Len(f)
  BY <1>1, <1>3, LenProperties DEF Piece
<1> QED
  BY <1>3, <1>4, <1>5 DEF Piece

\* A piece and the piece that follows it are one.
LEMMA PiecesJoin ==
    ASSUME NEW f \in Seq(Byte), NEW s, NEW t, NEW at \in Nat,
           Piece(f, s, at), Piece(f, t, at + Len(s))
    PROVE  Piece(f, s \o t, at) /\ Len(s \o t) = Len(s) + Len(t)
<1>1. /\ s \in Seq(Byte) /\ t \in Seq(Byte)
      /\ Len(s) \in Nat /\ Len(t) \in Nat /\ Len(f) \in Nat
  BY LenProperties DEF Piece
<1>2. /\ s \o t \in Seq(Byte)
      /\ Len(s \o t) = Len(s) + Len(t)
      /\ \A i \in 1..(Len(s) + Len(t)) :
            (s \o t)[i] = IF i <= Len(s) THEN s[i] ELSE t[i - Len(s)]
  BY <1>1, ConcatProperties
<1>3. ASSUME NEW i \in 1..Len(s \o t)
      PROVE  (s \o t)[i] = f[at + i]
  <2>1. CASE i <= Len(s)
    BY <1>1, <1>2, <2>1 DEF Piece
  <2>2. CASE ~ (i <= Len(s))
    <3>1. i - Len(s) \in 1..Len(t) /\ at + Len(s) + (i - Len(s)) = at + i
      BY <1>1, <1>2, <2>2
    <3>2. t[i - Len(s)] = f[at + Len(s) + (i - Len(s))]
      BY <3>1 DEF Piece
    <3> QED
      BY <1>2, <2>2, <3>1, <3>2
  <2> QED
    BY <2>1, <2>2
<1>4. Len(s \o t) > 0 => at + Len(s \o t) <= Len(f)
  BY <1>1, <1>2 DEF Piece
<1> QED
  BY <1>2, <1>3, <1>4 DEF Piece

\* A piece is the subsequence at its place.
LEMMA PieceIsSubSeq ==
    ASSUME NEW f \in Seq(Byte), NEW s, NEW at \in Nat, Piece(f, s, at)
    PROVE  s = SubSeq(f, at + 1, at + Len(s))
<1>1. s \in Seq(Byte) /\ Len(s) \in Nat /\ Len(f) \in Nat /\ \A i \in 1..Len(f) : f[i] \in Byte
  BY LenProperties DEF Piece
<1>2. \A i \in (at + 1)..(at + Len(s)) : f[i] \in Byte
  BY <1>1 DEF Piece
<1>3. /\ SubSeq(f, at + 1, at + Len(s)) \in Seq(Byte)
      /\ Len(SubSeq(f, at + 1, at + Len(s))) = Len(s)
      /\ \A i \in 1..Len(s) : SubSeq(f, at + 1, at + Len(s))[i] = f[at + 1 + i - 1]
  <2>1. at + Len(s) - (at + 1) + 1 = Len(s) /\ at + 1 \in Int /\ at + Len(s) \in Int
    BY <1>1
  <2>2. /\ SubSeq(f, at + 1, at + Len(s)) \in Seq(Byte)
        /\ Len(SubSeq(f, at + 1, at + Len(s))) =
              IF at + 1 <= at + Len(s) THEN at + Len(s) - (at + 1) + 1 ELSE 0
        /\ \A i \in 1..(at + Len(s) - (at + 1) + 1) :
              SubSeq(f, at + 1, at + Len(s))[i] = f[at + 1 + i - 1]
    BY <1>2, <2>1, SubSeqProperties
  <2> QED
    BY <1>1, <2>1, <2>2
<1>4. \A i \in 1..Len(s) : s[i] = SubSeq(f, at + 1, at + Len(s))[i]
  <2>1. \A i \in 1..Len(s) : at + 1 + i - 1 = at + i
    OBVIOUS
  <2> QED
    BY <1>3, <2>1 DEF Piece
<1> QED
  BY <1>1, <1>3, <1>4, SeqEqual

\* Nothing is a piece anywhere.
LEMMA EmptyPiece ==
    ASSUME NEW f, NEW at
    PROVE  Piece(f, << >>, at) /\ Len(<< >>) = 0
BY EmptySeq DEF Piece

\* What the system gives for a place is a piece that fits the buffer; without a
\* fault it fills the buffer or reaches the end of the file.
LEMMA PreadGives ==
    ASSUME file \in Seq(Byte), NEW at \in Nat, NEW read \in Pread(at)
    PROVE  /\ Piece(file, read.bytes, at)
           /\ Len(read.bytes) <= BufSize
           /\ read.fault \in BOOLEAN
           /\ ~ read.fault => Len(read.bytes) = BufSize \/ at + Len(read.bytes) >= Len(file)
<1> DEFINE end == Min({Len(file), at + BufSize})
           there == SubSeq(file, at + 1, end)
<1>1. Len(file) \in Nat /\ BufSize \in Nat \ {0}
  BY LenProperties, ReaderAssumption
<1>2. end = (IF Len(file) <= at + BufSize THEN Len(file) ELSE at + BufSize) /\ end \in Nat
  BY <1>1, MinOfTwo
<1>3. Piece(file, file, 0)
  BY LenProperties DEF Piece
<1>4. end <= Len(file)
  BY <1>1, <1>2
<1>5. /\ Piece(file, there, at)
      /\ Len(there) = IF at + 1 <= end THEN end - at ELSE 0
  <2>1. at + 1 \in Nat \ {0} /\ 0 + (at + 1) - 1 = at
    OBVIOUS
  <2>2. /\ Piece(file, there, 0 + (at + 1) - 1)
        /\ Len(there) = IF at + 1 <= end THEN end - (at + 1) + 1 ELSE 0
    BY <1>2, <1>3, <1>4, <2>1, PieceOfPiece
  <2> QED
    BY <1>2, <2>1, <2>2
<1> HIDE DEF there, end
<1>6. \/ \E n \in 0..Len(there) : read = [bytes |-> SubSeq(there, 1, n), fault |-> n < Len(there)]
      \/ read = [bytes |-> << >>, fault |-> TRUE]
  BY DEF Pread, there, end
<1>7. CASE read = [bytes |-> << >>, fault |-> TRUE]
  BY <1>1, <1>7, EmptyPiece
<1>8. ASSUME NEW n \in 0..Len(there), read = [bytes |-> SubSeq(there, 1, n), fault |-> n < Len(there)]
      PROVE  /\ Piece(file, read.bytes, at)
             /\ Len(read.bytes) <= BufSize
             /\ read.fault \in BOOLEAN
             /\ ~ read.fault => Len(read.bytes) = BufSize \/ at + Len(read.bytes) >= Len(file)
  <2>1. read.bytes = SubSeq(there, 1, n) /\ read.fault = (n < Len(there))
    BY <1>8
  <2>2. Len(there) \in Nat /\ n \in Nat
    BY <1>2, <1>5
  <2>3. at + 1 - 1 = at /\ Piece(file, SubSeq(there, 1, n), at + 1 - 1)
        /\ Len(SubSeq(there, 1, n)) = IF 1 <= n THEN n - 1 + 1 ELSE 0
    BY <1>5, <2>2, PieceOfPiece
  <2>4. Len(read.bytes) = n
    BY <2>1, <2>2, <2>3
  <2>5. Len(there) <= BufSize
    BY <1>1, <1>2, <1>5
  <2>6. n = Len(there) => n = BufSize \/ at + n >= Len(file)
    BY <1>1, <1>2, <1>5
  <2>7. Len(read.bytes) <= BufSize
    BY <1>1, <2>2, <2>4, <2>5
  <2>8. ~ read.fault => n = Len(there)
    <3>1. ~ read.fault => ~ (n < Len(there))
      BY <2>1, Zenon
    <3> QED
      BY <2>2, <3>1
  <2>9. Piece(file, read.bytes, at) /\ read.fault \in BOOLEAN
    BY <2>1, <2>3
  <2> QED
    BY <2>4, <2>6, <2>7, <2>8, <2>9
<1> QED
  BY <1>6, <1>7, <1>8

-----------------------------------------------------------------------------
(* What the actions have in common. *)

\* The types that the steps need, and where the reader is.
LEMMA Facts ==
    ASSUME IInv
    PROVE  /\ file \in Seq(Byte) /\ Len(file) \in Nat
           /\ BufSize \in Nat \ {0} /\ MaxLen \in Nat \ {0}
           /\ filePos \in Nat /\ ptr \in Nat /\ used \in Nat /\ need \in Nat
           /\ ptr <= used
           /\ dst \in Seq(Byte) /\ Len(dst) \in Nat
           /\ GetPos = filePos + ptr
           /\ GetPos - Len(dst) \in Nat
<1>1. file \in Seq(Byte)
  BY ReaderAssumption DEF IInv, TypeOK
<1>2. buf \in Seq(Byte) /\ dst \in Seq(Byte) /\ filePos \in Nat /\ ptr \in Nat /\ ptr <= used
  BY DEF IInv, TypeOK
<1>3. need \in Nat
  BY ReaderAssumption DEF IInv, TypeOK
<1>4. GetPos - Len(dst) \in Nat
  BY DEF IInv, CopiedInOrder
<1> QED
  BY <1>1, <1>2, <1>3, <1>4, LenProperties, ReaderAssumption DEF used, GetPos

\* The bytes ahead of the position.
LEMMA AheadIsThere ==
    ASSUME IInv, NEW n \in Nat, ptr + n <= used
    PROVE  Piece(file, Ahead(n), GetPos) /\ Len(Ahead(n)) = n
<1>1. Min({used, ptr + n}) = ptr + n
  BY Facts, MinOfTwo
<1>2. /\ Piece(file, SubSeq(buf, ptr + 1, ptr + n), filePos + (ptr + 1) - 1)
      /\ Len(SubSeq(buf, ptr + 1, ptr + n)) =
            IF ptr + 1 <= ptr + n THEN ptr + n - (ptr + 1) + 1 ELSE 0
  <2>1. Piece(file, buf, filePos)
    BY DEF IInv
  <2>2. ptr + 1 \in Nat \ {0} /\ ptr + n \in Nat /\ ptr + n <= Len(buf)
    BY Facts DEF used
  <2> QED
    BY SMTT(30), Facts, <2>1, <2>2, PieceOfPiece
<1>3. filePos + (ptr + 1) - 1 = GetPos
  BY Facts
<1>4. Len(SubSeq(buf, ptr + 1, ptr + n)) = n
  <2>1. CASE n = 0
    <3>1. ~ (ptr + 1 <= ptr + n)
      BY Facts, <2>1
    <3> QED
      BY <1>2, <2>1, <3>1
  <2>2. CASE n # 0
    <3>1. ptr + 1 <= ptr + n /\ ptr + n - (ptr + 1) + 1 = n
      BY Facts, <2>2
    <3> QED
      BY <1>2, <3>1
  <2> QED
    BY <2>1, <2>2
<1> QED
  BY <1>1, <1>2, <1>3, <1>4 DEF Ahead

\* The rest of the window, which CopyTail copies.
LEMMA TailIsThere ==
    ASSUME IInv
    PROVE  /\ Piece(file, SubSeq(buf, ptr + 1, used), GetPos)
           /\ Len(SubSeq(buf, ptr + 1, used)) = used - ptr
<1>1. used - ptr \in Nat /\ ptr + (used - ptr) = used /\ ptr + (used - ptr) <= used
  BY Facts
<1>2. Min({used, ptr + (used - ptr)}) = used
  <2>1. Min({used, used}) = used
    BY Facts, MinOfTwo
  <2> QED
    BY <1>1, <2>1
<1>3. Ahead(used - ptr) = SubSeq(buf, ptr + 1, used)
  BY <1>2 DEF Ahead
<1> QED
  BY <1>1, <1>3, AheadIsThere

\* A refill moves the window to where it ended.  It gives bytes, or an error, and
\* without a fault nothing only at the end of the file.
LEMMA RefillMoves ==
    ASSUME IInv, NEW n \in {0, 1}, DoRefill(n), file' = file
    PROVE  /\ filePos' = filePos + used /\ filePos' \in Nat
           /\ Piece(file', buf', filePos')
           /\ used' \in Nat /\ used' <= BufSize
           /\ ptr' \in Nat /\ ptr' <= used'
           /\ disturbed' \in BOOLEAN
           /\ buf' = << >> => ptr' = 0 /\ err' = TRUE /\ used' = 0
           /\ buf' # << >> => ptr' = n /\ err' = err /\ used' > 0
           /\ disturbed' \/ used' = BufSize \/ filePos' + used' >= Len(file)
<1> PICK read \in Pread(filePos + used) :
        /\ filePos' = filePos + used
        /\ buf' = read.bytes
        /\ ptr' = IF read.bytes = << >> THEN 0 ELSE n
        /\ err' = (err \/ read.bytes = << >>)
        /\ disturbed' = (read.fault \/ (pc # "idle" /\ disturbed))
  BY DEF DoRefill
<1>1. filePos + used \in Nat
  BY Facts
<1>2. /\ Piece(file, read.bytes, filePos + used)
      /\ Len(read.bytes) <= BufSize
      /\ read.fault \in BOOLEAN
      /\ ~ read.fault => Len(read.bytes) = BufSize \/ filePos + used + Len(read.bytes) >= Len(file)
  BY <1>1, Facts, PreadGives
<1>3. buf' \in Seq(Byte) /\ used' = Len(buf') /\ Len(buf') \in Nat
  BY <1>2, LenProperties DEF Piece, used
<1>4. (buf' = << >> => Len(buf') = 0) /\ (buf' # << >> => Len(buf') > 0)
  BY <1>3, EmptySeq
<1>5. disturbed' \in BOOLEAN
  BY <1>2 DEF IInv, TypeOK
<1>6. disturbed' \/ used' = BufSize \/ filePos' + used' >= Len(file)
  <2>1. CASE read.fault
    BY <2>1
  <2>2. CASE ~ read.fault
    BY <1>2, <1>3, <2>2
  <2> QED
    BY <2>1, <2>2
<1>7. err \in BOOLEAN
  BY DEF IInv, TypeOK
<1>8. buf' = << >> => ptr' = 0 /\ err' = TRUE /\ used' = 0
  BY <1>3, <1>4
<1>9. buf' # << >> => ptr' = n /\ err' = err /\ used' > 0
  BY <1>3, <1>4, <1>7
<1>10. ptr' \in Nat /\ ptr' <= used'
  BY <1>3, <1>8, <1>9
<1> QED
  BY <1>1, <1>2, <1>3, <1>5, <1>6, <1>8, <1>9, <1>10

-----------------------------------------------------------------------------
(* The steps: each keeps the invariant and is one of ByteReader. *)

\* The position that ByteReader sees.
Pos == GetPos - Len(dst)

ReaderStep == [Reader!Next]_(Reader!readerVars)

\* Ways to be a step of ByteReader.
LEMMA Takes ==
    ASSUME NEW n \in 0..MaxLen,
           n = 0 \/ Pos + n <= Len(file),
           Pos' = Pos + n,
           got' = SubSeq(file, Pos + 1, Pos + n) \/ (err /\ got' = Lost),
           disturbed' \in BOOLEAN,
           file' = file, err' = err
    PROVE  ReaderStep
BY DEF ReaderStep, Reader!Next, Reader!Take, Pos

\* A read that gives up: it moves no further than it was asked to, and says so.
LEMMA Fails ==
    ASSUME NEW n \in 0..MaxLen,
           Pos + n > Len(file) \/ disturbed',
           Pos' \in Pos..(Pos + n),
           err' = TRUE, got' = Lost,
           disturbed' \in BOOLEAN,
           file' = file
    PROVE  ReaderStep
BY DEF ReaderStep, Reader!Next, Reader!Fail, Pos

\* A turn of the loop of Read that ends nothing: its caller sees no change.
LEMMA Progresses ==
    ASSUME Pos' = Pos, disturbed' \in BOOLEAN,
           file' = file, err' = err, got' = got
    PROVE  ReaderStep
BY DEF ReaderStep, Reader!Next, Reader!Progress, Pos

\* Between calls the position is that of the window.
LEMMA IdlePos ==
    ASSUME IInv, pc = "idle"
    PROVE  dst = << >> /\ need = 0 /\ Len(dst) = 0 /\ Pos = GetPos /\ Pos = filePos + ptr
<1>1. dst = << >> /\ need = 0 /\ Len(dst) = 0
  BY EmptySeq DEF IInv, IdleIsDone
<1> QED
  BY <1>1, Facts DEF Pos

\* Where nothing was copied, only the position has to be right.
LEMMA NothingCopied ==
    ASSUME dst' = << >>, need' = 0, filePos' \in Nat, ptr' \in Nat
    PROVE  CopiedInOrder' /\ Pos' = filePos' + ptr' /\ dst' \in Seq(Byte) /\ need' \in 0..MaxLen
<1>1. Len(dst') = 0 /\ dst' \in Seq(Byte)
  BY EmptySeq
<1>2. PICK a \in Nat : filePos' = a
  OBVIOUS
<1> PICK b \in Nat : ptr' = b
  OBVIOUS
<1>3. GetPos' - Len(dst') = filePos' + ptr' /\ GetPos' - Len(dst') \in Nat
  BY <1>1, <1>2 DEF GetPos
<1>4. Piece(file', dst', GetPos' - Len(dst'))
  BY EmptyPiece
<1>5. need' \in 0..MaxLen /\ Len(dst') + need' <= MaxLen
  BY <1>1, ReaderAssumption
<1>6. CopiedInOrder'
  BY <1>3, <1>4, <1>5 DEF CopiedInOrder
<1> QED
  BY <1>1, <1>3, <1>5, <1>6 DEF Pos

\* A read that the window serves moves the position inside the window only.
LEMMA ReadFromBufferStep == IInv /\ ReadFromBuffer => IInv' /\ ReaderStep
<1> SUFFICES ASSUME IInv, ReadFromBuffer PROVE IInv' /\ ReaderStep
  OBVIOUS
<1> PICK n \in 0..MaxLen : ptr + n <= used /\ ptr' = ptr + n /\ got' = Ahead(n)
  BY DEF ReadFromBuffer
<1>1. /\ pc = "idle" /\ disturbed' = FALSE
      /\ UNCHANGED <<file, mapped, filePos, buf, err, pc, as, dst, need>>
  BY DEF ReadFromBuffer, call
<1>2. n \in Nat /\ ptr' \in Nat /\ ptr' <= used' /\ used' = used
  BY <1>1, Facts DEF used
<1>3. dst' = << >> /\ need' = 0 /\ Pos = filePos + ptr /\ Pos = GetPos
  BY <1>1, IdlePos
<1>4. CopiedInOrder' /\ Pos' = filePos' + ptr' /\ dst' \in Seq(Byte) /\ need' \in 0..MaxLen
  BY <1>1, <1>2, <1>3, Facts, NothingCopied
<1>5. IInv'
  BY <1>1, <1>2, <1>3, <1>4 DEF IInv, TypeOK, IdleIsDone, WindowOfKind, RestIsThere, used
<1>6. Piece(file, Ahead(n), Pos) /\ Len(Ahead(n)) = n /\ Pos \in Nat
  BY <1>2, <1>3, AheadIsThere, Facts
<1>7. n = 0 \/ Pos + n <= Len(file)
  BY <1>2, <1>6 DEF Piece
<1>8. got' = SubSeq(file, Pos + 1, Pos + n)
  BY <1>6, Facts, PieceIsSubSeq
<1>9. Pos' = Pos + n
  BY SMTT(30), <1>1, <1>2, <1>3, <1>4, Facts
<1> QED
  BY <1>1, <1>5, <1>7, <1>8, <1>9, Takes

\* A single byte comes out of the window, which a refill may have to move first.
LEMMA Read_uint8Step == IInv /\ Read_uint8 => IInv' /\ ReaderStep
<1> SUFFICES ASSUME IInv, Read_uint8 PROVE IInv' /\ ReaderStep
  OBVIOUS
<1>1. pc = "idle" /\ ptr >= used /\ UNCHANGED <<file, mapped, pc, as, dst, need>>
  BY DEF Read_uint8, call
<1>2. dst' = << >> /\ need' = 0 /\ Pos = filePos + ptr
  BY <1>1, IdlePos
<1>3. 1 \in 0..MaxLen /\ Pos = filePos + used /\ Pos \in Nat
  BY <1>1, <1>2, Facts
<1>4. CASE mapped
  <2>1. err' = TRUE /\ got' = Lost /\ disturbed' = FALSE /\ UNCHANGED <<filePos, buf, ptr>>
    BY <1>4 DEF Read_uint8, window
  <2>2. CopiedInOrder' /\ Pos' = filePos' + ptr' /\ dst' \in Seq(Byte) /\ need' \in 0..MaxLen
    BY <1>2, <2>1, Facts, NothingCopied
  <2>3. IInv'
    BY <1>1, <1>2, <2>1, <2>2 DEF IInv, TypeOK, IdleIsDone, WindowOfKind, RestIsThere, used
  <2>4. used = Len(file) /\ filePos = 0
    BY <1>4 DEF IInv, WindowOfKind, used
  <2>5. Pos + 1 > Len(file) /\ Pos' \in Pos..(Pos + 1)
    BY <1>2, <1>3, <2>1, <2>2, <2>4, Facts
  <2> QED
    BY <1>1, <1>3, <2>1, <2>3, <2>5, Fails
<1>5. CASE ~ mapped
  <2>1. DoRefill(1) /\ got' = IF buf' = << >> THEN Lost ELSE SubSeq(buf', 1, 1)
    BY <1>5 DEF Read_uint8
  <2>2. /\ filePos' = filePos + used /\ filePos' \in Nat
        /\ Piece(file', buf', filePos')
        /\ used' \in Nat /\ used' <= BufSize
        /\ ptr' \in Nat /\ ptr' <= used'
        /\ disturbed' \in BOOLEAN
        /\ buf' = << >> => ptr' = 0 /\ err' = TRUE /\ used' = 0
        /\ buf' # << >> => ptr' = 1 /\ err' = err /\ used' > 0
        /\ disturbed' \/ used' = BufSize \/ filePos' + used' >= Len(file)
    BY <1>1, <2>1, RefillMoves
  <2>3. CopiedInOrder' /\ Pos' = filePos' + ptr' /\ dst' \in Seq(Byte) /\ need' \in 0..MaxLen
    BY <1>2, <2>2, NothingCopied
  <2>4. err' \in BOOLEAN /\ buf' \in Seq(Byte)
    BY <2>2 DEF Piece, IInv, TypeOK
  <2>5. IInv'
    BY <1>1, <1>2, <1>5, <2>2, <2>3, <2>4 DEF IInv, TypeOK, IdleIsDone, WindowOfKind, RestIsThere
  <2>6. CASE buf' = << >>
    <3>1. Pos' = Pos /\ Pos' \in Pos..(Pos + 1) /\ err' = TRUE /\ got' = Lost
      BY <1>3, <2>1, <2>2, <2>3, <2>6
    <3>2. Pos + 1 > Len(file) \/ disturbed'
      BY <1>3, <2>2, <2>6, Facts
    <3> QED
      BY <1>1, <1>3, <2>2, <2>5, <3>1, <3>2, Fails
  <2>7. CASE buf' # << >>
    <3>1. Pos' = Pos + 1 /\ err' = err /\ used' >= 1
      BY <1>3, <2>2, <2>3, <2>7
    <3>2. /\ Piece(file, SubSeq(buf', 1, 1), Pos + 1 - 1)
          /\ Len(SubSeq(buf', 1, 1)) = IF 1 <= 1 THEN 1 - 1 + 1 ELSE 0
      <4>1. Piece(file, buf', Pos) /\ 1 <= Len(buf')
        BY <1>1, <1>3, <2>2, <3>1 DEF used
      <4> QED
        BY <1>3, <4>1, Facts, PieceOfPiece
    <3>3. Pos + 1 - 1 = Pos /\ Len(SubSeq(buf', 1, 1)) = 1
      BY <1>3, <3>2
    <3>4. Pos + 1 <= Len(file) /\ got' = SubSeq(file, Pos + 1, Pos + 1)
      <4> DEFINE s == SubSeq(buf', 1, 1)
      <4>1. Piece(file, s, Pos) /\ Len(s) = 1
        BY <3>2, <3>3
      <4>2. got' = s
        BY <2>1, <2>7
      <4> HIDE DEF s
      <4>3. s = SubSeq(file, Pos + 1, Pos + Len(s))
        BY <1>3, <4>1, Facts, PieceIsSubSeq
      <4> QED
        BY <4>1, <4>2, <4>3 DEF Piece
    <3> QED
      BY <1>1, <1>3, <2>2, <2>5, <3>1, <3>4, Takes
  <2> QED
    BY <2>6, <2>7
<1> QED
  BY <1>4, <1>5

\* A mapped reader serves a read out of the file or fails at its end.
LEMMA ReadMappedStep == IInv /\ ReadMapped => IInv' /\ ReaderStep
<1> SUFFICES ASSUME IInv, ReadMapped PROVE IInv' /\ ReaderStep
  OBVIOUS
<1> PICK n \in 0..MaxLen, kind \in {"bytes", "value"} :
        /\ as' = kind
        /\ err' = (err \/ ptr + n > used)
        /\ ptr' = IF ptr + n > used THEN ptr ELSE ptr + n
        /\ Return(IF ptr + n > used THEN Lost ELSE Ahead(n))
  BY DEF ReadMapped
<1>1. /\ mapped /\ disturbed' = FALSE
      /\ UNCHANGED <<file, mapped, filePos, buf>>
      /\ pc' = "idle" /\ dst' = << >> /\ need' = 0
  BY DEF ReadMapped, Return
<1>2. pc = "idle" /\ filePos = 0 /\ used = Len(file)
  BY <1>1 DEF IInv, WindowOfKind, used
<1>3. n \in Nat /\ ptr' \in Nat /\ ptr' <= used' /\ used' = used
  BY <1>1, Facts DEF used
<1>4. Pos = filePos + ptr /\ Pos = GetPos /\ Pos \in Nat
  BY <1>2, IdlePos, Facts
<1>5. CopiedInOrder' /\ Pos' = filePos' + ptr' /\ dst' \in Seq(Byte) /\ need' \in 0..MaxLen
  BY <1>1, <1>3, Facts, NothingCopied
<1>6. IInv'
  BY <1>1, <1>2, <1>3, <1>5 DEF IInv, TypeOK, IdleIsDone, WindowOfKind, RestIsThere, used
<1>7. CASE ptr + n > used
  <2>1. err' = TRUE /\ got' = Lost
    BY <1>7 DEF Return
  <2>2. Pos' \in Pos..(Pos + n) /\ Pos + n > Len(file)
    BY <1>1, <1>2, <1>3, <1>4, <1>5, <1>7, Facts
  <2> QED
    BY <1>1, <1>6, <2>1, <2>2, Fails
<1>8. CASE ~ (ptr + n > used)
  <2>1. err' = err
    BY <1>8 DEF IInv, TypeOK
  <2>2. Piece(file, Ahead(n), Pos) /\ Len(Ahead(n)) = n
    <3>1. ptr + n <= used
      BY <1>3, <1>8, Facts
    <3> QED
      BY <1>3, <1>4, <3>1, AheadIsThere
  <2>3. Ahead(n) = SubSeq(file, Pos + 1, Pos + n)
    BY <1>4, <2>2, Facts, PieceIsSubSeq
  <2>4. got' = Ahead(n) \/ (err /\ got' = Lost)
    BY <1>8, <2>1 DEF Return
  <2>5. n = 0 \/ Pos + n <= Len(file)
    BY <1>3, <2>2 DEF Piece
  <2>6. Pos' = Pos + n
    BY SMTT(30), <1>1, <1>3, <1>4, <1>5, <1>8, Facts
  <2> QED
    BY <1>1, <1>6, <2>1, <2>3, <2>4, <2>5, <2>6, Takes
<1> QED
  BY <1>7, <1>8

\* Read starts the loop and copies nothing yet.
LEMMA ReadStep == IInv /\ Read => IInv' /\ ReaderStep
<1> SUFFICES ASSUME IInv, Read PROVE IInv' /\ ReaderStep
  OBVIOUS
<1>1. /\ pc = "idle" /\ ~ mapped /\ pc' = "long" /\ disturbed' = FALSE
      /\ UNCHANGED <<file, mapped, filePos, buf, ptr, err, dst, got>>
      /\ need' \in 0..MaxLen /\ as' \in {"bytes", "value"}
  BY DEF Read, window
<1>2. dst = << >> /\ Len(dst) = 0
  BY <1>1, IdlePos
<1>3. Pos' = Pos
  BY <1>1 DEF Pos, GetPos
<1>4. CopiedInOrder'
  <2>1. Len(dst) + need' <= MaxLen
    BY <1>1, <1>2, Facts
  <2> QED
    BY <1>1, <2>1 DEF IInv, CopiedInOrder, GetPos
<1>5. IInv'
  BY <1>1, <1>4 DEF IInv, TypeOK, IdleIsDone, WindowOfKind, RestIsThere, used
<1> QED
  BY <1>1, <1>3, <1>5, Progresses

\* CopyTail and DoRefill, when the rest is not in the window: it goes on, and
\* what was copied is a piece up to the new window, or the call ends with an error.
LEMMA CopyAndRefillStep ==
    ASSUME IInv, NEW next \in {"long", "last"}, CopyAndRefill(next),
           file' = file, mapped' = mapped, pc = "long", ptr + need > used,
           next = "last" => need <= BufSize
    PROVE  IInv' /\ ReaderStep
<1> DEFINE tail == SubSeq(buf, ptr + 1, used)
<1>1. DoRefill(0) /\ as' = as
  BY DEF CopyAndRefill
<1>2. ~ mapped
  BY DEF IInv, WindowOfKind
<1>3. /\ filePos' = filePos + used /\ filePos' \in Nat
      /\ Piece(file', buf', filePos')
      /\ used' \in Nat /\ used' <= BufSize
      /\ ptr' \in Nat /\ ptr' <= used'
      /\ disturbed' \in BOOLEAN
      /\ buf' = << >> => ptr' = 0 /\ err' = TRUE /\ used' = 0
      /\ buf' # << >> => ptr' = 0 /\ err' = err /\ used' > 0
      /\ disturbed' \/ used' = BufSize \/ filePos' + used' >= Len(file)
  BY <1>1, RefillMoves
<1>4. err' \in BOOLEAN /\ buf' \in Seq(Byte)
  BY <1>3 DEF Piece, IInv, TypeOK
<1>5. Pos \in Nat /\ Pos + Len(dst) = filePos + ptr /\ Len(dst) + need <= MaxLen
  BY Facts DEF Pos, IInv, CopiedInOrder
<1>6. Piece(file, tail, Pos + Len(dst)) /\ Len(tail) = used - ptr
  BY <1>5, Facts, TailIsThere
<1>7. CASE buf' = << >>
  <2>1. pc' = "idle" /\ dst' = << >> /\ need' = 0 /\ got' = Lost
    BY <1>7 DEF CopyAndRefill, Return
  <2>2. CopiedInOrder' /\ Pos' = filePos' + ptr' /\ dst' \in Seq(Byte) /\ need' \in 0..MaxLen
    BY <1>3, <2>1, NothingCopied
  <2>3. IInv'
    BY <1>1, <1>2, <1>3, <1>4, <2>1, <2>2
    DEF IInv, TypeOK, IdleIsDone, WindowOfKind, RestIsThere
  <2>4. Len(dst) + need \in 0..MaxLen /\ Pos + (Len(dst) + need) = filePos + ptr + need
    BY SMTT(30), <1>5, Facts
  <2>5. Pos' \in Pos..(Pos + (Len(dst) + need))
    <3>1. filePos' = filePos + used /\ ptr' = 0 /\ Pos' = filePos' + ptr'
      BY <1>3, <1>7, <2>2
    <3>2. Pos' = filePos + used
      BY <3>1, Facts
    <3>3. Pos <= filePos + used /\ filePos + used <= Pos + (Len(dst) + need)
      <4>1. Pos \in Nat /\ Pos + Len(dst) = filePos + ptr
        BY <1>5
      <4>2. Pos <= filePos + used
        BY <4>1, Facts
      <4>3. filePos + used <= filePos + ptr + need
        BY Facts
      <4> QED
        BY <2>4, <4>2, <4>3
    <3> QED
      BY <1>5, <2>4, <3>2, <3>3, Facts
  <2>6. Pos + (Len(dst) + need) > Len(file) \/ disturbed'
    BY SMTT(30), <1>3, <1>7, <2>4, Facts
  <2> QED
    BY <1>3, <1>7, <2>1, <2>3, <2>4, <2>5, <2>6, Fails
<1>8. CASE buf' # << >>
  <2>1. dst' = dst \o tail /\ need' = need - Len(tail) /\ pc' = next /\ got' = got
    BY <1>8 DEF CopyAndRefill
  <2>2. Piece(file, dst, Pos)
    BY DEF IInv, CopiedInOrder, Pos
  <2> HIDE DEF tail
  <2>3. Piece(file, dst \o tail, Pos) /\ Len(dst \o tail) = Len(dst) + (used - ptr)
    <3>1. file \in Seq(Byte) /\ Pos \in Nat
      BY <1>5, Facts
    <3>2. Piece(file, dst, Pos) /\ Piece(file, tail, Pos + Len(dst))
      BY <1>6, <2>2
    <3>3. Piece(file, dst \o tail, Pos) /\ Len(dst \o tail) = Len(dst) + Len(tail)
      BY <3>1, <3>2, PiecesJoin
    <3> QED
      BY <1>6, <3>3
  <2>4. need' = need - (used - ptr) /\ need' \in Nat /\ need' <= need
    BY SMTT(30), <1>6, <2>1, Facts
  <2>5. GetPos' - Len(dst') = Pos
    <3>1. filePos' = filePos + used /\ ptr' = 0 /\ Len(dst') = Len(dst) + (used - ptr)
      BY <1>3, <1>8, <2>1, <2>3
    <3> PICK q \in Nat : Pos = q
      BY <1>5
    <3> PICK d \in Nat : Len(dst) = d
      BY Facts
    <3> PICK t \in Nat : used - ptr = t
      BY Facts
    <3>2. Pos = q /\ Len(dst) = d /\ used - ptr = t
      OBVIOUS
    <3>3. filePos + used = q + d + t
      <4>1. q + d = filePos + ptr
        BY <1>5, <3>2
      <4>2. filePos + ptr + t = filePos + used
        BY <3>2, Facts
      <4> QED
        BY <4>1, <4>2
    <3>4. GetPos' = q + d + t
      BY <3>1, <3>2, <3>3 DEF GetPos
    <3>5. Len(dst') = d + t
      BY <3>1, <3>2
    <3>6. GetPos' - Len(dst') = q
      BY <3>2, <3>4, <3>5
    <3> QED
      BY <3>2, <3>6
  <2>6. CopiedInOrder'
    <3>1. Len(dst') + need' = Len(dst) + need
      BY <2>1, <2>3, <2>4, Facts
    <3> QED
      BY <1>5, <2>1, <2>3, <2>5, <3>1 DEF CopiedInOrder
  <2>7. dst' \in Seq(Byte) /\ need' \in 0..MaxLen
    <3>1. dst' \in Seq(Byte)
      BY <2>1, <2>3 DEF Piece
    <3>2. need - (used - ptr) \in 0..MaxLen
      BY SMTT(30), <1>5, <2>4, Facts
    <3> QED
      BY <2>4, <3>1, <3>2
  <2>8. RestIsThere'
    <3>1. next = "last" => need' <= BufSize
      BY <2>4, Facts
    <3>2. disturbed' \/ filePos' + used' >= Len(file') \/ (used' = BufSize /\ ptr' = 0)
      BY <1>3, <1>8
    <3> QED
      BY <2>1, <3>1, <3>2 DEF RestIsThere
  <2>9. IInv'
    BY <1>1, <1>2, <1>3, <1>4, <2>1, <2>6, <2>7, <2>8 DEF IInv, TypeOK, IdleIsDone, WindowOfKind
  <2>10. Pos' = Pos
    BY <2>5 DEF Pos
  <2> QED
    BY <1>3, <1>8, <2>1, <2>9, <2>10, Progresses
<1> QED
  BY <1>7, <1>8

\* While more is wanted than fits the buffer it is not in the window.
LEMMA ReadLongStep == IInv /\ ReadLong => IInv' /\ ReaderStep
<1> SUFFICES ASSUME IInv, ReadLong PROVE IInv' /\ ReaderStep
  OBVIOUS
<1>1. /\ pc = "long" /\ need > BufSize /\ CopyAndRefill("long")
      /\ file' = file /\ mapped' = mapped
  BY DEF ReadLong
<1>2. used <= BufSize
  BY <1>1 DEF IInv, WindowOfKind
<1>3. ptr + need > used
  BY <1>1, <1>2, Facts
<1> QED
  BY <1>1, <1>3, CopyAndRefillStep

\* The last refill, for what crosses the end of the window.
LEMMA ReadAcrossStep == IInv /\ ReadAcross => IInv' /\ ReaderStep
BY CopyAndRefillStep DEF ReadAcross

\* Once the rest is in the window it is copied out of it.
LEMMA ReadEndsStep == IInv /\ ReadEnds => IInv' /\ ReaderStep
<1> SUFFICES ASSUME IInv, ReadEnds PROVE IInv' /\ ReaderStep
  OBVIOUS
<1>1. /\ pc \in {"long", "last"} /\ ptr + need <= used /\ ptr' = ptr + need
      /\ UNCHANGED <<file, mapped, filePos, buf, err, as, disturbed>>
      /\ pc' = "idle" /\ dst' = << >> /\ need' = 0
      /\ got' = IF as' = "value" /\ err' THEN Lost ELSE dst \o Ahead(need)
  BY DEF ReadEnds, Return
<1>2. ~ mapped
  BY <1>1 DEF IInv, WindowOfKind
<1>3. ptr' \in Nat /\ ptr' <= used' /\ used' = used /\ filePos' \in Nat
  BY <1>1, Facts DEF used
<1>4. CopiedInOrder' /\ Pos' = filePos' + ptr' /\ dst' \in Seq(Byte) /\ need' \in 0..MaxLen
  BY <1>1, <1>3, NothingCopied
<1>5. IInv'
  BY <1>1, <1>2, <1>3, <1>4 DEF IInv, TypeOK, IdleIsDone, WindowOfKind, RestIsThere, used
<1>6. Pos \in Nat /\ Pos + Len(dst) = GetPos /\ Pos + Len(dst) = filePos + ptr /\ Len(dst) + need <= MaxLen
  BY Facts DEF Pos, IInv, CopiedInOrder
<1> DEFINE bytes == dst \o Ahead(need)
           n == Len(dst) + need
<1>7. Piece(file, bytes, Pos) /\ Len(bytes) = n
  <2>1. Piece(file, Ahead(need), Pos + Len(dst)) /\ Len(Ahead(need)) = need
    BY <1>1, <1>6, Facts, AheadIsThere
  <2>2. Piece(file, dst, Pos)
    BY DEF IInv, CopiedInOrder, Pos
  <2>3. /\ Piece(file, dst \o Ahead(need), Pos)
        /\ Len(dst \o Ahead(need)) = Len(dst) + Len(Ahead(need))
    BY <1>6, <2>1, <2>2, Facts, PiecesJoin
  <2> QED
    BY <2>1, <2>3
<1>8. n \in 0..MaxLen /\ Pos' = Pos + n
  <2>1. n \in 0..MaxLen /\ Pos + n = filePos + ptr + need
    BY <1>6, Facts
  <2>2. Pos' = filePos + (ptr + need)
    BY <1>1, <1>4
  <2>3. filePos + (ptr + need) = filePos + ptr + need
    BY Facts
  <2> QED
    BY <2>1, <2>2, <2>3
<1> HIDE DEF bytes, n
<1>9. bytes = SubSeq(file, Pos + 1, Pos + n)
  BY <1>6, <1>7, Facts, PieceIsSubSeq
<1>10. n = 0 \/ Pos + n <= Len(file)
  <2>1. Len(bytes) > 0 => Pos + Len(bytes) <= Len(file)
    BY <1>7 DEF Piece
  <2> QED
    BY <1>7, <1>8, <2>1
<1>11. got' = bytes \/ (err /\ got' = Lost)
  BY <1>1 DEF bytes
<1>12. disturbed' \in BOOLEAN
  BY <1>1 DEF IInv, TypeOK
<1> QED
  BY <1>1, <1>5, <1>8, <1>9, <1>10, <1>11, <1>12, Takes

\* After the last refill the rest is missing: by RestIsThere the file ended there, or
\* the system disturbed the call.
LEMMA ReadFailsStep == IInv /\ ReadFails => IInv' /\ ReaderStep
<1> SUFFICES ASSUME IInv, ReadFails PROVE IInv' /\ ReaderStep
  OBVIOUS
<1>1. /\ pc = "last" /\ ptr + need > used /\ ptr' = used /\ err' = TRUE
      /\ UNCHANGED <<file, mapped, filePos, buf, as, disturbed>>
      /\ pc' = "idle" /\ dst' = << >> /\ need' = 0 /\ got' = Lost
  BY DEF ReadFails, Return
<1>2. ~ mapped
  BY <1>1 DEF IInv, WindowOfKind
<1>3. ptr' \in Nat /\ ptr' <= used' /\ used' = used /\ filePos' \in Nat
  BY <1>1, Facts DEF used
<1>4. CopiedInOrder' /\ Pos' = filePos' + ptr' /\ dst' \in Seq(Byte) /\ need' \in 0..MaxLen
  BY <1>1, <1>3, NothingCopied
<1>5. IInv'
  BY <1>1, <1>2, <1>3, <1>4 DEF IInv, TypeOK, IdleIsDone, WindowOfKind, RestIsThere, used
<1>6. Pos \in Nat /\ Pos + Len(dst) = filePos + ptr /\ Len(dst) + need <= MaxLen
  BY Facts DEF Pos, IInv, CopiedInOrder
<1>7. Len(dst) + need \in 0..MaxLen /\ Pos + (Len(dst) + need) = filePos + ptr + need
  BY <1>6, Facts
<1>8. Pos + (Len(dst) + need) > Len(file) \/ disturbed'
  <2>1. disturbed \/ filePos + used >= Len(file)
    <3>1. need <= BufSize /\ (disturbed \/ filePos + used >= Len(file) \/ (used = BufSize /\ ptr = 0))
      BY <1>1 DEF IInv, RestIsThere
    <3>2. ~ (used = BufSize /\ ptr = 0)
      BY <1>1, <3>1, Facts
    <3> QED
      BY <3>1, <3>2
  <2>2. filePos + ptr + need > filePos + used
    BY <1>1, Facts
  <2>3. Pos + (Len(dst) + need) > filePos + used
    BY <1>7, <2>2
  <2>4. CASE disturbed
    BY <1>1, <2>4
  <2>5. CASE filePos + used >= Len(file)
    <3>1. Len(file) \in Nat /\ filePos + used \in Nat /\ Pos + (Len(dst) + need) \in Nat
      BY <1>7, Facts
    <3> QED
      BY <2>3, <2>5, <3>1
  <2> QED
    BY <2>1, <2>4, <2>5
<1>9. Pos' \in Pos..(Pos + (Len(dst) + need))
  <2>1. Pos' = filePos + used
    BY <1>1, <1>4
  <2>2. Pos <= filePos + ptr /\ filePos + ptr <= filePos + used /\ filePos + used <= filePos + ptr + need
    BY SMTT(30), <1>1, <1>6, Facts
  <2> QED
    <3>1. filePos + used \in Pos..(Pos + (Len(dst) + need))
      BY SMTT(30), <1>6, <1>7, <2>2, Facts
    <3> QED
      BY <2>1, <3>1
<1>10. disturbed' \in BOOLEAN
  BY <1>1 DEF IInv, TypeOK
<1> QED
  BY <1>1, <1>5, <1>7, <1>8, <1>9, <1>10, Fails

\* A seek inside the window moves the position, one outside empties the window.
LEMMA SeekStep == IInv /\ Seek => IInv' /\ ReaderStep
<1> SUFFICES ASSUME IInv, Seek PROVE IInv' /\ ReaderStep
  OBVIOUS
<1> PICK p \in 0..(Len(file) + 1) :
        IF mapped
        THEN p <= used /\ ptr' = p /\ UNCHANGED <<filePos, buf>>
        ELSE IF p >= filePos /\ p < filePos + used
             THEN ptr' = p - filePos /\ UNCHANGED <<filePos, buf>>
             ELSE filePos' = p /\ ptr' = 0 /\ buf' = << >>
  BY DEF Seek
<1>1. pc = "idle" /\ UNCHANGED <<file, mapped, err, pc, as, dst, need, got, disturbed>>
  BY DEF Seek, call
<1>2. dst' = << >> /\ need' = 0
  BY <1>1, IdlePos
<1>3. p \in Nat
  BY Facts
<1>4. /\ filePos' \in Nat /\ ptr' \in Nat /\ ptr' <= used'
      /\ Piece(file', buf', filePos')
      /\ WindowOfKind'
  <2>1. CASE mapped
    <3>1. ptr' = p /\ p <= used /\ UNCHANGED <<filePos, buf>>
      BY <2>1
    <3> QED
      BY <1>1, <1>3, <3>1, Facts DEF IInv, WindowOfKind, used
  <2>2. CASE ~ mapped /\ p >= filePos /\ p < filePos + used
    <3>1. ptr' = p - filePos /\ UNCHANGED <<filePos, buf>>
      BY <2>2
    <3>2. p - filePos \in Nat /\ p - filePos <= used
      BY <1>3, <2>2, Facts
    <3> QED
      BY <1>1, <3>1, <3>2, Facts DEF IInv, WindowOfKind, used
  <2>3. CASE ~ mapped /\ ~ (p >= filePos /\ p < filePos + used)
    <3>1. filePos' = p /\ ptr' = 0 /\ buf' = << >>
      BY <2>3
    <3>2. Len(buf') = 0 /\ Piece(file', buf', filePos')
      BY <3>1, EmptyPiece
    <3> QED
      BY <1>1, <1>3, <2>3, <3>1, <3>2, Facts DEF WindowOfKind, used
  <2> QED
    BY <2>1, <2>2, <2>3
<1>5. CopiedInOrder' /\ Pos' = filePos' + ptr'
  BY <1>2, <1>4, NothingCopied
<1>6. IInv'
  BY <1>1, <1>2, <1>4, <1>5 DEF IInv, TypeOK, IdleIsDone, RestIsThere, Piece
<1>7. Pos' \in Nat
  BY <1>5 DEF CopiedInOrder, Pos
<1> QED
  BY <1>1, <1>6, <1>7 DEF ReaderStep, Reader!Next, Reader!SeekTo, Pos

\* Nothing the caller sees depends on anything but the variables.
LEMMA StutterStep == IInv /\ UNCHANGED vars => IInv' /\ ReaderStep
<1> SUFFICES ASSUME IInv, UNCHANGED vars PROVE IInv' /\ ReaderStep
  OBVIOUS
<1>1. UNCHANGED <<file, mapped, filePos, buf, ptr, err, pc, as, dst, need, got, disturbed>>
  BY DEF vars, window, call
<1>2. IInv'
  BY <1>1 DEF IInv, TypeOK, CopiedInOrder, IdleIsDone, WindowOfKind, RestIsThere, used, GetPos
<1>3. ReaderStep
  BY <1>1 DEF ReaderStep, Reader!readerVars, GetPos
<1> QED
  BY <1>2, <1>3

-----------------------------------------------------------------------------
\* A reader that was just opened has an empty window, or the whole file if mapped.
LEMMA Initially == Init => IInv /\ Reader!Init
<1> SUFFICES ASSUME Init PROVE IInv /\ Reader!Init
  OBVIOUS
<1>1. /\ file \in Files /\ mapped \in BOOLEAN /\ buf = IF mapped THEN file ELSE << >>
      /\ filePos = 0 /\ ptr = 0 /\ err = FALSE
      /\ pc = "idle" /\ as = "bytes" /\ dst = << >> /\ need = 0
      /\ got = << >> /\ disturbed = FALSE
  BY DEF Init
<1>2. file \in Seq(Byte) /\ Len(file) \in Nat
  BY <1>1, ReaderAssumption, LenProperties
<1>3. Len(dst) = 0 /\ dst \in Seq(Byte) /\ Piece(file, dst, GetPos - Len(dst))
  BY <1>1, EmptySeq, EmptyPiece
<1>4. GetPos - Len(dst) = 0
  <2>1. GetPos = 0
    BY <1>1 DEF GetPos
  <2> QED
    BY <1>3, <2>1
<1>5. buf \in Seq(Byte) /\ Piece(file, buf, filePos)
  <2>1. CASE mapped
    BY <1>1, <1>2, <2>1 DEF Piece
  <2>2. CASE ~ mapped
    BY <1>1, <2>2, EmptySeq, EmptyPiece
  <2> QED
    BY <2>1, <2>2
<1>6. used \in Nat
  BY <1>5, LenProperties DEF used
<1>7. WindowOfKind
  BY <1>1, EmptySeq, ReaderAssumption DEF WindowOfKind, used
<1>8. CopiedInOrder
  BY <1>1, <1>3, <1>4, ReaderAssumption DEF CopiedInOrder
<1>9. IInv
  <2>1. TypeOK
    <3>1. file \in Files /\ mapped \in BOOLEAN /\ buf \in Seq(Byte)
      BY <1>1, <1>5
    <3>2. filePos \in Nat /\ ptr \in Nat /\ err \in BOOLEAN /\ disturbed \in BOOLEAN
      <4>1. filePos = 0 /\ ptr = 0 /\ err = FALSE /\ disturbed = FALSE
        BY <1>1
      <4> QED
        BY <4>1
    <3>3. need \in 0..MaxLen
      <4>1. need = 0
        BY <1>1
      <4> QED
        BY <4>1, ReaderAssumption
    <3>4. pc = "idle" /\ as = "bytes" /\ dst \in Seq(Byte) /\ got = << >>
      BY <1>1, <1>3
    <3> QED
      BY <3>1, <3>2, <3>3, <3>4, EmptySeq DEF TypeOK
  <2>2. IdleIsDone /\ RestIsThere
    BY <1>1 DEF IdleIsDone, RestIsThere
  <2>3. ptr <= used
    BY <1>1, <1>6
  <2> QED
    BY <1>5, <1>7, <1>8, <2>1, <2>2, <2>3 DEF IInv
<1>10. Reader!Init
  BY <1>1, <1>4 DEF Reader!Init
<1> QED
  BY <1>9, <1>10

\* Every step keeps the invariant and is a step of ByteReader or a stutter.
LEMMA Stepwise == IInv /\ [Next]_vars => IInv' /\ ReaderStep
<1> SUFFICES ASSUME IInv, [Next]_vars PROVE IInv' /\ ReaderStep
  OBVIOUS
<1>1. CASE ReadFromBuffer
  BY <1>1, ReadFromBufferStep
<1>2. CASE Read_uint8
  BY <1>2, Read_uint8Step
<1>3. CASE Seek
  BY <1>3, SeekStep
<1>4. CASE ReadMapped
  BY <1>4, ReadMappedStep
<1>5. CASE Read
  BY <1>5, ReadStep
<1>6. CASE ReadLong
  BY <1>6, ReadLongStep
<1>7. CASE ReadAcross
  BY <1>7, ReadAcrossStep
<1>8. CASE ReadEnds
  BY <1>8, ReadEndsStep
<1>9. CASE ReadFails
  BY <1>9, ReadFailsStep
<1>10. CASE UNCHANGED vars
  BY <1>10, StutterStep
<1> QED
  BY <1>1, <1>2, <1>3, <1>4, <1>5, <1>6, <1>7, <1>8, <1>9, <1>10 DEF Next

\* The invariant holds in every state of a reader.
LEMMA Invariance == Spec => []IInv
<1>1. Init => IInv
  BY Initially
<1>2. IInv /\ [Next]_vars => IInv'
  BY Stepwise
<1> QED
  BY <1>1, <1>2, PTL DEF Spec

-----------------------------------------------------------------------------
(* The results. *)

\* Every variable of a reader keeps its type, and what is left of a read is never
\* negative or more than was asked for.
THEOREM TypeCorrect == Spec => []TypeOK
<1>1. IInv => TypeOK
  BY DEF IInv
<1> QED
  BY <1>1, Invariance, PTL

\* The buffer holds the bytes of the file from m_iFilePos on, and the position is
\* inside it or at its end, whatever was read, sought or failed before.
THEOREM BufferStaysWindow == Spec => []BufferIsWindow
<1>1. IInv => BufferIsWindow
  <2> SUFFICES ASSUME IInv PROVE BufferIsWindow
    OBVIOUS
  <2>1. Piece(file, buf, filePos) /\ used = Len(buf)
    BY DEF IInv, used
  <2>2. buf = SubSeq(file, filePos + 1, filePos + used)
    BY <2>1, Facts, PieceIsSubSeq
  <2>3. used > 0 => filePos + used <= Len(file)
    BY <2>1 DEF Piece
  <2> QED
    BY <2>2, <2>3, Facts DEF BufferIsWindow
<1> QED
  BY <1>1, Invariance, PTL

\* To their callers FileReader_c and MappedReader_c are a position and an error
\* flag: bytes come in order and are the right ones, or the flag says that they
\* are not, and a read fails only at the end of the file or if the system failed
\* or cut short one of its own.
THEOREM ReaderRefinement == Spec => ImplementsReader
<1> QED
  BY Initially, Stepwise, Invariance, PTL DEF Spec, ImplementsReader, Reader!Spec, ReaderStep
=============================================================================
