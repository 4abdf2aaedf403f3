--------------------------- MODULE DumpCrcProofs ---------------------------
(***************************************************************************)
(* The line that dumpData() writes for a picture has the remainders of the *)
(* bytes in the YUV file, for pictures of every size and content.          *)
(***************************************************************************)
EXTENDS DumpCrc, DumpDataProofs, Crc32Proofs

\* What is proved of the loops carries over: SpecCrc conjoins to the actions of
\* Spec what becomes of the sums.
LEMMA SumsAddNothing == SpecCrc => Spec
<1>1. InitCrc => Init
  BY DEF InitCrc
<1>2. [NextCrc]_<<vars, crcVars>> => [Next]_vars
  BY DEF NextCrc, SumRow, NextContents, Next
<1>3. QED
  BY <1>1, <1>2, PTL DEF SpecCrc, Spec

(***************************************************************************)
(* Rows and their bytes.                                                   *)
(***************************************************************************)

\* A row is a sequence of bytes, and gives a word from a word.
LEMMA RowTypes ==
  ASSUME NEW row \in Pieces
  PROVE  /\ Bytes(row) \in Seq(Byte)
         /\ \A word \in Word : /\ crc32_gen(word, Bytes(row)) \in Word
                               /\ DividePiece[<<word, row>>] = crc32_gen(word, Bytes(row))
<1>1. Bytes(row) \in Seq(Byte)
  <2>1. row.len \in Nat
    BY DEF Pieces
  <2>2. Bytes(row) \in [1 .. row.len -> Byte]
    BY WordTypes DEF Bytes
  <2>3. QED
    BY <2>1, <2>2
<1>2. ASSUME NEW word \in Word
      PROVE  crc32_gen(word, Bytes(row)) \in Word
  <2>1. \A a \in Word : \A e \in Byte : Crc[<<a, e>>] \in Word
    BY WordTypes DEF Crc
  <2>2. QED
    BY <1>1, <2>1, OverStays DEF crc32_gen
<1>3. ASSUME NEW word \in Word
      PROVE  DividePiece[<<word, row>>] = crc32_gen(word, Bytes(row))
  BY ChecksumIsRemainder DEF DividePiece
<1>4. QED
  BY <1>1, <1>2, <1>3

\* One row more is one turn more.
LEMMA RemainderGrows ==
  ASSUME NEW pieces \in Seq(Pieces), NEW row \in Pieces, Remainder(pieces) \in Word
  PROVE  Remainder(Append(pieces, row)) = crc32_gen(Remainder(pieces), Bytes(row))
<1>1. Remainder(Append(pieces, row)) = DividePiece[<<Remainder(pieces), row>>]
  BY OverUnfolds DEF Remainder
<1>2. QED
  BY <1>1, RowTypes

\* While the picture stays, so do the remainders of its rows.
LEMMA PictureKept ==
  ASSUME UNCHANGED picture
  PROVE  /\ Remainder(crc_y)' = Remainder(crc_y')
         /\ Remainder(crc_uv)' = Remainder(crc_uv')
  BY DEF Remainder, DividePiece, Bytes

(***************************************************************************)
(* The inductive invariant.                                                *)
(***************************************************************************)

CrcInv == sum_y \in Word /\ sum_uv \in Word /\ SumInv

LEMMA InitCrcHolds == InitCrc => CrcInv
<1> SUFFICES ASSUME InitCrc PROVE CrcInv
  OBVIOUS
<1>1. crc_y = <<>> /\ crc_uv = <<>> /\ sum_y = ZeroWord /\ sum_uv = ZeroWord
  BY DEF InitCrc, Init
<1>2. Remainder(<<>>) = ZeroWord
  BY OverNothing DEF Remainder
<1>3. QED
  BY <1>1, <1>2, WordTypes DEF CrcInv, SumInv

LEMMA SumRowHolds == DumpInv /\ CrcInv /\ SumRow => CrcInv'
<1> SUFFICES ASSUME TypeOK, CrcInv, SumRow PROVE CrcInv'
  BY DEF DumpInv
<1>1. Row \in Pieces /\ crc_y \in Seq(Pieces) /\ crc_uv \in Seq(Pieces)
  BY RowIsPiece DEF SumRow, ReadRow, TypeOK
<1>2. /\ crc_y' = IF loop = "crc_y" THEN Append(crc_y, Row) ELSE crc_y
      /\ crc_uv' = IF loop = "crc_uv" THEN Append(crc_uv, Row) ELSE crc_uv
      /\ sum_y' = IF loop = "crc_y" THEN crc32_gen(sum_y, Bytes(Row)) ELSE sum_y
      /\ sum_uv' = IF loop = "crc_uv" THEN crc32_gen(sum_uv, Bytes(Row)) ELSE sum_uv
      /\ UNCHANGED picture
  BY DEF SumRow, ReadRow, Continued
<1>3. sum_y' \in Word /\ sum_uv' \in Word
  BY <1>1, <1>2, RowTypes DEF CrcInv
<1>4. sum_y' = Remainder(crc_y') /\ sum_uv' = Remainder(crc_uv')
  BY <1>1, <1>2, RemainderGrows DEF CrcInv, SumInv
<1>5. QED
  BY <1>2, <1>3, <1>4, PictureKept DEF CrcInv, SumInv

LEMMA NextContentsHolds == NextContents => CrcInv'
<1> SUFFICES ASSUME NextContents PROVE CrcInv'
  OBVIOUS
<1>1. crc_y' = <<>> /\ crc_uv' = <<>> /\ sum_y' = ZeroWord /\ sum_uv' = ZeroWord
  BY DEF NextContents, NextPicture
<1>2. Remainder(crc_y)' = ZeroWord /\ Remainder(crc_uv)' = ZeroWord
  BY <1>1, OverNothing DEF Remainder
<1>3. QED
  BY <1>1, <1>2, WordTypes DEF CrcInv, SumInv

LEMMA OthersHold ==
  CrcInv /\ (SetWidth \/ SetHeight \/ Enter \/ EndLoop \/ WriteLine \/ Count \/ Done \/ UNCHANGED vars)
         /\ UNCHANGED crcVars
    => CrcInv'
<1> SUFFICES ASSUME CrcInv, UNCHANGED crcVars, UNCHANGED <<crc_y, crc_uv>> PROVE CrcInv'
  BY DEF vars, readVars, SetWidth, SetHeight, Enter, EndLoop, WriteLine, Count, Done
<1>1. UNCHANGED <<picture, sum_y, sum_uv>>
  BY DEF crcVars
<1>2. QED
  BY <1>1, PictureKept DEF CrcInv, SumInv

\* The two words are at any time those of the rows that were summed.
THEOREM SumInvariant == SpecCrc => []CrcInv
<1>1. DumpInv /\ CrcInv /\ [NextCrc]_<<vars, crcVars>> => CrcInv'
  BY SumRowHolds, NextContentsHolds, OthersHold DEF NextCrc
<1>2. QED
  BY <1>1, InitCrcHolds, SumsAddNothing, DumpInvariant, PTL DEF SpecCrc

(***************************************************************************)
(* The theorem.                                                            *)
(***************************************************************************)

\* The planes of a picture are the two parts of what is written of it.
LEMMA Parts ==
  ASSUME TypeOK
  PROVE  /\ SubSeq(Whole, 1, height) = Plane(0, height)
         /\ SubSeq(Whole, height + 1, Len(Whole)) = Plane(y_size, height \div 2)
<1> DEFINE a == Plane(0, height)
           b == Plane(y_size, height \div 2)
           n == height \div 2
<1>1. height \in Nat /\ n \in Nat /\ y_size \in Nat /\ mBufferWidth \in Nat /\ width \in Nat
  BY Planes
<1>2. a \in Seq(Pieces) /\ Len(a) = height /\ b \in Seq(Pieces) /\ Len(b) = n
  BY <1>1, PlaneIsSeq
<1>3. Whole = a \o b
  BY DEF Whole
<1> HIDE DEF a, b, n
<1> DEFINE w == a \o b
           l == SubSeq(w, 1, height)
           r == SubSeq(w, height + 1, height + n)
<1>4. w \in Seq(Pieces) /\ Len(w) = height + n
  BY <1>1, <1>2
<1>5. \A k \in 1 .. height + n : w[k] = IF k <= height THEN a[k] ELSE b[k - height]
  BY <1>1, <1>2
<1> HIDE DEF w
<1>6. /\ l \in Seq(Pieces) /\ Len(l) = height
      /\ \A k \in 1 .. height : l[k] = w[k]
  BY <1>1, <1>4
<1>7. /\ r \in Seq(Pieces) /\ Len(r) = n
      /\ \A k \in 1 .. n : r[k] = w[height + k]
  BY <1>1, <1>4
<1> HIDE DEF l, r
<1>8. l = a
  BY <1>1, <1>2, <1>5, <1>6, SeqEqual
<1>9. r = b
  <2>1. \A k \in 1 .. n : r[k] = b[k]
    BY <1>1, <1>5, <1>7
  <2>2. QED
    BY <1>2, <1>7, <2>1, SeqEqual
<1>10. QED
  BY <1>3, <1>4, <1>8, <1>9 DEF a, b, w, l, r

\* Whatever the size, the padding and the contents of a picture, the line of the
\* CRC file has the remainders of the luma and of the chroma bytes that the YUV
\* file holds for it.
THEOREM LineIsRemainder == SpecCrc => []LineMatchesFile
<1>1. DumpInv /\ CrcInv => LineMatchesFile
  <2> SUFFICES ASSUME DumpInv, CrcInv, loop = "line", entered = gen
               PROVE  /\ sum_y = Remainder(SubSeq(yuv, 1, height))
                      /\ sum_uv = Remainder(SubSeq(yuv, height + 1, Len(yuv)))
    BY DEF LineMatchesFile
  <2>1. yuv = Whole /\ crc_y = Plane(0, height) /\ crc_uv = Plane(y_size, height \div 2)
    BY DEF DumpInv, DataInv, RowsInv
  <2>2. QED
    BY <2>1, Parts DEF DumpInv, CrcInv, SumInv
<1>2. QED
  BY <1>1, SumInvariant, SumsAddNothing, DumpInvariant, PTL
=============================================================================
