--------------------------- MODULE DumpDataProofs ---------------------------
(***************************************************************************)
(* What holds of dumpData() for pictures of every size up to MaxSize.      *)
(***************************************************************************)
EXTENDS DumpData, TLAPS, SequenceTheorems

(***************************************************************************)
(* The sizes.                                                              *)
(***************************************************************************)

\* ALIGN() to 64 rounds up, to a multiple, and not beyond the next one.
LEMMA AlignTo64 ==
  ASSUME NEW x \in Nat, x <= 37824
  PROVE  /\ ALIGN(x, 64) \in Nat /\ ALIGN(x, 64) <= 37824
         /\ x <= ALIGN(x, 64)
         /\ ALIGN(x, 64) % 2 = 0
  BY DEF ALIGN

\* A product grows with its factors.
LEMMA ProductGrows ==
  ASSUME NEW a \in Nat, NEW b \in Nat, NEW c \in Nat, NEW d \in Nat, a <= c, b <= d
  PROVE  a * b <= c * d /\ a * b \in Nat
<1>1. a * b <= c * b
  BY SMTT(30)
<1>2. c * b <= c * d
  BY SMTT(30)
<1>3. a * b \in Nat /\ c * b \in Nat /\ c * d \in Nat
  BY SMTT(30)
<1>4. QED
  BY <1>1, <1>2, <1>3

\* The largest luma has the largest width and height.
LEMMA LargestLuma == MaxLuma \in Nat /\ 37824 * 37824 = MaxLuma
  BY SMTT(60) DEF MaxLuma

\* The sizes of the format and of the picture, and the luma of the format.
LEMMA Sizes ==
  ASSUME TypeOK
  PROVE  /\ width \in Nat /\ width <= 37824
         /\ height \in Nat \ {0} /\ height <= 37824
         /\ mBufferWidth \in Nat /\ mBufferWidth <= 37824
         /\ mDqWidth \in Nat /\ mDqWidth <= mBufferWidth
         /\ mBufferHeight \in Nat /\ mDqHeight \in Nat /\ mDqHeight <= mBufferHeight
         /\ mBufferHeight % 2 = 0
         /\ mBufferHeight * mBufferWidth \in 0 .. MaxLuma
         /\ y_size \in Nat /\ y_size <= MaxLuma
<1>1. /\ width \in Nat /\ width <= 37824
      /\ height \in Nat \ {0} /\ height <= 37824
      /\ mDqWidth \in Nat /\ mDqWidth <= 37824
      /\ mDqHeight \in Nat /\ mDqHeight <= 37824
  BY SizesAssumption, PicturesAssumption, MaxSizeAssumption DEF TypeOK
<1>2. /\ mBufferWidth \in Nat /\ mBufferWidth <= 37824 /\ mDqWidth <= mBufferWidth
      /\ mBufferHeight \in Nat /\ mBufferHeight <= 37824 /\ mDqHeight <= mBufferHeight
      /\ mBufferHeight % 2 = 0
  BY <1>1, AlignTo64 DEF TypeOK
<1>3. mBufferHeight * mBufferWidth \in Nat /\ mBufferHeight * mBufferWidth <= 37824 * 37824
  BY <1>2, ProductGrows
<1>4. y_size \in Nat /\ y_size <= MaxLuma
  BY LargestLuma DEF TypeOK
<1>5. mBufferHeight * mBufferWidth \in 0 .. MaxLuma
  BY <1>2, <1>3, LargestLuma
<1>6. QED
  BY <1>1, <1>2, <1>4, <1>5

\* The rows of a plane start one stride after another, the last one a stride
\* before its end.
LEMMA RowStart ==
  ASSUME NEW n \in Nat, NEW rows \in Nat, NEW stride \in Nat, n < rows
  PROVE  n * stride \in Nat /\ n * stride + stride <= rows * stride
<1>1. n * stride + stride = (n + 1) * stride
  BY SMTT(30)
<1>2. (n + 1) * stride <= rows * stride
  BY ProductGrows
<1>3. n * stride \in Nat
  BY ProductGrows
<1>4. QED
  BY <1>1, <1>2, <1>3

\* The rows of a loop are no more than those of the picture.
LEMMA RowCount ==
  ASSUME TypeOK
  PROVE  Rows \in Nat /\ Rows <= height
<1>1. Rows = height \/ Rows = height \div 2
  BY Zenon DEF Rows
<1>2. height \in Nat /\ height \div 2 \in Nat /\ height \div 2 <= height
  BY Sizes
<1>3. QED
  BY <1>1, <1>2

\* Whatever the format is, the row a loop reads is a piece, and its offset is far
\* from the end of a word.
LEMMA RowIsPiece ==
  ASSUME TypeOK, loop \in Loops, i < Rows
  PROVE  Row \in Pieces /\ Row.at + Row.len <= MaxInt
<1> DEFINE luma == loop \in {"yuv_y", "crc_y"}
<1>1. /\ width \in Nat /\ width <= 37824 /\ height \in Nat /\ height <= 37824
      /\ mBufferWidth \in Nat /\ mBufferWidth <= 37824
      /\ y_size \in Nat /\ y_size <= MaxLuma /\ i \in Nat
  BY Sizes DEF TypeOK
<1>2. /\ luma => Rows = height /\ PlaneStart = 0
      /\ ~luma => Rows = height \div 2 /\ PlaneStart = y_size
  BY Zenon DEF Rows, PlaneStart
<1>3. luma => i <= 37824
  BY <1>1, <1>2
<1>4. ~luma => i <= 18912
  BY <1>1, <1>2
<1>5. i * mBufferWidth \in Nat
  BY <1>1, ProductGrows
<1>6. luma => i * mBufferWidth <= 37824 * 37824
  BY <1>1, <1>3, ProductGrows
<1>7. ~luma => i * mBufferWidth <= 18912 * 37824
  BY <1>1, <1>4, ProductGrows
<1> DEFINE at == PlaneStart + i * mBufferWidth
<1>8. at \in Nat /\ at + width <= MaxInt
  BY <1>1, <1>2, <1>5, <1>6, <1>7, SMTT(60) DEF MaxInt, MaxLuma
<1>9. Row = [at |-> at, len |-> width]
  BY DEF Row
<1> HIDE DEF at, luma
<1>10. QED
  BY <1>1, <1>8, <1>9 DEF Pieces

\* The row a loop reads lies in its plane when the picture fits the format and
\* the memory.
LEMMA RowFits ==
  ASSUME TypeOK, FormatInv, Fits, loop \in Loops, i < Rows
  PROVE  Row.at + Row.len <= IF loop \in {"yuv_y", "crc_y"} THEN y_size
                             ELSE allocUvmBuffer(mBufferWidth, mBufferHeight)
<1> DEFINE W == mBufferWidth
           H == mBufferHeight
<1>1. /\ width \in Nat /\ height \in Nat
      /\ W \in Nat /\ width <= W /\ H \in Nat /\ height <= H /\ H % 2 = 0
      /\ y_size = H * W /\ y_size \in Nat
      /\ i \in Nat
  <2>1. loop # "called" /\ i \in Nat
    BY DEF TypeOK, Loops
  <2>2. /\ width \in Nat /\ height \in Nat /\ W \in Nat /\ H \in Nat
        /\ mDqWidth \in Nat /\ mDqHeight \in Nat
        /\ mDqWidth <= W /\ mDqHeight <= H /\ H % 2 = 0 /\ y_size \in Nat
    BY Sizes
  <2>3. /\ buf = gen /\ width <= mDqWidth /\ height <= mDqHeight
    BY Zenon DEF Fits
  <2>4. width <= W /\ height <= H
    <3> HIDE DEF W, H
    <3>1. QED
      BY <2>2, <2>3
  <2>5. y_size = H * W
    BY <2>1, <2>3, Zenon DEF FormatInv
  <2>6. QED
    BY <2>1, <2>2, <2>4, <2>5, Zenon
<1>2. Row.at = PlaneStart + i * W /\ Row.len = width
  BY DEF Row
<1> HIDE DEF W, H
<1>3. CASE loop \in {"yuv_y", "crc_y"}
  <2>1. Rows = height /\ PlaneStart = 0
    BY <1>3, Zenon DEF Rows, PlaneStart
  <2>2. i < H
    BY <1>1, <2>1
  <2>3. i * W \in Nat /\ i * W + W <= H * W
    BY <1>1, <2>2, RowStart
  <2>4. Row.at + Row.len <= y_size
    BY <1>1, <1>2, <2>1, <2>3
  <2>5. QED
    BY <1>3, <2>4, Zenon
<1>4. CASE loop \notin {"yuv_y", "crc_y"}
  <2>1. PICK half \in Nat : H = 2 * half
    <3>1. H \div 2 \in Nat /\ H = 2 * (H \div 2)
      BY <1>1
    <3>2. QED
      BY <3>1
  <2>2. i < half /\ PlaneStart = y_size
    <3>1. Rows = height \div 2 /\ PlaneStart = y_size
      BY <1>4, Zenon DEF Rows, PlaneStart
    <3>2. height \div 2 \in Nat /\ height \div 2 <= half
      BY <1>1, <2>1
    <3>3. QED
      BY <1>1, <3>1, <3>2
  <2>3. i * W \in Nat /\ i * W + W <= half * W
    BY <1>1, <2>2, RowStart
  <2>4. half * W \in Nat /\ H * W = 2 * (half * W) /\ W * H = 2 * (half * W)
    <3>1. half * W \in Nat
      BY <1>1, ProductGrows
    <3>2. H * W = 2 * (half * W) /\ W * H = 2 * (half * W)
      BY <1>1, <2>1, SMTT(30)
    <3>3. QED
      BY <3>1, <3>2
  <2>5. allocUvmBuffer(W, H) = 3 * (half * W)
    BY <2>4 DEF allocUvmBuffer
  <2>6. Row.at + Row.len <= allocUvmBuffer(W, H)
    BY <1>1, <1>2, <2>2, <2>3, <2>4, <2>5
  <2>7. QED
    BY <1>4, <2>6, Zenon DEF W, H
<1>5. QED
  BY <1>3, <1>4, Zenon

(***************************************************************************)
(* The planes.                                                             *)
(***************************************************************************)

\* A plane is a sequence of pieces, one for each of its rows.
LEMMA PlaneIsSeq ==
  ASSUME NEW start \in Nat, NEW n \in Nat, mBufferWidth \in Nat, width \in Nat
  PROVE  /\ Plane(start, n) \in Seq(Pieces)
         /\ Len(Plane(start, n)) = n
<1>1. \A k \in 1 .. n : (k - 1) * mBufferWidth \in Nat
  BY ProductGrows
<1>2. \A k \in 1 .. n : [at |-> start + (k - 1) * mBufferWidth, len |-> width] \in Pieces
  BY <1>1 DEF Pieces
<1>3. Plane(start, n) \in [1 .. n -> Pieces]
  BY <1>2, Zenon DEF Plane
<1>4. QED
  BY <1>3

\* A plane of one row more, and one of none.
LEMMA PlaneGrows ==
  ASSUME NEW start \in Nat, NEW n \in Nat, mBufferWidth \in Nat, width \in Nat
  PROVE  /\ Plane(start, n + 1) = Append(Plane(start, n), [at |-> start + n * mBufferWidth, len |-> width])
         /\ Plane(start, 0) = <<>>
<1> DEFINE At(k) == [at |-> start + (k - 1) * mBufferWidth, len |-> width]
           row == [at |-> start + n * mBufferWidth, len |-> width]
<1>1. /\ Plane(start, n) \in Seq(Pieces) /\ Len(Plane(start, n)) = n
      /\ Plane(start, n + 1) \in Seq(Pieces) /\ Len(Plane(start, n + 1)) = n + 1
      /\ Plane(start, 0) \in Seq(Pieces) /\ Len(Plane(start, 0)) = 0
  BY PlaneIsSeq
<1>2. row \in Pieces /\ row = At(n + 1)
  <2>1. n * mBufferWidth \in Nat
    BY ProductGrows
  <2>2. QED
    BY <2>1 DEF Pieces
<1>3. /\ \A k \in 1 .. n : Plane(start, n)[k] = At(k)
      /\ \A k \in 1 .. n + 1 : Plane(start, n + 1)[k] = At(k)
  BY DEF Plane
<1> HIDE DEF At, row
<1>4. /\ Append(Plane(start, n), row) \in Seq(Pieces) /\ Len(Append(Plane(start, n), row)) = n + 1
      /\ \A k \in 1 .. n + 1 : Append(Plane(start, n), row)[k] = At(k)
  <2>1. /\ Append(Plane(start, n), row) \in Seq(Pieces)
        /\ Len(Append(Plane(start, n), row)) = n + 1
    BY <1>1, <1>2, AppendProperties
  <2>2. /\ \A k \in 1 .. n : Append(Plane(start, n), row)[k] = Plane(start, n)[k]
        /\ Append(Plane(start, n), row)[n + 1] = row
    BY <1>1, <1>2, AppendProperties
  <2>3. \A k \in 1 .. n + 1 : k \in 1 .. n \/ k = n + 1
    OBVIOUS
  <2>4. QED
    BY <1>2, <1>3, <2>1, <2>2, <2>3
<1>5. Plane(start, n + 1) = Append(Plane(start, n), row)
  BY <1>1, <1>3, <1>4, SeqEqual
<1>6. Plane(start, 0) = <<>>
  BY <1>1
<1>7. QED
  BY <1>5, <1>6 DEF row

\* So does a plane that lies behind another one.
LEMMA BehindGrows ==
  ASSUME NEW start \in Nat, NEW m \in Nat, NEW n \in Nat, mBufferWidth \in Nat, width \in Nat
  PROVE  Plane(0, m) \o Plane(start, n + 1) =
           Append(Plane(0, m) \o Plane(start, n), [at |-> start + n * mBufferWidth, len |-> width])
<1> DEFINE a == Plane(0, m)
           b == Plane(start, n)
           c == Plane(start, n + 1)
           row == [at |-> start + n * mBufferWidth, len |-> width]
<1>1. /\ a \in Seq(Pieces) /\ Len(a) = m
      /\ b \in Seq(Pieces) /\ Len(b) = n
      /\ c \in Seq(Pieces) /\ Len(c) = n + 1
  BY PlaneIsSeq
<1>2. row \in Pieces
  <2>1. n * mBufferWidth \in Nat
    BY ProductGrows
  <2>2. QED
    BY <2>1 DEF Pieces
<1>3. c = Append(b, row)
  BY PlaneGrows
<1> HIDE DEF a, b, c, row
<1>4. /\ \A k \in 1 .. n : c[k] = b[k]
      /\ c[n + 1] = row
  BY <1>1, <1>2, <1>3, AppendProperties
<1> DEFINE l == a \o c
           r == Append(a \o b, row)
<1>5. /\ l \in Seq(Pieces) /\ Len(l) = m + n + 1
      /\ r \in Seq(Pieces) /\ Len(r) = m + n + 1
  BY <1>1, <1>2
<1>6. \A k \in 1 .. m + n + 1 : l[k] = IF k <= m THEN a[k] ELSE c[k - m]
  BY <1>1, SMTT(30)
<1>7. \A k \in 1 .. m + n + 1 :
        r[k] = IF k <= m THEN a[k] ELSE IF k <= m + n THEN b[k - m] ELSE row
  BY <1>1, <1>2, SMTT(30)
<1> HIDE DEF l, r
<1>8. \A k \in 1 .. m + n + 1 : l[k] = r[k]
  BY <1>4, <1>6, <1>7
<1>9. l = r
  BY <1>5, <1>8, SeqEqual
<1>10. QED
  BY <1>9 DEF l, r, a, b, c, row

(***************************************************************************)
(* The inductive invariant.                                                *)
(***************************************************************************)

DumpInv == TypeOK /\ DataInv

\* While the stride and the picture stay, the planes stay what they are.
LEMMA SizeKept ==
  ASSUME UNCHANGED <<mBufferWidth, width, height, y_size>>
  PROVE  /\ Whole' = Whole
         /\ Plane(0, height)' = Plane(0, height)
         /\ Plane(y_size, height \div 2)' = Plane(y_size, height \div 2)
         /\ Plane(0, i)' = Plane(0, i')
         /\ Plane(y_size, i)' = Plane(y_size, i')
  BY DEF Plane, Whole

\* The planes of a picture are sequences, and empty ones before their first row.
LEMMA Planes ==
  ASSUME TypeOK
  PROVE  /\ \A n \in Nat : Plane(0, n) \in Seq(Pieces) /\ Plane(y_size, n) \in Seq(Pieces)
         /\ Plane(0, 0) = <<>> /\ Plane(y_size, 0) = <<>>
         /\ \A n \in Nat : Plane(0, n) \o <<>> = Plane(0, n)
         /\ height \in Nat /\ height \div 2 \in Nat /\ y_size \in Nat
         /\ mBufferWidth \in Nat /\ width \in Nat
<1>1. /\ height \in Nat /\ height \div 2 \in Nat /\ y_size \in Nat
      /\ mBufferWidth \in Nat /\ width \in Nat
  BY Sizes
<1>2. \A n \in Nat : Plane(0, n) \in Seq(Pieces) /\ Plane(y_size, n) \in Seq(Pieces)
  BY <1>1, PlaneIsSeq
<1>3. Plane(0, 0) = <<>> /\ Plane(y_size, 0) = <<>>
  BY <1>1, PlaneGrows
<1>4. \A n \in Nat : Plane(0, n) \o <<>> = Plane(0, n)
  BY <1>2, ConcatEmptySeq
<1>5. QED
  BY <1>1, <1>2, <1>3, <1>4

LEMMA InitHolds == Init => DumpInv
<1> SUFFICES ASSUME Init PROVE DumpInv
  OBVIOUS
<1>1. height \in Nat
  BY PicturesAssumption DEF Init
<1>2. TypeOK
  BY <1>1, LargestLuma DEF Init, TypeOK
<1>3. DataInv
  BY DEF Init, DataInv, FormatInv, LengthInv, Loops
<1>4. QED
  BY <1>2, <1>3 DEF DumpInv

\* The format changes beside the dump.
LEMMA SetWidthHolds == DumpInv /\ SetWidth => DumpInv'
<1> SUFFICES ASSUME TypeOK, DataInv, SetWidth PROVE DumpInv'
  BY DEF DumpInv
<1>1. /\ format' = "width" /\ gen' = gen + 1
      /\ mDqWidth' \in Widths /\ mBufferWidth' = ALIGN(mDqWidth', 64)
      /\ UNCHANGED <<mDqHeight, mBufferHeight, buf, width, height, files, y_size, entered>>
      /\ UNCHANGED <<loop, i, yuv, crc_y, crc_uv, mDumpNum>>
  BY DEF SetWidth, pictureVars, entryVars, readVars
<1>2. TypeOK'
  BY <1>1 DEF TypeOK
<1>3. gen \in Nat /\ entered \in 0 .. gen /\ buf \in 1 .. gen
  BY DEF TypeOK
<1>4. entered' # gen' /\ buf' # gen'
  BY <1>1, <1>3
<1>5. LengthInv'
  BY <1>1 DEF DataInv, LengthInv, Rows
<1>6. QED
  BY <1>1, <1>2, <1>4, <1>5 DEF DumpInv, DataInv, FormatInv

LEMMA SetHeightHolds == DumpInv /\ SetHeight => DumpInv'
<1> SUFFICES ASSUME TypeOK, DataInv, SetHeight PROVE DumpInv'
  BY DEF DumpInv
<1>1. /\ format = "width" /\ format' = "idle"
      /\ mDqHeight' \in Heights /\ mBufferHeight' = ALIGN(mDqHeight', 64)
      /\ UNCHANGED <<mDqWidth, mBufferWidth, gen, buf, width, height, files, y_size, entered>>
      /\ UNCHANGED <<loop, i, yuv, crc_y, crc_uv, mDumpNum>>
  BY DEF SetHeight, pictureVars, entryVars, readVars
<1>2. TypeOK'
  BY <1>1 DEF TypeOK
<1>3. buf' # gen'
  BY <1>1 DEF DataInv, FormatInv
<1>4. LengthInv'
  BY <1>1 DEF DataInv, LengthInv, Rows
<1>5. RowsInv' <=> RowsInv
  BY <1>1, SizeKept DEF RowsInv
<1>6. QED
  BY <1>1, <1>2, <1>3, <1>4, <1>5 DEF DumpInv, DataInv, FormatInv

LEMMA EnterHolds == DumpInv /\ Enter => DumpInv'
<1> SUFFICES ASSUME TypeOK, DataInv, Enter PROVE DumpInv'
  BY DEF DumpInv
<1>1. /\ y_size' = mBufferHeight * mBufferWidth /\ entered' = gen /\ yuv' = <<>>
      /\ UNCHANGED <<mDqWidth, mDqHeight, mBufferWidth, mBufferHeight, gen, format>>
      /\ UNCHANGED <<buf, width, height, files, i, crc_y, crc_uv, mDumpNum>>
      /\ loop = "called"
  BY DEF Enter, formatVars, pictureVars
<1>2. (loop' = "count" /\ files' = "none") \/ loop' = "yuv_y"
  BY DEF Enter, pictureVars
<1>3. TypeOK'
  <2>1. y_size' \in 0 .. MaxLuma
    BY <1>1, Sizes
  <2>2. entered' \in 0 .. gen'
    BY <1>1 DEF TypeOK
  <2>3. loop' \in Loops \cup {"called", "line", "count", "dumped"}
    BY <1>2 DEF Loops
  <2>4. QED
    BY <1>1, <2>1, <2>2, <2>3 DEF TypeOK
<1>4. i = 0 /\ crc_y' = <<>> /\ crc_uv' = <<>>
  BY <1>1 DEF DataInv, LengthInv, Loops
<1>5. Plane(0, i)' = <<>>
  BY <1>1, <1>3, <1>4, Planes DEF Plane
<1>6. Rows' = height \/ loop' = "count"
  BY <1>1, <1>2 DEF Rows
<1>7. LengthInv'
  <2>1. height \in Nat /\ Len(yuv') = 0
    BY <1>1, Planes
  <2>2. i' = 0 /\ files' = files /\ (loop' = "yuv_y" => i' <= Rows')
    BY <1>1, <1>4, <1>6, <2>1
  <2>3. QED
    BY <1>2, <2>1, <2>2 DEF LengthInv, Loops
<1>8. RowsInv'
  BY <1>1, <1>2, <1>5 DEF RowsInv
<1>9. FormatInv'
  BY <1>1 DEF DataInv, FormatInv
<1>10. QED
  BY <1>2, <1>3, <1>4, <1>7, <1>8, <1>9 DEF DumpInv, DataInv

\* What the steps of dumpData() behind its entry have in common.
LEMMA FormatKept ==
  ASSUME FormatInv, UNCHANGED <<formatVars, pictureVars, entryVars>>, loop # "called"
  PROVE  FormatInv'
  BY DEF FormatInv, formatVars, pictureVars, entryVars

LEMMA ReadRowHolds == DumpInv /\ ReadRow => DumpInv'
<1> SUFFICES ASSUME TypeOK, DataInv, ReadRow PROVE DumpInv'
  BY DEF DumpInv
<1>1. loop \in Loops /\ loop # "called" /\ i < Rows /\ Row \in Pieces
  BY RowIsPiece DEF ReadRow, Loops
<1>2. /\ i \in Nat /\ i' = i + 1
      /\ UNCHANGED <<mDqWidth, mDqHeight, mBufferWidth, mBufferHeight, gen, format>>
      /\ UNCHANGED <<buf, width, height, files, y_size, entered, loop, mDumpNum>>
  BY DEF ReadRow, TypeOK, formatVars, pictureVars, entryVars
<1>3. i' <= Rows /\ Rows <= height /\ Rows \in Nat /\ Rows' = Rows
  <2>1. Rows' = Rows
    BY <1>2 DEF Rows
  <2>2. QED
    BY <1>1, <1>2, <2>1, RowCount
<1>4. TypeOK'
  <2>1. i' \in 0 .. height'
    BY <1>2, <1>3, Planes
  <2>2. yuv' \in Seq(Pieces) /\ crc_y' \in Seq(Pieces) /\ crc_uv' \in Seq(Pieces)
    <3>1. yuv \in Seq(Pieces) /\ crc_y \in Seq(Pieces) /\ crc_uv \in Seq(Pieces)
      BY DEF TypeOK
    <3>2. /\ yuv' = Append(yuv, Row) \/ yuv' = yuv
          /\ crc_y' = Append(crc_y, Row) \/ crc_y' = crc_y
          /\ crc_uv' = Append(crc_uv, Row) \/ crc_uv' = crc_uv
      BY DEF ReadRow
    <3>3. \A s \in Seq(Pieces) : Append(s, Row) \in Seq(Pieces)
      BY <1>1, AppendProperties
    <3>4. QED
      BY <3>1, <3>2, <3>3, Zenon
  <2>3. QED
    BY <1>2, <2>1, <2>2 DEF TypeOK
<1>5. FormatInv'
  BY <1>1, FormatKept DEF ReadRow, DataInv
<1>6. LengthInv'
  <2>1. yuv \in Seq(Pieces)
    BY DEF TypeOK
  <2>2. Len(Append(yuv, Row)) = Len(yuv) + 1
    BY <1>1, <2>1, AppendProperties
  <2>3. yuv' = IF loop \in {"yuv_y", "yuv_uv"} THEN Append(yuv, Row) ELSE yuv
    BY DEF ReadRow
  <2>4. height \in Nat
    BY Planes
  <2>5. QED
    BY <1>1, <1>2, <1>3, <2>2, <2>3, <2>4 DEF DataInv, LengthInv, Loops
<1>7. loop' \in {"called", "yuv_y", "yuv_uv"} => crc_y' = <<>> /\ crc_uv' = <<>>
  BY <1>1, <1>2 DEF ReadRow, DataInv
<1>8. ASSUME entered = gen PROVE RowsInv'
  <2>1. RowsInv
    BY <1>1, <1>8 DEF DataInv
  <2>2. CASE loop = "yuv_y"
    <3>1. yuv' = Append(Plane(0, i), Row)
      BY <2>1, <2>2 DEF ReadRow, RowsInv
    <3>2. Row = [at |-> 0 + i * mBufferWidth, len |-> width]
      BY <2>2 DEF Row, PlaneStart
    <3>3. yuv' = Plane(0, i')
      BY <1>2, <3>1, <3>2, PlaneGrows, Planes
    <3>4. QED
      BY <1>2, <2>2, <3>3, SizeKept DEF RowsInv
  <2>3. CASE loop = "yuv_uv"
    <3>1. yuv' = Append(Plane(0, height) \o Plane(y_size, i), Row)
      BY <2>1, <2>3 DEF ReadRow, RowsInv
    <3>2. Row = [at |-> y_size + i * mBufferWidth, len |-> width]
      BY <2>3 DEF Row, PlaneStart
    <3>3. yuv' = Plane(0, height) \o Plane(y_size, i')
      BY <1>1, <1>2, <3>1, <3>2, BehindGrows, Planes
    <3>4. QED
      BY <1>2, <2>3, <3>3, SizeKept DEF RowsInv
  <2>4. CASE loop = "crc_y"
    <3>1. yuv' = Whole /\ crc_y' = Append(Plane(0, i), Row) /\ crc_uv' = <<>>
      BY <2>1, <2>4 DEF ReadRow, RowsInv
    <3>2. Row = [at |-> 0 + i * mBufferWidth, len |-> width]
      BY <2>4 DEF Row, PlaneStart
    <3>3. crc_y' = Plane(0, i')
      BY <1>2, <3>1, <3>2, PlaneGrows, Planes
    <3>4. QED
      BY <1>2, <2>4, <3>1, <3>3, SizeKept DEF RowsInv
  <2>5. CASE loop = "crc_uv"
    <3>1. yuv' = Whole /\ crc_y' = Plane(0, height) /\ crc_uv' = Append(Plane(y_size, i), Row)
      BY <2>1, <2>5 DEF ReadRow, RowsInv
    <3>2. Row = [at |-> y_size + i * mBufferWidth, len |-> width]
      BY <2>5 DEF Row, PlaneStart
    <3>3. crc_uv' = Plane(y_size, i')
      BY <1>2, <3>1, <3>2, PlaneGrows, Planes
    <3>4. QED
      BY <1>2, <2>5, <3>1, <3>3, SizeKept DEF RowsInv
  <2>6. QED
    BY <1>1, <2>2, <2>3, <2>4, <2>5 DEF Loops
<1>9. QED
  BY <1>2, <1>4, <1>5, <1>6, <1>7, <1>8 DEF DumpInv, DataInv

LEMMA EndLoopHolds == DumpInv /\ EndLoop => DumpInv'
<1> SUFFICES ASSUME TypeOK, DataInv, EndLoop PROVE DumpInv'
  BY DEF DumpInv
<1>1. /\ i' = 0 /\ i >= Rows
      /\ UNCHANGED <<mDqWidth, mDqHeight, mBufferWidth, mBufferHeight, gen, format>>
      /\ UNCHANGED <<buf, width, height, files, y_size, entered, yuv, crc_y, crc_uv, mDumpNum>>
  BY DEF EndLoop, FirstRow, formatVars, pictureVars, entryVars
<1>2. \/ loop = "yuv_y" /\ loop' = "yuv_uv"
      \/ loop = "yuv_uv" /\ (loop' = "crc_y" \/ loop' = "count")
      \/ loop = "crc_y" /\ loop' = "crc_uv"
      \/ loop = "crc_uv" /\ loop' = "line"
  <2>1. PICK step \in Follows : loop = step[1] /\ loop' = step[2]
    BY DEF EndLoop
  <2>2. \/ step = <<"yuv_y", "yuv_uv">>
        \/ step = <<"yuv_uv", "crc_y">> \/ step = <<"yuv_uv", "count">>
        \/ step = <<"crc_y", "crc_uv">>
        \/ step = <<"crc_uv", "line">>
    BY Zenon DEF Follows
  <2>3. QED
    BY <2>1, <2>2
<1>3. i \in Nat /\ i = Rows /\ 0 <= Rows' /\ loop \in Loops
  <2>1. i \in Nat /\ Rows \in Nat /\ Rows' \in Nat
    BY <1>1, Planes DEF Rows, TypeOK
  <2>2. QED
    BY <1>1, <1>2, <2>1 DEF DataInv, LengthInv, Loops
<1>4. TypeOK'
  BY <1>1, <1>2, Planes DEF TypeOK, Loops
<1>5. Plane(0, i)' = <<>> /\ Plane(y_size, i)' = <<>>
  BY <1>1, SizeKept, Planes
<1>6. FormatInv'
  BY <1>2, FormatKept DEF EndLoop, DataInv
<1>7. LengthInv'
  <2>1. /\ i' = 0 /\ (loop' \in Loops => i' <= Rows')
        /\ yuv' = yuv /\ height' = height /\ files' = files
    BY <1>1, <1>3
  <2>2. loop = "yuv_y" => Len(yuv) = height
    BY <1>3 DEF DataInv, LengthInv, Rows
  <2>3. loop = "yuv_uv" => Len(yuv) = height + height \div 2
    BY <1>3 DEF DataInv, LengthInv, Rows
  <2>4. loop \in {"crc_y", "crc_uv"} => Len(yuv) = height + height \div 2
    BY DEF DataInv, LengthInv
  <2>5. height \in Nat
    BY Planes
  <2>6. QED
    BY <1>2, <2>1, <2>2, <2>3, <2>4, <2>5 DEF LengthInv, Loops
<1>8. loop' \in {"called", "yuv_y", "yuv_uv"} => crc_y' = <<>> /\ crc_uv' = <<>>
  BY <1>1, <1>2 DEF DataInv
<1>9. ASSUME entered = gen PROVE RowsInv'
  <2>1. RowsInv
    BY <1>2, <1>9 DEF DataInv
  <2>2. CASE loop = "yuv_y" /\ loop' = "yuv_uv"
    <3>1. yuv = Plane(0, height)
      BY <1>3, <2>1, <2>2 DEF RowsInv, Rows
    <3>2. yuv' = Plane(0, height)' \o Plane(y_size, i)'
      BY <1>1, <1>5, <3>1, SizeKept, Planes
    <3>3. QED
      BY <2>2, <3>2 DEF RowsInv
  <2>3. CASE loop = "yuv_uv" /\ (loop' = "crc_y" \/ loop' = "count")
    <3>1. yuv = Whole /\ crc_y = <<>> /\ crc_uv = <<>>
      BY <1>3, <2>1, <2>3 DEF DataInv, RowsInv, Rows, Whole
    <3>2. QED
      BY <1>1, <1>5, <2>3, <3>1, SizeKept DEF RowsInv
  <2>4. CASE loop = "crc_y" /\ loop' = "crc_uv"
    <3>1. yuv = Whole /\ crc_y = Plane(0, height) /\ crc_uv = <<>>
      BY <1>3, <2>1, <2>4 DEF RowsInv, Rows
    <3>2. QED
      BY <1>1, <1>5, <2>4, <3>1, SizeKept DEF RowsInv
  <2>5. CASE loop = "crc_uv" /\ loop' = "line"
    <3>1. yuv = Whole /\ crc_y = Plane(0, height) /\ crc_uv = Plane(y_size, height \div 2)
      BY <1>3, <2>1, <2>5 DEF RowsInv, Rows
    <3>2. QED
      BY <1>1, <2>5, <3>1, SizeKept DEF RowsInv
  <2>6. QED
    BY <1>2, <2>2, <2>3, <2>4, <2>5
<1>10. QED
  BY <1>1, <1>4, <1>6, <1>7, <1>8, <1>9 DEF DumpInv, DataInv

\* What is dumped is kept until the next picture.
LEMMA RestHolds == DumpInv /\ (WriteLine \/ Count \/ NextPicture \/ UNCHANGED vars) => DumpInv'
<1> SUFFICES ASSUME TypeOK, DataInv PROVE WriteLine \/ Count \/ NextPicture \/ UNCHANGED vars => DumpInv'
  BY DEF DumpInv
<1>1. ASSUME WriteLine \/ Count PROVE DumpInv'
  <2>1. /\ UNCHANGED <<mDqWidth, mDqHeight, mBufferWidth, mBufferHeight, gen, format>>
        /\ UNCHANGED <<buf, width, height, files, y_size, entered, i, yuv, crc_y, crc_uv>>
    BY <1>1 DEF WriteLine, Count, formatVars, pictureVars, entryVars
  <2>2. \/ loop = "line" /\ loop' = "count" /\ mDumpNum' = mDumpNum
        \/ loop = "count" /\ loop' = "dumped" /\ mDumpNum' = mDumpNum + 1
    BY <1>1 DEF WriteLine, Count
  <2>3. TypeOK'
    BY <2>1, <2>2 DEF TypeOK
  <2>4. FormatInv'
    BY <1>1, <2>2, FormatKept DEF WriteLine, Count, DataInv
  <2>5. LengthInv'
    BY <2>1, <2>2 DEF DataInv, LengthInv, Loops
  <2>6. ASSUME entered = gen PROVE RowsInv'
    <3>1. RowsInv
      BY <2>2, <2>6 DEF DataInv
    <3>2. QED
      BY <2>1, <2>2, <3>1, SizeKept DEF RowsInv
  <2>7. QED
    BY <2>1, <2>2, <2>3, <2>4, <2>5, <2>6 DEF DumpInv, DataInv
<1>2. ASSUME NextPicture PROVE DumpInv'
  <2>1. /\ crc_y' = <<>> /\ crc_uv' = <<>> /\ loop = "dumped" /\ loop' = "called"
        /\ width' \in Widths /\ height' \in PictureHeights
        /\ buf' \in IF format = "idle" THEN 1 .. gen ELSE 1 .. gen - 1
        /\ UNCHANGED <<mDqWidth, mDqHeight, mBufferWidth, mBufferHeight, gen, format>>
        /\ UNCHANGED <<files, y_size, entered, i, yuv, mDumpNum>>
    BY <1>2 DEF NextPicture, formatVars, entryVars
  <2>2. i = 0
    BY <2>1 DEF DataInv, LengthInv, Loops
  <2>3. height' \in Nat
    BY <2>1, PicturesAssumption
  <2>4. gen \in Nat /\ buf' \in 1 .. gen /\ (buf' = gen => format = "idle")
    <3>1. gen \in Nat
      BY DEF TypeOK
    <3>2. QED
      BY <2>1, <3>1
  <2>5. TypeOK'
    BY <2>1, <2>2, <2>3, <2>4 DEF TypeOK
  <2>6. QED
    BY <2>1, <2>2, <2>4, <2>5 DEF DumpInv, DataInv, FormatInv, LengthInv, Loops
<1>3. ASSUME UNCHANGED vars PROVE DumpInv'
  <2>1. /\ UNCHANGED <<mDqWidth, mDqHeight, mBufferWidth, mBufferHeight, gen, format>>
        /\ UNCHANGED <<buf, width, height, files, y_size, entered>>
        /\ UNCHANGED <<loop, i, yuv, crc_y, crc_uv, mDumpNum>>
    BY <1>3 DEF vars, formatVars, pictureVars, entryVars, readVars
  <2>2. TypeOK'
    BY <2>1 DEF TypeOK
  <2>3. FormatInv' /\ LengthInv'
    BY <2>1 DEF DataInv, FormatInv, LengthInv, Rows
  <2>4. RowsInv' <=> RowsInv
    BY <2>1, SizeKept DEF RowsInv
  <2>5. QED
    BY <2>1, <2>2, <2>3, <2>4 DEF DumpInv, DataInv
<1>4. QED
  BY <1>1, <1>2, <1>3

\* The inductive invariant holds in every state.
THEOREM DumpInvariant == Spec => []DumpInv
<1>1. DumpInv /\ [Next]_vars => DumpInv'
  BY SetWidthHolds, SetHeightHolds, EnterHolds, ReadRowHolds, EndLoopHolds, RestHolds
  DEF Next, Done
<1>2. QED
  BY <1>1, InitHolds, PTL DEF Spec

(***************************************************************************)
(* The theorems.                                                           *)
(***************************************************************************)

\* Every variable has its type.
THEOREM TypeCorrect == Spec => []TypeOK
<1>1. DumpInv => TypeOK
  BY DEF DumpInv
<1>2. QED
  BY <1>1, DumpInvariant, PTL

\* For formats and pictures of every size up to MaxSize, no row that dumpData()
\* reads leaves its plane of the memory, unless the picture is larger than the
\* format or another format was begun; and no offset leaves 32 bits in any case.
THEOREM NoRowOutside == Spec => []RowsInside
<1>1. ASSUME DumpInv, loop \in Loops, i < Rows
      PROVE  Row.at + Row.len <= MaxInt
  BY <1>1, RowIsPiece DEF DumpInv
<1>2. ASSUME DumpInv, loop \in Loops, i < Rows, Fits
      PROVE  Row.at + Row.len <= IF loop \in {"yuv_y", "crc_y"} THEN y_size
                                 ELSE allocUvmBuffer(mBufferWidth, mBufferHeight)
  BY <1>2, RowFits DEF DumpInv, DataInv
<1>3. DumpInv => RowsInside
  BY <1>1, <1>2 DEF RowsInside
<1>4. QED
  BY <1>3, DumpInvariant, PTL

\* Whatever the sizes, the loops that sum a picture read the rows that the loops
\* that write it have written, in their order, unless a format is begun meanwhile.
THEOREM ChecksumsOfTheFile == Spec => []ChecksumsMatchFile
<1>1. DumpInv => ChecksumsMatchFile
  BY DEF DumpInv, DataInv, RowsInv, ChecksumsMatchFile, Whole
<1>2. QED
  BY <1>1, DumpInvariant, PTL

\* Every picture is dumped with all its rows, also when a format is set beside
\* it; they lie apart from each other when the picture fits the format.
THEOREM EveryPictureWhole == Spec => []DumpedWhole
<1>1. ASSUME TypeOK, FormatInv, Fits, loop # "called" PROVE
        /\ Len(Whole) = height + height \div 2
        /\ \A k \in 1 .. Len(Whole) - 1 : Whole[k].at + Whole[k].len <= Whole[k + 1].at
  <2> DEFINE half == height \div 2
             at(k) == IF k <= height THEN 0 + (k - 1) * mBufferWidth
                      ELSE y_size + ((k - height) - 1) * mBufferWidth
  <2>1. /\ height \in Nat /\ half \in Nat /\ y_size \in Nat
        /\ mBufferWidth \in Nat /\ width \in Nat
    BY <1>1, Planes
  <2>2. width <= mBufferWidth /\ mBufferHeight \in Nat /\ height <= mBufferHeight
        /\ y_size = mBufferHeight * mBufferWidth
    BY <1>1, Sizes DEF Fits, FormatInv
  <2>3. /\ Plane(0, height) \in Seq(Pieces) /\ Len(Plane(0, height)) = height
        /\ Plane(y_size, half) \in Seq(Pieces) /\ Len(Plane(y_size, half)) = half
    BY <2>1, PlaneIsSeq
  <2>4. Len(Whole) = height + half
    BY <2>1, <2>3 DEF Whole
  <2>5. ASSUME NEW k \in 1 .. height + half
        PROVE  Whole[k].at = at(k) /\ Whole[k].len = width
    <3>1. Whole[k] = IF k <= height THEN Plane(0, height)[k] ELSE Plane(y_size, half)[k - height]
      BY <2>1, <2>3 DEF Whole
    <3>2. k <= height => Plane(0, height)[k] = [at |-> 0 + (k - 1) * mBufferWidth, len |-> width]
      BY <2>1 DEF Plane
    <3>3. ~ k <= height =>
            Plane(y_size, half)[k - height] = [at |-> y_size + ((k - height) - 1) * mBufferWidth, len |-> width]
      BY <2>1 DEF Plane
    <3>4. QED
      BY <3>1, <3>2, <3>3
  <2>6. ASSUME NEW k \in 1 .. (height + half) - 1
        PROVE  at(k) + width <= at(k + 1)
    <3>1. CASE k < height
      <4>1. (k - 1) * mBufferWidth \in Nat /\ (k - 1) * mBufferWidth + mBufferWidth <= k * mBufferWidth
        BY <2>1, <3>1, RowStart
      <4>2. at(k) = (k - 1) * mBufferWidth /\ at(k + 1) = k * mBufferWidth
        BY <2>1, <3>1
      <4>3. QED
        BY <2>1, <2>2, <4>1, <4>2
    <3>2. CASE k = height
      <4>1. /\ (k - 1) * mBufferWidth \in Nat
            /\ (k - 1) * mBufferWidth + mBufferWidth <= mBufferHeight * mBufferWidth
        BY <2>1, <2>2, <3>2, RowStart
      <4>2. at(k) = (k - 1) * mBufferWidth /\ at(k + 1) = y_size
        BY <2>1, <3>2
      <4>3. QED
        BY <2>1, <2>2, <4>1, <4>2
    <3>3. CASE k > height
      <4>1. PICK m \in Nat : k = height + m + 1
        <5>1. k - height - 1 \in Nat /\ k = height + (k - height - 1) + 1
          BY <2>1, <3>3
        <5>2. QED
          BY <5>1
      <4>2. m * mBufferWidth \in Nat /\ m * mBufferWidth + mBufferWidth <= (m + 1) * mBufferWidth
        BY <2>1, <4>1, RowStart
      <4>3. at(k) = y_size + m * mBufferWidth /\ at(k + 1) = y_size + (m + 1) * mBufferWidth
        BY <2>1, <3>3, <4>1
      <4>4. QED
        BY <2>1, <2>2, <4>2, <4>3
    <3>4. QED
      BY <2>1, <3>1, <3>2, <3>3
  <2> HIDE DEF at
  <2>7. QED
    <3>1. ASSUME NEW k \in 1 .. Len(Whole) - 1
          PROVE  Whole[k].at + Whole[k].len <= Whole[k + 1].at
      BY <2>1, <2>4, <2>5, <2>6
    <3>2. QED
      BY <2>4, <3>1
<1>2. ASSUME DumpInv, loop \in {"count", "dumped"}, files # "none", Fits PROVE yuv = Whole
  BY <1>2 DEF DumpInv, DataInv, FormatInv, RowsInv, Fits
<1>3. ASSUME DumpInv, loop \in {"count", "dumped"}, files # "none"
      PROVE  Len(yuv) = height + height \div 2
  BY <1>3 DEF DumpInv, DataInv, LengthInv
<1>4. DumpInv => DumpedWhole
  BY <1>1, <1>2, <1>3 DEF DumpInv, DataInv, DumpedWhole
<1>5. QED
  BY <1>4, DumpInvariant, PTL
=============================================================================
