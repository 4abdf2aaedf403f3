------------------------------ MODULE DumpData ------------------------------
(***************************************************************************)
(* dumpData() of example/EsVideoDecPlayer: a picture is a luma plane and,  *)
(* behind it, a chroma plane of half the height, in rows that are padded   *)
(* to the stride.  Four loops read it: two write the rows to the YUV file, *)
(* and two add them to the checksums of the CRC file.                      *)
(***************************************************************************)
EXTENDS Integers, Sequences

CONSTANTS
  Widths, Heights,  \* the sizes a format may have
  PictureHeights,   \* the heights a picture may have
  MaxSize,          \* the greatest width and height a decoder reports
  MaxChanges,       \* bound: formats that are reported
  MaxDumps          \* bound: pictures that are dumped

ASSUME SizesAssumption   == Widths \subseteq 1 .. MaxSize /\ Heights \subseteq 1 .. MaxSize
ASSUME PicturesAssumption == PictureHeights \subseteq 1 .. MaxSize
ASSUME MaxSizeAssumption == MaxSize \in Nat /\ MaxSize <= 37824
ASSUME ChangesAssumption == MaxChanges \in Nat
ASSUME DumpsAssumption   == MaxDumps \in Nat

VARIABLES
  \* what onOutputFormatChanged() has left, and the format it is at
  mDqWidth, mDqHeight, mBufferWidth, mBufferHeight,
  gen,              \* the formats it has begun to set
  format,           \* "idle", or "width" when the width is set and the height is not
  \* the arguments and locals of dumpData()
  buf,              \* the format that allocated the memory it reads
  width, height,    \* the size of the picture
  y_size,           \* where the chroma begins
  entered,          \* gen when it was called
  loop,             \* where it is: in the loop over "yuv_y", ...
  i,                \* the row of the loop
  \* what it has done
  files,            \* the output files that are open: "none", "yuv" or "both"
  yuv,              \* the pieces of this picture in the YUV file: [at, len]
  crc_y, crc_uv,    \* the pieces in the two checksums
  mDumpNum          \* pictures dumped

formatVars == <<mDqWidth, mDqHeight, mBufferWidth, mBufferHeight, gen, format>>
pictureVars == <<buf, width, height, files>>
entryVars == <<y_size, entered>>
readVars == <<loop, i, yuv, crc_y, crc_uv, mDumpNum>>

vars == <<formatVars, pictureVars, entryVars, readVars>>

-----------------------------------------------------------------------------
(* The format.  The callback takes no lock that dumpData() holds, so that  *)
(* it may set one while a picture is read.                                 *)

RoundedDown(x, align) == x - (x % align)
ALIGN(x, align) == (x + align - 1) - ((x + align - 1) % align)

SetWidth ==
  /\ format = "idle"
  /\ gen < MaxChanges
  /\ format' = "width"
  /\ gen' = gen + 1
  /\ mDqWidth' \in Widths
  /\ mBufferWidth' = ALIGN(mDqWidth', 64)
  /\ UNCHANGED <<mDqHeight, mBufferHeight, pictureVars, entryVars, readVars>>

SetHeight ==
  /\ format = "width"
  /\ format' = "idle"
  /\ mDqHeight' \in Heights
  /\ mBufferHeight' = ALIGN(mDqHeight', 64)
  /\ UNCHANGED <<mDqWidth, mBufferWidth, gen, pictureVars, entryVars, readVars>>

\* The memory that a buffer of some size gets: a 4:2:0 picture.
allocUvmBuffer(w, h) == (w * h * 3) \div 2

-----------------------------------------------------------------------------
(* The dump.                                                               *)

Loops == {"yuv_y", "yuv_uv", "crc_y", "crc_uv"}

Init ==
  /\ mDqWidth \in Widths /\ mBufferWidth = ALIGN(mDqWidth, 64)
  /\ mDqHeight \in Heights /\ mBufferHeight = ALIGN(mDqHeight, 64)
  /\ gen = 1 /\ format = "idle"
  /\ buf = 1
  /\ width \in Widths /\ height \in PictureHeights
  /\ files \in {"none", "yuv", "both"}
  /\ y_size = 0 /\ entered = 0
  /\ loop = "called"
  /\ i = 0
  /\ yuv = <<>>
  /\ crc_y = <<>>
  /\ crc_uv = <<>>
  /\ mDumpNum = 0

Rows == IF loop \in {"yuv_y", "crc_y"} THEN height ELSE height \div 2

\* The row a loop reads: the stride is read anew for each, the start of the
\* chroma was read when the dump began.
SizeReread == IF loop \in {"yuv_y", "crc_y"} THEN 0 ELSE mBufferHeight * mBufferWidth
PlaneStart == IF loop \in {"yuv_y", "crc_y"} THEN 0 ELSE y_size
ChecksumUnpadded ==
  [at |-> PlaneStart + i * (IF loop \in {"crc_y", "crc_uv"} THEN width ELSE mBufferWidth),
   len |-> width]
Row == [at |-> PlaneStart + i * mBufferWidth, len |-> width]

\* What is done is settled by the files that are open.
Enter ==
  /\ loop = "called"
  /\ loop' = IF files = "none" THEN "count" ELSE "yuv_y"
  /\ y_size' = mBufferHeight * mBufferWidth
  /\ entered' = gen
  /\ yuv' = <<>>
  /\ UNCHANGED <<formatVars, pictureVars, i, crc_y, crc_uv, mDumpNum>>

\* One turn of a loop: fwrite(), or crc32_gen() on from the row before.
ReadRow ==
  /\ loop \in Loops
  /\ i < Rows
  /\ i' = i + 1
  /\ yuv' = IF loop \in {"yuv_y", "yuv_uv"} THEN Append(yuv, Row) ELSE yuv
  /\ crc_y' = IF loop = "crc_y" THEN Append(crc_y, Row) ELSE crc_y
  /\ crc_uv' = IF loop = "crc_uv" THEN Append(crc_uv, Row) ELSE crc_uv
  /\ UNCHANGED <<formatVars, pictureVars, entryVars, loop, mDumpNum>>

\* Which loop is followed by what.
Follows ==
  {<<"yuv_y", "yuv_uv">>,
   <<"yuv_uv", IF files = "both" THEN "crc_y" ELSE "count">>,
   <<"crc_y", "crc_uv">>,
   <<"crc_uv", "line">>}

RowKept == i
FirstRow == 0

EndLoop ==
  /\ i >= Rows
  /\ \E step \in Follows : loop = step[1] /\ loop' = step[2]
  /\ i' = FirstRow
  /\ UNCHANGED <<formatVars, pictureVars, entryVars, yuv, crc_y, crc_uv, mDumpNum>>

\* The checksums are written to the CRC file.
WriteLine ==
  /\ loop = "line"
  /\ loop' = "count"
  /\ UNCHANGED <<formatVars, pictureVars, entryVars, i, yuv, crc_y, crc_uv, mDumpNum>>

Count ==
  /\ loop = "count"
  /\ loop' = "dumped"
  /\ mDumpNum' = mDumpNum + 1
  /\ UNCHANGED <<formatVars, pictureVars, entryVars, i, yuv, crc_y, crc_uv>>

\* outputBuffer() takes the next picture, whatever its size, in memory of some
\* format that has been set; the checksums start anew.
NextPicture ==
  /\ loop = "dumped"
  /\ mDumpNum < MaxDumps
  /\ loop' = "called"
  /\ buf' \in IF format = "idle" THEN 1 .. gen ELSE 1 .. gen - 1
  /\ width' \in Widths
  /\ height' \in PictureHeights
  /\ crc_y' = <<>>
  /\ crc_uv' = <<>>
  /\ UNCHANGED <<formatVars, files, entryVars, i, yuv, mDumpNum>>

Done == loop = "dumped" /\ mDumpNum >= MaxDumps /\ UNCHANGED vars

Next ==
  \/ SetWidth \/ SetHeight
  \/ Enter \/ ReadRow \/ EndLoop \/ WriteLine \/ Count \/ NextPicture \/ Done

Spec == Init /\ [][Next]_vars

-----------------------------------------------------------------------------
(* Properties.                                                             *)

\* The pieces of a picture.
Pieces == [at : Nat, len : Nat]

\* The greatest offset that a signed word holds, and the size of the luma of
\* the largest picture.
MaxInt == 2147483647
MaxLuma == 1430654976

\* Every variable has its type.
TypeOK ==
  /\ mDqWidth \in Widths /\ mBufferWidth = ALIGN(mDqWidth, 64)
  /\ mDqHeight \in Heights /\ mBufferHeight = ALIGN(mDqHeight, 64)
  /\ gen \in Nat \ {0} /\ format \in {"idle", "width"}
  /\ buf \in 1 .. gen /\ entered \in 0 .. gen
  /\ width \in Widths /\ height \in PictureHeights
  /\ y_size \in 0 .. MaxLuma
  /\ files \in {"none", "yuv", "both"}
  /\ loop \in Loops \cup {"called", "line", "count", "dumped"}
  /\ i \in 0 .. height
  /\ yuv \in Seq(Pieces) /\ crc_y \in Seq(Pieces) /\ crc_uv \in Seq(Pieces)
  /\ mDumpNum \in Nat

\* No format was begun since the memory was allocated, and the picture is not
\* larger than the format said.
Fits == buf = gen /\ width <= mDqWidth /\ height <= mDqHeight

\* A row is read outside the memory of the picture, or of its plane, only when
\* the picture is larger than the format said, or when another format was begun
\* since the memory was allocated.  No offset leaves 32 bits, whatever happens.
RowsInside ==
  loop \in Loops /\ i < Rows =>
    /\ Fits => Row.at + Row.len <= IF loop \in {"yuv_y", "crc_y"} THEN y_size
                                   ELSE allocUvmBuffer(mBufferWidth, mBufferHeight)
    /\ Row.at + Row.len <= MaxInt

\* The checksums are those of what the YUV file holds, unless a format was
\* begun during the dump: the loops that write and those that sum then read the
\* same rows.  A height that is set during it changes nothing.
ChecksumsMatchFile ==
  loop = "line" /\ entered = gen => yuv = crc_y \o crc_uv

\* Of every picture, also of one that a format change tears, as many rows are
\* dumped as it has, half as many of chroma when its height is even; and no byte
\* is dumped twice, unless it is larger than its format or torn.
DumpedWhole ==
  loop \in {"count", "dumped"} /\ files # "none" =>
    /\ Len(yuv) = height + height \div 2
    /\ Fits => \A k \in 1 .. Len(yuv) - 1 : yuv[k].at + yuv[k].len <= yuv[k + 1].at

\* The inductive strengthening of the properties above: the first rows of a
\* plane, and what a loop has read when it is at row i; all of it by the stride
\* there is, as long as no format is begun.
Plane(start, n) == [k \in 1 .. n |-> [at |-> start + (k - 1) * mBufferWidth, len |-> width]]
Whole == Plane(0, height) \o Plane(y_size, height \div 2)

RowsInv ==
  /\ loop = "yuv_y" => yuv = Plane(0, i)
  /\ loop = "yuv_uv" => yuv = Plane(0, height) \o Plane(y_size, i)
  /\ loop = "crc_y" => crc_y = Plane(0, i) /\ crc_uv = <<>>
  /\ loop = "crc_uv" => crc_y = Plane(0, height) /\ crc_uv = Plane(y_size, i)
  /\ loop = "line" => crc_y = Plane(0, height) /\ crc_uv = Plane(y_size, height \div 2)
  /\ loop \in {"crc_y", "crc_uv", "line"} => yuv = Whole
  /\ loop \in {"count", "dumped"} /\ files # "none" => yuv = Whole

LengthInv ==
  /\ IF loop \in Loops THEN i <= Rows ELSE i = 0
  /\ loop = "yuv_y" => Len(yuv) = i
  /\ loop = "yuv_uv" => Len(yuv) = height + i
  /\ loop \in {"crc_y", "crc_uv", "line"} => Len(yuv) = height + height \div 2
  /\ loop \in {"count", "dumped"} /\ files # "none" => Len(yuv) = height + height \div 2

FormatInv ==
  /\ buf = gen => format = "idle"
  /\ loop # "called" /\ buf = gen => entered = gen /\ y_size = mBufferHeight * mBufferWidth

DataInv ==
  /\ FormatInv /\ LengthInv
  /\ loop \in {"called", "yuv_y", "yuv_uv"} => crc_y = <<>> /\ crc_uv = <<>>
  /\ loop # "called" /\ entered = gen => RowsInv
=============================================================================
