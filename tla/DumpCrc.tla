------------------------------ MODULE DumpCrc ------------------------------
(***************************************************************************)
(* dumpData() of example/EsVideoDecPlayer together with crc32_gen(): the   *)
(* loops of DumpData, with the bytes of the picture and the two words that *)
(* end up in a line of the CRC file.                                       *)
(***************************************************************************)
EXTENDS DumpData, Crc32

CONSTANTS
  Pictures,       \* the contents that a picture may have
  Pixel(_, _)     \* the number at an offset of a picture, also where it is padding

VARIABLES
  picture,          \* the contents of the picture
  sum_y, sum_uv     \* crc_y and crc_uv, of which DumpData has the rows

crcVars == <<picture, sum_y, sum_uv>>

\* The bytes of a row, and the checksum behind it.
Bytes(row) == [k \in 1 .. row.len |-> ByteOf(Pixel(picture, row.at + k - 1))]

InitCrc ==
  /\ Init
  /\ picture \in Pictures
  /\ sum_y = ZeroWord /\ sum_uv = ZeroWord

\* Each row goes on from the checksum of the rows before it.
FromZero(sum, row) == crc32_gen(ZeroWord, Bytes(row))
Continued(sum, row) == crc32_gen(sum, Bytes(row))

SumRow ==
  /\ ReadRow
  /\ sum_y' = IF loop = "crc_y" THEN Continued(sum_y, Row) ELSE sum_y
  /\ sum_uv' = IF loop = "crc_uv" THEN Continued(sum_uv, Row) ELSE sum_uv
  /\ UNCHANGED picture

NextContents ==
  /\ NextPicture
  /\ picture' \in Pictures
  /\ sum_y' = ZeroWord /\ sum_uv' = ZeroWord

NextCrc ==
  \/ SumRow \/ NextContents
  \/ (SetWidth \/ SetHeight \/ Enter \/ EndLoop \/ WriteLine \/ Count \/ Done) /\ UNCHANGED crcVars

SpecCrc == InitCrc /\ [][NextCrc]_<<vars, crcVars>>

-----------------------------------------------------------------------------
(* Properties.                                                             *)

\* What the division by the polynomial leaves of the bytes of some pieces.
DividePiece == [turn \in Word \X Pieces |-> Divide(turn[1], Bytes(turn[2]))]
Remainder(pieces) == Over(DividePiece, ZeroWord, pieces)

\* A line of the CRC file holds what the division leaves of the luma and of the
\* chroma bytes that the YUV file has for the picture, unless a format was begun
\* during the dump.
LineMatchesFile ==
  loop = "line" /\ entered = gen =>
    /\ sum_y = Remainder(SubSeq(yuv, 1, height))
    /\ sum_uv = Remainder(SubSeq(yuv, height + 1, Len(yuv)))

\* The inductive strengthening: the two words are those of the rows summed.
SumInv == sum_y = Remainder(crc_y) /\ sum_uv = Remainder(crc_uv)
=============================================================================
