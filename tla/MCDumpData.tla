----------------------------- MODULE MCDumpData -----------------------------
(***************************************************************************)
(* Instances of DumpData, with its checksums, for TLC.                     *)
(***************************************************************************)
EXTENDS DumpCrc

\* Less than one stride, and more than one.
SomeWidths == {1, 65}
\* Of unequal strides; pictures of odd and even height, that fit both or one.
SomeHeights == {2, 65}
SomePictureHeights == {2, 3}
\* Pictures that begin with a zero byte, and with other bytes.
SomePictures == {0, 200}
SomePixel(first, at) == (first + 89 * at) % 256
=============================================================================
