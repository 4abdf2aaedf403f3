CONSTANTS
  Widths <- SomeWidths
  Heights <- SomeHeights
  PictureHeights <- SomePictureHeights
  MaxSize = 128
  MaxChanges = 2
  MaxDumps = 2
  Pictures <- SomePictures
  Pixel <- SomePixel

SPECIFICATION SpecCrc

INVARIANTS
  TypeOK
  RowsInside
  ChecksumsMatchFile
  DumpedWhole
  LineMatchesFile
