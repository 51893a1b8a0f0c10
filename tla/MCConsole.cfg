SPECIFICATION Spec
CONSTANTS
  Width = 4
  Height = 2
  TabStop = 2
  Glyphs = {"a"}
  Blank = " "
  MaxAbove = 2
  Bits <- SomeBits
  Widths = {0, 1, 2, 3, 6}
  Precisions <- SomePrecisions
INVARIANTS
  TypeOK
PROPERTIES
  ShowsPaper
  FormatsLikeC
