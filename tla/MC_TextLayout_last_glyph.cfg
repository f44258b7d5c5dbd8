CONSTANTS
  g0 = g0
  g1 = g1
  g2 = g2
  nl = nl
  NL = nl
  Glyphs <- Glyphs_Three
  GlyphInfo <- GlyphInfo_Two
  ExtraHeight = 0
  PointSize = 2
  MaxLen = 4
  BoxWidths <- Widths_Three
  BoxHeights <- Heights_Five
  MaxLinesSet <- MaxLines_Three

SPECIFICATION Spec





INVARIANT DrawsLayout
