---------------------------- MODULE MC_TextLayout ----------------------------
(* A Hershey font (extra_height 0) at point 2: line height (34 * 2) / 32 *)
(* = 2; glyph g0 missing from the font (advance 0), g1 and g2 of widths  *)
(* 20 and 32, scaled to advances 1 and 2.  Texts of up to four chars,    *)
(* boxes 1 to 3 wide and 2 to 11 high (exact multiples of the line height *)
(* and not), 0 to 2 max_lines.                                            *)
EXTENDS TextLayout, TLC

CONSTANTS g0, g1, g2, nl

Glyphs_Three == {g0, g1, g2}
GlyphInfo_Two == (g1 :> 20) @@ (g2 :> 32)
Widths_Three == {1, 2, 3}
Heights_Five == {2, 3, 4, 5, 11}
MaxLines_Three == {0, 1, 2}
=============================================================================
