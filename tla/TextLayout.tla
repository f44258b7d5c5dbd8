------------------------------ MODULE TextLayout ------------------------------
(***************************************************************************)
(* Line breaking and text drawing of the kernel UI,                        *)
(*   src/system/kernel/src/ui/text.rs  (TextProcessing::line_statuses,     *)
(*   bounding_size, draw_text)                                             *)
(*   src/sys/kernel/src/fonts/font.rs  (FontDescriptor::new, width_of;     *)
(*   HersheyFont's line height, glyph_for and width_of)                    *)
(* A text is a sequence of glyphs and newlines, set in a Hershey font      *)
(* scaled to a point size; a glyph's advance is its glyph_info width       *)
(* scaled by integer division, and is 0 for a glyph the font lacks.        *)
(* line_statuses is a pure function: it is written here as the code's loop *)
(* folded over the text, and its result is checked against reference      *)
(* definitions of a correct layout.  Code positions are 0-based char       *)
(* indices, as from s.chars().enumerate(); s[i + 1] is the char at i.      *)
(* A behaviour is a series of independent calls with arguments from small  *)
(* sets; pixel coordinates (megstd Coordinates) and colour are abstracted. *)
(***************************************************************************)
EXTENDS Integers, Sequences, SequencesExt

CONSTANTS
  Glyphs,      \* chars other than '\n'
  NL,          \* '\n'
  GlyphInfo,   \* the width column of HersheyFont.glyph_info, by glyph
  ExtraHeight, \* HersheyFont::new's extra_height (0, or 4 for Cursive)
  PointSize,   \* the point given to FontDescriptor::new
  MaxLen,      \* longest text of a call
  BoxWidths,   \* size.width values of a call
  BoxHeights,  \* size.height values of a call
  MaxLinesSet  \* max_lines values of a call (0 means no limit)

ASSUME /\ NL \notin Glyphs
       /\ DOMAIN GlyphInfo \subseteq Glyphs
       /\ PointSize > 0

Chars == Glyphs \cup {NL}

\* usize::MAX: more lines than a text of MaxLen chars ever yields.
Unlimited == MaxLen + 2

\* HersheyFont::POINT, the driver's base_height, and HersheyFont::DESCENT.
POINT   == 32
DESCENT == 2

\* HersheyFont::new: line_height = POINT + DESCENT + extra_height.
HersheyLineHeight == POINT + DESCENT + ExtraHeight

\* FontDescriptor::new for a scalable driver:
\* preferred_line_height * point / base_height.
LineHeight == (HersheyLineHeight * PointSize) \div POINT

\* HersheyFont::glyph_for: Some for a char below 0x80 whose glyph the font's
\* data held when glyph_info was built.
GlyphFor(c) == c \in DOMAIN GlyphInfo

\* HersheyFont::width_of: the glyph's width, 0 without a glyph.
DriverWidth(c) == IF GlyphFor(c) THEN GlyphInfo[c] ELSE 0

\* FontDescriptor::width_of: the driver's width, scaled unless the point is
\* the driver's base height.
WidthOf(c) ==
  IF PointSize = POINT THEN DriverWidth(c) ELSE (DriverWidth(c) * PointSize) \div POINT

\* The advance of a run of glyphs, as draw_text moves cursor.x.
AdvanceOf(str) == FoldLeft(LAMBDA acc, c : acc + WidthOf(c), 0, str)

\* LineStatus::empty()
EmptyLine == [start |-> 0, end |-> 0, width |-> 0, height |-> 0]

\* NonZeroUsize::new(max_lines).unwrap_or(usize::MAX)
MaxLinesOf(m) == IF m = 0 THEN Unlimited ELSE m

\* Mutant: the height check dropped.
ExhaustedNoHeight(n, h, maxl, size) == n >= maxl

\* vec.len() >= max_lines || current_height >= size.height()
Exhausted(n, h, maxl, size) == n >= maxl \/ h >= size.height

\* Push the current line, add its height, and stop when a limit is reached;
\* otherwise go on with the line next.
PushLine(st, line, next, maxl, size) ==
  LET vec == Append(st.vec, line)
      h   == st.h + line.height
      stop == Exhausted(Len(vec), h, maxl, size)
  IN  [vec |-> vec, h |-> h, stop |-> stop,
       cur |-> IF stop THEN EmptyLine ELSE next]

\* Mutant: a line is broken when the glyph would just fill it.
WrapsEarly(width, newWidth, size) == width > 0 /\ newWidth >= size.width

\* current_line.width > 0 && new_width > size.width
Wraps(width, newWidth, size) == width > 0 /\ newWidth > size.width

\* One turn of the for loop over (index, c).
ScanChar(st, index, c, maxl, size) ==
  LET cur == [st.cur EXCEPT !.end = index]
  IN  IF c = NL
        THEN PushLine(st, cur,
                      [EmptyLine EXCEPT !.start = index + 1,
                                        !.height = LineHeight], maxl, size)
        ELSE LET cw == WidthOf(c)
                 nw == cur.width + cw
             IN  IF Wraps(cur.width, nw, size)
                   THEN PushLine(st, cur,
                                 [start |-> index, end |-> 0, width |-> cw,
                                  height |-> LineHeight], maxl, size)
                   ELSE [st EXCEPT !.cur = [cur EXCEPT !.width = nw]]

RECURSIVE ScanFrom(_, _, _, _, _)
ScanFrom(s, i, st, maxl, size) ==
  IF i > Len(s) \/ st.stop THEN st
  ELSE ScanFrom(s, i + 1, ScanChar(st, i - 1, s[i], maxl, size), maxl, size)

\* if vec.len() < max_lines && current_line.width > 0 { end += 1; push }
Finish(st, maxl) ==
  IF Len(st.vec) < maxl /\ st.cur.width > 0
    THEN Append(st.vec, [st.cur EXCEPT !.end = @ + 1])
    ELSE st.vec

\* TextProcessing::line_statuses
LineStatuses(s, size, m) ==
  LET maxl == MaxLinesOf(m)
      start == [vec |-> <<>>, h |-> LineHeight, stop |-> FALSE,
                cur |-> [EmptyLine EXCEPT !.height = LineHeight]]
  IN  Finish(ScanFrom(s, 1, start, maxl, size), maxl)

\* TextProcessing::bounding_size: the widest line and the lines' heights.
BoundingSize(s, size, m) ==
  LET lines == LineStatuses(s, size, m)
  IN  [width  |-> FoldLeft(LAMBDA v, l : IF l.width > v THEN l.width ELSE v,
                           0, lines),
       height |-> FoldLeft(LAMBDA v, l : v + l.height, 0, lines)]

\* `for _ in from..to { chars.next() }`: an exhausted iterator yields None.
Skip(chars, n) == IF n >= Len(chars) THEN <<>> ELSE SubSeq(chars, n + 1, Len(chars))

\* Mutant: prev_position set to where the line starts, not where it ends.
NextPrevStart(line) == line.start

\* prev_position = line.end_position
NextPrev(line) == line.end

\* The walk of draw_text over s.chars(): skip to each line's start, then
\* draw end - start chars with chars.next().unwrap().  The result is the
\* glyphs drawn for each line, or panic when an unwrap meets None.
RECURSIVE DrawWalk(_, _, _)
DrawWalk(chars, prev, lines) ==
  IF lines = <<>> THEN [drawn |-> <<>>, panic |-> FALSE]
  ELSE LET l    == Head(lines)
           at   == Skip(chars, l.start - prev)
           n    == IF l.start < l.end THEN l.end - l.start ELSE 0
           rest == DrawWalk(Skip(at, n), NextPrev(l), Tail(lines))
       IN  IF n > Len(at) THEN [drawn |-> <<>>, panic |-> TRUE]
           ELSE [drawn |-> <<SubSeq(at, 1, n)>> \o rest.drawn,
                 panic |-> rest.panic]

\* TextProcessing::draw_text, as far as which glyphs go on which line.
DrawText(s, size, m) == DrawWalk(s, 0, LineStatuses(s, size, m))

-----------------------------------------------------------------------------

Calls == [text : BoundedSeq(Chars, MaxLen),
          size : [width : BoxWidths, height : BoxHeights],
          max_lines : MaxLinesSet]

VARIABLE call

\* A caller of bounding_size or draw_text (a label or text field that is
\* laid out again after each change): it starts with an empty text, and
\* between two calls a char is typed, the box resized or max_lines changed.
Init == call \in [text : {<<>>}, size : [width : BoxWidths, height : BoxHeights],
                  max_lines : MaxLinesSet]

Type   == \E c \in Chars : /\ Len(call.text) < MaxLen
                          /\ call' = [call EXCEPT !.text = Append(@, c)]
Resize == \E w \in BoxWidths, h \in BoxHeights :
            call' = [call EXCEPT !.size = [width |-> w, height |-> h]]
Limit  == \E m \in MaxLinesSet : call' = [call EXCEPT !.max_lines = m]

Next == Type \/ Resize \/ Limit
Spec == Init /\ [][Next]_call

-----------------------------------------------------------------------------

\* The chars of a line.
Text(s, l) == SubSeq(s, l.start + 1, l.end)

\* Reference of a correct char-wrapping layout of s in a box width W:
\* lines start at 0 and follow each other either across one newline or at
\* a wrap point; no line holds a newline; a line's width is its glyphs'
\* advance and fits W unless only its last glyph has any width; a line is
\* wrapped only where the next glyph does not fit it.  The lines checked
\* are those a later line follows, whose end the next line's start fixes.
IsCharWrapping(s, W, lines) ==
  LET n == Len(lines)
  IN  /\ n > 0 => lines[1].start = 0 /\ lines[n].height = LineHeight
      /\ \A k \in 1..(n - 1) :
           LET l == lines[k]
               u == lines[k + 1]
           IN  /\ 0 <= l.start /\ l.start <= l.end /\ l.end < Len(s)
               /\ NL \notin ToSet(Text(s, l))
               /\ l.width = AdvanceOf(Text(s, l)) /\ l.height = LineHeight
               /\ l.width <= W \/ AdvanceOf(Front(Text(s, l))) = 0
               /\ \/ u.start = l.end + 1 /\ s[l.end + 1] = NL
                  \/ /\ u.start = l.end /\ l.width > 0
                     /\ l.width + WidthOf(s[l.end + 1]) > W

\* line_statuses lays the text out by char wrapping: its lines break at the
\* text's newlines and at greedy wrap points (the wrap test, and the
\* restart of a line on the glyph that did not fit).
WrapCorrect ==
  IsCharWrapping(call.text, call.size.width,
                 LineStatuses(call.text, call.size, call.max_lines))

\* The lines respect max_lines and the box: never more lines than allowed,
\* and a bounding_size height within the box unless there is one line.
Bounded ==
  LET lines == LineStatuses(call.text, call.size, call.max_lines)
  IN  /\ Len(lines) <= MaxLinesOf(call.max_lines)
      /\ \/ BoundingSize(call.text, call.size, call.max_lines).height
              <= call.size.height
         \/ Len(lines) = 1

\* draw_text's walk of the char iterator, skipping from each line's end to
\* the next line's start, draws for every line exactly the chars at that
\* line's positions, and never unwraps an exhausted iterator.
DrawWalkInBounds ==
  LET s     == call.text
      lines == LineStatuses(s, call.size, call.max_lines)
      d     == DrawText(s, call.size, call.max_lines)
  IN  /\ ~d.panic
      /\ Len(d.drawn) = Len(lines)
      /\ \A k \in 1..Len(lines) :
           d.drawn[k] = IF lines[k].start < lines[k].end
                          THEN Text(s, lines[k]) ELSE <<>>

\* draw_text draws every glyph line_statuses put on a line: the glyphs it
\* draws for a line advance the cursor by the width bounding_size counts
\* for that line.
DrawsLayout ==
  LET lines == LineStatuses(call.text, call.size, call.max_lines)
      d     == DrawText(call.text, call.size, call.max_lines)
  IN  \A k \in 1..Len(lines) :
        k <= Len(d.drawn) => AdvanceOf(d.drawn[k]) = lines[k].width
=============================================================================
