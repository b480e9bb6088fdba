------------------------------ MODULE ScreenGrid ------------------------------
(***************************************************************************)
(* The screen grid of terminal-surface: what the control sequences of a    *)
(* program and the resizes of its pane do to the grid, the cursor, the     *)
(* scroll region and the alternate screen, which cells a repaint is told   *)
(* of, and how attributes are parsed and written.                          *)
(*                                                                         *)
(* Rows and columns count from 0, as in the code; grid[r + 1][c + 1] is    *)
(* the cell of row r and column c: its character, a space (0) or a glyph   *)
(* (1), and its attributes.  Numbers are Word-sized and wrap, as in a      *)
(* release build.                                                          *)
(***************************************************************************)
EXTENDS Naturals, Sequences, FiniteSets, SequencesExt

CONSTANTS
  Sizes,      \* the sizes of a pane: [cols, rows]
  Word,       \* one more than the largest u16
  Counts,     \* the parameters that occur in control sequences
  Renditions, \* the parameters of the SGR sequences that occur
  MaxGlyphs,  \* bound on the cells that are not blank, on both screens
  None

(* A colour is <<"default">>, <<"indexed", i>> or <<"rgb", r, g, b>>.      *)
RgbColors(B) == {"rgb"} \X B \X B \X B
CellColors == {<<"default">>} \cup {<<"indexed", i>> : i \in 0..255} \cup RgbColors(0..255)

CellAttrs ==
  [fg : CellColors, bg : CellColors, bold : BOOLEAN, italic : BOOLEAN,
   underline : BOOLEAN, dim : BOOLEAN, reverse : BOOLEAN]

PlainAttr == [fg |-> <<"default">>, bg |-> <<"default">>, bold |-> FALSE, italic |-> FALSE,
              underline |-> FALSE, dim |-> FALSE, reverse |-> FALSE]

Chars == {0, 1}
Cells == [char : Chars, attr : CellAttrs]
Blank == [char |-> 0, attr |-> PlainAttr]

ASSUME ScreenGridAssumption ==
  /\ Word \in Nat
  /\ Sizes \subseteq [cols : 1..Word - 1, rows : 1..Word - 1]
  /\ Counts \subseteq 0..Word - 1
  /\ Renditions \subseteq Seq(Nat)

ASSUME NoneIsNoScreen ==
  \A sz \in Sizes : None \notin [1..sz.rows -> [1..sz.cols -> Cells]]

VARIABLES
  size,      \* cols, rows
  grid,      \* the screen shown
  cursor,    \* cursor_row, cursor_col
  saved,     \* saved_cursor_row, saved_cursor_col
  pen,       \* current_attr
  region,    \* scroll_top, scroll_bottom
  alt,       \* alt_screen: the main screen while the alternate one is shown
  inAlt,     \* in_alt_screen
  panicked,  \* an index was out of range
  main,      \* history: the main screen, as the program left it
  nested     \* history: the alternate screen was entered twice in a row

screens == <<grid, alt, inAlt, main, nested>>
screenVars == <<size, cursor, saved, pen, region, panicked, screens>>

-----------------------------------------------------------------------------
(* Rows and grids *)

Least(m, n) == IF m < n THEN m ELSE n
Minus(m, n) == IF m > n THEN m - n ELSE 0   \* saturating_sub

BlankRow(cols) == [c \in 1..cols |-> Blank]
EmptyGrid(sz) == [r \in 1..sz.rows |-> BlankRow(sz.cols)]

(* resize: what fits is copied into an empty grid.                         *)
Cropped(g, sz) ==
  [r \in 1..sz.rows |-> [c \in 1..sz.cols |->
     IF r \in DOMAIN g /\ c \in DOMAIN g[r] THEN g[r][c] ELSE Blank]]

(* grid.remove(from), grid.insert(to, blank row), n times.                 *)
Rotated(g, from, to, n) ==
  LET turn[k \in 0..n] ==
        IF k = 0 THEN g ELSE InsertAt(RemoveAt(turn[k - 1], from + 1), to + 1, BlankRow(size.cols))
  IN turn[n]

(* scroll_up, scroll_down                                                  *)
Scrolled(g, up, n) ==
  IF region.top >= region.bottom THEN g
  ELSE IF up THEN Rotated(g, region.top, region.bottom, n)
             ELSE Rotated(g, region.bottom, region.top, n)

Erased(g, Hit(_, _)) ==
  [r \in DOMAIN g |-> [c \in DOMAIN g[r] |-> IF Hit(r - 1, c - 1) THEN Blank ELSE g[r][c]]]

Places(g) == UNION {{r} \X DOMAIN g[r] : r \in DOMAIN g}
Written(g) == {p \in Places(g) : g[p[1]][p[2]] # Blank}

-----------------------------------------------------------------------------
(* The sequences: each leaves the screen it does not show alone. *)

Alive == ~panicked

Shows(g) ==
  /\ grid' = g
  /\ main' = IF inAlt THEN main ELSE g
  /\ UNCHANGED <<alt, inAlt, nested>>

MovesTo(r, c) == cursor' = [row |-> r, col |-> c]
LastRow == size.rows - 1
LastCol == size.cols - 1

Resize(sz) ==
  /\ Alive
  /\ size' = sz
  /\ grid' = Cropped(grid, sz)
  /\ alt' = IF alt = None THEN None ELSE Cropped(alt, sz)
  /\ main' = Cropped(main, sz)
  /\ region' = [region EXCEPT !.bottom = sz.rows - 1]
  /\ MovesTo(Least(cursor.row, sz.rows - 1), Least(cursor.col, sz.cols - 1))
  /\ UNCHANGED <<pen, saved, inAlt, nested, panicked>>

(* print: the cell gets the current attributes too.                        *)
PutChar(ch) ==
  /\ Alive
  /\ cursor.col < size.cols /\ cursor.row < size.rows
  /\ Shows([grid EXCEPT ![cursor.row + 1][cursor.col + 1] = [char |-> ch, attr |-> pen]])
  /\ Cardinality(Written(grid')) + (IF alt = None THEN 0 ELSE Cardinality(Written(alt))) <= MaxGlyphs
  /\ MovesTo(cursor.row, Least(cursor.col + 1, LastCol))
  /\ UNCHANGED <<size, pen, saved, region, panicked>>

(* BS, HT, CR, CUU, CUD, CUF, CUB, CNL, CPL, CHA and VPA.                  *)
NewPosition(n) ==
  LET row == cursor.row  col == cursor.col IN
  { <<row, Minus(col, n)>>, <<row, Least((((col \div 8) + 1) * 8) % Word, LastCol)>>, <<row, 0>>,
    <<Minus(row, n), col>>, <<Least((row + n) % Word, LastRow), col>>,
    <<row, Least((col + n) % Word, LastCol)>>,
    <<Least((row + n) % Word, LastRow), 0>>, <<Minus(row, n), 0>>,
    <<row, Least(Minus(n, 1), LastCol)>>, <<Least(Minus(n, 1), LastRow), col>> }

MoveCursor(n) ==
  /\ Alive
  /\ \E p \in NewPosition(n) : MovesTo(p[1], p[2])
  /\ UNCHANGED <<size, pen, screens, saved, region, panicked>>

(* CUP                                                                     *)
PlaceCursor(n, m) ==
  /\ Alive
  /\ MovesTo(Least(Minus(n, 1), LastRow), Least(Minus(m, 1), LastCol))
  /\ UNCHANGED <<size, pen, screens, saved, region, panicked>>

(* The cursor goes below the region, not to its last line.                 *)
FaultyLineFeed ==
  /\ Alive
  /\ IF cursor.row + 1 > region.bottom THEN Shows(Scrolled(grid, TRUE, 1)) ELSE UNCHANGED screens
  /\ MovesTo(cursor.row + 1, cursor.col)
  /\ UNCHANGED <<size, pen, saved, region, panicked>>

(* LF, VT, FF: below the region too the cursor goes to its last line.      *)
LineFeed ==
  /\ Alive
  /\ IF cursor.row + 1 > region.bottom
       THEN Shows(Scrolled(grid, TRUE, 1)) /\ MovesTo(region.bottom, cursor.col)
       ELSE UNCHANGED screens /\ MovesTo(cursor.row + 1, cursor.col)
  /\ UNCHANGED <<size, pen, saved, region, panicked>>

(* ED and EL: after the cursor, before it, all.                            *)
Erase(lines, mode) ==
  LET Row(r) == r = cursor.row
      Hit(r, c) ==
        CASE mode = 0 -> (Row(r) /\ c >= cursor.col) \/ (lines /\ r > cursor.row)
          [] mode = 1 -> (Row(r) /\ c <= cursor.col) \/ (lines /\ r < cursor.row)
          [] mode = 2 -> Row(r) \/ lines
  IN /\ Alive
     /\ Shows(Erased(grid, Hit))
     /\ UNCHANGED <<size, pen, cursor, saved, region, panicked>>

(* A row is removed and none is put in its place.                          *)
FaultyEditLines(n, insert) ==
  /\ Alive
  /\ cursor.row <= region.bottom
  /\ Shows(RemoveAt(grid, cursor.row + 1))
  /\ UNCHANGED <<size, pen, cursor, saved, region, panicked>>

(* IL and DL: not above the region, in spite of its name.                  *)
EditLines(n, insert) ==
  /\ Alive
  /\ cursor.row <= region.bottom
  /\ LET k == IF n = 0 THEN 1 ELSE n IN
     Shows(IF insert THEN Rotated(grid, region.bottom, cursor.row, k)
                     ELSE Rotated(grid, cursor.row, region.bottom, k))
  /\ UNCHANGED <<size, pen, cursor, saved, region, panicked>>

(* DCH: row.drain(start..end) with start beyond end panics.  ICH inserts   *)
(* only into rows that are too short, and no row is.                       *)
DeleteChars(n) ==
  /\ Alive
  /\ cursor.row < size.rows
  /\ LET row == grid[cursor.row + 1]
         end == Least(cursor.col + n, size.cols) IN
     IF cursor.col > end
       THEN panicked' = TRUE /\ UNCHANGED screens
       ELSE /\ Shows([grid EXCEPT ![cursor.row + 1] =
                 SubSeq(row, 1, cursor.col) \o SubSeq(row, end + 1, Len(row))
                   \o BlankRow(Least(n, size.cols - cursor.col))])
            /\ UNCHANGED panicked
  /\ UNCHANGED <<size, pen, cursor, saved, region>>

(* SU and SD                                                               *)
Scroll(up, n) ==
  /\ Alive
  /\ Shows(Scrolled(grid, up, n))
  /\ UNCHANGED <<size, pen, cursor, saved, region, panicked>>

(* DECSTBM; only the bottom is kept within the screen.                     *)
SetRegion(top, bottom) ==
  /\ Alive
  /\ region' = [top |-> Minus(top, 1), bottom |-> Least(Minus(bottom, 1), LastRow)]
  /\ MovesTo(0, 0)
  /\ UNCHANGED <<size, pen, screens, saved, panicked>>

(* CSI ? 1049 h.  Entered twice, the main screen is gone.                  *)
EnterAlt ==
  /\ Alive
  /\ alt' = grid
  /\ grid' = EmptyGrid(size)
  /\ inAlt' = TRUE
  /\ nested' = (nested \/ inAlt)
  /\ saved' = cursor
  /\ MovesTo(0, 0)
  /\ UNCHANGED <<size, pen, region, main, panicked>>

(* The screen of the program stays.                                        *)
FaultyLeaveAlt ==
  /\ Alive
  /\ inAlt' = FALSE /\ alt' = None
  /\ cursor' = saved
  /\ UNCHANGED <<size, pen, saved, region, grid, main, nested, panicked>>

(* CSI ? 1049 l, also when the alternate screen is not shown.              *)
LeaveAlt ==
  /\ Alive
  /\ grid' = IF alt = None THEN grid ELSE alt
  /\ alt' = None
  /\ inAlt' = FALSE
  /\ cursor' = saved
  /\ UNCHANGED <<size, pen, saved, region, main, nested, panicked>>

SaveCursor ==
  /\ Alive
  /\ saved' = cursor
  /\ UNCHANGED <<size, pen, screens, cursor, region, panicked>>

RestoreCursor ==
  /\ Alive
  /\ cursor' = saved
  /\ UNCHANGED <<size, pen, screens, saved, region, panicked>>

-----------------------------------------------------------------------------
(* SGR *)

(* The colour that p[i + 1], ... name, with the number of parameters used. *)
Extended(p, i) ==
  CASE i + 2 <= Len(p) /\ p[i + 1] = 5 -> [color |-> <<"indexed", p[i + 2] % 256>>, used |-> 3]
    [] i + 4 <= Len(p) /\ p[i + 1] = 2 ->
         [color |-> <<"rgb", p[i + 2] % 256, p[i + 3] % 256, p[i + 4] % 256>>, used |-> 5]
    [] OTHER -> [color |-> <<"none">>, used |-> 1]

(* The attributes after the one parameter n.                               *)
Single(a, n) ==
  CASE n = 0 -> PlainAttr
    [] n = 1 -> [a EXCEPT !.bold = TRUE]
    [] n = 2 -> [a EXCEPT !.dim = TRUE]
    [] n = 3 -> [a EXCEPT !.italic = TRUE]
    [] n = 4 -> [a EXCEPT !.underline = TRUE]
    [] n = 7 -> [a EXCEPT !.reverse = TRUE]
    [] n = 22 -> [a EXCEPT !.bold = FALSE, !.dim = FALSE]
    [] n = 23 -> [a EXCEPT !.italic = FALSE]
    [] n = 24 -> [a EXCEPT !.underline = FALSE]
    [] n = 27 -> [a EXCEPT !.reverse = FALSE]
    [] n \in 30..37 -> [a EXCEPT !.fg = <<"indexed", n - 30>>]
    [] n = 39 -> [a EXCEPT !.fg = <<"default">>]
    [] n \in 40..47 -> [a EXCEPT !.bg = <<"indexed", n - 40>>]
    [] n = 49 -> [a EXCEPT !.bg = <<"default">>]
    [] n \in 90..97 -> [a EXCEPT !.fg = <<"indexed", n - 82>>]
    [] n \in 100..107 -> [a EXCEPT !.bg = <<"indexed", n - 92>>]
    [] OTHER -> a

(* One parameter after the other, as in the loop of the code; skip is how  *)
(* many of those that follow a colour has used up.                         *)
Reads(s, p, i) ==
  LET n == p[i]  x == Extended(p, i) IN
  CASE s.skip > 0 -> [s EXCEPT !.skip = @ - 1]
    [] s.skip = 0 /\ n \in {38, 48} /\ x.used = 1 -> s
    [] s.skip = 0 /\ n = 38 /\ x.used > 1 ->
         [attr |-> [s.attr EXCEPT !.fg = x.color], skip |-> x.used - 1]
    [] s.skip = 0 /\ n = 48 /\ x.used > 1 ->
         [attr |-> [s.attr EXCEPT !.bg = x.color], skip |-> x.used - 1]
    [] OTHER -> [s EXCEPT !.attr = Single(@, n)]

(* What the parameters p make of the attributes a.                         *)
Sgr(a, p) ==
  LET after[i \in 0..Len(p)] ==
        IF i = 0 THEN [attr |-> a, skip |-> 0] ELSE Reads(after[i - 1], p, i)
  IN after[Len(p)].attr

(* What is printed from now on has these attributes; nothing else resets   *)
(* them, neither the alternate screen nor a resize.                        *)
SetRendition(p) ==
  /\ Alive
  /\ pen' = Sgr(pen, p)
  /\ UNCHANGED <<size, screens, cursor, saved, region, panicked>>

ColorParams(base, c) ==
  CASE c[1] = "default" -> <<>>
    [] c[1] = "indexed" -> <<base, 5, c[2]>>
    [] c[1] = "rgb" -> <<base, 2, c[2], c[3], c[4]>>

Flag(b, n) == IF b THEN <<n>> ELSE <<>>

(* The parameters that switch on what a has.                               *)
Switches(a) ==
  ColorParams(48, a.bg) \o ColorParams(38, a.fg) \o Flag(a.bold, 1) \o Flag(a.dim, 2)
    \o Flag(a.italic, 3) \o Flag(a.underline, 4) \o Flag(a.reverse, 7)

(* Attributes are added to those of the cell before.                       *)
FaultyEmitted(a) == Switches(a)

(* render_to_sgr: where the attributes change, a reset and all that are on.*)
(* The sequences it writes one after the other are read like one.          *)
Emitted(a) == <<0>> \o Switches(a)

-----------------------------------------------------------------------------
(* compute_diff *)

(* Characters are compared, not attributes.                                *)
Differs(new, old, c) == new[c].char # old[c].char

(* The runs of columns that differ, the last of them still open or done.   *)
Compared(s, new, old, c) ==
  CASE Differs(new, old, c) /\ s.start = 0 -> [s EXCEPT !.start = c]
    [] ~Differs(new, old, c) /\ s.start # 0 ->
         [start |-> 0, done |-> s.done \cup {<<s.start, c - 1>>}]
    [] OTHER -> s

(* A run still open at the end of the row is forgotten.                    *)
FaultyRegions(new, old) ==
  LET width == Least(Len(new), Len(old))
      scan[c \in 0..width] ==
        IF c = 0 THEN [start |-> 0, done |-> {}] ELSE Compared(scan[c - 1], new, old, c)
  IN scan[width].done

(* The regions of a row: columns that both rows have are compared; a run   *)
(* that is still open then goes on to the end of the new row.              *)
Regions(new, old) ==
  LET width == Least(Len(new), Len(old))
      scan[c \in 0..width] ==
        IF c = 0 THEN [start |-> 0, done |-> {}] ELSE Compared(scan[c - 1], new, old, c)
      last == scan[width]
  IN last.done \cup (IF last.start = 0 THEN {} ELSE {<<last.start, Len(new)>>})

(* The places of all regions; rows that the old screen lacks are one more. *)
Reported(new, old) ==
  UNION {{r} \X (IF r \in DOMAIN old THEN UNION {q[1]..q[2] : q \in Regions(new[r], old[r])}
                                       ELSE DOMAIN new[r]) : r \in DOMAIN new}

-----------------------------------------------------------------------------
ScreenInit ==
  /\ size \in Sizes
  /\ grid = EmptyGrid(size) /\ main = grid
  /\ cursor = [row |-> 0, col |-> 0] /\ saved = cursor /\ pen = PlainAttr
  /\ region = [top |-> 0, bottom |-> size.rows - 1]
  /\ alt = None /\ inAlt = FALSE /\ nested = FALSE /\ panicked = FALSE

Drawing ==
  \/ \E sz \in Sizes : Resize(sz)
  \/ \E ch \in Chars : PutChar(ch)
  \/ LineFeed \/ EnterAlt \/ LeaveAlt \/ SaveCursor \/ RestoreCursor
  \/ \E n, m \in Counts : PlaceCursor(n, m) \/ SetRegion(n, m)
  \/ \E n \in Counts : MoveCursor(n) \/ DeleteChars(n) \/ \E b \in BOOLEAN : EditLines(n, b) \/ Scroll(b, n)
  \/ \E lines \in BOOLEAN, mode \in 0..2 : Erase(lines, mode)

ScreenNext == Drawing \/ \E p \in Renditions : SetRendition(p)

ScreenSpec == ScreenInit /\ [][ScreenNext]_screenVars

-----------------------------------------------------------------------------
(* Properties *)

Fits(g) == DOMAIN g = 1..size.rows /\ \A r \in DOMAIN g : DOMAIN g[r] = 1..size.cols

(* Whatever is scrolled, inserted, deleted, resized and switched, both     *)
(* screens have as many rows and columns as the pane, and the scroll       *)
(* region ends on the screen: the row operations index within the grid.    *)
GridFits ==
  /\ Fits(grid) /\ (alt # None => Fits(alt))
  /\ region.bottom < size.rows
  /\ inAlt = (alt # None)

(* The places where characters differ, and those of rows that are new.     *)
Redrawn(new, old) ==
  {p \in Places(new) :
     \/ p[1] \notin DOMAIN old
     \/ p \in Places(old) /\ new[p[1]][p[2]].char # old[p[1]][p[2]].char}

InGrid(p) == p.row < size.rows /\ p.col < size.cols

(* The cursor leaves the grid only when a saved position is restored that  *)
(* a smaller size has cut off, and only such a cursor makes a sequence     *)
(* index out of range.                                                     *)
CursorStaysInGrid ==
  [][/\ InGrid(cursor) /\ ~InGrid(cursor)' => cursor' = saved /\ ~InGrid(saved)
     /\ panicked' => ~InGrid(cursor)]_screenVars

(* The alternate screen hides the main one and gives it back as it was,    *)
(* cropped by the resizes in between, as long as it is not entered twice.  *)
MainScreenKept == ~nested => (IF inAlt THEN alt ELSE grid) = main

(* compute_diff reports the places whose characters a step has changed, no *)
(* more and no fewer, and the rows that a resize has added.  Not those     *)
(* where attributes alone have changed, nor the columns that a resize has  *)
(* added: these a reader that repaints what is reported leaves as they     *)
(* were.                                                                   *)
DiffFindsCharacters ==
  [][grid' # grid => Reported(grid', grid) = Redrawn(grid', grid)]_screenVars

(* Whatever sequences have made the attributes of two neighbouring cells,  *)
(* render_to_sgr writes those of the second so that parsing gives them     *)
(* back, after the first as well as after a plain one.                     *)
SgrRoundTrip ==
  [][pen' # pen => \A b \in {PlainAttr, pen} : Sgr(b, Emitted(pen')) = pen']_screenVars
=============================================================================
