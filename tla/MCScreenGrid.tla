------------------------------ MODULE MCScreenGrid ------------------------------
(* Bounded instances of ScreenGrid for TLC. *)
EXTENDS ScreenGrid

(* Wide and high enough for a region between two lines and for a cursor    *)
(* more than one column beyond the other size.                             *)
MCSizes == {[cols |-> 3, rows |-> 2], [cols |-> 1, rows |-> 3]}

(* Each attribute switched on, those with a way of their own off, and      *)
(* colours: of the short forms, the long ones, and cut short.              *)
MCRenditions ==
  {<<0>>, <<22>>, <<23, 24>>, <<27, 39>>, <<1>>, <<3, 4>>, <<2, 7>>, <<91, 49>>,
   <<48, 2, 1, 5, 38>>, <<101, 38, 2, 1, 5, 38>>, <<48, 5>>, <<38, 5, 9, 4>>}

Unsaved ==
  /\ saved = [row |-> 0, col |-> 0]
  /\ region = [top |-> 0, bottom |-> size.rows - 1]
Untouched ==
  /\ grid = EmptyGrid(size) /\ ~inAlt
  /\ cursor = [row |-> 0, col |-> 0] /\ Unsaved

Plain(g) == \A p \in Written(g) : g[p[1]][p[2]].attr = PlainAttr

(* Attributes change on an untouched screen; bold, which tells cells of    *)
(* one character apart, also on a written one.  No sequence looks at       *)
(* attributes: with them, no position is saved, no region is set and the   *)
(* main screen is shown.                                                   *)
PenFirst ==
  \/ Untouched
  \/ pen = PlainAttr /\ Plain(grid) /\ (alt = None \/ Plain(alt))
  \/ pen \in {PlainAttr, [PlainAttr EXCEPT !.bold = TRUE]} /\ Unsaved /\ ~inAlt

MCNext ==
  \/ Drawing
  \/ \E p \in Renditions : (Untouched \/ p \in {<<0>>, <<1>>}) /\ SetRendition(p)
MCSpec == ScreenInit /\ [][MCNext]_screenVars
=============================================================================
