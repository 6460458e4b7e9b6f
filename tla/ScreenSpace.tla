------------------------------ MODULE ScreenSpace ------------------------------
(***************************************************************************)
(* The geometry the multi-screen router moves its cursor in: screen_space  *)
(* and layout_graph of tailkvm-win32.  Both are pure; a call that may have *)
(* several results, because the code rounds in floating point, is the set  *)
(* of them.                                                                *)
(*                                                                         *)
(* A point is a pair <<x, y>>.  A rectangle holds the points from its left *)
(* and top up to, and without, its right and bottom.                       *)
(***************************************************************************)
EXTENDS Integers, Sequences

CONSTANT Inset    \* MultiScreenSpace.inset, 2 in the code

ASSUME InsetAssumption == Inset \in Nat

Rect(left, top, right, bottom) ==
  [left |-> left, top |-> top, right |-> right, bottom |-> bottom]

Rects == [{"left", "top", "right", "bottom"} -> Int]

Points(rect) == (rect.left .. rect.right - 1) \X (rect.top .. rect.bottom - 1)
Width(rect) == rect.right - rect.left
Height(rect) == rect.bottom - rect.top

(* Edges, in the order in which a corner is taken for one of them.         *)
Edges == <<"right", "left", "top", "bottom">>
Edge == {Edges[i] : i \in DOMAIN Edges}
Opposite ==
  [right |-> "left", left |-> "right", top |-> "bottom", bottom |-> "top"]

ClampTo(v, low, high) == IF v < low THEN low ELSE IF v > high THEN high ELSE v
\* Mutant: takes right and bottom for points of the rectangle.
WithinOrOn(rect, p) ==
  <<ClampTo(p[1], rect.left, rect.right), ClampTo(p[2], rect.top, rect.bottom)>>

Within(rect, p) ==
  <<ClampTo(p[1], rect.left, rect.right - 1), ClampTo(p[2], rect.top, rect.bottom - 1)>>

(* LayoutGraph::link: the neighbours across the edges, in both directions; *)
(* a later link overwrites what an earlier one said of the same edge.      *)
Said(links) ==
  [i \in 1 .. 2 * Len(links) |->
     LET l == links[(i + 1) \div 2] IN
       IF i % 2 = 1 THEN [side |-> <<l.from, l.edge>>, to |-> l.to]
       ELSE [side |-> <<l.to, Opposite[l.edge]>>, to |-> l.from]]
Neighbours(links) ==
  LET said == Said(links)
      last(side) == CHOOSE i \in DOMAIN said :
        said[i].side = side /\ \A j \in DOMAIN said : said[j].side = side => j <= i
  IN [side \in {said[i].side : i \in DOMAIN said} |-> said[last(side)].to]

(* The neighbours across an edge that are part of the layout: none or one. *)
(* A layout has the rectangles of its screens, "rect", and "across", what  *)
(* Neighbours gives.                                                       *)
Across(layout, screen, edge) ==
  {n \in DOMAIN layout.rect :
     <<screen, edge>> \in DOMAIN layout.across /\ layout.across[<<screen, edge>>] = n}

(* map_ratio: the nearest to the same proportion of the other side; half   *)
(* way between two, floating point may come out on either.                 *)
MapRatio(v, from_lo, from_len, to_lo, to_len) ==
  LET part == ClampTo(v - from_lo, 0, from_len)
      off(k) == 2 * (part * (to_len - 1) - k * from_len)
  IN {to_lo + k : k \in {i \in 0 .. to_len - 1 : off(i) \in -from_len .. from_len}}

(* MultiScreenSpace::enter: just inside the opposite edge, at the height   *)
(* or the width the cursor left at.                                        *)
Enter(from, nb, edge, exit) ==
  LET xs == MapRatio(exit[1], from.left, Width(from), nb.left, Width(nb))
      ys == MapRatio(exit[2], from.top, Height(from), nb.top, Height(nb))
  IN CASE edge = "right"  -> {nb.left + Inset} \X ys
       [] edge = "left"   -> {nb.right - 1 - Inset} \X ys
       [] edge = "top"    -> xs \X {nb.bottom - 1 - Inset}
       [] edge = "bottom" -> xs \X {nb.top + Inset}

(* Whether p is beyond an edge; the edge it counts as having crossed.      *)
Beyond(rect, p) ==
  [right |-> p[1] >= rect.right, left |-> p[1] < rect.left,
   top |-> p[2] < rect.top, bottom |-> p[2] >= rect.bottom]
Crossed(rect, p) ==
  {Edges[i] : i \in {j \in DOMAIN Edges :
     Beyond(rect, p)[Edges[j]] /\ \A k \in 1 .. j - 1 : ~Beyond(rect, p)[Edges[k]]}}

(* MultiScreenSpace::enter_neighbor.                                       *)
EnterNeighbor(layout, screen, edge, exit) ==
  UNION {{[screen |-> n, at |-> p] :
            p \in Enter(layout.rect[screen], layout.rect[n], edge, exit)} :
         n \in Across(layout, screen, edge)}

(* MultiScreenSpace::apply_delta, for a cursor on a screen of the layout.  *)
ApplyDelta(layout, cursor, delta) ==
  LET rect == layout.rect[cursor.screen]
      next == <<cursor.at[1] + delta[1], cursor.at[2] + delta[2]>>
      entered == UNION {EnterNeighbor(layout, cursor.screen, e, next) :
                        e \in Crossed(rect, next)}
  IN IF entered # {} THEN entered
     ELSE {[screen |-> cursor.screen, at |-> Within(rect, next)]}

(* clamp_to_rects: the nearest point on a monitor, on the first monitor    *)
(* that is as near; the point itself when no monitor is known.             *)
Square(n) == n * n
Distance(p, q) == Square(p[1] - q[1]) + Square(p[2] - q[2])
ClampToRects(p, monitors) ==
  LET real == {i \in DOMAIN monitors :
                 Width(monitors[i]) > 0 /\ Height(monitors[i]) > 0}
      off(i) == Distance(p, Within(monitors[i], p))
      best == CHOOSE i \in real :
                \A j \in real : off(i) < off(j) \/ (off(i) = off(j) /\ i <= j)
  IN IF real = {} THEN p ELSE Within(monitors[best], p)
================================================================================
