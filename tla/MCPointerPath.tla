----------------------------- MODULE MCPointerPath -----------------------------
(***************************************************************************)
(* PointerPath for TLC: a local screen left and above of the origin, a     *)
(* remote with a monitor missing from one corner, and another remote.      *)
(***************************************************************************)
EXTENDS PointerPath, CombinedSpace

CONSTANTS r, s

Link(from, edge, to) == [from |-> from, edge |-> edge, to |-> to]

Wide == Rect(0, 0, 4, 2)
Small == Rect(0, 0, 2, 2)

(* r to the right of the local screen, and s below r.                      *)
Row == [
  rect |-> [n \in {Local, r, s} |->
    IF n = Local THEN Rect(-1, -1, 1, 1) ELSE IF n = r THEN Wide ELSE Small],
  across |-> Neighbours(<<Link(Local, "right", r), Link(r, "bottom", s)>>)]

(* r above the local screen, which is relinked to it; s is gone.           *)
Column == [
  rect |-> [n \in {Local, r} |-> IF n = Local THEN Rect(-1, -1, 1, 1) ELSE Small],
  across |-> Neighbours(<<Link(Local, "top", s), Link(Local, "top", r),
                          Link(r, "right", s)>>)]

MCLayouts == {Row, Column}
MCReports ==
  [n \in {r, s} |->
    IF n = r THEN {<<Rect(0, 0, 2, 2), Rect(2, 0, 4, 1)>>} ELSE {<<>>}]
MCSessions == {<<r, 1>>, <<r, 2>>, <<s, 1>>}
MCDeltas == {<<1, 1>>, <<-2, 0>>}

(* The two-screen space beside the layout of one link: they agree on a     *)
(* move if and only if it does not round a corner, and some moves do when  *)
(* one screen is above the other.                                          *)
MCSpaces ==
  {[local |-> Rect(-1, -1, 1, 1), remote |-> Wide, edge |-> e] : e \in Edge}
MCStates(space) ==
  UNION {{[region |-> n, at |-> p] : p \in Points(RectOf(space, n))} :
         n \in {"local", "remote"}}
MCMoves == (-3 .. 3) \X (-3 .. 3)

ASSUME SpacesAgreeOffCorners ==
  \A space \in MCSpaces : \A state \in MCStates(space) : \A move \in MCMoves :
    SpacesAgree(space, state, move) <=> ~RoundsCorner(space, state, move)
ASSUME SomeMoveRoundsACorner ==
  \A space \in MCSpaces : space.edge \in {"top", "bottom"} =>
    \E state \in MCStates(space) : \E move \in MCMoves : RoundsCorner(space, state, move)
================================================================================
