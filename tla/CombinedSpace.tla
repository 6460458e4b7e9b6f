----------------------------- MODULE CombinedSpace -----------------------------
(***************************************************************************)
(* The two-screen space the seamless capture moves its cursor in           *)
(* (CombinedSpace of screen_space.rs).  It is older than the multi-screen  *)
(* space of ScreenSpace and is written without it.                         *)
(*                                                                         *)
(* A space has the rectangles of the local and the remote screen and the   *)
(* edge of the local one that the remote is attached to.  A state is the   *)
(* region the cursor is in and where it is there.                          *)
(***************************************************************************)
EXTENDS ScreenSpace

Spaces == [local : Rects, remote : Rects, edge : Edge]

RectOf(space, region) == IF region = "local" THEN space.local ELSE space.remote

(* crosses_local_to_remote, crosses_remote_to_local: only the one edge     *)
(* that joins the screens counts, whatever other edge p is beyond.         *)
CrossesToRemote(space, p) ==
  CASE space.edge = "right"  -> p[1] >= space.local.right
    [] space.edge = "left"   -> p[1] < space.local.left
    [] space.edge = "top"    -> p[2] < space.local.top
    [] space.edge = "bottom" -> p[2] >= space.local.bottom

CrossesToLocal(space, p) ==
  CASE space.edge = "right"  -> p[1] < space.remote.left
    [] space.edge = "left"   -> p[1] >= space.remote.right
    [] space.edge = "top"    -> p[2] >= space.remote.bottom
    [] space.edge = "bottom" -> p[2] < space.remote.top

(* The same proportion of the other screen's side.                         *)
Across1(from, to, p) == MapRatio(p[1], from.left, Width(from), to.left, Width(to))
Across2(from, to, p) == MapRatio(p[2], from.top, Height(from), to.top, Height(to))

(* enter_remote, enter_local: Inset points inside the edge that was        *)
(* crossed.                                                                *)
EnterRemote(space, exit) ==
  LET near == space.local
      far == space.remote
  IN CASE space.edge = "right"  -> {far.left + Inset} \X Across2(near, far, exit)
       [] space.edge = "left"   -> {far.right - 1 - Inset} \X Across2(near, far, exit)
       [] space.edge = "top"    -> Across1(near, far, exit) \X {far.bottom - 1 - Inset}
       [] space.edge = "bottom" -> Across1(near, far, exit) \X {far.top + Inset}

EnterLocal(space, exit) ==
  LET near == space.local
      far == space.remote
  IN CASE space.edge = "right"  -> {near.right - 1 - Inset} \X Across2(far, near, exit)
       [] space.edge = "left"   -> {near.left + Inset} \X Across2(far, near, exit)
       [] space.edge = "top"    -> Across1(far, near, exit) \X {near.top + Inset}
       [] space.edge = "bottom" -> Across1(far, near, exit) \X {near.bottom - 1 - Inset}

(* CombinedSpace::apply_delta.                                             *)
CombinedDelta(space, state, delta) ==
  LET next == <<state.at[1] + delta[1], state.at[2] + delta[2]>>
  IN IF state.region = "local"
     THEN IF CrossesToRemote(space, next)
          THEN {[region |-> "remote", at |-> p] : p \in EnterRemote(space, next)}
          ELSE {[region |-> "local", at |-> Within(space.local, next)]}
     ELSE IF CrossesToLocal(space, next)
          THEN {[region |-> "local", at |-> p] : p \in EnterLocal(space, next)}
          ELSE {[region |-> "remote", at |-> Within(space.remote, next)]}

(* The seamless capture puts the cursor on a monitor of the peer when it   *)
(* enters, and after each move that does not return (seamless.rs).         *)
SeamlessEnter(space, monitors, exit) ==
  {ClampToRects(p, monitors) : p \in EnterRemote(space, exit)}

SeamlessMove(space, monitors, at, delta) ==
  {IF s.region = "remote" THEN [s EXCEPT !.at = ClampToRects(@, monitors)] ELSE s :
     s \in CombinedDelta(space, [region |-> "remote", at |-> at], delta)}

(***************************************************************************)
(* What the two spaces have to do with each other.                         *)
(***************************************************************************)

(* The same two screens as a layout of ScreenSpace, which is told of one   *)
(* link; a state as the cursor of that layout.                             *)
LayoutOf(space) == [
  rect |-> [n \in {"local", "remote"} |-> RectOf(space, n)],
  across |-> Neighbours(<<[from |-> "local", edge |-> space.edge, to |-> "remote"]>>)]

AsCursor(state) == [screen |-> state.region, at |-> state.at]

(* The edge of a region that the other screen is beyond.                   *)
JoinedEdge(space, region) ==
  IF region = "local" THEN space.edge ELSE Opposite[space.edge]

(* A move passes the joined edge, but the corner it ends beyond counts as  *)
(* another edge.                                                           *)
RoundsCorner(space, state, delta) ==
  LET rect == RectOf(space, state.region)
      next == <<state.at[1] + delta[1], state.at[2] + delta[2]>>
      joined == JoinedEdge(space, state.region)
  IN Beyond(rect, next)[joined] /\ joined \notin Crossed(rect, next)

(* The two agree on a move.                                                *)
SpacesAgree(space, state, delta) ==
  {AsCursor(s) : s \in CombinedDelta(space, state, delta)}
    = ApplyDelta(LayoutOf(space), AsCursor(state), delta)
================================================================================
