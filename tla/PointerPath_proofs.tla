--------------------------- MODULE PointerPath_proofs ---------------------------
(***************************************************************************)
(* Proofs about PointerPath: the cursor stays on the screens, the path     *)
(* implements PointerStream, and buttons land where they were sent.        *)
(***************************************************************************)
EXTENDS PointerPath, ScreenSpace_proofs

(***************************************************************************)
(* Geometry.                                                               *)
(***************************************************************************)

(* Crossing to a neighbour ends on a screen of the layout.                 *)
LEMMA EnterNeighborIsInside ==
  ASSUME NEW l \in Layouts, NEW screen \in DOMAIN l.rect, NEW edge \in Edge,
         NEW exit \in Int \X Int,
         NEW c \in EnterNeighbor(l, screen, edge, exit)
  PROVE  /\ c.screen \in DOMAIN l.rect /\ c.at \in Points(l.rect[c.screen])
         /\ c = [screen |-> c.screen, at |-> c.at] /\ c.screen # screen
<1>1. PICK n \in Across(l, screen, edge) :
        \E p \in Enter(l.rect[screen], l.rect[n], edge, exit) : c = [screen |-> n, at |-> p]
  BY DEF EnterNeighbor
<1>2. n \in DOMAIN l.rect /\ n # screen
  <2>1. <<screen, edge>> \in DOMAIN l.across => l.across[<<screen, edge>>] # screen
    BY LayoutAssumption
  <2>2. QED
    BY <2>1 DEF Across
<1>3. Enter(l.rect[screen], l.rect[n], edge, exit) \subseteq Points(l.rect[n])
  <2>1. /\ l.rect[screen] \in Rects /\ l.rect[n] \in Rects
        /\ Width(l.rect[n]) > Inset /\ Height(l.rect[n]) > Inset
    BY <1>2, LayoutAssumption
  <2>2. QED
    BY <2>1, EnterIsInside
<1>4. QED
  BY <1>1, <1>2, <1>3

(* Whatever the motion, the cursor stays on a screen of the layout         *)
(* (MultiScreenSpace::apply_delta).                                        *)
LEMMA ApplyDeltaIsInside ==
  ASSUME NEW l \in Layouts, NEW cur, cur.screen \in DOMAIN l.rect,
         cur.at \in Int \X Int, NEW delta \in Int \X Int,
         NEW c \in ApplyDelta(l, cur, delta)
  PROVE  /\ c.screen \in DOMAIN l.rect /\ c.at \in Points(l.rect[c.screen])
         /\ c = [screen |-> c.screen, at |-> c.at]
<1> DEFINE rect == l.rect[cur.screen]
           next == <<cur.at[1] + delta[1], cur.at[2] + delta[2]>>
           entered == UNION {EnterNeighbor(l, cur.screen, e, next) : e \in Crossed(rect, next)}
<1>1. next \in Int \X Int
  OBVIOUS
<1>2. c \in IF entered # {} THEN entered
            ELSE {[screen |-> cur.screen, at |-> Within(rect, next)]}
  BY DEF ApplyDelta
<1>3. Crossed(rect, next) \subseteq Edge
  BY DEF Crossed, Edge
<1> HIDE DEF next, rect
<1>4. CASE entered # {}
  <2>1. PICK e \in Crossed(rect, next) : c \in EnterNeighbor(l, cur.screen, e, next)
    BY <1>2, <1>4
  <2>2. QED
    BY <1>1, <1>3, <2>1, EnterNeighborIsInside
<1>5. CASE entered = {}
  <2>1. c = [screen |-> cur.screen, at |-> Within(rect, next)]
    BY <1>2, <1>5
  <2>2. rect \in Rects /\ Width(rect) > 0 /\ Height(rect) > 0
    <3>1. rect \in Rects /\ Width(rect) > Inset /\ Height(rect) > Inset
      BY LayoutAssumption DEF rect
    <3>2. QED
      BY <3>1, InsetAssumption DEF Rects, Width, Height
  <2>3. Within(rect, next) \in Points(rect)
    BY <1>1, <2>2, WithinIsInside
  <2>4. QED
    BY <2>1, <2>3 DEF rect
<1>6. QED
  BY <1>4, <1>5

(* The places of a screen are points of integers.                          *)
LEMMA PointsAreIntegers ==
  ASSUME NEW rect \in Rects
  PROVE  Points(rect) \subseteq Int \X Int
BY DEF Points, Rects

LEMMA PlacesHoldRects ==
  ASSUME NEW l \in Layouts, NEW s \in DOMAIN l.rect
  PROVE  s \in Screens /\ Points(l.rect[s]) \subseteq Places[s]
BY LayoutAssumption DEF Places

LEMMA PlacesHoldMonitors ==
  ASSUME NEW s \in Remotes, NEW r \in Reports[s], NEW i \in DOMAIN r
  PROVE  Points(r[i]) \subseteq Places[s]
<1>1. s \in Screens /\ Monitors(s) = Reports[s]
  BY ScreenAssumption DEF Screens, Monitors
<1>2. QED
  BY <1>1 DEF Places

LEMMA PlacesAreIntegers ==
  ASSUME NEW s \in Screens
  PROVE  Places[s] \subseteq Int \X Int
<1> SUFFICES ASSUME NEW p \in Places[s] PROVE p \in Int \X Int
  OBVIOUS
<1>1. \/ \E l \in Layouts : s \in DOMAIN l.rect /\ p \in Points(l.rect[s])
      \/ \E r \in Monitors(s) : \E i \in DOMAIN r : p \in Points(r[i])
  BY DEF Places
<1>2. CASE \E l \in Layouts : s \in DOMAIN l.rect /\ p \in Points(l.rect[s])
  <2>1. PICK l \in Layouts : s \in DOMAIN l.rect /\ p \in Points(l.rect[s])
    BY <1>2
  <2>2. l.rect[s] \in Rects
    BY <2>1, LayoutAssumption
  <2>3. QED
    BY <2>1, <2>2, PointsAreIntegers
<1>3. CASE \E r \in Monitors(s) : \E i \in DOMAIN r : p \in Points(r[i])
  <2>1. PICK r \in Monitors(s) : \E i \in DOMAIN r : p \in Points(r[i])
    BY <1>3
  <2>2. r \in Seq(Rects)
    BY <2>1, ReportAssumption, ScreenAssumption DEF Monitors, Screens
  <2>3. \A i \in DOMAIN r : r[i] \in Rects
    BY <2>2, LenProperties
  <2>4. QED
    BY <2>1, <2>3, PointsAreIntegers
<1>4. QED
  BY <1>1, <1>2, <1>3

LEMMA PlacesAreSomewhere ==
  ASSUME NEW s \in Screens, NEW p \in Places[s]
  PROVE  p # Nowhere
<1>1. PICK i \in Int, j \in Int : p = <<i, j>>
  BY PlacesAreIntegers
<1>2. QED
  BY <1>1 DEF Nowhere

(***************************************************************************)
(* Types.                                                                  *)
(***************************************************************************)

LEMMA RemotesAreScreens ==
  /\ Remotes \subseteq Screens /\ Local \in Screens /\ Screens \ {Local} \subseteq Remotes
BY ScreenAssumption DEF Screens

LEMMA SessionsAreOfRemotes ==
  ASSUME NEW c \in Sessions
  PROVE  c[1] \in Remotes /\ c # None
<1>1. c \in Remotes \X Nat
  BY SessionAssumption
<1>2. PICK s \in Remotes, n \in Nat : c = <<s, n>>
  BY <1>1
<1>3. QED
  BY <1>2 DEF None

(* The session positions go to, if it runs.                                *)
LEMMA SenderIsSession ==
  ASSUME TypeOK, NEW s \in Remotes, tx[s] \in live
  PROVE  tx[s] \in Sessions /\ tx[s][1] = s /\ tx[s] # None
<1>1. tx[s] \in Sessions
  BY DEF TypeOK, CountsOK
<1>2. tx[s] # None
  BY <1>1, SessionsAreOfRemotes
<1>3. QED
  BY <1>1, <1>2 DEF TypeOK, RouterOK

LEMMA MessagesAreTyped ==
  ASSUME NEW s \in Remotes, NEW p \in Places[s] \cup {Nowhere}
  PROVE  /\ Button(p) \in MessagesTo[s]
         /\ p # Nowhere => Position(p) \in MessagesTo[s]
BY DEF MessagesTo

(* Clamping onto the reported monitors keeps the cursor among its places.  *)
LEMMA OnMonitorsIsInside ==
  ASSUME MonitorsOK, NEW s \in Remotes, NEW p \in Places[s]
  PROVE  OnMonitors([screen |-> s, at |-> p]).at \in Places[s]
<1> DEFINE q == ClampToRects(p, monitors[s])
<1>1. p \in Int \X Int
  BY PlacesAreIntegers, RemotesAreScreens
<1>2. CASE monitors[s] = <<>>
  <2>1. q = p
    BY <1>2 DEF ClampToRects
  <2>2. QED
    BY <2>1 DEF OnMonitors
<1>3. CASE monitors[s] \in Reports[s]
  <2>1. monitors[s] \in Seq(Rects)
    BY <1>3, ReportAssumption
  <2>2. q = p \/ \E i \in DOMAIN monitors[s] : q \in Points(monitors[s][i])
    BY <1>1, <2>1, ClampEndsOnMonitor
  <2>3. q \in Places[s]
    BY <1>3, <2>2, PlacesHoldMonitors
  <2>4. QED
    BY <2>3 DEF OnMonitors
<1>4. QED
  BY <1>2, <1>3 DEF MonitorsOK

(* A crossing leaves the router on a remote, with a slot for it or none.   *)
LEMMA CrossesIsTyped ==
  ASSUME RouterOK, MonitorsOK, NEW c, c.screen \in Remotes, c.at \in Places[c.screen],
         Crosses(c), UNCHANGED <<layout, tx>>
  PROVE  RouterOK'
<1>1. OnMonitors(c) = [screen |-> c.screen, at |-> OnMonitors(c).at]
      /\ OnMonitors(c).at \in Places[c.screen]
  BY OnMonitorsIsInside DEF OnMonitors
<1>2. cursor' \in [screen : Screens, at : Places[cursor'.screen]] /\ cursor'.screen = c.screen
  BY <1>1, RemotesAreScreens DEF Crosses
<1>3. slot' \in Sessions \cup {None} /\ (slot' # None => slot'[1] = active')
  BY DEF Crosses, RouterOK
<1>4. active' \in Screens /\ active' # Local /\ active' = c.screen
  BY ScreenAssumption, RemotesAreScreens DEF Crosses
<1>5. QED
  BY <1>2, <1>3, <1>4 DEF RouterOK, Crosses

LEMMA ReturnsIsTyped ==
  ASSUME RouterOK, Returns, UNCHANGED <<layout, tx>>,
         cursor' \in [screen : Screens, at : Places[cursor'.screen]]
  PROVE  RouterOK'
BY RemotesAreScreens DEF RouterOK, Returns

LEMMA SendPositionIsTyped ==
  ASSUME TypeOK, NEW s \in Remotes, NEW p \in Places[s], SendPosition(s, p),
         UNCHANGED <<batch, writing, wire>>
  PROVE  PathOK' /\ gap' \in BOOLEAN
<1>1. Position(p) \in MessagesTo[s]
  <2>1. p # Nowhere
    BY PlacesAreSomewhere, RemotesAreScreens
  <2>2. QED
    BY <2>1, MessagesAreTyped
<1>2. gap' \in BOOLEAN
  <2>1. tx[s] \in live => gap' = FALSE
    BY DEF SendPosition
  <2>2. tx[s] \notin live => gap' = TRUE
    BY DEF SendPosition
  <2>3. QED
    BY <2>1, <2>2
<1>3. CASE tx[s] \notin live
  BY <1>2, <1>3 DEF SendPosition, TypeOK, PathOK
<1>4. CASE tx[s] \in live
  <2>1. PICK c \in Sessions : c = tx[s] /\ c[1] = s
    BY <1>4, SenderIsSession
  <2>2. queue' = [queue EXCEPT ![c] = Append(queue[c], Position(p))]
        /\ Len(queue[c]) < MaxQueue
    BY <1>4, <2>1 DEF SendPosition, Room
  <2> DEFINE M == MessagesTo[c[1]]
  <2>3. queue[c] \in Seq(M) /\ Position(p) \in M
    BY <1>1, <2>1 DEF TypeOK, PathOK
  <2> HIDE DEF M
  <2>4. /\ Append(queue[c], Position(p)) \in Seq(M)
        /\ Len(Append(queue[c], Position(p))) <= MaxQueue
    BY <2>2, <2>3, BoundAssumption
  <2>5. \A d \in Sessions : queue'[d] \in Seq(MessagesTo[d[1]]) /\ Len(queue'[d]) <= MaxQueue
    BY <2>2, <2>4 DEF TypeOK, PathOK, M
  <2>6. QED
    BY <1>2, <2>2, <2>5 DEF TypeOK, PathOK
<1>5. QED
  BY <1>3, <1>4

(* What a step that does not touch a part leaves of it.                    *)
LEMMA UntouchedParts ==
  ASSUME TypeOK
  PROVE  /\ UNCHANGED <<layout, router, tx>> => RouterOK'
         /\ UNCHANGED monitors => MonitorsOK'
         /\ UNCHANGED <<queue, batch, writing, wire>> => PathOK'
         /\ UNCHANGED remote => PointerOK'
BY DEF TypeOK, RouterOK, MonitorsOK, PathOK, PointerOK, router, remote

LEMMA MoveIsCounted ==
  ASSUME TypeOK, Moves, gap' \in BOOLEAN, UNCHANGED <<live, writing, clicks, faults>>
  PROVE  CountsOK'
<1>1. moves' \in 0 .. MaxMoves
  BY BoundAssumption DEF TypeOK, CountsOK, Moves
<1>2. QED
  BY <1>1 DEF TypeOK, CountsOK

LEMMA FailIsCounted ==
  ASSUME TypeOK, Fails, gap' \in BOOLEAN, live' \subseteq Sessions,
         writing' \subseteq live', UNCHANGED <<moves, clicks>>
  PROVE  CountsOK'
<1>1. faults' \in 0 .. MaxFaults
  BY BoundAssumption DEF TypeOK, CountsOK, Fails
<1>2. QED
  BY <1>1 DEF TypeOK, CountsOK

LEMMA LeaveIsTyped ==
  ASSUME TypeOK, Leave
  PROVE  TypeOK'
<1>1. PICK edge \in Edge, p \in Points(layout.rect[Local]) :
        \E c \in EnterNeighbor(layout, Local, edge, p) : Crosses(c)
  BY DEF Leave
<1>2. PICK c \in EnterNeighbor(layout, Local, edge, p) : Crosses(c)
  BY <1>1
<1>3. layout \in Layouts /\ Local \in DOMAIN layout.rect /\ layout.rect[Local] \in Rects
  BY LayoutAssumption DEF TypeOK, RouterOK
<1>4. p \in Int \X Int
  BY <1>3, PointsAreIntegers
<1>5. c.screen \in DOMAIN layout.rect /\ c.at \in Points(layout.rect[c.screen])
      /\ c.screen # Local
  BY <1>3, <1>4, EnterNeighborIsInside
<1>6. c.screen \in Remotes /\ c.at \in Places[c.screen]
  BY <1>3, <1>5, PlacesHoldRects, RemotesAreScreens
<1>7. RouterOK'
  BY <1>2, <1>6, CrossesIsTyped DEF TypeOK, Leave
<1>8. MonitorsOK' /\ PathOK' /\ PointerOK'
  BY <1>2, UntouchedParts DEF Leave, Crosses, remote
<1>9. CountsOK'
  BY <1>2, MoveIsCounted DEF Leave, Crosses, remote
<1>10. QED
  BY <1>7, <1>8, <1>9 DEF TypeOK

LEMMA SendEntryIsTyped ==
  ASSUME TypeOK, SendEntry
  PROVE  TypeOK'
<1>1. active \in Remotes /\ cursor.at \in Places[active]
  BY RemotesAreScreens DEF TypeOK, RouterOK, SendEntry
<1>2. PathOK' /\ gap' \in BOOLEAN
  BY <1>1, SendPositionIsTyped DEF TypeOK, SendEntry
<1>3. RouterOK'
  BY DEF TypeOK, RouterOK, SendEntry
<1>4. MonitorsOK' /\ PointerOK'
  BY UntouchedParts DEF SendEntry, remote
<1>5. CountsOK'
  BY <1>2 DEF SendEntry, remote, bounds, TypeOK, CountsOK
<1>6. QED
  BY <1>2, <1>3, <1>4, <1>5 DEF TypeOK

LEMMA MoveIsTyped ==
  ASSUME TypeOK, Move
  PROVE  TypeOK'
<1> DEFINE stays(c) ==
             /\ c.screen = active /\ tx[active] # None
             /\ cursor' = OnMonitors(c)
             /\ SendPosition(active, cursor'.at)
             /\ UNCHANGED <<active, pc, slot>>
           waits(c) ==
             /\ c.screen = active /\ tx[active] = None
             /\ cursor' = c
             /\ gap' = TRUE
             /\ UNCHANGED <<active, pc, slot, queue>>
           comes_home(c) == c.screen = Local /\ cursor' = c /\ Returns
           goes_on(c) == c.screen \notin {active, Local} /\ Crosses(c)
<1>1. /\ Steers /\ Moves
      /\ UNCHANGED <<layout, monitors, tx, live, batch, writing, wire, remote, clicks, faults>>
      /\ \E delta \in Deltas : \E c \in ApplyDelta(layout, cursor, delta) :
           stays(c) \/ waits(c) \/ comes_home(c) \/ goes_on(c)
  BY DEF Move
<1>a. PICK delta \in Deltas : \E c \in ApplyDelta(layout, cursor, delta) :
        stays(c) \/ waits(c) \/ comes_home(c) \/ goes_on(c)
  BY <1>1
<1>2. PICK c \in ApplyDelta(layout, cursor, delta) :
        stays(c) \/ waits(c) \/ comes_home(c) \/ goes_on(c)
  BY <1>a
<1> HIDE DEF stays, waits, comes_home, goes_on
<1>3. /\ layout \in Layouts
      /\ active \in Remotes /\ active \in DOMAIN layout.rect /\ active # Local
      /\ cursor.screen = active /\ cursor.at \in Places[active]
  BY <1>1, ScreenAssumption DEF Steers, TypeOK, RouterOK
<1>4. cursor.at \in Int \X Int
  BY <1>3, PlacesAreIntegers, RemotesAreScreens
<1>5. delta \in Int \X Int
  BY DeltaAssumption
<1>6. /\ c.screen \in DOMAIN layout.rect /\ c.at \in Points(layout.rect[c.screen])
      /\ c = [screen |-> c.screen, at |-> c.at]
  BY <1>2, <1>3, <1>4, <1>5, ApplyDeltaIsInside
<1>7. c.screen \in Screens /\ c.at \in Places[c.screen]
  BY <1>3, <1>6, PlacesHoldRects
<1>8. MonitorsOK' /\ PointerOK'
  BY <1>1, UntouchedParts DEF remote
<1>9. gap' \in BOOLEAN => CountsOK'
  BY <1>1, MoveIsCounted DEF remote
<1>10. CASE stays(c)
  <2>1. /\ cursor' = [screen |-> active, at |-> OnMonitors(c).at]
        /\ OnMonitors(c).at \in Places[active]
    BY <1>3, <1>6, <1>7, <1>10, OnMonitorsIsInside DEF TypeOK, OnMonitors, stays
  <2>2. PathOK' /\ gap' \in BOOLEAN
    BY <1>1, <1>3, <1>10, <2>1, SendPositionIsTyped DEF TypeOK, stays
  <2>3. RouterOK'
    BY <1>1, <1>3, <1>10, <2>1, RemotesAreScreens DEF TypeOK, RouterOK, stays
  <2>4. QED
    BY <1>8, <1>9, <2>2, <2>3 DEF TypeOK
<1>11. CASE waits(c)
  <2>1. RouterOK'
    BY <1>1, <1>3, <1>6, <1>7, <1>11 DEF TypeOK, RouterOK, waits
  <2>2. PathOK' /\ gap' \in BOOLEAN
    BY <1>1, <1>11, UntouchedParts DEF waits
  <2>3. QED
    BY <1>8, <1>9, <2>1, <2>2 DEF TypeOK
<1>12. CASE comes_home(c)
  <2>1. RouterOK'
    BY <1>1, <1>6, <1>7, <1>12, ReturnsIsTyped DEF TypeOK, comes_home
  <2>2. PathOK' /\ gap' \in BOOLEAN
    BY <1>1, <1>12, UntouchedParts DEF comes_home, Returns
  <2>3. QED
    BY <1>8, <1>9, <2>1, <2>2 DEF TypeOK
<1>13. CASE goes_on(c)
  <2>1. c.screen \in Remotes
    BY <1>7, <1>13, RemotesAreScreens DEF goes_on
  <2>2. RouterOK'
    BY <1>1, <1>7, <1>13, <2>1, CrossesIsTyped DEF TypeOK, goes_on
  <2>3. PathOK' /\ gap' \in BOOLEAN
    BY <1>1, <1>13, UntouchedParts DEF goes_on, Crosses
  <2>4. QED
    BY <1>8, <1>9, <2>2, <2>3 DEF TypeOK
<1>14. QED
  BY <1>2, <1>10, <1>11, <1>12, <1>13

LEMMA ComesHomeIsTyped ==
  ASSUME TypeOK, Returns,
         UNCHANGED <<layout, monitors, cursor, tx, live, batch, writing, wire, remote,
                     bounds>>
  PROVE  TypeOK'
<1>1. RouterOK'
  BY ReturnsIsTyped DEF TypeOK, RouterOK
<1>2. MonitorsOK' /\ PathOK' /\ PointerOK'
  BY UntouchedParts DEF Returns, remote
<1>3. CountsOK'
  BY DEF TypeOK, CountsOK, Returns, remote, bounds
<1>4. QED
  BY <1>1, <1>2, <1>3 DEF TypeOK

(* A click joins the queue of the session the slot sends to.               *)
LEMMA ClickIsTyped ==
  ASSUME TypeOK, Click
  PROVE  TypeOK'
<1> DEFINE at == IF pc = "run" /\ slot = tx[active] THEN cursor.at ELSE Nowhere
           M == MessagesTo[slot[1]]
<1>1. /\ slot \in Sessions /\ slot \in live /\ slot[1] = active /\ active \in Remotes
      /\ Len(queue[slot]) < MaxQueue
  <2>1. slot \in Sessions /\ slot \in live /\ Len(queue[slot]) < MaxQueue
    BY DEF Click, Room, TypeOK, CountsOK
  <2>2. QED
    BY <2>1, SessionsAreOfRemotes DEF TypeOK, RouterOK
<1>2. at \in Places[active] \cup {Nowhere}
  BY <1>1, ScreenAssumption DEF TypeOK, RouterOK
<1>3. Button(at) \in M
  <2> HIDE DEF at
  <2> QED
    BY <1>1, <1>2, MessagesAreTyped
<1>4. queue' = [queue EXCEPT ![slot] = Append(queue[slot], Button(at))]
  BY DEF Click
<1> HIDE DEF at, M
<1>5. Append(queue[slot], Button(at)) \in Seq(M)
      /\ Len(Append(queue[slot], Button(at))) <= MaxQueue
  <2>1. queue[slot] \in Seq(M)
    BY <1>1 DEF TypeOK, PathOK, M
  <2>2. QED
    BY <1>1, <1>3, <2>1, BoundAssumption
<1>6. PathOK'
  <2>1. \A d \in Sessions : queue'[d] \in Seq(MessagesTo[d[1]]) /\ Len(queue'[d]) <= MaxQueue
    BY <1>4, <1>5 DEF TypeOK, PathOK, M
  <2>2. QED
    BY <1>4, <2>1 DEF TypeOK, PathOK, Click
<1>7. RouterOK' /\ MonitorsOK' /\ PointerOK'
  BY UntouchedParts DEF Click, router, remote
<1>8. CountsOK'
  <2>1. clicks' \in 0 .. MaxClicks
    BY BoundAssumption DEF TypeOK, CountsOK, Click
  <2>2. QED
    BY <2>1 DEF TypeOK, CountsOK, Click, remote
<1>9. QED
  BY <1>6, <1>7, <1>8 DEF TypeOK

(* Coalescing yields a batch, and never an empty one.                      *)
LEMMA PushIsTyped ==
  ASSUME NEW M, NEW b \in Seq(M), NEW m \in M
  PROVE  PushCoalesced(b, m) \in Seq(M) /\ PushCoalesced(b, m) # <<>>
<1>1. CASE IsPosition(m) /\ b # <<>> /\ IsPosition(Last(b))
  <2>1. Front(b) \in Seq(M)
    BY <1>1 DEF Front
  <2>2. QED
    BY <1>1, <2>1 DEF PushCoalesced
<1>2. CASE ~(IsPosition(m) /\ b # <<>> /\ IsPosition(Last(b)))
  BY <1>2 DEF PushCoalesced
<1>3. QED
  BY <1>1, <1>2

LEMMA CollectIsTyped ==
  ASSUME TypeOK, NEW c \in Sessions, Collect(c)
  PROVE  TypeOK'
<1> DEFINE M == MessagesTo[c[1]]
           pushed == PushCoalesced(batch[c], Head(queue[c]))
<1>1. /\ batch' = [batch EXCEPT ![c] = pushed]
      /\ queue' = [queue EXCEPT ![c] = Tail(queue[c])]
      /\ queue[c] # <<>>
  BY DEF Collect
<1>2. queue[c] \in Seq(M) /\ batch[c] \in Seq(M) /\ Len(queue[c]) <= MaxQueue
  BY DEF TypeOK, PathOK
<1> HIDE DEF M
<1>3. Head(queue[c]) \in M /\ Tail(queue[c]) \in Seq(M) /\ Len(Tail(queue[c])) <= MaxQueue
  BY <1>1, <1>2, BoundAssumption
<1>4. pushed \in Seq(M) /\ pushed # <<>>
  BY <1>2, <1>3, PushIsTyped
<1> HIDE DEF pushed
<1>5. PathOK'
  <2>1. \A d \in Sessions :
          /\ queue'[d] \in Seq(MessagesTo[d[1]]) /\ Len(queue'[d]) <= MaxQueue
          /\ batch'[d] \in Seq(MessagesTo[d[1]]) /\ (d \in writing => batch'[d] # <<>>)
    BY <1>1, <1>3, <1>4 DEF TypeOK, PathOK, M
  <2>2. QED
    BY <1>1, <2>1 DEF TypeOK, PathOK, Collect
<1>6. RouterOK' /\ MonitorsOK' /\ PointerOK'
  BY UntouchedParts DEF Collect, router, remote
<1>7. CountsOK'
  BY DEF TypeOK, CountsOK, Collect, remote, bounds
<1>8. QED
  BY <1>5, <1>6, <1>7 DEF TypeOK

LEMMA FindsNoMoreIsTyped ==
  ASSUME TypeOK, NEW c \in Sessions, FindsNoMore(c)
  PROVE  TypeOK'
<1>1. PathOK'
  BY DEF TypeOK, PathOK, FindsNoMore
<1>2. RouterOK' /\ MonitorsOK' /\ PointerOK'
  BY UntouchedParts DEF FindsNoMore, router, remote
<1>3. CountsOK'
  BY DEF TypeOK, CountsOK, FindsNoMore, remote, bounds
<1>4. QED
  BY <1>1, <1>2, <1>3 DEF TypeOK

LEMMA WriteIsTyped ==
  ASSUME TypeOK, NEW c \in Sessions, Write(c)
  PROVE  TypeOK'
<1> DEFINE M == MessagesTo[c[1]]
<1>1. /\ wire' = [wire EXCEPT ![c] = Append(wire[c], Head(batch[c]))]
      /\ batch' = [batch EXCEPT ![c] = Tail(batch[c])]
      /\ c \in writing /\ Len(wire[c]) < MaxQueue
      /\ writing' = IF Len(batch[c]) = 1 THEN writing \ {c} ELSE writing
      /\ queue' = queue
  BY DEF Write
<1>2. wire[c] \in Seq(M) /\ batch[c] \in Seq(M) /\ batch[c] # <<>>
  BY <1>1 DEF TypeOK, PathOK
<1> HIDE DEF M
<1>3. /\ Tail(batch[c]) \in Seq(M)
      /\ Len(batch[c]) # 1 => Tail(batch[c]) # <<>>
      /\ Append(wire[c], Head(batch[c])) \in Seq(M)
      /\ Len(Append(wire[c], Head(batch[c]))) <= MaxQueue
  <2>1. Head(batch[c]) \in M /\ Tail(batch[c]) \in Seq(M)
        /\ Len(Tail(batch[c])) = Len(batch[c]) - 1
    BY <1>2
  <2>2. Len(batch[c]) \in Nat /\ Len(batch[c]) > 0
    BY <1>2
  <2>3. Len(batch[c]) # 1 => Tail(batch[c]) # <<>>
    <3> DEFINE rest == Tail(batch[c])
    <3>1. Len(batch[c]) # 1 => Len(rest) # 0
      BY <2>1, <2>2
    <3> HIDE DEF rest
    <3>2. rest = <<>> => Len(rest) = 0
      OBVIOUS
    <3>3. QED
      BY <3>1, <3>2 DEF rest
  <2>4. QED
    BY <1>1, <1>2, <2>1, <2>3, BoundAssumption
<1>4. PathOK'
  <2>1. \A d \in Sessions : wire'[d] \in Seq(MessagesTo[d[1]]) /\ Len(wire'[d]) <= MaxQueue
    BY <1>1, <1>3 DEF TypeOK, PathOK, M
  <2>2. \A d \in Sessions :
          batch'[d] \in Seq(MessagesTo[d[1]]) /\ (d \in writing' => batch'[d] # <<>>)
    BY <1>1, <1>3 DEF TypeOK, PathOK, M
  <2>3. QED
    BY <1>1, <2>1, <2>2 DEF TypeOK, PathOK
<1>5. RouterOK' /\ MonitorsOK' /\ PointerOK'
  BY UntouchedParts DEF Write, router, remote
<1>6. CountsOK'
  BY <1>1 DEF TypeOK, CountsOK, Write, remote, bounds
<1>7. QED
  BY <1>4, <1>5, <1>6 DEF TypeOK

(* Taking a message off the wire.                                          *)
LEMMA TakenIsTyped ==
  ASSUME TypeOK, NEW c \in Sessions, wire[c] # <<>>,
         wire' = [wire EXCEPT ![c] = Tail(@)], UNCHANGED <<queue, batch, writing>>
  PROVE  PathOK' /\ Head(wire[c]) \in MessagesTo[c[1]]
<1> DEFINE M == MessagesTo[c[1]]
<1>1. wire[c] \in Seq(M) /\ Len(wire[c]) <= MaxQueue
  BY DEF TypeOK, PathOK
<1> HIDE DEF M
<1>2. Tail(wire[c]) \in Seq(M) /\ Len(Tail(wire[c])) <= MaxQueue /\ Head(wire[c]) \in M
  BY <1>1, BoundAssumption
<1>3. \A d \in Sessions : wire'[d] \in Seq(MessagesTo[d[1]]) /\ Len(wire'[d]) <= MaxQueue
  BY <1>2 DEF TypeOK, PathOK, M
<1>4. QED
  BY <1>2, <1>3 DEF TypeOK, PathOK, M

LEMMA InjectIsTyped ==
  ASSUME TypeOK, NEW c \in Sessions, Inject(c)
  PROVE  TypeOK'
<1>1. PathOK' /\ Head(wire[c]) \in MessagesTo[c[1]]
  BY TakenIsTyped DEF Inject
<1>2. c[1] \in Remotes /\ Head(wire[c]).at \in Places[c[1]] \cup {Nowhere}
  BY <1>1, SessionsAreOfRemotes DEF MessagesTo, Position, Button
<1>3. PointerOK' /\ gap' \in BOOLEAN
  <2>1. CASE IsPosition(Head(wire[c]))
    <3>1. /\ pointer' = [pointer EXCEPT ![c[1]] = Head(wire[c]).at]
          /\ by' = [by EXCEPT ![c[1]] = c]
          /\ gap' = (gap \/ Strays(c, Head(wire[c])))
      BY <2>1 DEF Inject
    <3>2. QED
      BY <1>2, <3>1 DEF TypeOK, PointerOK
  <2>2. CASE ~IsPosition(Head(wire[c]))
    BY <2>2 DEF Inject, remote, TypeOK, PointerOK, CountsOK
  <2>3. QED
    BY <2>1, <2>2
<1>4. RouterOK' /\ MonitorsOK'
  BY UntouchedParts DEF Inject, router
<1>5. CountsOK'
  BY <1>3 DEF TypeOK, CountsOK, Inject, bounds
<1>6. QED
  BY <1>1, <1>3, <1>4, <1>5 DEF TypeOK

LEMMA RefuseIsTyped ==
  ASSUME TypeOK, NEW c \in Sessions, Refuse(c)
  PROVE  TypeOK'
<1>1. PathOK'
  BY TakenIsTyped DEF Refuse
<1>2. RouterOK' /\ MonitorsOK'
  BY UntouchedParts DEF Refuse, router
<1>3. PointerOK'
  BY SessionsAreOfRemotes DEF TypeOK, PointerOK, Refuse
<1>4. gap' \in BOOLEAN
  BY DEF Refuse, Loses
<1>5. CountsOK'
  BY <1>4, FailIsCounted DEF TypeOK, CountsOK, Refuse
<1>6. QED
  BY <1>1, <1>2, <1>3, <1>5 DEF TypeOK

LEMMA DisconnectIsTyped ==
  ASSUME TypeOK, NEW s \in Remotes, Disconnect(s)
  PROVE  TypeOK'
<1>1. RouterOK'
  BY DEF TypeOK, RouterOK, Disconnect, router
<1>2. MonitorsOK' /\ PathOK' /\ PointerOK'
  BY UntouchedParts DEF Disconnect
<1>3. CountsOK'
  BY FailIsCounted DEF TypeOK, CountsOK, Disconnect
<1>4. QED
  BY <1>1, <1>2, <1>3 DEF TypeOK

LEMMA OpensIsTyped ==
  ASSUME TypeOK, NEW s \in Remotes, Opens(s)
  PROVE  TypeOK'
<1>1. PICK c \in Sessions : c[1] = s /\ tx' = [tx EXCEPT ![s] = c] /\ live' = live \cup {c}
  BY DEF Opens
<1>2. RouterOK'
  BY <1>1 DEF TypeOK, RouterOK, Opens, router
<1>3. MonitorsOK' /\ PathOK' /\ PointerOK'
  BY UntouchedParts DEF Opens
<1>4. CountsOK'
  BY <1>1 DEF TypeOK, CountsOK, Opens, bounds
<1>5. QED
  BY <1>2, <1>3, <1>4 DEF TypeOK

LEMMA TakesBackIsTyped ==
  ASSUME TypeOK, NEW s \in Remotes, TakesBack(s)
  PROVE  TypeOK'
<1>1. RouterOK'
  BY DEF TypeOK, RouterOK, TakesBack, router
<1>2. MonitorsOK' /\ PathOK' /\ PointerOK'
  BY UntouchedParts DEF TakesBack
<1>3. CountsOK'
  BY DEF TypeOK, CountsOK, TakesBack, bounds
<1>4. QED
  BY <1>1, <1>2, <1>3 DEF TypeOK

LEMMA EndsIsTyped ==
  ASSUME TypeOK, NEW c \in Sessions, Ends(c), Fails \/ UNCHANGED faults
  PROVE  TypeOK'
<1>1. PathOK'
  <2>1. \A d \in Sessions :
          /\ queue'[d] \in {<<>>, queue[d]} /\ batch'[d] \in {<<>>, batch[d]}
          /\ d \in writing' => d \in writing /\ batch'[d] = batch[d]
    BY DEF TypeOK, PathOK, Ends
  <2>2. \A d \in Sessions : <<>> \in Seq(MessagesTo[d[1]]) /\ Len(<<>>) <= MaxQueue
    BY BoundAssumption
  <2>3. \A d \in Sessions :
          /\ queue'[d] \in Seq(MessagesTo[d[1]]) /\ Len(queue'[d]) <= MaxQueue
          /\ batch'[d] \in Seq(MessagesTo[d[1]]) /\ (d \in writing' => batch'[d] # <<>>)
    BY <2>1, <2>2 DEF TypeOK, PathOK
  <2>4. QED
    BY <2>3 DEF TypeOK, PathOK, Ends
<1>2. RouterOK' /\ MonitorsOK' /\ PointerOK'
  BY UntouchedParts DEF Ends
<1>3. CountsOK'
  <2>1. gap' \in BOOLEAN /\ live' \subseteq Sessions /\ writing' \subseteq live'
    BY DEF TypeOK, CountsOK, Ends, Loses
  <2>2. CASE Fails
    BY <2>1, <2>2, FailIsCounted DEF Ends
  <2>3. CASE UNCHANGED faults
    BY <2>1, <2>3 DEF TypeOK, CountsOK, Ends
  <2>4. QED
    BY <2>2, <2>3
<1>4. QED
  BY <1>1, <1>2, <1>3 DEF TypeOK

LEMMA DropsIsTyped ==
  ASSUME TypeOK, NEW c \in Sessions, Drops(c)
  PROVE  TypeOK'
<1>1. PathOK'
  <2>1. \A d \in Sessions : wire'[d] \in {<<>>, wire[d]}
    BY DEF TypeOK, PathOK, Drops
  <2>2. \A d \in Sessions : <<>> \in Seq(MessagesTo[d[1]]) /\ Len(<<>>) <= MaxQueue
    BY BoundAssumption
  <2>3. \A d \in Sessions : wire'[d] \in Seq(MessagesTo[d[1]]) /\ Len(wire'[d]) <= MaxQueue
    BY <2>1, <2>2 DEF TypeOK, PathOK
  <2>4. QED
    BY <2>3 DEF TypeOK, PathOK, Drops
<1>2. RouterOK' /\ MonitorsOK' /\ PointerOK'
  BY UntouchedParts DEF Drops
<1>3. CountsOK'
  BY DEF TypeOK, CountsOK, Drops, Loses, bounds
<1>4. QED
  BY <1>1, <1>2, <1>3 DEF TypeOK

LEMMA ScreenInfoIsTyped ==
  ASSUME TypeOK, NEW s \in Remotes, ScreenInfo(s)
  PROVE  TypeOK'
<1>1. MonitorsOK'
  BY DEF TypeOK, MonitorsOK, ScreenInfo
<1>2. RouterOK' /\ PathOK' /\ PointerOK'
  BY UntouchedParts DEF ScreenInfo, router, remote, session
<1>3. CountsOK'
  BY FailIsCounted DEF TypeOK, CountsOK, ScreenInfo, remote, session
<1>4. QED
  BY <1>1, <1>2, <1>3 DEF TypeOK

LEMMA ReconfigureIsTyped ==
  ASSUME TypeOK, Reconfigure
  PROVE  TypeOK'
<1>1. RouterOK'
  BY DEF TypeOK, RouterOK, Reconfigure, router, session
<1>2. MonitorsOK' /\ PathOK' /\ PointerOK'
  BY UntouchedParts DEF Reconfigure, remote, session
<1>3. CountsOK'
  BY FailIsCounted DEF TypeOK, CountsOK, Reconfigure, remote, session
<1>4. QED
  BY <1>1, <1>2, <1>3 DEF TypeOK

LEMMA InitIsTyped == Init => TypeOK
<1> SUFFICES ASSUME Init PROVE TypeOK
  OBVIOUS
<1>1. layout \in Layouts /\ Local \in DOMAIN layout.rect
  BY LayoutAssumption DEF Init
<1>2. Middle(layout.rect[Local]) \in Points(layout.rect[Local])
  <2> DEFINE rect == layout.rect[Local]
  <2>1. rect \in Rects /\ Width(rect) > 0 /\ Height(rect) > 0
    <3>1. rect \in Rects /\ Width(rect) > Inset /\ Height(rect) > Inset
      BY <1>1, LayoutAssumption
    <3>2. QED
      BY <3>1, InsetAssumption DEF Rects, Width, Height
  <2> HIDE DEF rect
  <2>2. Middle(rect) \in Points(rect)
    BY <2>1 DEF Middle, Points, Rects, Width, Height
  <2>3. QED
    BY <2>2 DEF rect
<1>3. RouterOK
  <2>1. Middle(layout.rect[Local]) \in Places[Local]
    BY <1>1, <1>2, PlacesHoldRects
  <2>2. tx \in [Remotes -> Sessions \cup {None}] /\ \A s \in Remotes : tx[s][1] = s
    BY SessionAssumption DEF Init
  <2>3. QED
    BY <1>1, <2>1, <2>2, RemotesAreScreens DEF Init, RouterOK
<1>4. MonitorsOK /\ PointerOK
  BY DEF Init, MonitorsOK, PointerOK
<1>5. PathOK
  BY BoundAssumption DEF Init, PathOK
<1>6. CountsOK
  <2>1. gap \in BOOLEAN
    BY DEF Init
  <2>2. moves \in 0 .. MaxMoves /\ clicks \in 0 .. MaxClicks /\ faults \in 0 .. MaxFaults
    BY BoundAssumption DEF Init
  <2>3. live \subseteq Sessions /\ writing \subseteq live
    BY SessionAssumption DEF Init
  <2>4. QED
    BY <2>1, <2>2, <2>3 DEF Init, CountsOK
<1>7. QED
  BY <1>3, <1>4, <1>5, <1>6 DEF TypeOK

LEMMA StepKeepsTypes ==
  ASSUME TypeOK, [Next]_vars
  PROVE  TypeOK'
<1>1. CASE Leave
  BY <1>1, LeaveIsTyped
<1>2. CASE SendEntry
  BY <1>2, SendEntryIsTyped
<1>3. CASE Move
  BY <1>3, MoveIsTyped
<1>4. CASE LinkLost
  BY <1>4, ComesHomeIsTyped DEF LinkLost
<1>5. CASE ScreenRemoved
  BY <1>5, ComesHomeIsTyped DEF ScreenRemoved
<1>6. CASE Reconfigure
  BY <1>6, ReconfigureIsTyped
<1>7. CASE Click
  BY <1>7, ClickIsTyped
<1>8. ASSUME NEW c \in Sessions,
             \/ Writer(c) \/ Inject(c) \/ Refuse(c)
             \/ Breaks(c) \/ Displaced(c) \/ Closes(c) \/ Drops(c)
      PROVE  TypeOK'
  <2>1. CASE Writer(c) \/ Inject(c) \/ Refuse(c) \/ Drops(c)
    BY <2>1, CollectIsTyped, FindsNoMoreIsTyped, WriteIsTyped, InjectIsTyped, RefuseIsTyped,
       DropsIsTyped DEF Writer
  <2>2. CASE Breaks(c) \/ Displaced(c) \/ Closes(c)
    BY <2>2, EndsIsTyped DEF Breaks, Displaced, Closes
  <2>3. QED
    BY <1>8, <2>1, <2>2
<1>a. ASSUME NEW s \in Remotes, Disconnect(s) \/ Opens(s) \/ TakesBack(s) \/ ScreenInfo(s)
      PROVE  TypeOK'
  BY <1>a, DisconnectIsTyped, OpensIsTyped, TakesBackIsTyped, ScreenInfoIsTyped
<1>9. CASE UNCHANGED vars
  <2>1. RouterOK' /\ MonitorsOK' /\ PathOK' /\ PointerOK'
    BY <1>9, UntouchedParts DEF vars, router, session, remote
  <2>2. CountsOK'
    BY <1>9 DEF vars, session, remote, bounds, TypeOK, CountsOK
  <2>3. QED
    BY <2>1, <2>2 DEF TypeOK
<1>10. QED
  BY <1>1, <1>2, <1>3, <1>4, <1>5, <1>6, <1>7, <1>8, <1>a, <1>9 DEF Next

(* The cursor is on a screen of some layout or on a reported monitor,      *)
(* whatever is dragged, ended, reported or rearranged, and every position  *)
(* and button on its way to a remote is for a place on that remote.        *)
THEOREM TypeCorrect == Spec => []TypeOK
<1>1. TypeOK /\ [Next]_vars => TypeOK'
  BY StepKeepsTypes
<1>2. QED
  BY InitIsTyped, <1>1, PTL DEF Spec


(***************************************************************************)
(* The path as one stream.                                                 *)
(***************************************************************************)

(* Three sequences end to end.                                             *)
LEMMA ThreeInOne ==
  ASSUME NEW M, NEW a \in Seq(M), NEW b \in Seq(M), NEW c \in Seq(M)
  PROVE  /\ a \o b \o c \in Seq(M)
         /\ Len(a \o b \o c) = Len(a) + Len(b) + Len(c)
         /\ \A i \in 1 .. Len(a) + Len(b) + Len(c) :
              (a \o b \o c)[i] = IF i <= Len(a) THEN a[i]
                                ELSE IF i <= Len(a) + Len(b) THEN b[i - Len(a)]
                                ELSE c[i - Len(a) - Len(b)]
<1> DEFINE ab == a \o b
<1>1. /\ ab \in Seq(M) /\ Len(ab) = Len(a) + Len(b)
      /\ \A i \in 1 .. Len(a) + Len(b) : ab[i] = IF i <= Len(a) THEN a[i] ELSE b[i - Len(a)]
  BY ConcatProperties
<1> HIDE DEF ab
<1>2. /\ ab \o c \in Seq(M) /\ Len(ab \o c) = Len(ab) + Len(c)
      /\ \A i \in 1 .. Len(ab) + Len(c) : (ab \o c)[i] = IF i <= Len(ab) THEN ab[i] ELSE c[i - Len(ab)]
  <2>1. ab \in Seq(M)
    BY <1>1
  <2> HIDE <1>1
  <2>2. QED
    BY <2>1, ConcatProperties
<1>3. Len(a) \in Nat /\ Len(b) \in Nat /\ Len(c) \in Nat
  BY LenProperties
<1>4. QED
  BY <1>1, <1>2, <1>3 DEF ab

(* A message sent joins the end of the stream.                             *)
LEMMA Joins ==
  ASSUME NEW M, NEW a \in Seq(M), NEW b \in Seq(M), NEW c \in Seq(M), NEW m \in M
  PROVE  a \o b \o Append(c, m) = Append(a \o b \o c, m)
<1> DEFINE ab == a \o b
<1>1. ab \in Seq(M)
  BY ConcatProperties
<1>2. <<m>> \in Seq(M)
  OBVIOUS
<1> HIDE DEF ab
<1>3. ab \o (c \o <<m>>) = (ab \o c) \o <<m>>
  BY <1>1, <1>2, ConcatAssociative
<1>4. ab \o c \in Seq(M)
  BY <1>1, ConcatProperties
<1>5. Append(c, m) = c \o <<m>> /\ Append(ab \o c, m) = (ab \o c) \o <<m>>
  BY <1>4, AppendIsConcat
<1>6. QED
  BY <1>3, <1>5 DEF ab

(* A message that moves on from one part to the one before it stays where  *)
(* it was in the stream.                                                   *)
LEMMA MovesUp ==
  ASSUME NEW M, NEW a \in Seq(M), NEW b \in Seq(M), b # <<>>
  PROVE  Append(a, Head(b)) \o Tail(b) = a \o b
<1>1. Head(b) \in M /\ Tail(b) \in Seq(M)
  BY HeadTailProperties
<1>2. <<Head(b)>> \in Seq(M)
  BY <1>1
<1>3. Append(a, Head(b)) = a \o <<Head(b)>>
  BY <1>1, AppendIsConcat
<1>4. (a \o <<Head(b)>>) \o Tail(b) = a \o (<<Head(b)>> \o Tail(b))
  BY <1>1, <1>2, ConcatAssociative
<1>5. <<Head(b)>> \o Tail(b) = b
  <2>1. /\ <<Head(b)>> \o Tail(b) \in Seq(M)
        /\ Len(<<Head(b)>> \o Tail(b)) = 1 + Len(Tail(b))
        /\ \A i \in 1 .. 1 + Len(Tail(b)) :
             (<<Head(b)>> \o Tail(b))[i] = IF i <= 1 THEN Head(b) ELSE Tail(b)[i - 1]
    BY <1>1, <1>2, ConcatProperties
  <2>2. /\ Len(Tail(b)) = Len(b) - 1 /\ Len(b) \in Nat
        /\ \A i \in 1 .. Len(Tail(b)) : Tail(b)[i] = b[i + 1]
    BY HeadTailProperties, LenProperties
  <2>3. Head(b) = b[1]
    OBVIOUS
  <2>4. \A i \in 1 .. Len(b) : (<<Head(b)>> \o Tail(b))[i] = b[i]
    BY <2>1, <2>2, <2>3
  <2>5. Len(<<Head(b)>> \o Tail(b)) = Len(b)
    BY <2>1, <2>2
  <2> HIDE <2>3
  <2>6. QED
    BY <2>1, <2>4, <2>5, SeqEqual
<1>6. QED
  BY <1>3, <1>4, <1>5

(* Taking the first of the first part takes the first of the stream.       *)
LEMMA ComesOff ==
  ASSUME NEW M, NEW a \in Seq(M), NEW b \in Seq(M), NEW c \in Seq(M), a # <<>>
  PROVE  /\ a \o b \o c # <<>> /\ Head(a \o b \o c) = Head(a)
         /\ Tail(a \o b \o c) = Tail(a) \o b \o c
<1> DEFINE bc == b \o c
           x == a \o bc
<1>1. bc \in Seq(M) /\ x \in Seq(M) /\ Tail(a) \in Seq(M)
  BY ConcatProperties, HeadTailProperties
<1>2. a \o b \o c = x /\ Tail(a) \o b \o c = Tail(a) \o bc
  <2>1. a \o b \o c = x
    BY ConcatAssociative
  <2>2. Tail(a) \in Seq(M)
    BY <1>1
  <2>3. Tail(a) \o b \o c = Tail(a) \o bc
    <3> DEFINE d == Tail(a)
    <3>1. d \in Seq(M)
      BY <2>2
    <3> HIDE DEF d
    <3>2. d \o b \o c = d \o bc
      BY <3>1, ConcatAssociative
    <3>3. QED
      BY <3>2 DEF d
  <2>4. QED
    BY <2>1, <2>3
<1> HIDE DEF bc
<1>3. /\ Len(x) = Len(a) + Len(bc) /\ Len(a) \in Nat /\ Len(bc) \in Nat /\ Len(a) > 0
      /\ \A i \in 1 .. Len(a) + Len(bc) : x[i] = IF i <= Len(a) THEN a[i] ELSE bc[i - Len(a)]
  BY <1>1, ConcatProperties, LenProperties, EmptySeq
<1>4. /\ Len(Tail(a)) = Len(a) - 1
      /\ \A i \in 1 .. Len(Tail(a)) : Tail(a)[i] = a[i + 1]
  BY HeadTailProperties
<1>5. /\ Tail(a) \o bc \in Seq(M)
      /\ Len(Tail(a) \o bc) = Len(Tail(a)) + Len(bc)
      /\ \A i \in 1 .. Len(Tail(a)) + Len(bc) :
           (Tail(a) \o bc)[i] = IF i <= Len(Tail(a)) THEN Tail(a)[i] ELSE bc[i - Len(Tail(a))]
  BY <1>1, ConcatProperties
<1> HIDE DEF x
<1>6. x # <<>>
  BY <1>1, <1>3, EmptySeq
<1>7. /\ Tail(x) \in Seq(M) /\ Len(Tail(x)) = Len(x) - 1
      /\ \A i \in 1 .. Len(Tail(x)) : Tail(x)[i] = x[i + 1]
  BY <1>1, <1>6, HeadTailProperties
<1>8. Tail(a) \o bc = Tail(x)
  <2>1. Len(Tail(a) \o bc) = Len(Tail(x))
    BY <1>3, <1>4, <1>5, <1>7
  <2>2. \A i \in 1 .. Len(Tail(a) \o bc) : (Tail(a) \o bc)[i] = Tail(x)[i]
    BY <1>3, <1>4, <1>5, <1>7
  <2>3. QED
    BY <1>5, <1>7, <2>1, <2>2, SeqEqual
<1>9. Head(x) = Head(a)
  <2>1. Head(x) = x[1] /\ Head(a) = a[1]
    OBVIOUS
  <2>2. QED
    BY <1>3, <2>1
<1>10. QED
  BY <1>2, <1>6, <1>8, <1>9

(* Coalescing takes the last position of the batch out of the stream, for  *)
(* the position that follows it.                                           *)
LEMMA GivesWay ==
  ASSUME NEW M, NEW a \in Seq(M), NEW b \in Seq(M), NEW c \in Seq(M), b # <<>>, c # <<>>
  PROVE  LET n == Len(a) + Len(b) IN
         /\ n \in 1 .. Len(a \o b \o c) - 1
         /\ (a \o b \o c)[n] = Last(b) /\ (a \o b \o c)[n + 1] = Head(c)
         /\ Stream!Without(a \o b \o c, n) = a \o Append(Front(b), Head(c)) \o Tail(c)
<1> DEFINE n == Len(a) + Len(b)
<1> DEFINE front == Front(b)
           flow == a \o b \o c
<1>1. front \in Seq(M) /\ Len(front) = Len(b) - 1 /\ (\A i \in 1 .. Len(b) - 1 : front[i] = b[i])
  <2>1. Len(b) \in Nat /\ \A i \in 1 .. Len(b) - 1 : b[i] \in M
    BY LenProperties
  <2>2. Front(b) = SubSeq(b, 1, Len(b) - 1)
    BY DEF Front
  <2>3. /\ SubSeq(b, 1, Len(b) - 1) \in Seq(M)
        /\ Len(SubSeq(b, 1, Len(b) - 1)) = IF 1 <= Len(b) - 1 THEN Len(b) - 1 ELSE 0
        /\ \A i \in 1 .. Len(b) - 1 : SubSeq(b, 1, Len(b) - 1)[i] = b[i]
    BY <2>1, SubSeqProperties
  <2>4. Len(b) \in Nat \ {0}
    BY EmptySeq
  <2> DEFINE sub == SubSeq(b, 1, Len(b) - 1)
             l == Len(b)
  <2> HIDE DEF sub, l
  <2>5. Len(sub) = l - 1
    <3>1. Len(sub) = IF 1 <= l - 1 THEN l - 1 ELSE 0
      BY <2>3 DEF sub, l
    <3>2. l \in Nat \ {0}
      BY <2>4 DEF l
    <3>3. QED
      BY <3>1, <3>2
  <2>6. QED
    BY <2>2, <2>3, <2>5 DEF sub, l
<1> DEFINE la == Len(a)
           lb == Len(b)
           lc == Len(c)
<1>2. la \in Nat /\ lb \in Nat /\ lc \in Nat /\ lb > 0 /\ lc > 0 /\ n = la + lb
  BY LenProperties, EmptySeq
<1> HIDE DEF n
<1>3. /\ flow \in Seq(M)
      /\ Len(flow) = la + lb + lc
      /\ \A i \in 1 .. la + lb + lc :
           flow[i] = IF i <= la THEN a[i]
                     ELSE IF i <= la + lb THEN b[i - la] ELSE c[i - la - lb]
  BY ThreeInOne
<1>4. Head(c) = c[1] /\ Last(b) = b[lb]
  BY DEF Last
<1> HIDE DEF front, flow, la, lb, lc
<1>5. n \in 1 .. Len(flow) - 1 /\ flow[n] = Last(b) /\ flow[n + 1] = Head(c)
  <2>1. /\ n \in 1 .. la + lb + lc /\ ~(n <= la) /\ n <= la + lb /\ n - la = lb
        /\ n + 1 \in 1 .. la + lb + lc /\ ~(n + 1 <= la) /\ ~(n + 1 <= la + lb)
        /\ n + 1 - la - lb = 1
    BY <1>2
  <2>2. flow[n] = b[lb]
    BY <1>3, <2>1
  <2>3. flow[n + 1] = c[1]
    <3> DEFINE k == n + 1
    <3>1. k \in 1 .. la + lb + lc /\ ~(k <= la) /\ ~(k <= la + lb) /\ k - la - lb = 1
      BY <1>2, <2>1
    <3> HIDE DEF k
    <3>2. flow[k] = c[1]
      BY <1>3, <3>1
    <3>3. QED
      BY <3>2 DEF k
  <2>4. n \in 1 .. Len(flow) - 1
    BY <1>2, <1>3
  <2>5. QED
    BY <1>4, <2>2, <2>3, <2>4
<1> DEFINE left == a \o front \o c
<1>6. a \o Append(front, Head(c)) \o Tail(c) = left
  <2> DEFINE af == a \o front
  <2>1. af \in Seq(M)
    BY <1>1, ConcatProperties
  <2>2. a \o Append(front, Head(c)) = Append(af, Head(c))
    <3>1. Head(c) \in M /\ <<Head(c)>> \in Seq(M)
      BY HeadTailProperties
    <3>2. Append(front, Head(c)) = front \o <<Head(c)>>
      BY <1>1, <3>1, AppendIsConcat
    <3>3. a \o (front \o <<Head(c)>>) = af \o <<Head(c)>>
      BY <1>1, <3>1, ConcatAssociative
    <3> HIDE DEF af
    <3>4. af \o <<Head(c)>> = Append(af, Head(c))
      BY <2>1, <3>1, AppendIsConcat
    <3>5. QED
      BY <3>2, <3>3, <3>4
  <2> HIDE DEF af
  <2>3. Append(af, Head(c)) \o Tail(c) = af \o c
    BY <2>1, MovesUp
  <2>4. QED
    BY <2>2, <2>3 DEF af
<1>7. /\ left \in Seq(M)
      /\ Len(left) = la + (lb - 1) + lc
      /\ \A i \in 1 .. la + (lb - 1) + lc :
           left[i] = IF i <= la THEN a[i]
                     ELSE IF i <= la + (lb - 1) THEN front[i - la] ELSE c[i - la - (lb - 1)]
  <2>1. front \in Seq(M) /\ Len(front) = lb - 1
    BY <1>1 DEF lb
  <2> DEFINE lf == Len(front)
  <2>a. /\ a \o front \o c \in Seq(M)
        /\ Len(a \o front \o c) = Len(a) + Len(front) + Len(c)
        /\ \A i \in 1 .. Len(a) + Len(front) + Len(c) :
             (a \o front \o c)[i] = IF i <= Len(a) THEN a[i]
                                   ELSE IF i <= Len(a) + Len(front) THEN front[i - Len(a)]
                                   ELSE c[i - Len(a) - Len(front)]
    <3>1. front \in Seq(M)
      BY <2>1
    <3> HIDE <2>1
    <3>2. QED
      BY <3>1, ThreeInOne
  <2>2. /\ left \in Seq(M)
        /\ Len(left) = la + lf + lc
        /\ \A i \in 1 .. la + lf + lc :
             left[i] = IF i <= la THEN a[i]
                       ELSE IF i <= la + lf THEN front[i - la] ELSE c[i - la - lf]
    BY <2>a DEF la, lc, left
  <2>3. lf = lb - 1
    BY <2>1
  <2> HIDE DEF lf
  <2>4. QED
    BY <2>2, <2>3
<1> HIDE DEF left
<1>8. Len(left) = Len(flow) - 1
  BY <1>2, <1>3, <1>7
<1>9. \A j \in 1 .. Len(left) : left[j] = IF j < n THEN flow[j] ELSE flow[j + 1]
  <2> TAKE j \in 1 .. Len(left)
  <2>1. j \in 1 .. la + (lb - 1) + lc /\ j \in 1 .. la + lb + lc /\ j + 1 \in 1 .. la + lb + lc
    BY <1>2, <1>7
  <2>2. CASE j <= la
    <3>1. left[j] = a[j] /\ flow[j] = a[j] /\ j < n
      BY <1>2, <1>3, <1>7, <2>1, <2>2
    <3>2. QED
      BY <3>1
  <2>3. CASE ~(j <= la) /\ j < n
    <3>1. j <= la + (lb - 1) /\ j <= la + lb /\ j - la \in 1 .. lb - 1
      BY <1>2, <2>1, <2>3
    <3>2. left[j] = front[j - la] /\ flow[j] = b[j - la]
      BY <1>3, <1>7, <2>1, <2>3, <3>1
    <3>3. front[j - la] = b[j - la]
      BY <1>1, <3>1 DEF lb
    <3>4. QED
      BY <2>3, <3>2, <3>3
  <2>4. CASE ~(j < n)
    <3>1. /\ ~(j <= la) /\ ~(j <= la + (lb - 1)) /\ ~(j + 1 <= la) /\ ~(j + 1 <= la + lb)
          /\ j - la - (lb - 1) = (j + 1) - la - lb
      BY <1>2, <2>1, <2>4
    <3>2. left[j] = c[j - la - (lb - 1)]
      BY <1>7, <2>1, <3>1
    <3>3. flow[j + 1] = c[(j + 1) - la - lb]
      <4> DEFINE k == j + 1
      <4>1. k \in 1 .. la + lb + lc /\ ~(k <= la) /\ ~(k <= la + lb)
        BY <2>1, <3>1
      <4> HIDE DEF k
      <4>2. flow[k] = c[k - la - lb]
        BY <1>3, <4>1
      <4>3. QED
        BY <4>2 DEF k
    <3>4. QED
      BY <2>4, <3>1, <3>2, <3>3
  <2>5. QED
    BY <2>2, <2>3, <2>4
<1>10. DOMAIN left = 1 .. Len(left)
  BY <1>7, LenProperties
<1>11. left = [j \in 1 .. Len(left) |-> left[j]]
  BY <1>7, <1>10, LenProperties
<1>12. left = [j \in 1 .. Len(flow) - 1 |-> IF j < n THEN flow[j] ELSE flow[j + 1]]
  BY <1>8, <1>9, <1>11
<1>13. left = Stream!Without(flow, n)
  BY <1>12 DEF Stream!Without
<1>14. QED
  BY <1>5, <1>6, <1>13 DEF front, flow, left, n

(* What is pending for each remote, and what each action makes of it.      *)
(* The first part of the stream is its beginning.                          *)
LEMMA ComesFirst ==
  ASSUME NEW M, NEW a \in Seq(M), NEW b \in Seq(M), NEW c \in Seq(M)
  PROVE  /\ Len(a) \in 0 .. Len(a \o b \o c)
         /\ a = SubSeq(a \o b \o c, 1, Len(a))
<1> DEFINE f == a \o b \o c
           n == Len(a)
           sub == SubSeq(f, 1, n)
<1>1. /\ f \in Seq(M) /\ Len(f) = n + Len(b) + Len(c)
      /\ \A i \in 1 .. n + Len(b) + Len(c) : i <= n => f[i] = a[i]
  BY ThreeInOne
<1>2. n \in Nat /\ Len(b) \in Nat /\ Len(c) \in Nat
  BY LenProperties
<1> HIDE DEF f, n
<1>3. n \in 0 .. Len(f) /\ \A i \in 1 .. n : f[i] \in M /\ f[i] = a[i]
  BY <1>1, <1>2, LenProperties
<1>4. /\ sub \in Seq(M) /\ Len(sub) = IF 1 <= n THEN n ELSE 0
      /\ \A i \in 1 .. n : sub[i] = f[i]
  <2>1. \A i \in 1 .. n : f[i] \in M
    BY <1>3
  <2>2. /\ sub \in Seq(M)
        /\ Len(sub) = IF 1 <= n THEN n - 1 + 1 ELSE 0
        /\ \A i \in 1 .. n - 1 + 1 : sub[i] = f[1 + i - 1]
    BY <1>1, <1>2, <2>1, SubSeqProperties
  <2> HIDE DEF sub
  <2>3. QED
    BY <1>2, <2>2
<1> HIDE DEF sub
<1>5. Len(sub) = n /\ \A i \in 1 .. n : sub[i] = a[i]
  BY <1>2, <1>3, <1>4
<1>6. a = sub
  BY <1>4, <1>5, SeqEqual DEF n
<1>7. QED
  BY <1>3, <1>6 DEF f, n, sub

(* What is pending for each session, and what each action makes of it.     *)
Pending == [c \in Sessions |-> Flow(c)]

(* Nothing is left to write of a session that has ended.                   *)
Emptied == \A c \in Sessions \ live : queue[c] = <<>> /\ batch[c] = <<>>

LEMMA FlowIsTyped ==
  ASSUME TypeOK, NEW c \in Sessions
  PROVE  /\ wire[c] \in Seq(MessagesTo[c[1]]) /\ batch[c] \in Seq(MessagesTo[c[1]])
         /\ queue[c] \in Seq(MessagesTo[c[1]])
         /\ Flow(c) \in Seq(MessagesTo[c[1]])
<1>1. /\ wire[c] \in Seq(MessagesTo[c[1]]) /\ batch[c] \in Seq(MessagesTo[c[1]])
      /\ queue[c] \in Seq(MessagesTo[c[1]])
  BY DEF TypeOK, PathOK
<1>2. QED
  BY <1>1, ThreeInOne DEF Flow

LEMMA OneStream ==
  ASSUME NEW c \in Sessions,
         \A d \in Sessions \ {c} : wire'[d] = wire[d] /\ batch'[d] = batch[d] /\ queue'[d] = queue[d]
  PROVE  Pending' = [Pending EXCEPT ![c] = wire'[c] \o batch'[c] \o queue'[c]]
BY DEF Pending, Flow

LEMMA SameStream ==
  ASSUME UNCHANGED <<queue, batch, wire>>
  PROVE  Pending' = Pending
BY DEF Pending, Flow

LEMMA QueueingSends ==
  ASSUME TypeOK, NEW c \in Sessions, NEW e \in MessagesTo[c[1]],
         queue' = [queue EXCEPT ![c] = Append(queue[c], e)], UNCHANGED <<batch, wire>>
  PROVE  Pending' = [Pending EXCEPT ![c] = Append(Flow(c), e)]
<1>1. Pending' = [Pending EXCEPT ![c] = wire[c] \o batch[c] \o Append(queue[c], e)]
  BY OneStream DEF TypeOK, PathOK
<1>2. wire[c] \o batch[c] \o Append(queue[c], e) = Append(Flow(c), e)
  <2> DEFINE w == wire[c]
             b == batch[c]
             q == queue[c]
             M == MessagesTo[c[1]]
  <2>1. w \in Seq(M) /\ b \in Seq(M) /\ q \in Seq(M) /\ e \in M /\ Flow(c) = w \o b \o q
    BY FlowIsTyped DEF Flow
  <2> HIDE DEF w, b, q, M
  <2>2. w \o b \o Append(q, e) = Append(w \o b \o q, e)
    <3>1. \A x, y, z \in Seq(M) : \A m \in M : x \o y \o Append(z, m) = Append(x \o y \o z, m)
      BY Joins
    <3>2. QED
      BY <2>1, <3>1
  <2>3. QED
    BY <2>1, <2>2 DEF w, b, q
<1>3. QED
  BY <1>1, <1>2

LEMMA SendingSends ==
  ASSUME TypeOK, NEW s \in Remotes, NEW p \in Places[s], SendPosition(s, p),
         UNCHANGED <<batch, wire>>
  PROVE  \/ tx[s] \notin live /\ Pending' = Pending
         \/ \E c \in Sessions :
              /\ c = tx[s] /\ c \in live /\ c[1] = s
              /\ Pending' = [Pending EXCEPT ![c] = Append(Flow(c), Position(p))]
<1>1. CASE tx[s] \in live
  <2>1. PICK c \in Sessions : c = tx[s] /\ c[1] = s
    BY <1>1, SenderIsSession
  <2>2. queue' = [queue EXCEPT ![c] = Append(queue[c], Position(p))]
    BY <1>1, <2>1 DEF SendPosition
  <2>3. Position(p) \in MessagesTo[c[1]]
    BY <2>1 DEF MessagesTo
  <2>4. Pending' = [Pending EXCEPT ![c] = Append(Flow(c), Position(p))]
    BY <2>2, <2>3, QueueingSends
  <2>5. QED
    BY <1>1, <2>1, <2>4
<1>2. CASE tx[s] \notin live
  BY <1>2, SameStream DEF SendPosition
<1>3. QED
  BY <1>1, <1>2

LEMMA ClickSends ==
  ASSUME TypeOK, Click
  PROVE  /\ slot \in Sessions /\ slot \in live /\ slot[1] = active /\ active \in Remotes
         /\ LET b == Button(IF pc = "run" /\ slot = tx[active] THEN cursor.at ELSE Nowhere)
            IN /\ b \in MessagesTo[slot[1]]
               /\ Pending' = [Pending EXCEPT ![slot] = Append(Flow(slot), b)]
<1> DEFINE at == IF pc = "run" /\ slot = tx[active] THEN cursor.at ELSE Nowhere
<1>1. slot \in Sessions /\ slot \in live /\ slot[1] = active /\ active \in Remotes
  <2>1. slot \in Sessions /\ slot \in live
    BY DEF Click, TypeOK, CountsOK
  <2>2. QED
    BY <2>1, SessionsAreOfRemotes DEF TypeOK, RouterOK
<1>2. at \in Places[active] \cup {Nowhere}
  BY <1>1, ScreenAssumption DEF TypeOK, RouterOK
<1>3. /\ queue' = [queue EXCEPT ![slot] = Append(queue[slot], Button(at))]
      /\ UNCHANGED <<wire, batch>>
  BY DEF Click
<1> HIDE DEF at
<1>4. Button(at) \in MessagesTo[slot[1]]
  BY <1>1, <1>2, MessagesAreTyped
<1>5. Pending' = [Pending EXCEPT ![slot] = Append(Flow(slot), Button(at))]
  <2> DEFINE e == Button(at)
  <2>1. PICK c \in Sessions : c = slot
    BY <1>1
  <2>2. e \in MessagesTo[c[1]] /\ queue' = [queue EXCEPT ![c] = Append(queue[c], e)]
    BY <1>3, <1>4, <2>1
  <2> HIDE DEF e
  <2>3. Pending' = [Pending EXCEPT ![c] = Append(Flow(c), e)]
    BY <1>3, <2>2, QueueingSends
  <2>4. QED
    BY <2>1, <2>3 DEF e
<1>6. QED
  BY <1>1, <1>4, <1>5 DEF at

LEMMA CollectCoalesces ==
  ASSUME TypeOK, NEW c \in Sessions, Collect(c)
  PROVE  \/ Pending' = Pending
         \/ \E n \in 1 .. Len(Flow(c)) - 1 :
              /\ IsPosition(Flow(c)[n]) /\ IsPosition(Flow(c)[n + 1])
              /\ Pending' = [Pending EXCEPT ![c] = Stream!Without(Flow(c), n)]
<1> DEFINE w == wire[c]
           b == batch[c]
           q == queue[c]
           M == MessagesTo[c[1]]
<1>1. w \in Seq(M) /\ b \in Seq(M) /\ q \in Seq(M) /\ q # <<>>
  BY FlowIsTyped DEF Collect
<1>2. /\ queue' = [queue EXCEPT ![c] = Tail(q)]
      /\ batch' = [batch EXCEPT ![c] = PushCoalesced(b, Head(q))]
      /\ UNCHANGED wire
  BY DEF Collect
<1>3. Pending' = [Pending EXCEPT ![c] = w \o PushCoalesced(b, Head(q)) \o Tail(q)]
  BY <1>2, OneStream DEF TypeOK, PathOK
<1>4. Flow(c) = w \o b \o q /\ Pending = [Pending EXCEPT ![c] = Flow(c)]
  BY DEF Flow, Pending
<1> HIDE DEF w, b, q, M
<1>5. CASE IsPosition(Head(q)) /\ b # <<>> /\ IsPosition(Last(b))
  <2> DEFINE n == Len(w) + Len(b)
  <2>1. /\ n \in 1 .. Len(w \o b \o q) - 1
        /\ (w \o b \o q)[n] = Last(b) /\ (w \o b \o q)[n + 1] = Head(q)
        /\ w \o Append(Front(b), Head(q)) \o Tail(q) = Stream!Without(w \o b \o q, n)
    <3>1. \A x, y, z \in Seq(M) : y # <<>> /\ z # <<>> =>
            /\ Len(x) + Len(y) \in 1 .. Len(x \o y \o z) - 1
            /\ (x \o y \o z)[Len(x) + Len(y)] = Last(y)
            /\ (x \o y \o z)[Len(x) + Len(y) + 1] = Head(z)
            /\ Stream!Without(x \o y \o z, Len(x) + Len(y))
                 = x \o Append(Front(y), Head(z)) \o Tail(z)
      <4> TAKE x, y, z \in Seq(M)
      <4> HAVE y # <<>> /\ z # <<>>
      <4>1. Len(x) + Len(y) \in 1 .. Len(x \o y \o z) - 1
        BY GivesWay
      <4>2. (x \o y \o z)[Len(x) + Len(y)] = Last(y)
        BY GivesWay
      <4>3. (x \o y \o z)[Len(x) + Len(y) + 1] = Head(z)
        BY GivesWay
      <4>4. Stream!Without(x \o y \o z, Len(x) + Len(y))
              = x \o Append(Front(y), Head(z)) \o Tail(z)
        BY GivesWay
      <4>5. QED
        BY <4>1, <4>2, <4>3, <4>4
    <3>2. QED
      BY <1>1, <1>5, <3>1
  <2>2. PushCoalesced(b, Head(q)) = Append(Front(b), Head(q))
    BY <1>5 DEF PushCoalesced
  <2> HIDE DEF n
  <2>3. QED
    BY <1>3, <1>4, <1>5, <2>1, <2>2
<1>6. CASE ~(IsPosition(Head(q)) /\ b # <<>> /\ IsPosition(Last(b)))
  <2>1. PushCoalesced(b, Head(q)) = Append(b, Head(q))
    BY <1>6 DEF PushCoalesced
  <2>2. w \o Append(b, Head(q)) \o Tail(q) = w \o b \o q
    <3>1. Head(q) \in M /\ Tail(q) \in Seq(M) /\ Append(b, Head(q)) \in Seq(M)
      BY <1>1
    <3>2. w \o Append(b, Head(q)) \o Tail(q) = w \o (Append(b, Head(q)) \o Tail(q))
      <4> DEFINE bh == Append(b, Head(q))
                 r == Tail(q)
      <4>1. bh \in Seq(M) /\ r \in Seq(M)
        BY <3>1
      <4> HIDE DEF bh, r
      <4>2. w \o bh \o r = w \o (bh \o r)
        <5>1. \A x, y, z \in Seq(M) : x \o y \o z = x \o (y \o z)
          BY ConcatAssociative
        <5>2. QED
          BY <1>1, <4>1, <5>1
      <4>3. QED
        BY <4>2 DEF bh, r
    <3>3. Append(b, Head(q)) \o Tail(q) = b \o q
      BY <1>1, MovesUp
    <3>4. w \o b \o q = w \o (b \o q)
      BY <1>1, ConcatAssociative
    <3>5. QED
      BY <3>2, <3>3, <3>4
  <2>3. QED
    BY <1>3, <1>4, <2>1, <2>2
<1>7. QED
  BY <1>5, <1>6

LEMMA WritingMovesNothing ==
  ASSUME TypeOK, NEW c \in Sessions, Write(c)
  PROVE  Pending' = Pending
<1> DEFINE w == wire[c]
           b == batch[c]
           q == queue[c]
           M == MessagesTo[c[1]]
<1>1. w \in Seq(M) /\ b \in Seq(M) /\ q \in Seq(M)
  BY FlowIsTyped
<1>2. b # <<>>
  BY DEF Write, TypeOK, PathOK
<1>3. /\ wire' = [wire EXCEPT ![c] = Append(w, Head(b))]
      /\ batch' = [batch EXCEPT ![c] = Tail(b)]
      /\ UNCHANGED queue
  BY DEF Write
<1>4. Pending' = [Pending EXCEPT ![c] = Append(w, Head(b)) \o Tail(b) \o q]
  BY <1>3, OneStream DEF TypeOK, PathOK
<1>5. Pending = [Pending EXCEPT ![c] = w \o b \o q]
  BY DEF Flow, Pending
<1> HIDE DEF w, b, q, M
<1>6. Append(w, Head(b)) \o Tail(b) = w \o b
  BY <1>1, <1>2, MovesUp
<1>7. QED
  BY <1>4, <1>5, <1>6

LEMMA TakingTakes ==
  ASSUME TypeOK, NEW c \in Sessions, wire[c] # <<>>,
         wire' = [wire EXCEPT ![c] = Tail(@)], UNCHANGED <<queue, batch>>
  PROVE  /\ Flow(c) # <<>> /\ Head(Flow(c)) = Head(wire[c])
         /\ Pending' = [Pending EXCEPT ![c] = Tail(Flow(c))]
<1>1. Pending' = [Pending EXCEPT ![c] = Tail(wire[c]) \o batch[c] \o queue[c]]
  BY OneStream DEF TypeOK, PathOK
<1>2. /\ Flow(c) # <<>> /\ Head(Flow(c)) = Head(wire[c])
      /\ Tail(wire[c]) \o batch[c] \o queue[c] = Tail(Flow(c))
  <2> DEFINE w == wire[c]
             b == batch[c]
             q == queue[c]
             M == MessagesTo[c[1]]
  <2>1. w \in Seq(M) /\ b \in Seq(M) /\ q \in Seq(M) /\ w # <<>> /\ Flow(c) = w \o b \o q
    BY FlowIsTyped DEF Flow
  <2> HIDE DEF w, b, q, M
  <2>2. /\ w \o b \o q # <<>> /\ Head(w \o b \o q) = Head(w)
        /\ Tail(w \o b \o q) = Tail(w) \o b \o q
    <3>1. \A x, y, z \in Seq(M) : x # <<>> =>
            /\ x \o y \o z # <<>> /\ Head(x \o y \o z) = Head(x)
            /\ Tail(x \o y \o z) = Tail(x) \o y \o z
      <4> TAKE x, y, z \in Seq(M)
      <4> HAVE x # <<>>
      <4>1. x \o y \o z # <<>>
        BY ComesOff
      <4>2. Head(x \o y \o z) = Head(x)
        BY ComesOff
      <4>3. Tail(x \o y \o z) = Tail(x) \o y \o z
        BY ComesOff
      <4>4. QED
        BY <4>1, <4>2, <4>3
    <3>2. QED
      BY <2>1, <3>1
  <2>3. QED
    BY <2>1, <2>2 DEF w, b, q
<1>3. QED
  BY <1>1, <1>2

LEMMA CuttingCuts ==
  ASSUME TypeOK, Emptied, NEW c \in Sessions, Ends(c) \/ Drops(c)
  PROVE  /\ live' = live \ {c}
         /\ \E n \in 0 .. Len(Flow(c)) : Pending' = [Pending EXCEPT ![c] = SubSeq(Flow(c), 1, n)]
<1> DEFINE w == wire[c]
           b == batch[c]
           q == queue[c]
           M == MessagesTo[c[1]]
<1>1. w \in Seq(M) /\ b \in Seq(M) /\ q \in Seq(M) /\ Flow(c) = w \o b \o q /\ Flow(c) \in Seq(M)
  BY FlowIsTyped DEF Flow
<1>2. Pending' = [Pending EXCEPT ![c] = wire'[c] \o batch'[c] \o queue'[c]]
  BY OneStream DEF TypeOK, PathOK, Ends, Drops
<1>3. /\ wire'[c] \in {w, <<>>} /\ batch'[c] = <<>> /\ queue'[c] = <<>>
      /\ live' = live \ {c}
  BY DEF TypeOK, PathOK, Emptied, Ends, Drops
<1> HIDE DEF w, b, q, M
<1>4. wire'[c] \o batch'[c] \o queue'[c] = wire'[c]
  <2> DEFINE x == wire'[c]
  <2> HIDE DEF x
  <2>a. <<>> \in Seq(M)
    OBVIOUS
  <2>1. x \in Seq(M)
    BY <1>1, <1>3, <2>a DEF x
  <2>2. x \o <<>> = x
    BY <2>1, ConcatEmptySeq
  <2>3. QED
    BY <1>3, <2>2 DEF x
<1>5. CASE wire'[c] = w
  <2>1. Len(w) \in 0 .. Len(Flow(c)) /\ w = SubSeq(Flow(c), 1, Len(w))
    <3>1. \A x, y, z \in Seq(M) :
            Len(x) \in 0 .. Len(x \o y \o z) /\ x = SubSeq(x \o y \o z, 1, Len(x))
      BY ComesFirst
    <3>2. QED
      BY <1>1, <3>1
  <2>2. QED
    BY <1>2, <1>3, <1>4, <1>5, <2>1
<1>6. CASE wire'[c] = <<>>
  <2>1. SubSeq(Flow(c), 1, 0) = <<>>
    BY SubSeqEmpty
  <2>2. 0 \in 0 .. Len(Flow(c))
    BY <1>1, LenProperties
  <2>3. QED
    BY <1>2, <1>3, <1>4, <1>6, <2>1, <2>2
<1>7. QED
  BY <1>3, <1>5, <1>6

(***************************************************************************)
(* Refinement.                                                             *)
(***************************************************************************)

LEMMA NothingInTransit ==
  ASSUME Init
  PROVE  /\ \A c \in Sessions : Flow(c) = <<>>
         /\ Pending = [c \in Sessions |-> <<>>]
<1>1. \A c \in Sessions : Flow(c) = <<>> \o <<>> \o <<>>
  BY DEF Init, Flow
<1>2. <<>> \o <<>> \o <<>> = <<>>
  OBVIOUS
<1>3. QED
  BY <1>1, <1>2 DEF Pending

LEMMA InitImplements == Init => Stream!Init
<1> SUFFICES ASSUME Init PROVE Stream!Init
  OBVIOUS
<1>1. [c \in Sessions |-> Flow(c)] = [c \in Sessions |-> <<>>]
  BY NothingInTransit
<1>2. live \in SUBSET Sessions
  BY SessionAssumption DEF Init
<1>3. \A s \in Remotes : \E m \in MessagesTo[s] : pointer[s] = m.at
  <2> TAKE s \in Remotes
  <2>1. Button(Nowhere) \in MessagesTo[s] /\ Button(Nowhere).at = Nowhere
    BY DEF MessagesTo, Button
  <2>2. pointer[s] = Nowhere
    BY DEF Init
  <2>3. QED
    BY <2>1, <2>2
<1>4. DOMAIN pointer = Remotes
  BY DEF Init
<1>5. QED
  BY <1>1, <1>2, <1>3, <1>4 DEF Stream!Init

LEMMA InitEmptied == Init => Emptied
BY DEF Init, Emptied

LEMMA StepKeepsEmptied ==
  ASSUME TypeOK, Emptied, [Next]_vars
  PROVE  Emptied'
<1> SUFFICES ASSUME NEW c \in Sessions, c \notin live'
             PROVE  queue'[c] = <<>> /\ batch'[c] = <<>>
  BY DEF Emptied
<1>1. c \notin live => queue[c] = <<>> /\ batch[c] = <<>>
  BY DEF Emptied
<1>2. ASSUME c \notin live, UNCHANGED batch,
             UNCHANGED queue \/ \E s \in Remotes : \E p : SendPosition(s, p)
      PROVE  queue'[c] = <<>> /\ batch'[c] = <<>>
  <2>1. CASE UNCHANGED queue
    BY <1>1, <1>2, <2>1
  <2>2. CASE \E s \in Remotes : \E p : SendPosition(s, p)
    <3>1. PICK s \in Remotes : \E p : SendPosition(s, p)
      BY <2>2
    <3>2. PICK p : SendPosition(s, p)
      BY <3>1
    <3>3. queue'[c] = queue[c]
      BY <1>2, <3>2 DEF SendPosition, TypeOK, PathOK
    <3>4. QED
      BY <1>1, <1>2, <3>3
  <2>3. QED
    BY <1>2, <2>1, <2>2
<1>3. CASE Leave
  BY <1>2, <1>3 DEF Leave, Crosses
<1>4. CASE SendEntry
  <2>1. active \in Remotes
    BY <1>4, RemotesAreScreens DEF TypeOK, RouterOK, SendEntry
  <2>2. QED
    BY <1>2, <1>4, <2>1 DEF SendEntry
<1>5. CASE Move
  <2>1. active \in Remotes /\ UNCHANGED <<live, batch>>
    BY <1>5 DEF Move, Steers
  <2>2. SendPosition(active, cursor'.at) \/ UNCHANGED queue
    BY <1>5 DEF Move, Returns, Crosses
  <2>3. QED
    BY <1>2, <2>1, <2>2
<1>6. CASE LinkLost \/ ScreenRemoved
  BY <1>2, <1>6 DEF LinkLost, ScreenRemoved, Returns
<1>7. CASE Reconfigure
  BY <1>2, <1>7 DEF Reconfigure, session
<1>8. CASE Click
  BY <1>1, <1>8 DEF Click, TypeOK, PathOK
<1>9. ASSUME NEW d \in Sessions,
             \/ Writer(d) \/ Inject(d) \/ Refuse(d)
             \/ Breaks(d) \/ Displaced(d) \/ Closes(d) \/ Drops(d)
      PROVE  queue'[c] = <<>> /\ batch'[c] = <<>>
  <2>1. CASE Collect(d)
    BY <1>1, <2>1 DEF Collect, TypeOK, PathOK
  <2>2. CASE FindsNoMore(d)
    BY <1>1, <2>2 DEF FindsNoMore
  <2>3. CASE Write(d)
    BY <1>1, <2>3 DEF Write, TypeOK, PathOK, CountsOK
  <2>4. CASE Inject(d) \/ Refuse(d) \/ Drops(d)
    BY <1>1, <2>4 DEF Inject, Refuse, Drops
  <2>5. CASE Ends(d)
    BY <1>1, <2>5 DEF Ends, TypeOK, PathOK
  <2>6. QED
    BY <1>9, <2>1, <2>2, <2>3, <2>4, <2>5 DEF Writer, Breaks, Displaced, Closes
<1>10. ASSUME NEW s \in Remotes, Disconnect(s) \/ Opens(s) \/ TakesBack(s) \/ ScreenInfo(s)
       PROVE  queue'[c] = <<>> /\ batch'[c] = <<>>
  <2>1. UNCHANGED <<queue, batch>> /\ live \subseteq live'
    BY <1>10 DEF Disconnect, Opens, TakesBack, ScreenInfo, session
  <2>2. QED
    BY <1>1, <2>1
<1>11. CASE UNCHANGED vars
  BY <1>2, <1>11 DEF vars, session
<1>12. QED
  BY <1>3, <1>4, <1>5, <1>6, <1>7, <1>8, <1>9, <1>10, <1>11 DEF Next

(* Sending a message of its own to one session is a Send of the stream.    *)
LEMMA SendIsSend ==
  ASSUME TypeOK, NEW c \in Sessions, c \in live, NEW m \in MessagesTo[c[1]],
         UNCHANGED <<live, pointer>>, Pending' = [Pending EXCEPT ![c] = Append(Flow(c), m)]
  PROVE  Stream!Next
<1>1. Stream!Send(c, m)
  BY DEF Stream!Send, Pending
<1>2. QED
  BY <1>1 DEF Stream!Next

LEMMA NothingIsSkipped ==
  ASSUME Pending' = Pending, UNCHANGED <<live, pointer>>
  PROVE  UNCHANGED Stream!vars
BY DEF Stream!vars, Pending

LEMMA StepImplements ==
  ASSUME TypeOK, Emptied, [Next]_vars
  PROVE  [Stream!Next]_Stream!vars
<1>0. ASSUME NEW s \in Remotes, NEW p \in Places[s], SendPosition(s, p),
             UNCHANGED <<batch, wire, live, pointer>>
      PROVE  [Stream!Next]_Stream!vars
  <2>1. CASE Pending' = Pending
    BY <1>0, <2>1, NothingIsSkipped
  <2>2. ASSUME NEW c \in Sessions, c \in live, c[1] = s,
               Pending' = [Pending EXCEPT ![c] = Append(Flow(c), Position(p))]
        PROVE  Stream!Next
    <3>1. Position(p) \in MessagesTo[c[1]]
      BY <2>2 DEF MessagesTo
    <3>2. QED
      BY <1>0, <2>2, <3>1, SendIsSend
  <2>3. QED
    BY <1>0, <2>1, <2>2, SendingSends
<1>1. CASE Leave
  BY <1>1, SameStream, NothingIsSkipped DEF Leave, Crosses, remote
<1>2. CASE SendEntry
  <2>1. active \in Remotes /\ cursor.at \in Places[active]
    BY <1>2, RemotesAreScreens DEF TypeOK, RouterOK, SendEntry
  <2>2. UNCHANGED <<batch, wire, live, pointer>>
    BY <1>2 DEF SendEntry, remote
  <2>3. QED
    BY <1>0, <1>2, <2>1, <2>2 DEF SendEntry
<1>3. CASE Move
  <2>1. PICK c : \/ SendPosition(active, cursor'.at) /\ cursor' = OnMonitors(c) /\ c.screen = active
                 \/ UNCHANGED queue
    BY <1>3 DEF Move, Returns, Crosses
  <2>2. UNCHANGED <<batch, wire, live, pointer>>
    BY <1>3 DEF Move, remote
  <2>3. CASE SendPosition(active, cursor'.at) /\ cursor' = OnMonitors(c) /\ c.screen = active
    <3>1. active \in Remotes
      BY <1>3 DEF Move, Steers
    <3>2. cursor'.at \in Places[active]
      <4>1. cursor'.screen = active
        BY <2>3 DEF OnMonitors
      <4>2. RouterOK'
        BY <1>3, MoveIsTyped DEF TypeOK
      <4>3. cursor'.at \in Places[cursor'.screen]
        BY <4>2 DEF RouterOK
      <4>4. QED
        BY <4>1, <4>3
    <3> DEFINE p == cursor'.at
    <3>3. p \in Places[active] /\ SendPosition(active, p)
      BY <2>3, <3>2
    <3> HIDE DEF p
    <3>4. QED
      BY <1>0, <2>2, <3>1, <3>3
  <2>4. CASE UNCHANGED queue
    BY <2>2, <2>4, SameStream, NothingIsSkipped
  <2>5. QED
    BY <2>1, <2>3, <2>4
<1>4. CASE LinkLost
  BY <1>4, SameStream, NothingIsSkipped DEF LinkLost, Returns, remote
<1>5. CASE ScreenRemoved
  BY <1>5, SameStream, NothingIsSkipped DEF ScreenRemoved, Returns, remote
<1>6. CASE Reconfigure
  BY <1>6, SameStream, NothingIsSkipped DEF Reconfigure, session, remote
<1>7. CASE Click
  <2>1. PICK c \in Sessions : c = slot /\ c \in live
    BY <1>7, ClickSends
  <2>2. PICK b \in MessagesTo[c[1]] : Pending' = [Pending EXCEPT ![c] = Append(Flow(c), b)]
    BY <1>7, <2>1, ClickSends
  <2>3. UNCHANGED <<live, pointer>>
    BY <1>7 DEF Click, remote
  <2>4. QED
    BY <2>1, <2>2, <2>3, SendIsSend
<1>8. ASSUME NEW c \in Sessions,
             \/ Writer(c) \/ Inject(c) \/ Refuse(c)
             \/ Breaks(c) \/ Displaced(c) \/ Closes(c) \/ Drops(c)
      PROVE  [Stream!Next]_Stream!vars
  <2>1. CASE Collect(c)
    <3>1. UNCHANGED <<live, pointer>>
      BY <2>1 DEF Collect, remote
    <3>2. CASE Pending' = Pending
      BY <3>1, <3>2, NothingIsSkipped
    <3>3. ASSUME NEW n \in 1 .. Len(Flow(c)) - 1,
                 IsPosition(Flow(c)[n]) /\ IsPosition(Flow(c)[n + 1]),
                 Pending' = [Pending EXCEPT ![c] = Stream!Without(Flow(c), n)]
          PROVE  Stream!Next
      <4>1. Pending[c] = Flow(c)
        BY DEF Pending
      <4>2. Stream!Overtake(c)
        BY <3>1, <3>3, <4>1 DEF Stream!Overtake, Stream!IsPosition, IsPosition, Pending
      <4>3. QED
        BY <4>2 DEF Stream!Next
    <3>4. QED
      BY <2>1, <3>2, <3>3, CollectCoalesces
  <2>2. CASE FindsNoMore(c)
    BY <2>2, SameStream, NothingIsSkipped DEF FindsNoMore, remote
  <2>3. CASE Write(c)
    BY <2>3, WritingMovesNothing, NothingIsSkipped DEF Write, remote
  <2>4. CASE Inject(c) \/ Refuse(c)
    <3>1. /\ Flow(c) # <<>> /\ Head(Flow(c)) = Head(wire[c])
          /\ Pending' = [Pending EXCEPT ![c] = Tail(Flow(c))]
      BY <2>4, TakingTakes DEF Inject, Refuse
    <3>2. \/ /\ IsPosition(Head(wire[c]))
             /\ pointer' = [pointer EXCEPT ![c[1]] = Head(wire[c]).at]
          \/ UNCHANGED pointer
      BY <2>4 DEF Inject, Refuse, remote
    <3>3. UNCHANGED live
      BY <2>4 DEF Inject, Refuse
    <3>4. Stream!Apply(c)
      BY <3>1, <3>2, <3>3 DEF Stream!Apply, Stream!IsPosition, IsPosition, Pending
    <3>5. QED
      BY <3>4 DEF Stream!Next
  <2>5. CASE Ends(c) \/ Drops(c)
    <3>1. UNCHANGED pointer
      BY <2>5 DEF Ends, Drops, remote
    <3>2. Stream!Cut(c)
      BY <2>5, <3>1, CuttingCuts DEF Stream!Cut, Pending
    <3>3. QED
      BY <3>2 DEF Stream!Next
  <2>6. QED
    BY <1>8, <2>1, <2>2, <2>3, <2>4, <2>5 DEF Writer, Breaks, Displaced, Closes
<1>9. ASSUME NEW s \in Remotes, Disconnect(s) \/ Opens(s) \/ TakesBack(s) \/ ScreenInfo(s)
      PROVE  [Stream!Next]_Stream!vars
  <2>1. CASE Opens(s)
    <3>1. PICK c \in Sessions : Free(c) /\ live' = live \cup {c}
      BY <2>1 DEF Opens
    <3>2. Pending' = Pending /\ UNCHANGED pointer
      BY <2>1, SameStream DEF Opens, remote
    <3>3. Stream!Open(c)
      BY <3>1, <3>2 DEF Stream!Open, Free, Pending
    <3>4. QED
      BY <3>3 DEF Stream!Next
  <2>2. CASE Disconnect(s) \/ TakesBack(s)
    BY <2>2, SameStream, NothingIsSkipped DEF Disconnect, TakesBack, remote
  <2>3. CASE ScreenInfo(s)
    BY <2>3, SameStream, NothingIsSkipped DEF ScreenInfo, session, remote
  <2>4. QED
    BY <1>9, <2>1, <2>2, <2>3
<1>10. CASE UNCHANGED vars
  BY <1>10, SameStream, NothingIsSkipped DEF vars, session, remote
<1>11. QED
  BY <1>1, <1>2, <1>3, <1>4, <1>5, <1>6, <1>7, <1>8, <1>9, <1>10 DEF Next

(* Whatever is coalesced, disconnected, replaced and refused, the path of  *)
(* each session is one stream that PointerStream allows: in order, nothing *)
(* twice, and only positions overtaken until it ends (push_coalesced, the  *)
(* writer's loop, the receiver's handlers).                                *)
THEOREM PathImplementsStream == Spec => Implements
<1>1. TypeOK /\ Emptied /\ [Next]_vars => Emptied'
  BY StepKeepsEmptied
<1>2. TypeOK /\ Emptied /\ [Next]_vars => [Stream!Next]_Stream!vars
  BY StepImplements
<1>3. QED
  BY InitImplements, InitEmptied, <1>1, <1>2, TypeCorrect, PTL DEF Spec, Implements, Stream!Spec

(***************************************************************************)
(* Buttons.  ButtonsLand speaks of the head of the wire only; what keeps   *)
(* it true is an order of the whole stream.  Every button in it that has a *)
(* place directly follows a message for that place, and the first finds    *)
(* the pointer there already, unless another session has put it elsewhere. *)
(* While buttons and positions go the same way, the stream ends where the  *)
(* router's cursor is, or the pointer is there.                            *)
(***************************************************************************)

Placed(m) == ~IsPosition(m) /\ m.at # Nowhere
Chained(f) == \A i \in 2 .. Len(f) : Placed(f[i]) => f[i - 1].at = f[i].at
Held(c, p) == pointer[c[1]] = p \/ by[c[1]] # c

Landing(c) ==
  /\ Chained(Pending[c])
  /\ Pending[c] # <<>> /\ Placed(Head(Pending[c])) => Held(c, Head(Pending[c]).at)
Together == pc = "run" /\ slot \in live /\ slot = tx[active]
UpToDate ==
  Together =>
    IF Pending[slot] = <<>> THEN Held(slot, cursor.at)
    ELSE Last(Pending[slot]).at = cursor.at
InPlace == UpToDate /\ \A c \in Sessions : Landing(c)

LEMMA AppendChains ==
  ASSUME NEW M, NEW f \in Seq(M), NEW m \in M, Chained(f),
         Placed(m) /\ f # <<>> => Last(f).at = m.at
  PROVE  /\ Chained(Append(f, m))
         /\ Append(f, m) # <<>> /\ Last(Append(f, m)) = m
         /\ Head(Append(f, m)) = IF f = <<>> THEN m ELSE Head(f)
<1> DEFINE g == Append(f, m)
           l == Len(f)
<1>1. /\ g \in Seq(M) /\ g # <<>> /\ Len(g) = l + 1
      /\ (\A i \in 1 .. l : g[i] = f[i]) /\ g[l + 1] = m
  BY AppendProperties
<1>2. l \in Nat /\ (f # <<>> => l > 0) /\ (f = <<>> => l = 0)
  BY LenProperties, EmptySeq
<1>3. Last(f) = f[l] /\ Last(g) = g[Len(g)]
  BY DEF Last
<1>4. \A i \in 2 .. l : Placed(f[i]) => f[i - 1].at = f[i].at
  BY DEF Chained
<1> HIDE DEF g, l
<1>5. \A i \in 2 .. Len(g) : Placed(g[i]) => g[i - 1].at = g[i].at
  <2> TAKE i \in 2 .. Len(g)
  <2> HAVE Placed(g[i])
  <2>1. CASE i <= l
    <3>1. g[i] = f[i] /\ g[i - 1] = f[i - 1] /\ i \in 2 .. l
      BY <1>1, <1>2, <2>1
    <3>2. QED
      BY <1>4, <3>1
  <2>2. CASE ~(i <= l)
    <3>1. i = l + 1 /\ i - 1 = l /\ l >= 1
      BY <1>1, <1>2, <2>2
    <3>2. g[i] = m /\ g[i - 1] = f[l]
      BY <1>1, <1>2, <3>1
    <3>3. f # <<>>
      BY <1>2, <3>1
    <3>4. QED
      BY <1>3, <3>2, <3>3
  <2>3. QED
    BY <2>1, <2>2
<1>6. Chained(g)
  BY <1>5 DEF Chained
<1>7. Last(g) = m
  BY <1>1, <1>3
<1>8. Head(Append(f, m)) = IF f = <<>> THEN m ELSE Head(f)
  BY HeadTailAppend
<1>9. QED
  BY <1>1, <1>6, <1>7, <1>8 DEF g

LEMMA WithoutChains ==
  ASSUME NEW M, NEW f \in Seq(M), Chained(f), NEW n \in 1 .. Len(f) - 1,
         IsPosition(f[n]), IsPosition(f[n + 1])
  PROVE  /\ Chained(Stream!Without(f, n))
         /\ Stream!Without(f, n) # <<>> /\ f # <<>>
         /\ Last(Stream!Without(f, n)) = Last(f)
         /\ \/ Head(Stream!Without(f, n)) = Head(f)
            \/ IsPosition(Head(Stream!Without(f, n)))
<1> DEFINE g == Stream!Without(f, n)
           l == Len(f)
<1>1. l \in Nat /\ l >= 2 /\ n \in 1 .. l - 1
  BY LenProperties
<1>2. g = [j \in 1 .. l - 1 |-> IF j < n THEN f[j] ELSE f[j + 1]]
  BY DEF Stream!Without
<1>3. g \in Seq(M) /\ Len(g) = l - 1 /\ \A j \in 1 .. l - 1 : g[j] = IF j < n THEN f[j] ELSE f[j + 1]
  <2>1. \A j \in 1 .. l - 1 : (IF j < n THEN f[j] ELSE f[j + 1]) \in M
    BY <1>1, LenProperties
  <2>2. g \in [1 .. l - 1 -> M]
    BY <1>2, <2>1
  <2>3. l - 1 \in Nat
    BY <1>1
  <2> HIDE DEF g, l
  <2>4. g \in Seq(M)
    <3>1. Seq(M) = UNION {[1 .. k -> M] : k \in Nat}
      BY SeqDef
    <3>2. QED
      BY <2>2, <2>3, <3>1
  <2>5. Len(g) = l - 1
    <3>1. DOMAIN g = 1 .. Len(g) /\ Len(g) \in Nat
      BY <2>4, LenProperties
    <3>2. DOMAIN g = 1 .. l - 1
      BY <1>2
    <3>3. QED
      BY <2>3, <3>1, <3>2
  <2>6. QED
    BY <1>2, <2>4, <2>5
<1>4. \A i \in 2 .. l : Placed(f[i]) => f[i - 1].at = f[i].at
  BY DEF Chained
<1>5. ~Placed(f[n]) /\ ~Placed(f[n + 1])
  BY DEF Placed
<1>6. Last(f) = f[l] /\ Last(g) = g[Len(g)] /\ Head(f) = f[1] /\ Head(g) = g[1]
  BY DEF Last
<1> HIDE DEF g, l
<1>7. \A i \in 2 .. Len(g) : Placed(g[i]) => g[i - 1].at = g[i].at
  <2> TAKE i \in 2 .. Len(g)
  <2> HAVE Placed(g[i])
  <2>1. i \in 2 .. l - 1 /\ i - 1 \in 1 .. l - 1 /\ i \in 1 .. l - 1
    BY <1>1, <1>3
  <2>2. CASE i < n
    <3>1. g[i] = f[i] /\ g[i - 1] = f[i - 1] /\ i \in 2 .. l
      BY <1>1, <1>3, <2>1, <2>2
    <3>2. QED
      BY <1>4, <3>1
  <2>3. CASE i = n
    <3>1. g[i] = f[n + 1]
      BY <1>1, <1>3, <2>1, <2>3
    <3>2. QED
      BY <1>5, <3>1
  <2>4. CASE i > n
    <3> DEFINE k == i + 1
    <3>1. k \in 2 .. l /\ k - 1 = i /\ ~(i < n) /\ ~(i - 1 < n)
      BY <1>1, <2>1, <2>4
    <3>2. g[i] = f[k]
      BY <1>3, <2>1, <3>1
    <3>3. g[i - 1] = f[i]
      <4>1. g[i - 1] = f[(i - 1) + 1]
        BY <1>3, <2>1, <3>1
      <4>2. (i - 1) + 1 = i
        BY <2>1
      <4>3. QED
        BY <4>1, <4>2
    <3> HIDE DEF k
    <3>4. QED
      BY <1>4, <3>1, <3>2, <3>3
  <2>5. QED
    BY <1>1, <2>1, <2>2, <2>3, <2>4
<1>8. g # <<>> /\ f # <<>>
  BY <1>1, <1>3, EmptySeq DEF l
<1>9. Last(g) = Last(f)
  <2>1. l - 1 \in 1 .. l - 1 /\ ~(l - 1 < n) /\ (l - 1) + 1 = l
    BY <1>1
  <2>2. g[l - 1] = f[l]
    BY <1>3, <2>1
  <2>3. QED
    BY <1>3, <1>6, <2>2
<1>10. Head(g) = Head(f) \/ IsPosition(Head(g))
  <2>1. 1 \in 1 .. l - 1
    BY <1>1
  <2>2. CASE n = 1
    <3>1. g[1] = f[n + 1]
      BY <1>3, <2>1, <2>2
    <3>2. QED
      BY <1>6, <3>1
  <2>3. CASE n # 1
    <3>1. g[1] = f[1]
      BY <1>1, <1>3, <2>1, <2>3
    <3>2. QED
      BY <1>6, <3>1
  <2>4. QED
    BY <2>2, <2>3
<1>11. Chained(g)
  BY <1>7 DEF Chained
<1>12. QED
  BY <1>8, <1>9, <1>10, <1>11 DEF g

LEMMA TailChains ==
  ASSUME NEW M, NEW f \in Seq(M), Chained(f), f # <<>>
  PROVE  /\ Chained(Tail(f))
         /\ Tail(f) # <<>> /\ Placed(Head(Tail(f))) => Head(f).at = Head(Tail(f)).at
         /\ IF Tail(f) = <<>> THEN Last(f) = Head(f) ELSE Last(f) = Last(Tail(f))
<1> DEFINE g == Tail(f)
           l == Len(f)
<1>1. /\ g \in Seq(M) /\ Len(g) = l - 1 /\ (\A i \in 1 .. Len(g) : g[i] = f[i + 1])
  BY HeadTailProperties
<1>2. l \in Nat /\ l > 0
  BY LenProperties, EmptySeq
<1>3. \A i \in 2 .. l : Placed(f[i]) => f[i - 1].at = f[i].at
  BY DEF Chained
<1>a. Last(f) = f[l] /\ Head(f) = f[1]
  BY DEF Last
<1> HIDE DEF g, l
<1>b. Last(g) = g[Len(g)] /\ Head(g) = g[1]
  BY DEF Last
<1>4. Last(f) = f[l] /\ Last(g) = g[Len(g)] /\ Head(f) = f[1] /\ Head(g) = g[1]
  BY <1>a, <1>b
<1>5. \A i \in 2 .. Len(g) : Placed(g[i]) => g[i - 1].at = g[i].at
  <2> TAKE i \in 2 .. Len(g)
  <2> HAVE Placed(g[i])
  <2> DEFINE k == i + 1
  <2>1. k \in 2 .. l /\ k - 1 = i /\ (i - 1) + 1 = i /\ i \in 1 .. Len(g) /\ i - 1 \in 1 .. Len(g)
    BY <1>1, <1>2
  <2>2. g[i] = f[k]
    BY <1>1, <2>1
  <2>3. g[i - 1] = f[i]
    <3>1. g[i - 1] = f[(i - 1) + 1]
      BY <1>1, <2>1
    <3>2. QED
      BY <2>1, <3>1
  <2> HIDE DEF k
  <2>4. QED
    BY <1>3, <2>1, <2>2, <2>3
<1>6. g = <<>> => l = 1
  BY <1>1, <1>2, EmptySeq
<1>7. g # <<>> => l >= 2 /\ Len(g) \in Nat /\ Len(g) >= 1
  BY <1>1, <1>2, EmptySeq
<1>8. g # <<>> /\ Placed(Head(g)) => Head(f).at = Head(g).at
  <2> HAVE g # <<>> /\ Placed(Head(g))
  <2>1. 2 \in 2 .. l /\ 1 \in 1 .. Len(g)
    BY <1>2, <1>7
  <2>2. g[1] = f[2]
    <3>1. g[1] = f[1 + 1]
      BY <1>1, <2>1
    <3>2. QED
      BY <3>1
  <2>3. Placed(f[2])
    BY <1>4, <2>2
  <2>4. f[2 - 1].at = f[2].at
    BY <1>3, <2>1, <2>3
  <2>5. QED
    BY <1>4, <2>2, <2>4
<1>9. IF g = <<>> THEN Last(f) = Head(f) ELSE Last(f) = Last(g)
  <2>1. CASE g = <<>>
    BY <1>4, <1>6, <2>1
  <2>2. CASE g # <<>>
    <3>1. g[Len(g)] = f[Len(g) + 1] /\ Len(g) + 1 = l
      BY <1>1, <1>2, <1>7, <2>2
    <3>2. QED
      BY <1>4, <2>2, <3>1
  <2>3. QED
    BY <2>1, <2>2
<1>10. Chained(g)
  BY <1>5 DEF Chained
<1>11. QED
  BY <1>8, <1>9, <1>10 DEF g


LEMMA BeginningChains ==
  ASSUME NEW M, NEW f \in Seq(M), Chained(f), NEW n \in 0 .. Len(f)
  PROVE  /\ Chained(SubSeq(f, 1, n))
         /\ SubSeq(f, 1, n) # <<>> => f # <<>> /\ Head(SubSeq(f, 1, n)) = Head(f)
<1> DEFINE g == SubSeq(f, 1, n)
           l == Len(f)
<1>1. l \in Nat /\ n \in Int /\ n >= 0 /\ n <= l /\ \A i \in 1 .. n : f[i] \in M
  BY LenProperties
<1>2. /\ g \in Seq(M) /\ Len(g) = IF 1 <= n THEN n - 1 + 1 ELSE 0
      /\ \A i \in 1 .. n - 1 + 1 : g[i] = f[1 + i - 1]
  BY <1>1, SubSeqProperties
<1>3. \A i \in 2 .. l : Placed(f[i]) => f[i - 1].at = f[i].at
  BY DEF Chained
<1>4. Head(f) = f[1]
  OBVIOUS
<1>5. f = <<>> => l = 0
  BY EmptySeq
<1> HIDE DEF g, l
<1>a. Head(g) = g[1]
  OBVIOUS
<1>6. Len(g) = n /\ \A i \in 1 .. n : g[i] = f[i]
  BY <1>1, <1>2
<1>7. \A i \in 2 .. Len(g) : Placed(g[i]) => g[i - 1].at = g[i].at
  <2> TAKE i \in 2 .. Len(g)
  <2> HAVE Placed(g[i])
  <2>1. i \in 2 .. l /\ i \in 1 .. n /\ i - 1 \in 1 .. n
    BY <1>1, <1>6
  <2>2. QED
    BY <1>3, <1>6, <2>1
<1>8. g # <<>> => f # <<>> /\ Head(g) = Head(f)
  <2>1. g # <<>> => n >= 1
    BY <1>1, <1>2, <1>6, EmptySeq
  <2>2. QED
    BY <1>1, <1>4, <1>a, <1>5, <1>6, <2>1
<1>9. Chained(g)
  BY <1>7 DEF Chained
<1>10. QED
  BY <1>8, <1>9 DEF g

LEMMA TogetherIsSession ==
  ASSUME TypeOK
  PROVE  /\ None \notin live
         /\ slot \in live => slot \in Sessions /\ slot[1] = active /\ active \in Remotes
<1>1. None \notin live
  BY SessionsAreOfRemotes DEF TypeOK, CountsOK
<1>2. slot \in live => slot \in Sessions /\ slot # None
  BY <1>1 DEF TypeOK, CountsOK
<1>3. QED
  BY <1>1, <1>2, SessionsAreOfRemotes DEF TypeOK, RouterOK

(* What one step does to the stream of c leaves the others' landing alone, *)
(* if it leaves the pointer where they had it, or takes it from them.      *)
LEMMA OthersLand ==
  ASSUME InPlace, NEW c \in Sessions,
         \A d \in Sessions \ {c} :
            /\ Pending'[d] = Pending[d]
            /\ \A p : Held(d, p) => pointer'[d[1]] = p \/ by'[d[1]] # d,
         Landing(c)'
  PROVE  \A d \in Sessions : Landing(d)'
<1> SUFFICES ASSUME NEW d \in Sessions \ {c} PROVE Landing(d)'
  OBVIOUS
<1>1. Landing(d) /\ Pending'[d] = Pending[d]
      /\ \A p : Held(d, p) => pointer'[d[1]] = p \/ by'[d[1]] # d
  BY DEF InPlace
<1>2. QED
  BY <1>1 DEF Landing, Held

LEMMA AllLand ==
  ASSUME InPlace, Pending' = Pending, UNCHANGED remote
  PROVE  \A c \in Sessions : Landing(c)'
<1> TAKE c \in Sessions
<1>1. Landing(c) /\ Pending'[c] = Pending[c] /\ (\A p : Held(c, p) => Held(c, p)')
  BY DEF InPlace, Held, remote
<1>2. QED
  BY <1>1 DEF Landing

LEMMA NothingSent ==
  ASSUME InPlace, Pending' = Pending, UNCHANGED remote,
         Together' => Together /\ slot' = slot /\ cursor' = cursor
  PROVE  InPlace'
<1>1. UpToDate'
  <2> SUFFICES ASSUME Together'
               PROVE  IF Pending'[slot'] = <<>> THEN pointer'[slot'[1]] = cursor'.at \/ by'[slot'[1]] # slot'
                      ELSE Last(Pending'[slot']).at = cursor'.at
    BY DEF UpToDate, Held
  <2>1. QED
    BY DEF InPlace, UpToDate, Held, remote
<1>2. QED
  BY <1>1, AllLand DEF InPlace

LEMMA PendingIsTyped ==
  ASSUME TypeOK, NEW c \in Sessions
  PROVE  Pending[c] = Flow(c) /\ Pending[c] \in Seq(MessagesTo[c[1]])
         /\ DOMAIN Pending = Sessions
BY FlowIsTyped DEF Pending

(* After a position for the active screen the stream ends at the cursor.   *)
LEMMA PositionSent ==
  ASSUME TypeOK, InPlace, NEW s \in Remotes, s = active, NEW p \in Places[s],
         SendPosition(s, p),
         UNCHANGED <<batch, wire, remote, slot, tx, live, active>>, cursor'.at = p
  PROVE  InPlace'
<1>1. ASSUME NEW c \in Sessions, c = tx[s], c[1] = s,
             Pending' = [Pending EXCEPT ![c] = Append(Flow(c), Position(p))]
      PROVE  InPlace'
  <2> DEFINE f == Flow(c)
             m == Position(p)
             M == MessagesTo[c[1]]
  <2>1. f \in Seq(M) /\ m \in M /\ Chained(f) /\ ~Placed(m) /\ m.at = p
    <3>1. Landing(c)
      BY DEF InPlace
    <3>2. QED
      BY <1>1, <3>1, PendingIsTyped DEF Landing, MessagesTo, Placed, IsPosition, Position
  <2>2. /\ Pending'[c] = Append(f, m)
        /\ \A d \in Sessions \ {c} : Pending'[d] = Pending[d]
    BY <1>1, PendingIsTyped
  <2>3. Landing(c) /\ Pending[c] = f
    BY PendingIsTyped DEF InPlace
  <2> HIDE DEF f, m, M
  <2>4. /\ Chained(Append(f, m))
        /\ Append(f, m) # <<>> /\ Last(Append(f, m)) = m
        /\ Head(Append(f, m)) = IF f = <<>> THEN m ELSE Head(f)
    <3>1. \A g \in Seq(M) : \A n \in M : Chained(g) /\ ~Placed(n) =>
            /\ Chained(Append(g, n))
            /\ Append(g, n) # <<>> /\ Last(Append(g, n)) = n
            /\ Head(Append(g, n)) = IF g = <<>> THEN n ELSE Head(g)
      <4> TAKE g \in Seq(M)
      <4> TAKE n \in M
      <4> HAVE Chained(g) /\ ~Placed(n)
      <4>1. Chained(Append(g, n)) /\ Append(g, n) # <<>> /\ Last(Append(g, n)) = n
        BY AppendChains
      <4>2. Head(Append(g, n)) = IF g = <<>> THEN n ELSE Head(g)
        BY AppendChains
      <4>3. QED
        BY <4>1, <4>2
    <3>2. QED
      BY <2>1, <3>1
  <2>5. Landing(c)'
    <3>1. Placed(Head(Append(f, m))) => f # <<>> /\ Head(Append(f, m)) = Head(f)
      BY <2>1, <2>4
    <3>3. \A q : Held(c, q) => pointer'[c[1]] = q \/ by'[c[1]] # c
      BY DEF Held, remote
    <3>4. Chained(Pending'[c])
      BY <2>2, <2>4
    <3>5. QED
      BY <2>2, <2>3, <2>4, <3>1, <3>3, <3>4 DEF Landing, Held
  <2>6. UpToDate'
    <3> SUFFICES ASSUME Together' PROVE Last(Pending'[slot']).at = p /\ Pending'[slot'] # <<>>
      BY DEF UpToDate
    <3>1. slot' = c
      BY <1>1 DEF Together
    <3>2. QED
      BY <2>1, <2>2, <2>4, <3>1
  <2>7. \A d \in Sessions : Landing(d)'
    BY <2>2, <2>5, OthersLand DEF Held, remote
  <2>8. QED
    BY <2>6, <2>7 DEF InPlace
<1>2. CASE tx[s] \notin live /\ Pending' = Pending
  BY <1>2, NothingSent DEF Together
<1>3. QED
  BY <1>1, <1>2, SendingSends

LEMMA ButtonSent ==
  ASSUME TypeOK, InPlace, Click
  PROVE  InPlace'
<1> DEFINE at == IF pc = "run" /\ slot = tx[active] THEN cursor.at ELSE Nowhere
           b == Button(at)
<1>1. PICK c \in Sessions : c = slot /\ c \in live
  BY ClickSends
<1>2. /\ b \in MessagesTo[c[1]]
      /\ Pending' = [Pending EXCEPT ![c] = Append(Flow(c), b)]
      /\ ~IsPosition(b) /\ b.at = at
  BY <1>1, ClickSends DEF IsPosition, Button
<1>3. UNCHANGED <<pointer, by, slot, pc, cursor, active, tx, live>>
  BY DEF Click, router, remote
<1>4. Landing(c) /\ UpToDate
  BY DEF InPlace
<1> DEFINE f == Flow(c)
           M == MessagesTo[c[1]]
<1>5. f \in Seq(M) /\ Pending[c] = f /\ Pending'[c] = Append(f, b)
      /\ \A d \in Sessions \ {c} : Pending'[d] = Pending[d]
  BY <1>2, PendingIsTyped
<1>6. Placed(b) => Together /\ b.at = cursor.at
  BY <1>1, <1>2 DEF Placed, Together
<1>a. Together => b.at = cursor.at
  BY <1>2 DEF Together
<1> HIDE DEF f, M, b
<1>7. Placed(b) => IF f = <<>> THEN Held(c, b.at) ELSE Last(f).at = b.at
  BY <1>1, <1>4, <1>5, <1>6 DEF UpToDate
<1>8. Chained(f) /\ b \in M
  BY <1>2, <1>4, <1>5 DEF Landing, M
<1>9. /\ Chained(Append(f, b))
      /\ Append(f, b) # <<>> /\ Last(Append(f, b)) = b
      /\ Head(Append(f, b)) = IF f = <<>> THEN b ELSE Head(f)
  <2>1. \A g \in Seq(M) : \A n \in M : Chained(g) /\ (Placed(n) /\ g # <<>> => Last(g).at = n.at) =>
          /\ Chained(Append(g, n))
          /\ Append(g, n) # <<>> /\ Last(Append(g, n)) = n
          /\ Head(Append(g, n)) = IF g = <<>> THEN n ELSE Head(g)
    <3> TAKE g \in Seq(M)
    <3> TAKE n \in M
    <3> HAVE Chained(g) /\ (Placed(n) /\ g # <<>> => Last(g).at = n.at)
    <3>1. Chained(Append(g, n)) /\ Append(g, n) # <<>> /\ Last(Append(g, n)) = n
      BY AppendChains
    <3>2. Head(Append(g, n)) = IF g = <<>> THEN n ELSE Head(g)
      BY AppendChains
    <3>3. QED
      BY <3>1, <3>2
  <2>2. Placed(b) /\ f # <<>> => Last(f).at = b.at
    BY <1>7
  <2>3. QED
    BY <1>5, <1>8, <2>1, <2>2
<1>10. Landing(c)'
  <2>1. \A q : Held(c, q) <=> pointer'[c[1]] = q \/ by'[c[1]] # c
    BY <1>3 DEF Held
  <2>2. Placed(Head(Append(f, b))) => Held(c, Head(Append(f, b)).at)
    <3>1. CASE f = <<>>
      BY <1>7, <1>9, <3>1
    <3>2. CASE f # <<>>
      BY <1>4, <1>5, <1>9, <3>2 DEF Landing
    <3>3. QED
      BY <3>1, <3>2
  <2>3. QED
    BY <1>5, <1>9, <2>1, <2>2 DEF Landing, Held
<1>11. UpToDate'
  <2> SUFFICES ASSUME Together'
               PROVE  Pending'[slot'] # <<>> /\ Last(Pending'[slot']).at = cursor'.at
    BY DEF UpToDate
  <2>1. b.at = cursor.at
    BY <1>3, <1>a DEF Together
  <2>2. QED
    BY <1>1, <1>3, <1>5, <1>9, <2>1
<1>12. \A d \in Sessions : Landing(d)'
  BY <1>3, <1>5, <1>10, OthersLand DEF Held
<1>13. QED
  BY <1>11, <1>12 DEF InPlace

LEMMA Overtaken ==
  ASSUME TypeOK, InPlace, NEW c \in Sessions, Collect(c)
  PROVE  InPlace'
<1>1. UNCHANGED <<pointer, by, slot, pc, cursor, active, tx, live>>
  BY DEF Collect, router, remote
<1>2. CASE Pending' = Pending
  BY <1>1, <1>2, NothingSent DEF remote, Together
<1>3. ASSUME NEW n \in 1 .. Len(Flow(c)) - 1,
             IsPosition(Flow(c)[n]) /\ IsPosition(Flow(c)[n + 1]),
             Pending' = [Pending EXCEPT ![c] = Stream!Without(Flow(c), n)]
      PROVE  InPlace'
  <2> DEFINE f == Flow(c)
             M == MessagesTo[c[1]]
             g == Stream!Without(f, n)
  <2>1. f \in Seq(M) /\ Pending[c] = f /\ Pending'[c] = g
        /\ \A d \in Sessions \ {c} : Pending'[d] = Pending[d]
    BY <1>3, PendingIsTyped
  <2>2. Landing(c) /\ UpToDate /\ Chained(f)
    BY <2>1 DEF InPlace, Landing
  <2>3. /\ Chained(g) /\ g # <<>> /\ f # <<>> /\ Last(g) = Last(f)
        /\ Head(g) = Head(f) \/ IsPosition(Head(g))
    <3>1. n \in 1 .. Len(f) - 1 /\ IsPosition(f[n]) /\ IsPosition(f[n + 1])
      BY <1>3
    <3> HIDE DEF f, M
    <3>2. \A h \in Seq(M) : Chained(h) /\ n \in 1 .. Len(h) - 1 /\ IsPosition(h[n]) /\ IsPosition(h[n + 1]) =>
            /\ Chained(Stream!Without(h, n)) /\ Stream!Without(h, n) # <<>> /\ h # <<>>
            /\ Last(Stream!Without(h, n)) = Last(h)
            /\ Head(Stream!Without(h, n)) = Head(h) \/ IsPosition(Head(Stream!Without(h, n)))
      BY WithoutChains
    <3>3. QED
      BY <2>1, <2>2, <3>1, <3>2
  <2> HIDE DEF f, M, g
  <2>4. Landing(c)'
    <3>1. \A q : Held(c, q) <=> pointer'[c[1]] = q \/ by'[c[1]] # c
      BY <1>1 DEF Held
    <3>2. Placed(Head(g)) => Head(g) = Head(f)
      BY <2>3 DEF Placed
    <3>3. QED
      BY <2>1, <2>2, <2>3, <3>1, <3>2 DEF Landing, Held
  <2>5. \A d \in Sessions : Landing(d)'
    BY <1>1, <2>1, <2>4, OthersLand DEF Held
  <2>6. UpToDate'
    <3> SUFFICES ASSUME Together'
                 PROVE  IF Pending'[slot] = <<>> THEN Held(slot, cursor.at)
                        ELSE Last(Pending'[slot]).at = cursor.at
      BY <1>1 DEF UpToDate, Held
    <3>a. Together /\ slot \in Sessions
      BY <1>1, TogetherIsSession DEF Together
    <3>1. CASE slot = c
      BY <2>1, <2>2, <2>3, <3>1, <3>a DEF UpToDate
    <3>2. CASE slot # c
      <4>1. Pending'[slot] = Pending[slot]
        BY <2>1, <3>2, <3>a
      <4>2. QED
        BY <2>2, <3>a, <4>1 DEF UpToDate
    <3>3. QED
      BY <3>1, <3>2
  <2>7. QED
    BY <2>5, <2>6 DEF InPlace
<1>4. QED
  BY <1>2, <1>3, CollectCoalesces

(* Taking the first message: a position puts the pointer where the message *)
(* that follows it belongs, or is refused; a button leaves it there.       *)
LEMMA Taken ==
  ASSUME TypeOK, InPlace, NEW c \in Sessions, Inject(c) \/ Refuse(c)
  PROVE  InPlace'
<1> DEFINE f == Flow(c)
           M == MessagesTo[c[1]]
           g == Tail(f)
<1>1. UNCHANGED <<slot, pc, cursor, active, tx, live>>
  BY DEF Inject, Refuse, router
<1>2. f # <<>> /\ Head(f) = Head(wire[c]) /\ Pending' = [Pending EXCEPT ![c] = g]
  BY TakingTakes DEF Inject, Refuse
<1>3. f \in Seq(M) /\ Pending[c] = f /\ Pending'[c] = g
      /\ \A d \in Sessions \ {c} : Pending'[d] = Pending[d]
  BY <1>2, PendingIsTyped
<1>4. Landing(c) /\ UpToDate /\ Chained(f)
  BY <1>3 DEF InPlace, Landing
<1> DEFINE m == Head(f)
<1>a. c[1] \in Remotes /\ c # None
  BY SessionsAreOfRemotes
<1>5. /\ \A d \in Sessions \ {c} : \A p : Held(d, p) => pointer'[d[1]] = p \/ by'[d[1]] # d
      /\ IF IsPosition(m) THEN pointer'[c[1]] = m.at \/ by'[c[1]] # c
         ELSE UNCHANGED remote
  <2>1. CASE Inject(c) /\ IsPosition(m)
    <3>1. pointer' = [pointer EXCEPT ![c[1]] = m.at] /\ by' = [by EXCEPT ![c[1]] = c]
      BY <1>2, <2>1 DEF Inject
    <3>2. pointer'[c[1]] = m.at
      BY <1>a, <3>1 DEF TypeOK, PointerOK
    <3>3. ASSUME NEW d \in Sessions \ {c}, NEW p, Held(d, p)
          PROVE  pointer'[d[1]] = p \/ by'[d[1]] # d
      <4>1. d[1] \in Remotes
        BY SessionsAreOfRemotes
      <4>2. CASE d[1] = c[1]
        BY <3>1, <4>1, <4>2 DEF TypeOK, PointerOK
      <4>3. CASE d[1] # c[1]
        BY <3>1, <3>3, <4>1, <4>3 DEF TypeOK, PointerOK, Held
      <4>4. QED
        BY <4>2, <4>3
    <3>4. QED
      BY <2>1, <3>2, <3>3
  <2>2. CASE Inject(c) /\ ~IsPosition(m)
    BY <1>2, <2>2 DEF Inject, remote, Held
  <2>3. CASE Refuse(c)
    <3>1. /\ IsPosition(m) /\ UNCHANGED pointer
          /\ by' = IF by[c[1]] = c THEN [by EXCEPT ![c[1]] = None] ELSE by
      BY <1>2, <2>3 DEF Refuse
    <3>2. by'[c[1]] # c
      BY <1>a, <3>1 DEF TypeOK, PointerOK
    <3>3. ASSUME NEW d \in Sessions \ {c}, NEW p, Held(d, p)
          PROVE  pointer'[d[1]] = p \/ by'[d[1]] # d
      <4>1. d[1] \in Remotes /\ d # None
        BY SessionsAreOfRemotes
      <4>2. CASE d[1] = c[1]
        BY <1>a, <3>1, <3>3, <4>1, <4>2 DEF TypeOK, PointerOK, Held
      <4>3. CASE d[1] # c[1]
        BY <1>a, <3>1, <3>3, <4>1, <4>3 DEF TypeOK, PointerOK, Held
      <4>4. QED
        BY <4>2, <4>3
    <3>4. QED
      BY <3>1, <3>2, <3>3
  <2>4. QED
    BY <2>1, <2>2, <2>3
<1>6. /\ Chained(g)
      /\ g # <<>> /\ Placed(Head(g)) => m.at = Head(g).at
      /\ IF g = <<>> THEN Last(f) = m ELSE Last(f) = Last(g)
  <2> HIDE DEF f, M
  <2>1. \A h \in Seq(M) : Chained(h) /\ h # <<>> =>
          /\ Chained(Tail(h))
          /\ Tail(h) # <<>> /\ Placed(Head(Tail(h))) => Head(h).at = Head(Tail(h)).at
          /\ IF Tail(h) = <<>> THEN Last(h) = Head(h) ELSE Last(h) = Last(Tail(h))
    <3> TAKE h \in Seq(M)
    <3> HAVE Chained(h) /\ h # <<>>
    <3>1. Chained(Tail(h))
      BY TailChains
    <3>2. Tail(h) # <<>> /\ Placed(Head(Tail(h))) => Head(h).at = Head(Tail(h)).at
      BY TailChains
    <3>3. IF Tail(h) = <<>> THEN Last(h) = Head(h) ELSE Last(h) = Last(Tail(h))
      BY TailChains
    <3>4. QED
      BY <3>1, <3>2, <3>3
  <2>2. QED
    BY <1>2, <1>3, <1>4, <2>1
(* Where the pointer is after the step, if the message was for a place.    *)
<1>7. IsPosition(m) \/ Placed(m) => pointer'[c[1]] = m.at \/ by'[c[1]] # c
  <2>1. CASE IsPosition(m)
    BY <1>5, <2>1
  <2>2. CASE ~IsPosition(m) /\ Placed(m)
    <3>1. Held(c, m.at)
      BY <1>2, <1>3, <1>4, <2>2 DEF Landing
    <3>2. QED
      BY <1>5, <2>2, <3>1 DEF Held, remote
  <2>3. QED
    BY <2>1, <2>2
<1> HIDE DEF f, M, g, m
<1>8. Landing(c)'
  <2>1. g # <<>> /\ Placed(Head(g)) => pointer'[c[1]] = Head(g).at \/ by'[c[1]] # c
    <3> HAVE g # <<>> /\ Placed(Head(g))
    <3>1. m.at = Head(g).at /\ m.at # Nowhere
      BY <1>6 DEF Placed
    <3>2. IsPosition(m) \/ Placed(m)
      BY <3>1 DEF Placed
    <3>3. QED
      BY <1>7, <3>1, <3>2
  <2>2. QED
    BY <1>3, <1>6, <2>1 DEF Landing, Held
<1>9. UpToDate'
  <2> SUFFICES ASSUME Together'
               PROVE  IF Pending'[slot] = <<>> THEN pointer'[slot[1]] = cursor.at \/ by'[slot[1]] # slot
                      ELSE Last(Pending'[slot]).at = cursor.at
    BY <1>1 DEF UpToDate, Held
  <2>a. Together /\ slot \in Sessions
    BY <1>1, TogetherIsSession DEF Together
  <2>1. CASE slot = c
    <3>1. Last(f).at = cursor.at
      BY <1>2, <1>3, <1>4, <2>1, <2>a DEF UpToDate
    <3>2. cursor.at # Nowhere
      BY PlacesAreSomewhere DEF TypeOK, RouterOK
    <3>3. CASE g = <<>>
      <4>1. m.at = cursor.at
        BY <1>6, <3>1, <3>3
      <4>2. IsPosition(m) \/ Placed(m)
        BY <3>2, <4>1 DEF Placed
      <4>3. QED
        BY <1>3, <1>7, <2>1, <3>3, <4>1, <4>2
    <3>4. CASE g # <<>>
      BY <1>3, <1>6, <2>1, <3>1, <3>4
    <3>5. QED
      BY <3>3, <3>4
  <2>2. CASE slot # c
    <3>1. Pending'[slot] = Pending[slot]
      BY <1>3, <2>2, <2>a
    <3>2. QED
      BY <1>4, <1>5, <2>2, <2>a, <3>1 DEF UpToDate, Held
  <2>3. QED
    BY <2>1, <2>2
<1>10. \A d \in Sessions : Landing(d)'
  BY <1>3, <1>5, <1>8, OthersLand
<1>11. QED
  BY <1>9, <1>10 DEF InPlace

(* A session that ends takes the end of its stream along, and buttons and  *)
(* positions no longer go its way.                                         *)
LEMMA CutOff ==
  ASSUME TypeOK, Emptied, InPlace, NEW c \in Sessions, Ends(c) \/ Drops(c)
  PROVE  InPlace'
<1> DEFINE f == Flow(c)
           M == MessagesTo[c[1]]
<1>1. PICK n \in 0 .. Len(f) : Pending' = [Pending EXCEPT ![c] = SubSeq(f, 1, n)]
  BY CuttingCuts
<1>2. UNCHANGED <<pointer, by, cursor, pc, slot, tx, active>> /\ live' = live \ {c}
  BY CuttingCuts DEF Ends, Drops, remote, router
<1> DEFINE g == SubSeq(f, 1, n)
<1>3. f \in Seq(M) /\ Pending[c] = f /\ Pending'[c] = g
      /\ \A d \in Sessions \ {c} : Pending'[d] = Pending[d]
  BY <1>1, PendingIsTyped
<1>4. Landing(c) /\ UpToDate /\ Chained(f)
  BY <1>3 DEF InPlace, Landing
<1>5. Chained(g) /\ (g # <<>> => f # <<>> /\ Head(g) = Head(f))
  <2> HIDE DEF f, M
  <2>1. \A h \in Seq(M) : \A k \in 0 .. Len(h) : Chained(h) =>
          /\ Chained(SubSeq(h, 1, k))
          /\ SubSeq(h, 1, k) # <<>> => h # <<>> /\ Head(SubSeq(h, 1, k)) = Head(h)
    <3> TAKE h \in Seq(M)
    <3> TAKE k \in 0 .. Len(h)
    <3> HAVE Chained(h)
    <3>1. Chained(SubSeq(h, 1, k))
      BY BeginningChains
    <3>2. SubSeq(h, 1, k) # <<>> => h # <<>> /\ Head(SubSeq(h, 1, k)) = Head(h)
      BY BeginningChains
    <3>3. QED
      BY <3>1, <3>2
  <2>2. QED
    BY <1>1, <1>3, <1>4, <2>1
<1> HIDE DEF f, M, g
<1>6. Landing(c)'
  <2>1. \A q : Held(c, q) <=> pointer'[c[1]] = q \/ by'[c[1]] # c
    BY <1>2 DEF Held
  <2>2. QED
    BY <1>3, <1>4, <1>5, <2>1 DEF Landing, Held
<1>7. \A d \in Sessions : Landing(d)'
  BY <1>2, <1>3, <1>6, OthersLand DEF Held
<1>8. UpToDate'
  <2> SUFFICES ASSUME Together'
               PROVE  IF Pending'[slot] = <<>> THEN Held(slot, cursor.at)
                      ELSE Last(Pending'[slot]).at = cursor.at
    BY <1>2 DEF UpToDate, Held
  <2>1. Together /\ slot # c /\ slot \in Sessions
    BY <1>2, TogetherIsSession DEF Together
  <2>2. Pending'[slot] = Pending[slot]
    BY <1>3, <2>1
  <2>3. QED
    BY <1>4, <2>1, <2>2 DEF UpToDate
<1>9. QED
  BY <1>7, <1>8 DEF InPlace

LEMMA InitInPlace == Init => InPlace
<1> SUFFICES ASSUME Init PROVE InPlace
  OBVIOUS
<1>1. UpToDate
  <2>1. None \notin live
    <3>1. live \subseteq Sessions
      BY SessionAssumption DEF Init
    <3>2. QED
      BY <3>1, SessionsAreOfRemotes
  <2>2. QED
    BY <2>1 DEF Init, UpToDate, Together
<1>2. ASSUME NEW c \in Sessions PROVE Landing(c)
  <2>1. Pending[c] = <<>>
    BY NothingInTransit
  <2>2. Len(<<>>) = 0
    OBVIOUS
  <2>3. Chained(<<>>)
    <3>1. \A i \in 2 .. 0 : FALSE
      OBVIOUS
    <3>2. QED
      BY <2>2, <3>1 DEF Chained
  <2>4. QED
    BY <2>1, <2>3 DEF Landing
<1>3. QED
  BY <1>1, <1>2 DEF InPlace

LEMMA StepKeepsPlace ==
  ASSUME TypeOK, Emptied, InPlace, [Next]_vars
  PROVE  InPlace'
<1>0. None \notin live /\ (slot \in live => slot \in Sessions /\ slot[1] = active /\ active \in Remotes)
  BY TogetherIsSession
<1>1. CASE Leave
  BY <1>1, SameStream, NothingSent DEF Leave, Crosses, Together
<1>2. CASE SendEntry
  <2>1. PICK s \in Remotes : s = active
    BY <1>2, RemotesAreScreens DEF TypeOK, RouterOK, SendEntry
  <2>2. cursor.at \in Places[s]
    BY <1>2, <2>1 DEF TypeOK, RouterOK, SendEntry
  <2>3. UNCHANGED <<batch, wire, remote, slot, tx, live, active>> /\ SendPosition(s, cursor.at)
        /\ cursor'.at = cursor.at
    BY <1>2, <2>1 DEF SendEntry
  <2>4. QED
    BY <2>1, <2>2, <2>3, PositionSent
<1>3. CASE Move
  <2>1. UNCHANGED <<batch, wire, remote, tx, live>> /\ active \in Remotes
    BY <1>3 DEF Move, Steers
  <2>2. \/ SendPosition(active, cursor'.at) /\ UNCHANGED <<slot, active>> /\ cursor'.screen = active
        \/ UNCHANGED <<queue, slot, active>> /\ tx[active] = None
        \/ UNCHANGED queue /\ (slot' = None \/ pc' # "run")
    BY <1>3 DEF Move, Returns, Crosses, OnMonitors
  <2>3. CASE SendPosition(active, cursor'.at) /\ UNCHANGED <<slot, active>> /\ cursor'.screen = active
    <3>1. PICK s \in Remotes : s = active
      BY <2>1
    <3> DEFINE p == cursor'.at
    <3>2. p \in Places[s]
      <4>1. RouterOK'
        BY <1>3, MoveIsTyped DEF TypeOK
      <4>2. cursor'.at \in Places[cursor'.screen]
        BY <4>1 DEF RouterOK
      <4>3. QED
        BY <2>3, <3>1, <4>2
    <3>3. SendPosition(s, p) /\ cursor'.at = p
      BY <2>3, <3>1
    <3> HIDE DEF p
    <3>4. QED
      BY <2>1, <2>3, <3>1, <3>2, <3>3, PositionSent
  <2>4. CASE UNCHANGED <<queue, slot, active>> /\ tx[active] = None
    <3>1. ~Together'
      BY <1>0, <2>1, <2>4 DEF Together
    <3>2. QED
      BY <2>1, <2>4, <3>1, SameStream, NothingSent
  <2>5. CASE UNCHANGED queue /\ (slot' = None \/ pc' # "run")
    <3>1. ~Together'
      BY <1>0, <2>1, <2>5 DEF Together
    <3>2. QED
      BY <2>1, <2>5, <3>1, SameStream, NothingSent
  <2>6. QED
    BY <2>2, <2>3, <2>4, <2>5
<1>4. CASE LinkLost \/ ScreenRemoved
  <2>1. UNCHANGED <<live, queue, batch, wire, remote>> /\ slot' = None
    BY <1>4 DEF LinkLost, ScreenRemoved, Returns
  <2>2. ~Together'
    BY <1>0, <2>1 DEF Together
  <2>3. QED
    BY <2>1, <2>2, SameStream, NothingSent
<1>6. CASE Reconfigure
  BY <1>6, SameStream, NothingSent DEF Reconfigure, session, router, Together
<1>7. CASE Click
  BY <1>7, ButtonSent
<1>8. ASSUME NEW c \in Sessions,
             \/ Writer(c) \/ Inject(c) \/ Refuse(c)
             \/ Breaks(c) \/ Displaced(c) \/ Closes(c) \/ Drops(c)
      PROVE  InPlace'
  <2>1. CASE Collect(c)
    BY <2>1, Overtaken
  <2>2. CASE FindsNoMore(c)
    BY <2>2, SameStream, NothingSent DEF FindsNoMore, router, Together
  <2>3. CASE Write(c)
    BY <2>3, WritingMovesNothing, NothingSent DEF Write, router, Together
  <2>4. CASE Inject(c) \/ Refuse(c)
    BY <2>4, Taken
  <2>5. CASE Ends(c) \/ Drops(c)
    BY <2>5, CutOff
  <2>6. QED
    BY <1>8, <2>1, <2>2, <2>3, <2>4, <2>5 DEF Writer, Breaks, Displaced, Closes
<1>9. ASSUME NEW s \in Remotes, Disconnect(s) \/ Opens(s) \/ TakesBack(s) \/ ScreenInfo(s)
      PROVE  InPlace'
  <2>1. UNCHANGED <<queue, batch, wire, remote, slot, pc, cursor, active>>
    BY <1>9 DEF Disconnect, Opens, TakesBack, ScreenInfo, session, router
  <2>2. Together' => Together
    <3>1. CASE Disconnect(s) \/ TakesBack(s)
      <4>1. tx' = [tx EXCEPT ![s] = None] /\ UNCHANGED live
        BY <3>1 DEF Disconnect, TakesBack
      <4>2. QED
        BY <1>0, <2>1, <4>1 DEF Together, TypeOK, RouterOK
    <3>2. CASE Opens(s)
      <4>1. PICK c \in Sessions : /\ c # slot /\ tx' = [tx EXCEPT ![s] = c]
                                  /\ live' = live \cup {c}
        BY <3>2 DEF Opens, Free
      <4>2. QED
        BY <1>0, <2>1, <4>1 DEF Together, TypeOK, RouterOK
    <3>3. CASE ScreenInfo(s)
      BY <3>3 DEF ScreenInfo, session, router, Together
    <3>4. QED
      BY <1>9, <3>1, <3>2, <3>3
  <2>3. QED
    BY <2>1, <2>2, SameStream, NothingSent
<1>10. CASE UNCHANGED vars
  BY <1>10, SameStream, NothingSent DEF vars, session, router, Together
<1>11. QED
  BY <1>1, <1>2, <1>3, <1>4, <1>6, <1>7, <1>8, <1>9, <1>10 DEF Next

(* What is in place lands in place.                                        *)
LEMMA InPlaceLands == TypeOK /\ InPlace => ButtonsLand
<1> SUFFICES ASSUME TypeOK, InPlace, NEW c \in Sessions,
                    wire[c] # <<>>, ~IsPosition(Head(wire[c])), by[c[1]] = c
             PROVE  Head(wire[c]).at \in {pointer[c[1]], Nowhere}
  BY DEF ButtonsLand
<1> DEFINE w == wire[c]
           b == batch[c]
           q == queue[c]
           M == MessagesTo[c[1]]
<1>1. w \in Seq(M) /\ b \in Seq(M) /\ q \in Seq(M) /\ Pending[c] = w \o b \o q
  BY FlowIsTyped DEF Pending, Flow
<1>2. Landing(c) /\ w # <<>>
  BY DEF InPlace
<1> HIDE DEF w, b, q, M
<1>3. Pending[c] # <<>> /\ Head(Pending[c]) = Head(w)
  <2>1. \A x, y, z \in Seq(M) : x # <<>> => x \o y \o z # <<>> /\ Head(x \o y \o z) = Head(x)
    <3> TAKE x, y, z \in Seq(M)
    <3> HAVE x # <<>>
    <3>1. x \o y \o z # <<>>
      BY ComesOff
    <3>2. Head(x \o y \o z) = Head(x)
      BY ComesOff
    <3>3. QED
      BY <3>1, <3>2
  <2>2. QED
    BY <1>1, <1>2, <2>1
<1>4. QED
  BY <1>2, <1>3 DEF Landing, Held, Placed, w

(* A button pressed on a remote screen while buttons and positions go      *)
(* through the same session is applied where the router's cursor was at    *)
(* that moment, whatever moves, reconfigurations, disconnects and          *)
(* replacements come between, unless the position before it was refused or *)
(* another session of that remote has put the pointer since (run_router,   *)
(* SenderTarget::send, push_coalesced, the receiver's handlers).           *)
THEOREM ButtonsAlwaysLand == Spec => []ButtonsLand
<1>1. TypeOK /\ Emptied /\ [Next]_vars => Emptied'
  BY StepKeepsEmptied
<1>2. TypeOK /\ Emptied /\ InPlace /\ [Next]_vars => InPlace'
  BY StepKeepsPlace
<1>3. TypeOK /\ InPlace => ButtonsLand
  BY InPlaceLands
<1>4. QED
  BY InitInPlace, InitEmptied, <1>1, <1>2, <1>3, TypeCorrect, PTL DEF Spec
================================================================================
