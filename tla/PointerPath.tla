------------------------------ MODULE PointerPath ------------------------------
(***************************************************************************)
(* The way of the pointer, from the multi-screen router (run_router) to    *)
(* the machines it controls: the router moves a logical cursor through the *)
(* screens of its layout and sends absolute positions, the mouse hook's    *)
(* thread sends buttons through the router's active slot, the writer of    *)
(* each session coalesces what is queued and writes it, the receiver       *)
(* injects it.  Meanwhile sessions break, are disconnected, replaced and   *)
(* displaced, peers report other monitors, and the user rearranges the     *)
(* screens.                                                                *)
(*                                                                         *)
(* A remote's screen has one sender for positions, tx, looked up at each   *)
(* use.  The slot for buttons is a copy made at the last crossing, and it  *)
(* keeps the session it belongs to running when tx has another or none.    *)
(* A screen keeps its machine: connecting its name elsewhere is left out.  *)
(*                                                                         *)
(* A router tick is one step on the layout it read first, except that at a *)
(* crossing the slot is swapped before the position is sent.  Whether the  *)
(* user pushes hard and long enough to leave the local screen (the push    *)
(* gate, dwell and dead corners of SwitchGuard), and whether a composition *)
(* holds a crossing back, is left open.  Starting and stopping the router, *)
(* its hooks, the keyboard and the release of what is held are the matter  *)
(* of ControlEngine and HookForwarding.                                    *)
(***************************************************************************)
EXTENDS ScreenSpace, SequencesExt

CONSTANTS
  Local, Remotes,
  Layouts,      \* what the router may be configured with
  Reports,      \* for each remote, the monitors it may report
  EdgeMargin,   \* RouterArgs.edge_margin
  Deltas,       \* what one tick may add up to
  MaxQueue,     \* bound on messages queued or written at once (queue unbounded)
  MaxMoves,     \* bound on ticks that move the cursor
  MaxClicks,    \* bound on buttons
  Sessions,     \* each a remote and a number: bounds those of a remote that run
                \* or are held at once
  MaxFaults     \* bound on disconnects, broken links, refusals, reports and
                \* reconfigurations

Screens == Remotes \cup {Local}

ASSUME LayoutAssumption ==
  \A layout \in Layouts :
    /\ Local \in DOMAIN layout.rect /\ DOMAIN layout.rect \subseteq Screens
    /\ \A side \in DOMAIN layout.across : layout.across[side] # side[1]
    /\ \A n \in DOMAIN layout.rect :
         /\ layout.rect[n] \in Rects
         /\ Width(layout.rect[n]) > Inset /\ Height(layout.rect[n]) > Inset
ASSUME ReportAssumption ==
  \A s \in Remotes : Reports[s] \subseteq Seq(Rects)
ASSUME DeltaAssumption == Deltas \subseteq Int \X Int
ASSUME BoundAssumption ==
  /\ MaxQueue \in Nat \ {0} /\ MaxMoves \in Nat /\ MaxClicks \in Nat /\ MaxFaults \in Nat
ASSUME SessionAssumption ==
  /\ Sessions \subseteq Remotes \X Nat
  /\ \A s \in Remotes : <<s, 1>> \in Sessions
ASSUME ScreenAssumption == Local \notin Remotes

None == <<>>       \* no session
Nowhere == <<>>    \* no place

Position(p) == [kind |-> "position", at |-> p]
Button(p) == [kind |-> "button", at |-> p]
IsPosition(m) == m.kind = "position"

VARIABLES
  layout,    \* router_space
  monitors,  \* screen_sizes: what each remote reported last
  active,
  cursor,    \* its screen and its point there
  pc,        \* "crossing": the slot is swapped, the position not yet sent
  slot,      \* active_slot: the session buttons are sent to
  tx,        \* ScreenSession.tx: the session positions are sent to
  live,      \* sessions that run
  queue,     \* each session's command channel
  batch,     \* what its writer has coalesced and not yet written
  writing,   \* the sessions whose writer is writing its batch
  wire,      \* written by it and not yet injected, also once it has ended
  pointer,   \* where each remote's pointer was last put
  by,        \* by which session, if that was the session's last position
  gap,       \* the cursor moved and its position was not sent, or not put
  moves, clicks, faults

router == <<active, cursor, pc, slot>>
session == <<tx, live, queue, batch, writing, wire>>
remote == <<pointer, by>>
bounds == <<moves, clicks, faults>>
vars == <<layout, monitors, router, session, remote, gap, bounds>>

(* Where a cursor may be on a screen: in its rectangle under some layout,  *)
(* or on a monitor it reported.                                            *)
Monitors(s) == IF s = Local THEN {} ELSE Reports[s]
Places ==
  [s \in Screens |->
     (UNION {Points(l.rect[s]) : l \in {k \in Layouts : s \in DOMAIN k.rect}})
     \cup (UNION {UNION {Points(r[i]) : i \in DOMAIN r} : r \in Monitors(s)})]
MessagesTo ==
  [s \in Remotes |->
     {Position(p) : p \in Places[s]} \cup {Button(p) : p \in Places[s] \cup {Nowhere}}]

RouterOK ==
  /\ layout \in Layouts
  /\ active \in Screens
  /\ cursor \in [screen : Screens, at : Places[cursor.screen]]
  /\ active # Local => cursor.screen = active
  /\ pc \in {"run", "crossing"} /\ (pc = "crossing" => active # Local)
  /\ slot \in Sessions \cup {None} /\ (slot # None => slot[1] = active)
  /\ tx \in [Remotes -> Sessions \cup {None}]
  /\ \A s \in Remotes : tx[s] # None => tx[s][1] = s
MonitorsOK ==
  /\ DOMAIN monitors = Remotes
  /\ \A s \in Remotes : monitors[s] \in Reports[s] \cup {<<>>}
PathOK ==
  /\ DOMAIN queue = Sessions /\ DOMAIN batch = Sessions /\ DOMAIN wire = Sessions
  /\ \A c \in Sessions :
       /\ queue[c] \in Seq(MessagesTo[c[1]]) /\ Len(queue[c]) <= MaxQueue
       /\ batch[c] \in Seq(MessagesTo[c[1]]) /\ (c \in writing => batch[c] # <<>>)
       /\ wire[c] \in Seq(MessagesTo[c[1]]) /\ Len(wire[c]) <= MaxQueue
PointerOK ==
  /\ DOMAIN pointer = Remotes
  /\ \A s \in Remotes : pointer[s] \in Places[s] \cup {Nowhere}
  /\ by \in [Remotes -> Sessions \cup {None}]
CountsOK ==
  /\ live \in SUBSET Sessions /\ writing \in SUBSET live
  /\ gap \in BOOLEAN
  /\ moves \in 0 .. MaxMoves /\ clicks \in 0 .. MaxClicks /\ faults \in 0 .. MaxFaults
TypeOK == RouterOK /\ MonitorsOK /\ PathOK /\ PointerOK /\ CountsOK

(* The point the real cursor is held at while a remote is controlled.      *)
Middle(rect) ==
  <<rect.left + Width(rect) \div 2, rect.top + Height(rect) \div 2>>

Init ==
  /\ layout \in Layouts
  /\ monitors = [s \in Remotes |-> <<>>]
  /\ active = Local
  /\ cursor = [screen |-> Local, at |-> Middle(layout.rect[Local])]
  /\ pc = "run" /\ slot = None
  /\ tx = [s \in Remotes |-> <<s, 1>>] /\ live = {<<s, 1>> : s \in Remotes}
  /\ queue = [c \in Sessions |-> <<>>]
  /\ batch = [c \in Sessions |-> <<>>]
  /\ writing = {}
  /\ wire = [c \in Sessions |-> <<>>]
  /\ pointer = [s \in Remotes |-> Nowhere]
  /\ by = [s \in Remotes |-> None]
  /\ gap = FALSE
  /\ moves = 0 /\ clicks = 0 /\ faults = 0

--------------------------------------------------------------------------------
(* screen_sender: a position for s goes into the channel of the session tx *)
(* has; with none there, or one that has ended, it goes nowhere.           *)
Room(c) == c \in live => Len(queue[c]) < MaxQueue
SendPosition(s, p) ==
  /\ Room(tx[s])
  /\ queue' = IF tx[s] \in live THEN [queue EXCEPT ![tx[s]] = Append(@, Position(p))]
              ELSE queue
  /\ gap' = (tx[s] \notin live)

OnMonitors(c) ==
  [screen |-> c.screen, at |-> ClampToRects(c.at, monitors[c.screen])]

(* Control goes to another remote: the slot now, the position next.        *)
Crosses(c) ==
  /\ active' = c.screen
  /\ cursor' = OnMonitors(c)
  /\ slot' = tx[c.screen]
  /\ pc' = "crossing"
  /\ gap' = TRUE
  /\ UNCHANGED queue

(* Control comes home.                                                     *)
Returns ==
  /\ active' = Local /\ slot' = None
  /\ pc' = "run"
  /\ gap' = FALSE
  /\ UNCHANGED queue

Moves == moves < MaxMoves /\ moves' = moves + 1
Fails == faults < MaxFaults /\ faults' = faults + 1

(* The real cursor is at an edge with a neighbour, wherever it is along    *)
(* that edge, and the guards let it cross.                                 *)
AtEdge(rect, edge, p) ==
  CASE edge = "right"  -> p[1] >= rect.right - 1 - EdgeMargin
    [] edge = "left"   -> p[1] <= rect.left + EdgeMargin
    [] edge = "top"    -> p[2] <= rect.top + EdgeMargin
    [] edge = "bottom" -> p[2] >= rect.bottom - 1 - EdgeMargin

Leave ==
  /\ active = Local
  /\ Moves
  /\ \E edge \in Edge : \E p \in Points(layout.rect[Local]) :
       /\ AtEdge(layout.rect[Local], edge, p)
       /\ \E c \in EnterNeighbor(layout, Local, edge, p) : Crosses(c)
  /\ UNCHANGED <<layout, monitors, tx, live, batch, writing, wire, remote, clicks, faults>>

\* Mutant: leaves the remote to learn its position from the first move on it.
SkipsEntry ==
  /\ pc = "crossing"
  /\ pc' = "run"
  /\ gap' = (tx[active] \notin live)
  /\ UNCHANGED <<layout, monitors, active, cursor, slot, session, remote, bounds>>

(* What is left of a crossing: the position, to the session tx has by now. *)
SendEntry ==
  /\ pc = "crossing"
  /\ SendPosition(active, cursor.at)
  /\ pc' = "run"
  /\ UNCHANGED <<layout, monitors, active, cursor, slot, tx, live, batch, writing, wire,
                 remote, bounds>>

Steers == pc = "run" /\ active \in Remotes \cap DOMAIN layout.rect

(* A tick with motion on a remote screen: within it, with a sender or none,*)
(* home, or on to another remote.  While a composition is open the last    *)
(* changes nothing.                                                        *)
Move ==
  /\ Steers
  /\ Moves
  /\ \E delta \in Deltas : \E c \in ApplyDelta(layout, cursor, delta) :
       \/ /\ c.screen = active /\ tx[active] # None
          /\ cursor' = OnMonitors(c)
          /\ SendPosition(active, cursor'.at)
          /\ UNCHANGED <<active, pc, slot>>
       \/ /\ c.screen = active /\ tx[active] = None
          /\ cursor' = c
          /\ gap' = TRUE
          /\ UNCHANGED <<active, pc, slot, queue>>
       \/ /\ c.screen = Local
          /\ cursor' = c
          /\ Returns
       \/ /\ c.screen \notin {active, Local}
          /\ Crosses(c)
  /\ UNCHANGED <<layout, monitors, tx, live, batch, writing, wire, remote, clicks, faults>>

(* There has been no sender for LINK_LOST_RETURN.                          *)
LinkLost ==
  /\ Steers /\ tx[active] = None
  /\ Returns
  /\ UNCHANGED <<layout, monitors, cursor, tx, live, batch, writing, wire, remote, bounds>>

(* The layout the tick starts with does not have the active screen.        *)
ScreenRemoved ==
  /\ pc = "run" /\ active \notin DOMAIN layout.rect
  /\ Returns
  /\ UNCHANGED <<layout, monitors, cursor, tx, live, batch, writing, wire, remote, bounds>>

(* reconfigure_router.                                                     *)
Reconfigure ==
  /\ Fails
  /\ layout' \in Layouts \ {layout}
  /\ UNCHANGED <<monitors, router, session, remote, gap, moves, clicks>>

(* The mouse hook's thread: SenderTarget::Active, at the time of sending.  *)
(* A button carries where the cursor was then, for the record, if the      *)
(* positions go the same way.  Once the slot's session has ended the send  *)
(* fails.                                                                  *)
Click ==
  /\ slot \in live
  /\ clicks < MaxClicks /\ clicks' = clicks + 1
  /\ Room(slot)
  /\ LET b == Button(IF pc = "run" /\ slot = tx[active] THEN cursor.at ELSE Nowhere)
     IN queue' = [queue EXCEPT ![slot] = Append(@, b)]
  /\ UNCHANGED <<layout, monitors, router, tx, live, batch, writing, wire, remote, gap, moves,
                 faults>>

--------------------------------------------------------------------------------
\* Mutant: collapses a run to its oldest.
PushKeepsOldest(b, m) ==
  IF IsPosition(m) /\ b # <<>> /\ IsPosition(Last(b)) THEN b ELSE Append(b, m)

\* Mutant: replaces the last position even when buttons came after it.
PushAcross(b, m) ==
  LET at == {i \in DOMAIN b : IsPosition(b[i])} IN
    IF IsPosition(m) /\ at # {}
      THEN [b EXCEPT ![CHOOSE i \in at : \A j \in at : j <= i] = m]
      ELSE Append(b, m)

(* push_coalesced.                                                         *)
PushCoalesced(b, m) ==
  IF IsPosition(m) /\ b # <<>> /\ IsPosition(Last(b))
    THEN Append(Front(b), m)
    ELSE Append(b, m)

(* The writer coalesces what is queued, while it finds anything, and then  *)
(* writes all of it before it takes more.                                  *)
Collect(c) ==
  /\ c \in live \ writing /\ queue[c] # <<>>
  /\ batch' = [batch EXCEPT ![c] = PushCoalesced(@, Head(queue[c]))]
  /\ queue' = [queue EXCEPT ![c] = Tail(@)]
  /\ UNCHANGED <<layout, monitors, router, tx, live, writing, wire, remote, gap, bounds>>

FindsNoMore(c) ==
  /\ c \in live \ writing /\ batch[c] # <<>> /\ queue[c] = <<>>
  /\ writing' = writing \cup {c}
  /\ UNCHANGED <<layout, monitors, router, tx, live, queue, batch, wire, remote, gap, bounds>>

Write(c) ==
  /\ c \in writing /\ Len(wire[c]) < MaxQueue
  /\ wire' = [wire EXCEPT ![c] = Append(@, Head(batch[c]))]
  /\ batch' = [batch EXCEPT ![c] = Tail(@)]
  /\ writing' = IF Len(batch[c]) = 1 THEN writing \ {c} ELSE writing
  /\ UNCHANGED <<layout, monitors, router, tx, live, queue, remote, gap, bounds>>

(* What is written, coalesced and queued of a session.                     *)
Flow(c) == wire[c] \o batch[c] \o queue[c]

(* The cursor's own position is among what is lost.                        *)
Loses(c, lost) ==
  gap' = (gap \/ (active = c[1] /\ \E i \in DOMAIN lost : lost[i] = Position(cursor.at)))

(* A session that tx no longer has puts the pointer elsewhere, and the one *)
(* it has will not put it back.                                            *)
Strays(c, m) ==
  /\ active = c[1] /\ c # tx[active] /\ m.at # cursor.at
  /\ tx[active] = None \/
     \A i \in DOMAIN Flow(tx[active]) : ~IsPosition(Flow(tx[active])[i])

(* The receiver's handler injects the position or the button.              *)
Inject(c) ==
  /\ wire[c] # <<>>
  /\ wire' = [wire EXCEPT ![c] = Tail(@)]
  /\ LET m == Head(wire[c]) IN
       IF IsPosition(m)
         THEN /\ pointer' = [pointer EXCEPT ![c[1]] = m.at]
              /\ by' = [by EXCEPT ![c[1]] = c]
              /\ gap' = (gap \/ Strays(c, m))
         ELSE UNCHANGED <<remote, gap>>
  /\ UNCHANGED <<layout, monitors, router, tx, live, queue, batch, writing, bounds>>

(* The injection of a position fails: the sender is told, nobody retries.  *)
Refuse(c) ==
  /\ Fails
  /\ wire[c] # <<>> /\ IsPosition(Head(wire[c]))
  /\ wire' = [wire EXCEPT ![c] = Tail(@)]
  /\ by' = IF by[c[1]] = c THEN [by EXCEPT ![c[1]] = None] ELSE by
  /\ Loses(c, <<Head(wire[c])>>)
  /\ UNCHANGED <<layout, monitors, router, tx, live, queue, batch, writing, pointer, moves,
                 clicks>>

--------------------------------------------------------------------------------
(* disconnect_screen, or connect_screen with a name that has a session: tx *)
(* is emptied, whoever else has a copy of the sender keeps it.             *)
Disconnect(s) ==
  /\ Fails
  /\ tx[s] # None
  /\ tx' = [tx EXCEPT ![s] = None]
  /\ UNCHANGED <<layout, monitors, router, live, queue, batch, writing, wire, remote, gap,
                 moves, clicks>>

(* The supervisor publishes the next session, be it after a backoff or in  *)
(* place of the one that was disconnected.                                 *)
Free(c) == c \notin live /\ c # slot /\ Flow(c) = <<>>
Opens(s) ==
  /\ tx[s] = None
  /\ \E c \in Sessions :
       /\ c[1] = s /\ Free(c)
       /\ \A d \in Sessions : d[1] = s /\ Free(d) => c[2] <= d[2]
       /\ tx' = [tx EXCEPT ![s] = c]
       /\ live' = live \cup {c}
  /\ UNCHANGED <<layout, monitors, router, queue, batch, writing, wire, remote, gap, bounds>>

(* The supervisor takes back the sender of a session that has ended.       *)
TakesBack(s) ==
  /\ tx[s] # None /\ tx[s] \notin live
  /\ tx' = [tx EXCEPT ![s] = None]
  /\ UNCHANGED <<layout, monitors, router, live, queue, batch, writing, wire, remote, gap,
                 bounds>>

(* A session ends, with all that it has not written.  What it has, the     *)
(* receiver may read still, ...                                            *)
Ends(c) ==
  /\ live' = live \ {c}
  /\ queue' = [queue EXCEPT ![c] = <<>>]
  /\ batch' = [batch EXCEPT ![c] = <<>>]
  /\ writing' = writing \ {c}
  /\ Loses(c, batch[c] \o queue[c])
  /\ UNCHANGED <<layout, monitors, router, tx, wire, remote, moves, clicks>>

(* ... or not, as when its handler has been displaced.                     *)
Drops(c) ==
  /\ c \notin live /\ wire[c] # <<>>
  /\ wire' = [wire EXCEPT ![c] = <<>>]
  /\ Loses(c, wire[c])
  /\ UNCHANGED <<layout, monitors, router, tx, live, queue, batch, writing, remote, bounds>>

(* Its link breaks, ...                                                    *)
Breaks(c) == Fails /\ c \in live /\ Ends(c)

(* ... or the receiver has accepted the machine's newer session, ...       *)
Displaced(c) ==
  /\ c \in live /\ c # tx[c[1]] /\ tx[c[1]] \in live
  /\ Ends(c)
  /\ UNCHANGED faults

(* ... or nobody has its sender any more and all is written.               *)
Closes(c) ==
  /\ c \in live /\ c \notin {tx[c[1]], slot} /\ batch[c] \o queue[c] = <<>>
  /\ Ends(c)
  /\ UNCHANGED faults

(* ScreenInfo: at the start of a session and when the size has changed.    *)
ScreenInfo(s) ==
  /\ Fails
  /\ \E c \in live : c[1] = s
  /\ \E r \in Reports[s] \ {monitors[s]} : monitors' = [monitors EXCEPT ![s] = r]
  /\ UNCHANGED <<layout, router, session, remote, gap, moves, clicks>>

Writer(c) == Collect(c) \/ FindsNoMore(c) \/ Write(c)

Next ==
  \/ Leave \/ SendEntry \/ Move \/ LinkLost \/ ScreenRemoved
  \/ Reconfigure
  \/ Click
  \/ \E c \in Sessions :
       \/ Writer(c) \/ Inject(c) \/ Refuse(c)
       \/ Breaks(c) \/ Displaced(c) \/ Closes(c) \/ Drops(c)
  \/ \E s \in Remotes :
       Disconnect(s) \/ Opens(s) \/ TakesBack(s) \/ ScreenInfo(s)

Spec == Init /\ [][Next]_vars

(* The router's thread, the writers and the receivers run; the user and    *)
(* the faults need not, nor need a session come back.                      *)
FairSpec ==
  /\ Spec
  /\ WF_vars(SendEntry)
  /\ \A c \in Sessions : WF_vars(Writer(c)) /\ WF_vars(Inject(c))

--------------------------------------------------------------------------------
(* The path delivers what PointerStream promises: what is written, drained *)
(* and queued of a session is one stream, of which only overtaken positions*)
(* are left out, and buttons keep their place in it (push_coalesced).      *)
Stream == INSTANCE PointerStream WITH
  Machines <- Remotes, Connections <- Sessions, Messages <- MessagesTo,
  open <- live, pending <- [c \in Sessions |-> Flow(c)]
Implements == Stream!Spec

(* A button finds the remote's pointer where the router's cursor was when  *)
(* the button was sent, whatever was coalesced, disconnected or switched   *)
(* meanwhile.  Not so between the swap of the slot and the position that   *)
(* follows it, nor through a session that tx no longer had: the slot keeps *)
(* sending there.  Nor where the position before it was refused, or another*)
(* session of that remote has put the pointer since.                       *)
ButtonsLand ==
  \A c \in Sessions :
    wire[c] # <<>> /\ ~IsPosition(Head(wire[c])) /\ by[c[1]] = c
      => Head(wire[c]).at \in {pointer[c[1]], Nowhere}

(* When the user rests on a remote screen its pointer comes to be where    *)
(* the router's cursor is, unless the cursor's position could not be sent, *)
(* was lost with its session or refused, or a session that was replaced    *)
(* put the pointer elsewhere after it.                                     *)
PointerCatchesUp ==
  \A s \in Remotes :
    <>[](active = s /\ ~gap) => <>[](pointer[s] = cursor.at)
================================================================================
