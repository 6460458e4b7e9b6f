----------------------------- MODULE ControlEngine -----------------------------
(***************************************************************************)
(* The engines that move control between this machine and its peers: the   *)
(* multi-screen router (router.rs), the seamless capture (seamless.rs) and *)
(* the legacy capture (legacy_capture.rs).  They are one loop three times: *)
(* a thread that follows the local cursor, crosses an edge, installs the   *)
(* hooks and confines the cursor, and comes home by an edge, a failsafe, a *)
(* lost link, a stop.  A behaviour is about one of them.                   *)
(*                                                                         *)
(* They differ in where the senders come from.  The router copies the      *)
(* session's sender into a slot of its own when it crosses; the seamless   *)
(* capture shares the session's slot; the legacy capture copies the sender *)
(* once, when it starts.                                                   *)
(*                                                                         *)
(* Sessions are those of ControllerSupervisor, seen from their sender slot *)
(* (a channel counts as a session from its publication on), and hooks are  *)
(* those of HookForwarding, one twin of them.  Where the cursor is, which  *)
(* edges have a neighbour and whether a push is fresh decide when control  *)
(* may move: here it may at any look.  LINK_LOST_RETURN (1.5 s) and        *)
(* STALE_ACTIVE_TARGET_STOP (3 s) may have passed at any look after the    *)
(* one that armed them.                                                    *)
(***************************************************************************)
EXTENDS Naturals

CONSTANTS
  Engines,     \* which engines to look at: "router", "seamless", "legacy"
  Screens,     \* the peers' screens
  Peer,        \* the screen the one-to-one engines control
  Keys,        \* the keys and buttons
  MaxThreads,  \* bound on starts of the engine
  MaxChannels, \* bound on sessions, of all screens
  MaxHooks,    \* bound on starts of the hooks
  None

ASSUME EngineAssumption == Engines \subseteq {"router", "seamless", "legacy"}
ASSUME ScreenAssumption == Peer \in Screens /\ None \notin Screens
ASSUME BoundAssumption == MaxThreads \in Nat /\ MaxChannels \in Nat /\ MaxHooks \in Nat
ASSUME NoneAssumption == None \notin Nat

Threads == 1 .. MaxThreads
Channels == 1 .. MaxChannels
Hooks == 1 .. MaxHooks
\* The layout of a stopped router.
NoLayout == {None}

VARIABLES
  engine,    \* which engine this behaviour is about; it never changes
  running,   \* router_running, capture_running
  space,     \* router_space: the screens of the layout
  pc,        \* where each engine thread is
  active,    \* the screen each thread controls, None at home
  slot,      \* the router's active_slot, the legacy capture's sender
  armed,     \* link_down_since is set
  confined,  \* the cursor is confined to the lock point
  panicked,  \* history: a one-to-one engine was reset in control, and no start since
  wanted,    \* each screen's should_run
  tx,        \* each screen's sender slot
  screen,    \* history: the screen each channel was opened for
  live,      \* the channels whose session is in progress
  fwd,       \* where each forwarding thread is
  owner,     \* the engine thread that started it
  pressed,   \* its tracker
  keysDown,  \* what the peer of each session has down
  stranded   \* history: keys down on a session when its sender left the slot

vars == <<engine, running, space, pc, active, slot, armed, confined, panicked,
          wanted, tx, screen, live, fwd, owner, pressed, keysDown, stranded>>

shared   == <<running, space, confined, panicked>>
threads  == <<pc, active, slot, armed>>
sessions == <<wanted, tx, screen, live>>
hooks    == <<fwd, owner, pressed>>
peers    == <<keysDown, stranded>>

Router == engine = "router"
Seamless == engine = "seamless"
Legacy == engine = "legacy"

TypeOK ==
  /\ engine \in Engines
  /\ running \in BOOLEAN
  /\ space \in (SUBSET Screens) \cup {NoLayout}
  /\ pc \in [Threads -> {"unborn", "claimed", "spawned", "head", "hook", "unhook",
                         "exit", "clean", "gone"}]
  /\ active \in [Threads -> Screens \cup {None}]
  /\ slot \in [Threads -> Channels \cup {None}]
  /\ armed \in [Threads -> BOOLEAN]
  /\ confined \in BOOLEAN
  /\ panicked \in BOOLEAN
  /\ wanted \in [Screens -> BOOLEAN]
  /\ tx \in [Screens -> Channels \cup {None}]
  /\ screen \in [Channels -> Screens \cup {None}]
  /\ live \in SUBSET Channels
  /\ fwd \in [Hooks -> {"unborn", "on", "stop", "drain", "gone"}]
  /\ owner \in [Hooks -> Threads \cup {None}]
  /\ pressed \in [Hooks -> SUBSET Keys]
  /\ keysDown \in [Channels -> SUBSET Keys]
  /\ stranded \in SUBSET (Channels \X Keys)

Init ==
  /\ engine \in Engines
  /\ running = FALSE
  /\ space = NoLayout
  /\ pc = [t \in Threads |-> "unborn"]
  /\ active = [t \in Threads |-> None]
  /\ slot = [t \in Threads |-> None]
  /\ armed = [t \in Threads |-> FALSE]
  /\ confined = FALSE
  /\ panicked = FALSE
  /\ wanted = [s \in Screens |-> FALSE]
  /\ tx = [s \in Screens |-> None]
  /\ screen = [c \in Channels |-> None]
  /\ live = {}
  /\ fwd = [h \in Hooks |-> "unborn"]
  /\ owner = [h \in Hooks |-> None]
  /\ pressed = [h \in Hooks |-> {}]
  /\ keysDown = [c \in Channels |-> {}]
  /\ stranded = {}

At(t, place) == pc[t] = place
Go(t, place) == pc' = [pc EXCEPT ![t] = place]

-----------------------------------------------------------------------------
(* Senders. *)

\* Where the hook events of thread t go.
Target(t) == IF Seamless THEN tx[Peer] ELSE slot[t]

\* screen_sender(..).is_some(), sender_slot is_some(); a fixed sender always is.
LinkAlive(s) == tx[s] # None

\* What is left down on channel c when its sender leaves a slot.
LeftDown(c) == IF c = None THEN {} ELSE {<<c, k>> : k \in keysDown[c]}

\* A message sent through channel c, if there is one with a session behind it.
SendKey(c, k, isDown) ==
  IF c \in live
  THEN /\ keysDown' = [keysDown EXCEPT ![c] = IF isDown THEN @ \cup {k} ELSE @ \ {k}]
       /\ stranded' = stranded \ {<<c, k>>}
  ELSE UNCHANGED peers

-----------------------------------------------------------------------------
(* The hooks, as forwarding.rs promises them. *)

\* A forwarding thread that has not returned: its hook is on, it was told to stop
\* while it waited for an event, or it releases what is in its tracker.
Working == {"on", "stop", "drain"}

\* stop_mouse_hook_forwarding and stop_keyboard_hook_forwarding, whoever started.
StopHooks ==
  /\ fwd' = [h \in Hooks |-> IF fwd[h] = "on" THEN "stop" ELSE fwd[h]]
  /\ UNCHANGED <<owner, pressed>>

\* start_*: a no-op while a hook is on; the installation may be refused.
StartHooks(t) ==
  \/ UNCHANGED hooks
  \/ /\ \A h \in Hooks : fwd[h] # "on"
     /\ \E h \in Hooks :
          /\ fwd[h] = "unborn"
          /\ \A g \in Hooks : g < h => fwd[g] # "unborn"
          /\ fwd' = [fwd EXCEPT ![h] = "on"]
          /\ owner' = [owner EXCEPT ![h] = t]
          /\ UNCHANGED pressed

\* A press while the hook is on, or the one event that a thread told to stop was
\* waiting for; a closed channel ends the forwarding.
Press(h, k) ==
  /\ fwd[h] \in {"on", "stop"}
  /\ LET c == Target(owner[h]) IN
       /\ SendKey(c, k, TRUE)
       /\ fwd' = [fwd EXCEPT ![h] =
                    IF @ = "on" /\ (c = None \/ c \in live) THEN "on" ELSE "drain"]
  /\ pressed' = [pressed EXCEPT ![h] = @ \cup {k}]
  /\ UNCHANGED <<engine, shared, threads, sessions, owner>>

\* A release, while the hook is on or when the thread drains its tracker.
Release(h, k) ==
  /\ fwd[h] \in {"on", "drain"}
  /\ k \in pressed[h]
  /\ SendKey(Target(owner[h]), k, FALSE)
  /\ pressed' = [pressed EXCEPT ![h] = @ \ {k}]
  /\ UNCHANGED <<engine, shared, threads, sessions, fwd, owner>>

\* The target has been absent for STALE_ACTIVE_TARGET_STOP.
StaleStop(h) ==
  /\ fwd[h] = "on"
  /\ Target(owner[h]) = None
  /\ fwd' = [fwd EXCEPT ![h] = "drain"]
  /\ UNCHANGED <<engine, shared, threads, sessions, owner, pressed, peers>>

\* Ctrl+Alt+Pause seen by the keyboard hook, whose thread leaves; the mouse's is
\* told to stop, and so is the engine.
HookFailsafe(h) ==
  /\ fwd[h] \in {"on", "stop"}
  /\ fwd' = [fwd EXCEPT ![h] = IF @ = "on" THEN "stop" ELSE "drain"]
  /\ running' = FALSE
  /\ UNCHANGED <<engine, space, confined, panicked, threads, sessions, owner,
                 pressed, peers>>

\* The head of the loop finds the flag cleared.
SeesStop(h) ==
  /\ fwd[h] = "stop"
  /\ fwd' = [fwd EXCEPT ![h] = "drain"]
  /\ UNCHANGED <<engine, shared, threads, sessions, owner, pressed, peers>>

HookReturns(h) ==
  /\ fwd[h] = "drain"
  /\ pressed[h] = {}
  /\ fwd' = [fwd EXCEPT ![h] = "gone"]
  /\ UNCHANGED <<engine, shared, threads, sessions, owner, pressed, peers>>

-----------------------------------------------------------------------------
(* The sessions behind the slots. *)

\* A supervisor publishes the sender of a new session.
Publish(s) ==
  /\ wanted[s]
  /\ tx[s] = None
  /\ \E c \in Channels :
       /\ screen[c] = None
       /\ \A d \in Channels : d < c => screen[d] # None
       /\ screen' = [screen EXCEPT ![c] = s]
       /\ tx' = [tx EXCEPT ![s] = c]
       /\ live' = live \cup {c}
  /\ UNCHANGED <<engine, shared, threads, wanted, hooks, peers>>

\* The session ends and its peer releases what it held (ReceiverSession).
End(c) ==
  /\ live' = live \ {c}
  /\ keysDown' = [keysDown EXCEPT ![c] = {}]
  /\ stranded' = stranded \ ({c} \X Keys)
  /\ UNCHANGED <<engine, shared, threads, wanted, tx, screen, hooks>>

\* The link breaks, the peer closes it, or the dial fails.
LinkDrops(c) == c \in live /\ End(c)

\* Its supervisor empties the slot it had filled.
ClearTx(s) ==
  /\ tx[s] # None
  /\ tx[s] \notin live
  /\ tx' = [tx EXCEPT ![s] = None]
  /\ UNCHANGED <<engine, shared, threads, wanted, screen, live, hooks, peers>>

\* A thread's copy of a sender lives as long as the thread or one of its
\* forwarding threads.
Held(c) ==
  \/ \E s \in Screens : tx[s] = c
  \/ \E t \in Threads :
       /\ slot[t] = c
       /\ \/ ~At(t, "gone")
          \/ \E h \in Hooks : owner[h] = t /\ fwd[h] \in Working

\* The last sender is gone: the session's receive returns nothing.
ChannelCloses(c) == c \in live /\ ~Held(c) /\ End(c)

\* connect_screen, disconnect_screen: the old session loses its slot.
Unslot(s, want) ==
  /\ wanted' = [wanted EXCEPT ![s] = want]
  /\ tx' = [tx EXCEPT ![s] = None]
  /\ stranded' = stranded \cup (IF Seamless /\ tx[s] \in live THEN LeftDown(tx[s]) ELSE {})
  /\ UNCHANGED <<engine, shared, threads, screen, live, hooks, keysDown>>

\* Bound: a connect needs a channel to publish; without one it would differ from a
\* disconnect in should_run only.
ConnectScreen(s) ==
  /\ \E c \in Channels : screen[c] = None
  /\ Unslot(s, TRUE)
DisconnectScreen(s) == wanted[s] /\ Unslot(s, FALSE)

-----------------------------------------------------------------------------
(* Commands. *)

\* Starting: running.swap(true).
Claim(t) ==
  /\ At(t, "unborn")
  /\ \A u \in Threads : u < t => ~At(u, "unborn")
  /\ ~running
  /\ running' = TRUE
  /\ panicked' = FALSE
  /\ Go(t, "claimed")
  /\ UNCHANGED <<engine, space, confined, active, slot, armed, sessions,
                 hooks, peers>>

\* The rest of the start: the layout, or the check for a session; the thread.
Spawn(t) ==
  /\ At(t, "claimed")
  /\ Router \/ LinkAlive(Peer)
  /\ IF Router THEN space' \in SUBSET Screens ELSE space' = {Peer}
  /\ slot' = [slot EXCEPT ![t] = IF Legacy THEN tx[Peer] ELSE None]
  /\ Go(t, "spawned")
  /\ UNCHANGED <<engine, running, confined, panicked, active,
                 armed, sessions, hooks, peers>>

StartRefused(t) ==
  /\ At(t, "claimed")
  /\ ~Router
  /\ ~LinkAlive(Peer)
  /\ running' = FALSE
  /\ Go(t, "gone")
  /\ UNCHANGED <<engine, space, confined, panicked, active, slot,
                 armed, sessions, hooks, peers>>

\* stop_multi_screen_router: the flag and the layout.
StopRouter ==
  /\ Router
  /\ running' = FALSE
  /\ space' = NoLayout
  /\ UNCHANGED <<engine, confined, panicked, threads, sessions, hooks, peers>>

\* Mutant: the local screen is not told from the others.
ReconfigureWithLocal ==
  /\ Router
  /\ running
  /\ space' \in SUBSET (Screens \cup {None})
  /\ UNCHANGED <<engine, running, confined, panicked, threads, sessions, hooks, peers>>

\* reconfigure_router swaps the layout under the running thread.
Reconfigure ==
  /\ Router
  /\ running
  /\ space' \in SUBSET Screens
  /\ UNCHANGED <<engine, running, confined, panicked, threads, sessions,
                 hooks, peers>>

\* Mutant: the flag stays.
PauseHooksOnly ==
  /\ running' = running
  /\ StopHooks

\* pause_all_capture clears capture_running, which is not the router's flag.
PauseAllCapture ==
  /\ running' = (running /\ Router)
  /\ StopHooks

Pause ==
  /\ PauseAllCapture
  /\ UNCHANGED <<engine, space, confined, panicked, threads, sessions, peers>>

\* emergency_reset_all
EmergencyReset ==
  /\ PauseAllCapture
  /\ confined' = FALSE
  /\ panicked' = (~Router /\ \E t \in Threads : active[t] # None)
  /\ UNCHANGED <<engine, space, threads, sessions, peers>>

\* The legacy capture's peer reports its cursor at the return edge: the session
\* stops the capture (controller.rs).
ReturnReported ==
  /\ Legacy
  /\ \E t \in Threads : active[t] # None
  /\ tx[Peer] \in live
  /\ running' = FALSE
  /\ UNCHANGED <<engine, space, confined, panicked, threads, sessions, hooks,
                 peers>>

-----------------------------------------------------------------------------
(* The engine's loop. *)

\* Raw input is refused; the legacy capture does without.
RawFails(t) ==
  /\ At(t, "spawned")
  /\ ~Legacy
  /\ running' = FALSE
  /\ Go(t, "gone")
  /\ UNCHANGED <<engine, space, confined, panicked, active, slot,
                 armed, sessions, hooks, peers>>

Begin(t) ==
  /\ At(t, "spawned")
  /\ Go(t, "head")
  /\ UNCHANGED <<engine, shared, active, slot, armed, sessions, hooks, peers>>

\* The head of the loop: the flag, the failsafe polled from the keyboard, the layout.
\* The timer is dropped with the loop.
HeadExits(t) ==
  /\ At(t, "head")
  /\ armed' = [armed EXCEPT ![t] = FALSE]
  /\ Go(t, "exit")
  /\ UNCHANGED <<engine, shared, active, slot, sessions, hooks, peers>>

Stopped == ~running \/ space = NoLayout

Removed(t) == active[t] # None /\ active[t] \notin space

\* A round: the head's look and what follows from it, up to the first call that
\* changes more than the thread's own state.
AtHome(t) == At(t, "head") /\ ~Stopped /\ active[t] = None
OnScreen(t) == At(t, "head") /\ ~Stopped /\ active[t] # None /\ ~Removed(t)

\* Mutant: the router keeps the sender of the screen it left.
KeepSender(t) ==
  /\ active' = [active EXCEPT ![t] = None]
  /\ armed' = [armed EXCEPT ![t] = FALSE]
  /\ Go(t, "unhook")
  /\ UNCHANGED <<engine, shared, slot, sessions, hooks, peers>>

\* Control comes home: the router's slot is emptied before the hooks are stopped.
ComeHome(t) ==
  /\ active' = [active EXCEPT ![t] = None]
  /\ armed' = [armed EXCEPT ![t] = FALSE]
  /\ slot' = [slot EXCEPT ![t] = IF Router THEN None ELSE @]
  /\ stranded' = stranded \cup (IF Router THEN LeftDown(slot[t]) ELSE {})
  /\ Go(t, "unhook")
  /\ UNCHANGED <<engine, shared, sessions, hooks, keysDown>>

\* A reconfiguration took the active screen away.
RemovedByReconfigure(t) ==
  /\ At(t, "head")
  /\ ~Stopped
  /\ Removed(t)
  /\ ComeHome(t)

\* Mutant: the hooks stay.
ReleaseCursorOnly(t) ==
  /\ At(t, "unhook")
  /\ confined' = FALSE
  /\ Go(t, "head")
  /\ UNCHANGED <<engine, running, space, panicked, active, slot, armed,
                 sessions, hooks, peers>>

Unhook(t) ==
  /\ At(t, "unhook")
  /\ StopHooks
  /\ confined' = FALSE
  /\ Go(t, "head")
  /\ UNCHANGED <<engine, running, space, panicked, active, slot, armed,
                 sessions, peers>>

-----------------------------------------------------------------------------
(* A round at home. *)

\* The seamless capture crosses into a session, the legacy capture by a message
\* that its channel takes; the router crosses anyhow.
MayCross(t, s) ==
  /\ Seamless => LinkAlive(s)
  /\ Legacy => slot[t] \in live

Cross(t, s) ==
  /\ AtHome(t)
  /\ s \in space
  /\ MayCross(t, s)
  /\ active' = [active EXCEPT ![t] = s]
  /\ armed' = [armed EXCEPT ![t] = FALSE]
  /\ slot' = [slot EXCEPT ![t] = IF Router THEN tx[s] ELSE @]
  /\ Go(t, "hook")
  /\ UNCHANGED <<engine, shared, sessions, hooks, peers>>

\* The hooks are started and, but by the legacy capture, the cursor confined.
Hook(t) ==
  /\ At(t, "hook")
  /\ StartHooks(t)
  /\ confined' = (confined \/ ~Legacy)
  /\ Go(t, "head")
  /\ UNCHANGED <<engine, running, space, panicked, active, slot, armed,
                 sessions, peers>>

\* The legacy capture's channel is closed: it cannot cross, or move, and stops.
ChannelClosed(t) ==
  /\ AtHome(t) \/ OnScreen(t)
  /\ Legacy
  /\ slot[t] \notin live
  /\ armed' = [armed EXCEPT ![t] = FALSE]
  /\ Go(t, "exit")
  /\ UNCHANGED <<engine, shared, active, slot, sessions, hooks, peers>>

-----------------------------------------------------------------------------
(* A round on a screen. *)

\* Mutant: the look is the wrong way round.
ArmedWhileAlive(t) == LinkAlive(active[t]) /\ ~Legacy

\* The look at the link, which the legacy capture does not take.  The router
\* disarms its timer when the slot is filled, the seamless capture only by a move.
ArmedNow(t) ==
  CASE Router   -> ~LinkAlive(active[t])
    [] Seamless -> armed[t] \/ ~LinkAlive(active[t])
    [] Legacy   -> FALSE

\* LINK_LOST_RETURN has passed since an earlier look armed the timer.
LinkLost(t) ==
  /\ OnScreen(t)
  /\ armed[t]
  /\ ArmedNow(t)
  /\ ComeHome(t)

\* No motion, a keepalive, or a switch suppressed by an open composition.
Still(t) ==
  /\ OnScreen(t)
  /\ armed' = [armed EXCEPT ![t] = ArmedNow(t)]
  /\ UNCHANGED <<engine, shared, pc, active, slot, sessions, hooks, peers>>

\* A move within the screen.
Move(t) ==
  /\ OnScreen(t)
  /\ Legacy => slot[t] \in live
  /\ armed' = [armed EXCEPT ![t] =
                 IF Seamless THEN tx[Peer] \notin live ELSE ArmedNow(t)]
  /\ UNCHANGED <<engine, shared, pc, active, slot, sessions, hooks, peers>>

\* A move over the edge to this machine.
ReturnHome(t) ==
  /\ OnScreen(t)
  /\ ~Legacy
  /\ ComeHome(t)

\* A move over the edge to another screen: the slot changes, the hooks stay.
Switch(t, s) ==
  /\ Router
  /\ OnScreen(t)
  /\ s \in space \ {active[t]}
  /\ active' = [active EXCEPT ![t] = s]
  /\ slot' = [slot EXCEPT ![t] = tx[s]]
  /\ stranded' = stranded \cup LeftDown(slot[t])
  /\ armed' = [armed EXCEPT ![t] = ArmedNow(t)]
  /\ UNCHANGED <<engine, shared, pc, sessions, hooks, keysDown>>

-----------------------------------------------------------------------------
(* The end of the thread. *)

ExitFlag(t) ==
  /\ At(t, "exit")
  /\ running' = FALSE
  /\ Go(t, "clean")
  /\ UNCHANGED <<engine, space, confined, panicked, active, slot,
                 armed, sessions, hooks, peers>>

\* Mutant: the router's slot is emptied first, as on the way home.
EmptySlotFirst(t) ==
  /\ At(t, "clean")
  /\ space' = IF Router THEN NoLayout ELSE space
  /\ confined' = FALSE
  /\ StopHooks
  /\ active' = [active EXCEPT ![t] = None]
  /\ slot' = [slot EXCEPT ![t] = None]
  /\ Go(t, "gone")
  /\ UNCHANGED <<engine, running, panicked, armed, sessions, peers>>

\* Mutant: the hooks are left to a stop command.
CleanWithoutHooks(t) ==
  /\ At(t, "clean")
  /\ space' = IF Router THEN NoLayout ELSE space
  /\ confined' = FALSE
  /\ active' = [active EXCEPT ![t] = None]
  /\ Go(t, "gone")
  /\ UNCHANGED <<engine, running, panicked, slot, armed, sessions, hooks, peers>>

\* The layout, the cursor and the hooks are given up, whoever they belong to.
Clean(t) ==
  /\ At(t, "clean")
  /\ space' = IF Router THEN NoLayout ELSE space
  /\ confined' = FALSE
  /\ StopHooks
  /\ active' = [active EXCEPT ![t] = None]
  /\ Go(t, "gone")
  /\ UNCHANGED <<engine, running, panicked, slot, armed, sessions, peers>>

-----------------------------------------------------------------------------
Starting(t) == Claim(t) \/ Spawn(t) \/ StartRefused(t) \/ RawFails(t) \/ Begin(t)

\* What a thread does by itself, and what it does for the user.
Loop(t) ==
  \/ Stopped /\ HeadExits(t)
  \/ RemovedByReconfigure(t) \/ Unhook(t) \/ Hook(t)
  \/ LinkLost(t) \/ Still(t)
  \/ ExitFlag(t) \/ Clean(t)

Led(t) ==
  \/ Move(t) \/ ReturnHome(t) \/ ChannelClosed(t)
  \/ ~Stopped /\ HeadExits(t)
  \/ \E s \in Screens : Cross(t, s) \/ Switch(t, s)

Forwarding(h) ==
  \/ \E k \in Keys : Press(h, k) \/ Release(h, k)
  \/ StaleStop(h) \/ HookFailsafe(h) \/ SeesStop(h) \/ HookReturns(h)

Session ==
  \/ \E s \in Screens : Publish(s) \/ ClearTx(s) \/ ConnectScreen(s) \/ DisconnectScreen(s)
  \/ \E c \in Channels : LinkDrops(c) \/ ChannelCloses(c)

Command ==
  \/ StopRouter \/ Reconfigure
  \/ Pause \/ EmergencyReset \/ ReturnReported

Next ==
  \/ \E t \in Threads : Starting(t) \/ Loop(t) \/ Led(t)
  \/ \E h \in Hooks : Forwarding(h)
  \/ Session
  \/ Command

\* Threads run, whatever the user does or does not; emptied slots and closed channels
\* are noticed; a timer that stays armed runs out.
Fairness ==
  /\ \A t \in Threads :
       /\ WF_vars(~At(t, "unborn") /\ (Starting(t) \/ Loop(t)))
       /\ SF_vars(LinkLost(t))
  /\ \A h \in Hooks :
       /\ WF_vars(SeesStop(h))
       /\ WF_vars(fwd[h] = "drain" /\ (HookReturns(h) \/ \E k \in Keys : Release(h, k)))
  /\ \A s \in Screens : WF_vars(ClearTx(s))
  /\ \A c \in Channels : WF_vars(ChannelCloses(c))

Spec == Init /\ [][Next]_vars
FairSpec == Spec /\ Fairness

-----------------------------------------------------------------------------
(* Safety. *)

\* However starts, late ends, stops, pauses and returns of two engine threads
\* overlap, local input is suppressed and the cursor confined only while a thread
\* controls a screen or is about to give them up.
Controls(t) == active[t] # None \/ At(t, "unhook")

SuppressionHasOwner ==
  /\ \A h \in Hooks : fwd[h] = "on" => Controls(owner[h])
  /\ confined => \E t \in Threads : Controls(t)

\* A key that a live session has down is owned by a forwarding thread that will
\* release it there, unless the sender had left the slot with the key down: stops,
\* failsafes, pauses and ends of engines leave no key behind, changes of the slot do.
OnlySlotChangesStrandKeys ==
  \A c \in live : \A k \in keysDown[c] :
    \/ <<c, k>> \in stranded
    \/ \E h \in Hooks : fwd[h] \in Working /\ k \in pressed[h] /\ Target(owner[h]) = c

\* "release everything still held": whatever a live session has down is in the
\* tracker of a forwarding thread that will release it.
KeysComeHome ==
  \A c \in live : \A k \in keysDown[c] :
    \E h \in Hooks : fwd[h] \in Working /\ k \in pressed[h] /\ Target(owner[h]) = c

-----------------------------------------------------------------------------
(* The engines keep the promise of LocalInput.  *)

\* The thread whose hooks are on.
Suppressor ==
  IF \E h \in Hooks : fwd[h] = "on"
  THEN owner[CHOOSE h \in Hooks : fwd[h] = "on"]
  ELSE None

Input == INSTANCE LocalInput WITH
           controllers <- {t \in Threads : Controls(t)},
           suppressor <- Suppressor

\* Whatever starts, late ends, stops, pauses and returns of two engine threads do to
\* each other, input is taken by a thread in control only, and given back by the step
\* that gives control up.
GivesInputBack == Input!Spec

-----------------------------------------------------------------------------
(* Liveness. *)

Free == ~confined /\ \A h \in Hooks : fwd[h] # "on"

\* A stop, wherever it came from, gives the keyboard and the cursor back, unless
\* the engine was started anew.
StopGivesInputBack == ~running ~> (running \/ Free)

\* A screen whose slot stays empty does not keep control (router.rs 351-389,
\* seamless.rs 428-467).  The legacy capture has no such watchdog.
DeadLinkReturnsControl ==
  \A s \in Screens : \A t \in Threads :
    <>[](tx[s] = None) => []<>(active[t] # s \/ Legacy)

\* A disconnected screen's session ends although the router kept a copy of its
\* sender, unless the screen was connected again.  The legacy capture's copy lasts
\* as long as the capture.
DisconnectedSessionEnds ==
  \A c \in Channels :
    (c \in live /\ ~wanted[screen[c]]) ~> (c \notin live \/ wanted[screen[c]] \/ Legacy)

\* An emergency reset ends the control of every one-to-one engine.
EmergencyEndsControl ==
  panicked ~> (~panicked \/ \A t \in Threads : active[t] = None)
=============================================================================
