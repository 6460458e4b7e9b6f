---------------------------- MODULE HookForwarding ----------------------------
(***************************************************************************)
(* Hook-based input forwarding on the controller: the start and stop       *)
(* functions and the forwarding threads of forwarding.rs, over the low-    *)
(* level hooks of keyboard_hook.rs and mouse_hook.rs.                      *)
(*                                                                         *)
(* The keyboard and the mouse have a twin each, independent of each other; *)
(* a behaviour is about one of them.  The keyboard twin knows generations, *)
(* pre-held keys and the failsafe; the mouse twin knows none of them.      *)
(* Each start is named by its generation, and so are its hook, its channel *)
(* and its thread (for the mouse the number is a name only).  Starts and stops come from       *)
(* engines, commands and the tray, on any thread; a stopped thread is not  *)
(* joined.  A hook handle is dropped under the slot's mutex and joins its  *)
(* pump, so dropping is one step.                                          *)
(*                                                                         *)
(* The target is the engine's sender slot.  While it is not live, the      *)
(* peer's session is over and has released what it held (ReceiverSession). *)
(* Characters and composition are left to other modules: every key is      *)
(* forwarded physically.  The 3 s of STALE_ACTIVE_TARGET_STOP and the 2 s  *)
(* between health checks may have passed at any look at the clock.         *)
(***************************************************************************)
EXTENDS Naturals, Sequences

CONSTANTS
  Twins,     \* which twins to look at: "keyboard", "mouse"
  Keys,      \* the keys, or the mouse buttons
  MaxGen,    \* bound on starts
  MaxQueue,  \* bound on events in a channel (unbounded in the code)
  MaxLosses, \* bound on hooks that Windows removes silently
  None

ASSUME TwinAssumption == Twins \subseteq {"keyboard", "mouse"}
ASSUME GenAssumption == MaxGen \in Nat \ {0}
ASSUME QueueAssumption == MaxQueue \in Nat
ASSUME LossAssumption == MaxLosses \in Nat
ASSUME NoneAssumption == None \notin Nat /\ None \notin Keys

Gens == 1 .. MaxGen
\* What a hook sends to its thread; the failsafe is an event without a key.
Failsafe == [key |-> None, down |-> TRUE]
Events == [key : Keys, down : BOOLEAN] \cup {Failsafe}

VARIABLES
  twin,         \* which of the two this behaviour is about; it never changes
  generation,   \* KEYBOARD_HOOK_GENERATION, the latest start
  hook_running, \* the shared flag
  hook,         \* the handle slot: whose hook it holds
  event_sender, \* EVENT_SENDER: whose channel the installed hook feeds
  lost,         \* Windows has removed the installed hook silently
  preheld,      \* PREHELD_KEYS
  pc,           \* where each start and its thread are
  queue,        \* each thread's channel
  pressed,      \* each thread's tracker of what it pressed on the peer
  missed,       \* missed_markers
  marker,       \* the marker last injected: none, seen or unseen by the hook
  stopping,     \* a stop has cleared the flag and not yet the slot
  target,       \* live, absent (empty slot), or closed (receiver gone)
  phys,         \* what the user's fingers hold down
  localDown,    \* what local applications see as down
  remoteDown,   \* what the peer sees as down
  gap,          \* history: pressed locally while a hook was about to come (back)
  losses        \* hooks lost so far

vars == <<twin, generation, hook_running, hook, event_sender, lost, preheld, pc, queue,
          pressed, missed, marker, stopping, target, phys, localDown, remoteDown,
          gap, losses>>

hooks  == <<hook, event_sender, lost>>
health == <<missed, marker>>
user   == <<twin, preheld, phys, localDown, gap, losses>>

Keyboard == twin = "keyboard"

Places == {"unborn", "claimed", "ready", "installed", "head", "recv", "reinstall",
           "restore", "exit", "clearflag", "clearslot", "drain", "gone"}

TypeOK ==
  /\ twin \in Twins
  /\ generation \in 0 .. MaxGen
  /\ hook_running \in BOOLEAN
  /\ hook \in Gens \cup {None}
  /\ event_sender \in Gens \cup {None}
  /\ lost \in BOOLEAN
  /\ preheld \in SUBSET Keys
  /\ pc \in [Gens -> Places]
  /\ queue \in [Gens -> Seq(Events)]
  /\ pressed \in [Gens -> SUBSET Keys]
  /\ missed \in [Gens -> 0 .. 1]
  /\ marker \in [Gens -> {"none", "seen", "unseen"}]
  /\ stopping \in BOOLEAN
  /\ target \in {"live", "absent", "closed"}
  /\ phys \in SUBSET Keys
  /\ localDown \in SUBSET Keys
  /\ remoteDown \in SUBSET Keys
  /\ gap \in SUBSET Keys
  /\ losses \in 0 .. MaxLosses

Init ==
  /\ twin \in Twins
  /\ generation = 0
  /\ hook_running = FALSE
  /\ hook = None
  /\ event_sender = None
  /\ lost = FALSE
  /\ preheld = {}
  /\ pc = [g \in Gens |-> "unborn"]
  /\ queue = [g \in Gens |-> <<>>]
  /\ pressed = [g \in Gens |-> {}]
  /\ missed = [g \in Gens |-> 0]
  /\ marker = [g \in Gens |-> "none"]
  /\ stopping = FALSE
  /\ target = "live"
  /\ phys = {}
  /\ localDown = {}
  /\ remoteDown = {}
  /\ gap = {}
  /\ losses = 0

At(g, place) == pc[g] = place
Go(g, place) == pc' = [pc EXCEPT ![g] = place]

-----------------------------------------------------------------------------
(* The hook and its handle. *)

\* Dropping the handle in the slot, if any: its pump unhooks and clears
\* EVENT_SENDER, whoever's sender is in it.
DropHook ==
  /\ hook' = None
  /\ event_sender' = IF hook = None THEN event_sender ELSE None
  /\ lost' = (lost /\ hook = None)

\* Storing a handle drops the one it replaces.
StoreHook(g) ==
  /\ hook' = g
  /\ event_sender' = IF hook = None THEN event_sender ELSE None
  /\ lost' = (lost /\ hook = None)

\* Mutant: a registered sender is replaced.
InstallAnyway(g) ==
  /\ event_sender' = g
  /\ lost' = FALSE
  /\ UNCHANGED hook

\* start_keyboard_hook, start_mouse_hook: refused while a sender is registered,
\* and by Windows at will.
InstallHook(g) ==
  /\ event_sender = None
  /\ event_sender' = g
  /\ lost' = FALSE
  /\ UNCHANGED hook

-----------------------------------------------------------------------------
(* Starting. *)

\* hook_running.swap(true), then the generation.
Claim(g) ==
  /\ At(g, "unborn")
  /\ g = generation + 1
  /\ ~hook_running
  /\ hook_running' = TRUE
  /\ generation' = g
  /\ Go(g, "claimed")
  /\ UNCHANGED <<hooks, queue, pressed, health, stopping, target, remoteDown, user>>

\* Mutant: the keys held at the start are not recorded.
NoSnapshot(g) ==
  /\ At(g, "claimed")
  /\ Go(g, "ready")
  /\ UNCHANGED <<generation, hook_running, hooks, queue, pressed, health, stopping,
                 target, remoteDown, user>>

\* set_preheld_keys(down_keyboard_keys()), which the mouse has no twin of.
SnapshotKeys(g) ==
  /\ At(g, "claimed")
  /\ preheld' = IF Keyboard THEN phys ELSE preheld
  /\ Go(g, "ready")
  /\ UNCHANGED <<generation, hook_running, hooks, queue, pressed, health, stopping,
                 target, twin, phys, localDown, remoteDown, gap, losses>>

Install(g) ==
  /\ At(g, "ready")
  /\ InstallHook(g)
  /\ Go(g, "installed")
  /\ UNCHANGED <<generation, hook_running, queue, pressed, health, stopping, target,
                 remoteDown, user>>

InstallFails(g) ==
  /\ At(g, "ready")
  /\ hook_running' = FALSE
  /\ Go(g, "gone")
  /\ UNCHANGED <<generation, hooks, queue, pressed, health, stopping, target,
                 remoteDown, user>>

\* The handle is stored and the thread spawned.
Spawn(g) ==
  /\ At(g, "installed")
  /\ StoreHook(g)
  /\ Go(g, "head")
  /\ UNCHANGED <<generation, hook_running, queue, pressed, health, stopping, target,
                 remoteDown, user>>

-----------------------------------------------------------------------------
(* Stopping: the flag, then the slot. *)

StopFlag ==
  /\ hook_running' = FALSE
  /\ stopping' = TRUE
  /\ UNCHANGED <<generation, hooks, pc, queue, pressed, health, target, remoteDown,
                 user>>

StopSlot ==
  /\ stopping
  /\ stopping' = FALSE
  /\ DropHook
  /\ UNCHANGED <<generation, hook_running, pc, queue, pressed, health, target,
                 remoteDown, user>>

-----------------------------------------------------------------------------
(* The forwarding thread's loop. *)

\* Mutant: only the generation is looked at.
ContinuesWhileCurrent(g) == Keyboard => generation = g

\* The condition of the while loop.
Continues(g) == hook_running /\ (Keyboard => generation = g)

LoopHead(g) ==
  /\ At(g, "head")
  /\ Go(g, IF Continues(g) THEN "recv" ELSE "exit")
  /\ UNCHANGED <<generation, hook_running, hooks, queue, pressed, health, stopping,
                 target, remoteDown, user>>

\* Mutant: an absent target counts as present.
StaleWhenClosed(g) ==
  /\ At(g, "head")
  /\ Continues(g)
  /\ target = "closed"
  /\ hook_running' = FALSE
  /\ Go(g, "exit")
  /\ UNCHANGED <<generation, hooks, queue, pressed, health, stopping, target,
                 remoteDown, user>>

\* The target has been absent for STALE_ACTIVE_TARGET_STOP.
StaleStop(g) ==
  /\ At(g, "head")
  /\ Continues(g)
  /\ target = "absent"
  /\ hook_running' = FALSE
  /\ Go(g, "exit")
  /\ UNCHANGED <<generation, hooks, queue, pressed, health, stopping, target,
                 remoteDown, user>>

\* Mutant: a marker that was seen makes up for one that was missed.
DecayMisses(g) ==
  CASE marker[g] = "unseen" -> missed[g] + 1
    [] marker[g] = "seen"   -> missed[g] - 1
    [] marker[g] = "none"   -> missed[g]

\* missed_markers after the look at the marker injected last time.
MissedNow(g) ==
  CASE marker[g] = "unseen" -> missed[g] + 1
    [] marker[g] = "seen"   -> 0
    [] marker[g] = "none"   -> missed[g]

\* A marker reaches the installed hook unless it is lost; it may not be injected.
InjectMarker(g) ==
  \E m \in {"none", IF event_sender = None \/ lost THEN "unseen" ELSE "seen"} :
    marker' = [marker EXCEPT ![g] = m]

HealthCheck(g) ==
  /\ At(g, "head")
  /\ Continues(g)
  /\ MissedNow(g) < 2
  /\ missed' = [missed EXCEPT ![g] = MissedNow(g)]
  /\ InjectMarker(g)
  /\ Go(g, "recv")
  /\ UNCHANGED <<generation, hook_running, hooks, queue, pressed, stopping, target,
                 remoteDown, user>>

\* Two markers in a row went unseen: drop the dead hook and install another on a
\* fresh channel.
DropDeadHook(g) ==
  /\ At(g, "head")
  /\ Continues(g)
  /\ MissedNow(g) >= 2
  /\ missed' = [missed EXCEPT ![g] = 0]
  /\ DropHook
  /\ Go(g, "reinstall")
  /\ UNCHANGED <<generation, hook_running, queue, pressed, marker, stopping, target,
                 remoteDown, user>>

Reinstall(g) ==
  /\ At(g, "reinstall")
  /\ InstallHook(g)
  /\ queue' = [queue EXCEPT ![g] = <<>>]
  /\ Go(g, "restore")
  /\ UNCHANGED <<generation, hook_running, pressed, health, stopping, target,
                 remoteDown, user>>

ReinstallFails(g) ==
  /\ At(g, "reinstall")
  /\ hook_running' = FALSE
  /\ Go(g, "exit")
  /\ UNCHANGED <<generation, hooks, queue, pressed, health, stopping, target,
                 remoteDown, user>>

Restore(g) ==
  /\ At(g, "restore")
  /\ StoreHook(g)
  /\ InjectMarker(g)
  /\ Go(g, "recv")
  /\ UNCHANGED <<generation, hook_running, queue, pressed, missed, stopping, target,
                 remoteDown, user>>

\* recv_timeout: 100 ms without an event.
Timeout(g) ==
  /\ At(g, "recv")
  /\ queue[g] = <<>>
  /\ event_sender = g
  /\ Go(g, "head")
  /\ UNCHANGED <<generation, hook_running, hooks, queue, pressed, health, stopping,
                 target, remoteDown, user>>

\* The channel is drained and its sender gone: the loop breaks.
Disconnected(g) ==
  /\ At(g, "recv")
  /\ queue[g] = <<>>
  /\ event_sender # g
  /\ Go(g, "exit")
  /\ UNCHANGED <<generation, hook_running, hooks, queue, pressed, health, stopping,
                 target, remoteDown, user>>

\* SenderTarget::send: an absent target drops the message without an error.
Send(k, down) ==
  remoteDown' = IF target # "live" THEN remoteDown
                ELSE IF down THEN remoteDown \cup {k} ELSE remoteDown \ {k}

\* Mutant: an auto-repeat toggles the tracker.
TrackByToggling(g, k, down) ==
  pressed' = [pressed EXCEPT ![g] =
                IF down /\ k \notin @ THEN @ \cup {k} ELSE @ \ {k}]

\* track_key_press, track_button_press.
Track(g, k, down) ==
  pressed' = [pressed EXCEPT ![g] = IF down THEN @ \cup {k} ELSE @ \ {k}]

\* An event is tracked and forwarded; a closed channel stops everything.
Forward(g) ==
  /\ At(g, "recv")
  /\ queue[g] # <<>>
  /\ Head(queue[g]) # Failsafe
  /\ queue' = [queue EXCEPT ![g] = Tail(@)]
  /\ LET e == Head(queue[g]) IN Track(g, e.key, e.down) /\ Send(e.key, e.down)
  /\ hook_running' = (hook_running /\ target # "closed")
  /\ Go(g, IF target = "closed" THEN "exit" ELSE "head")
  /\ UNCHANGED <<generation, hooks, health, stopping, target, user>>

\* Ctrl+Alt+Pause.
ForwardFailsafe(g) ==
  /\ At(g, "recv")
  /\ queue[g] # <<>>
  /\ Head(queue[g]) = Failsafe
  /\ queue' = [queue EXCEPT ![g] = Tail(@)]
  /\ hook_running' = FALSE
  /\ Go(g, "exit")
  /\ UNCHANGED <<generation, hooks, pressed, health, stopping, target, remoteDown,
                 user>>

-----------------------------------------------------------------------------
(* The end of the thread. *)

\* The keyboard twin cleans up what is shared only while it is current; the mouse
\* twin always uninstalls and never touches the flag.  (The channel and the health
\* check's locals are dead here and take their initial values.)
CheckOwner(g) ==
  /\ At(g, "exit")
  /\ Go(g, IF ~Keyboard THEN "clearslot"
           ELSE IF generation = g THEN "clearflag" ELSE "drain")
  /\ missed' = [missed EXCEPT ![g] = 0]
  /\ marker' = [marker EXCEPT ![g] = "none"]
  /\ queue' = [queue EXCEPT ![g] = <<>>]
  /\ UNCHANGED <<generation, hook_running, hooks, pressed, stopping, target,
                 remoteDown, user>>

ClearFlag(g) ==
  /\ At(g, "clearflag")
  /\ hook_running' = FALSE
  /\ Go(g, "clearslot")
  /\ UNCHANGED <<generation, hooks, queue, pressed, health, stopping, target,
                 remoteDown, user>>

ClearSlot(g) ==
  /\ At(g, "clearslot")
  /\ DropHook
  /\ Go(g, "drain")
  /\ UNCHANGED <<generation, hook_running, queue, pressed, health, stopping, target,
                 remoteDown, user>>

\* One tracked key is released on the peer.
Drain(g, k) ==
  /\ At(g, "drain")
  /\ k \in pressed[g]
  /\ Track(g, k, FALSE)
  /\ Send(k, FALSE)
  /\ UNCHANGED <<generation, hook_running, hooks, pc, queue, health, stopping,
                 target, user>>

\* The thread returns; its channel's receiver goes with it.
Return(g) ==
  /\ At(g, "drain")
  /\ pressed[g] = {}
  /\ Go(g, "gone")
  /\ UNCHANGED <<generation, hook_running, hooks, queue, pressed, health, stopping, target,
                 remoteDown, user>>

-----------------------------------------------------------------------------
(* The user, the operating system and the target. *)

\* The installed hook runs its callback, and its event finds a receiver.
Sees == event_sender # None /\ ~lost
Takes == Sees /\ pc[event_sender] # "gone"

\* A local press now is not in any snapshot that a coming hook relies on: the
\* snapshot was taken, or a thread that goes on without its hook may reinstall it.
HookIsComing ==
  lost \/ \E g \in Gens : pc[g] \in {"ready", "reinstall"}
                           \/ (pc[g] \in {"head", "recv"} /\ Continues(g))

\* A thread on its way out reads no more: what comes is dropped with its channel.
Left == {"clearflag", "clearslot", "drain"}

Observe(e) ==
  \/ /\ pc[event_sender] \in Left
     /\ UNCHANGED queue
  \/ /\ pc[event_sender] \notin Left
     /\ Len(queue[event_sender]) < MaxQueue
     /\ queue' = [queue EXCEPT ![event_sender] = Append(@, e)]

\* A press, or its auto-repeat.
KeyDown(k) ==
  /\ phys' = phys \cup {k}
  /\ IF Takes
     THEN Observe([key |-> k, down |-> TRUE]) /\ UNCHANGED <<localDown, gap>>
     ELSE /\ localDown' = localDown \cup {k}
          /\ gap' = IF HookIsComing /\ k \notin localDown THEN gap \cup {k} ELSE gap
          /\ UNCHANGED queue
  /\ UNCHANGED <<generation, hook_running, hooks, preheld, pc, pressed, health,
                 stopping, target, remoteDown, twin, losses>>

\* The first key-up of a pre-held key is observed and passed on.
KeyUp(k) ==
  /\ k \in phys
  /\ phys' = phys \ {k}
  /\ IF Takes THEN Observe([key |-> k, down |-> FALSE]) ELSE UNCHANGED queue
  /\ localDown' = IF Takes /\ k \notin preheld THEN localDown ELSE localDown \ {k}
  /\ preheld' = IF Sees THEN preheld \ {k} ELSE preheld
  /\ gap' = gap \cap localDown'
  /\ UNCHANGED <<generation, hook_running, hooks, pc, pressed, health, stopping,
                 target, remoteDown, twin, losses>>

PressFailsafe ==
  /\ Keyboard
  /\ Takes
  /\ Observe(Failsafe)
  /\ UNCHANGED <<generation, hook_running, hooks, pc, pressed, health, stopping,
                 target, remoteDown, user>>

\* Windows removes a hook whose callback overran LowLevelHooksTimeout.
LoseHook ==
  /\ Sees
  /\ losses < MaxLosses
  /\ lost' = TRUE
  /\ losses' = losses + 1
  /\ UNCHANGED <<generation, hook_running, hook, event_sender, twin, preheld, pc,
                 queue, pressed, health, stopping, target, phys, localDown, remoteDown, gap>>

\* The session behind the target ends, or another takes its place.
TargetChanges ==
  /\ \E t \in {"live", "absent", "closed"} \ {target} : target' = t
  /\ remoteDown' = {}
  /\ UNCHANGED <<generation, hook_running, hooks, pc, queue, pressed, health,
                 stopping, user>>

-----------------------------------------------------------------------------
Start(g) ==
  Claim(g) \/ SnapshotKeys(g) \/ Install(g) \/ InstallFails(g) \/ Spawn(g)

Loop(g) ==
  \/ LoopHead(g) \/ StaleStop(g) \/ HealthCheck(g) \/ DropDeadHook(g)
  \/ Reinstall(g) \/ ReinstallFails(g) \/ Restore(g)
  \/ Timeout(g) \/ Disconnected(g) \/ Forward(g) \/ ForwardFailsafe(g)

End(g) ==
  \/ CheckOwner(g) \/ ClearFlag(g) \/ ClearSlot(g) \/ Return(g)
  \/ \E k \in Keys : Drain(g, k)

World ==
  \/ PressFailsafe \/ LoseHook \/ TargetChanges
  \/ \E k \in Keys : KeyDown(k) \/ KeyUp(k)

Next ==
  \/ \E g \in Gens : Start(g) \/ Loop(g) \/ End(g)
  \/ StopFlag \/ StopSlot
  \/ World

\* A call that has begun and a thread that has been spawned go on; an absence is
\* looked at in every round of the loop and lasts 3 s in the end.
Fairness ==
  /\ WF_vars(StopSlot)
  /\ \A g \in Gens :
       /\ WF_vars(generation >= g /\ (Start(g) \/ Loop(g) \/ End(g)))
       /\ SF_vars(StaleStop(g))

Spec == Init /\ [][Next]_vars
FairSpec == Spec /\ Fairness

-----------------------------------------------------------------------------
(* Safety. *)

\* However starts, stops, reinstallations and ends of threads overlap, the handle
\* in the slot is that of the installed hook: no hook escapes from the slot that
\* stop and failsafe empty, and no drop silences a hook of another start.
SlotHoldsTheHook ==
  /\ hook # None => event_sender = hook
  /\ event_sender # None /\ hook = None =>
       At(event_sender, "installed") \/ At(event_sender, "restore")

\* Whatever the peer sees as down is in the tracker of a thread that has yet to
\* drain it (forwarding.rs 252-257, 822-829): stops, failsafes, superseded threads
\* and lost events leave no key stuck on a live peer.
RemoteKeyHasOwner ==
  \A k \in remoteDown : \E g \in Gens : k \in pressed[g] /\ ~At(g, "gone")

\* A key that local applications saw go down comes up for them when the user lets
\* go of it, unless it was pressed in the moments before a hook comes in
\* (keyboard_hook.rs 56-89).  The mouse twin has no record of buttons held before.
LocalKeysComeUp ==
  Keyboard => localDown \subseteq phys \cup gap

-----------------------------------------------------------------------------
(* What the keyboard twin promises whoever starts and stops it. *)

\* A thread that waits for an event, or reinstalls its hook before it does, comes to
\* know of a stop with the next event; before and at its head it looks before it waits.
Waiting == {"recv", "reinstall", "restore"}
Ahead == {"claimed", "ready", "installed", "head"}

\* Where a start is, as its caller may think of it.
Stage(g) ==
  CASE pc[g] \in Waiting -> IF Continues(g) THEN "on" ELSE "stop"
    [] pc[g] \in Ahead -> IF Continues(g) THEN "on" ELSE "drain"
    [] At(g, "unborn") \/ At(g, "gone") -> pc[g]
    [] OTHER -> "drain"

Service == INSTANCE KeyService
             WITH Threads <- Gens, stage <- [g \in Gens |-> Stage(g)],
                  tracker <- pressed, remote <- remoteDown

\* One keyboard thread is on at a time; however starts, stops, superseded threads
\* and reinstalled hooks overlap, a thread that was told to stop forwards one event
\* at most, is never on again, and is not gone before it has released what it
\* pressed (forwarding.rs 119-136, 252-257).  The mouse twin, which knows no
\* generations, promises less: a new start revives a thread that was told to stop.
KeepsKeyPromise == Service!Spec

-----------------------------------------------------------------------------
(* Liveness. *)

Suppressing == Takes
Forwarding(g) == pc[g] \in {"head", "recv", "reinstall", "restore"}

\* After a stop, from wherever it came, local input is no longer swallowed, unless
\* forwarding was started anew.
StopRestoresLocalInput ==
  ~hook_running ~> (hook_running \/ ~Suppressing)

\* When the engine that owns the target is gone, local input comes back by itself
\* (forwarding.rs 48-68).
OrphanedHookLetsGo ==
  <>[](target = "absent") => []<>(~Suppressing)
=============================================================================
