---------------------------- MODULE ImeComposition ----------------------------
(***************************************************************************)
(* Characters and IME composition in the keyboard forwarding loop of       *)
(* forwarding.rs, over the mode of ime_mode.rs, the key classes of         *)
(* key_class.rs, the pass-through flag of keyboard_hook.rs and the capture *)
(* window of ime_capture.rs.                                               *)
(*                                                                         *)
(* A key is sent to the peer as a physical key, sent as the text it makes, *)
(* or left to the local IME, whose window hands committed text back on a   *)
(* channel.  The loop, the hook's callback and the window's thread run in  *)
(* parallel, and a forwarding thread that was stopped lives on beside its  *)
(* successor.                                                              *)
(*                                                                         *)
(* How forwarding starts, stops and loses its hook is HookForwarding's     *)
(* matter: here a start and a stop are one step each, the hook is never    *)
(* lost and the target is live.  What is typed into the capture window is  *)
(* the user's choice at any time; texts are only counted.  Where the       *)
(* window is and which conversion mode it has are left out.                *)
(***************************************************************************)
EXTENDS Naturals, Sequences

CONSTANTS
  Commands,   \* Ctrl, Alt and Win
  Controls,   \* Shift, Enter, arrows, F keys: physical in every layout
  Letters,    \* keys that make a character
  Toggles,    \* the keys that turn composition mode on and off
  MaxGen,     \* bound on starts
  MaxQueue,   \* bound on events in a hook's channel (unbounded in the code)
  MaxActs,    \* bound on presses and changes of the setting
  None

Keys == Commands \cup Controls \cup Letters \cup Toggles

ASSUME GenAssumption == MaxGen \in Nat
ASSUME QueueAssumption == MaxQueue \in Nat
ASSUME ActAssumption == MaxActs \in Nat
ASSUME NoneAssumption == None \notin Nat
ASSUME KeyAssumption ==
  /\ Toggles \cap (Commands \cup Controls \cup Letters) = {}
  /\ Letters \cap (Commands \cup Controls) = {}

Gens == 1 .. MaxGen
Events == [key : Keys, down : BOOLEAN]

VARIABLES
  generation,   \* KEYBOARD_HOOK_GENERATION, the latest start
  hook_running, \* the shared flag
  hook,         \* whose channel the installed hook feeds
  passthrough,  \* PASSTHROUGH: the hook lets keys through to the focused window
  composing,    \* COMPOSING: the IME has an open composition
  sender,       \* COMMIT_SENDER: to whom committed text goes
  resolve,      \* resolve_characters, a setting
  pc,           \* where each forwarding thread is
  events,       \* each thread's channel from the hook
  ime_mode,     \* each thread's ImeModeState
  window,       \* each thread's capture window
  modifiers,    \* the command modifiers each thread believes down
  toggle_held,  \* ime_toggle_held
  pressed,      \* each thread's tracker of what it pressed on the peer
  phys,         \* what the user's fingers hold down
  peer,         \* what the peer sees as down
  swallowed,    \* history: tracked keys whose key-up was left to the local IME
  dropped,      \* history: tracked toggle keys whose key-up the loop dropped
  meddled,      \* history: a superseded thread wrote PASSTHROUGH
  acts          \* presses and changes of the setting so far

shared   == <<generation, hook_running, hook>>
flag     == <<passthrough, meddled>>
capture  == <<window, sender, composing>>
keys     == <<modifiers, toggle_held>>
remote   == <<pressed, peer, swallowed, dropped>>
user     == <<phys, resolve, acts>>
vars == <<generation, hook_running, hook, passthrough, composing, sender, resolve, pc,
          events, ime_mode, window, modifiers, toggle_held, pressed, phys, peer,
          swallowed, dropped, meddled, acts>>

Places == {"unborn", "begin", "head", "recv", "opening", "abandoning", "closing",
           "dropping", "unpassing", "clearing", "draining", "done"}
Modes == {"Off", "Armed", "Composing", "Suspended"}

TypeOK ==
  /\ generation \in 0 .. MaxGen
  /\ hook_running \in BOOLEAN
  /\ hook \in Gens \cup {None}
  /\ passthrough \in BOOLEAN
  /\ composing \in BOOLEAN
  /\ sender \in Gens \cup {None}
  /\ resolve \in BOOLEAN
  /\ pc \in [Gens -> Places]
  /\ events \in [Gens -> Seq(Events)]
  /\ ime_mode \in [Gens -> Modes]
  /\ window \in [Gens -> {"none", "starting", "open"}]
  /\ modifiers \in [Gens -> SUBSET Commands]
  /\ toggle_held \in [Gens -> BOOLEAN]
  /\ pressed \in [Gens -> SUBSET Keys]
  /\ phys \in SUBSET Keys
  /\ peer \in SUBSET Keys
  /\ swallowed \in SUBSET Keys
  /\ dropped \in SUBSET Keys
  /\ meddled \in BOOLEAN
  /\ acts \in 0 .. MaxActs

Init ==
  /\ generation = 0
  /\ hook_running = FALSE
  /\ hook = None
  /\ passthrough = FALSE
  /\ composing = FALSE
  /\ sender = None
  /\ resolve \in BOOLEAN
  /\ pc = [t \in Gens |-> "unborn"]
  /\ events = [t \in Gens |-> <<>>]
  /\ ime_mode = [t \in Gens |-> "Off"]
  /\ window = [t \in Gens |-> "none"]
  /\ modifiers = [t \in Gens |-> {}]
  /\ toggle_held = [t \in Gens |-> FALSE]
  /\ pressed = [t \in Gens |-> {}]
  /\ phys = {}
  /\ peer = {}
  /\ swallowed = {}
  /\ dropped = {}
  /\ meddled = FALSE
  /\ acts = 0

At(t, place) == pc[t] = place
Go(t, place) == pc' = [pc EXCEPT ![t] = place]

-----------------------------------------------------------------------------
(* The mode (ime_mode.rs) and the key classes (key_class.rs). *)

is_on(m) == m \in {"Armed", "Composing"}

on_toggle(m) == IF is_on(m) THEN "Off" ELSE "Armed"

observe_composition(m, open) ==
  IF m = "Armed" /\ open THEN "Composing"
  ELSE IF m = "Composing" /\ ~open THEN "Armed" ELSE m

classify_key(k, held) ==
  IF k \in Toggles THEN "ImeLocal"
  ELSE IF k \in Commands \cup Controls \/ held # {} THEN "Physical"
  ELSE "Character"

-----------------------------------------------------------------------------
(* Start and stop, as far as they matter here. *)

StartForwarding(t) ==
  /\ At(t, "unborn")
  /\ t = generation + 1
  /\ ~hook_running
  /\ hook = None
  /\ generation' = t
  /\ hook_running' = TRUE
  /\ hook' = t
  /\ Go(t, "begin")
  /\ UNCHANGED <<flag, capture, keys, remote, user, events, ime_mode>>

StopForwarding ==
  /\ hook_running \/ hook # None
  /\ hook_running' = FALSE
  /\ hook' = None
  /\ UNCHANGED <<generation, flag, capture, keys, remote, user, events, pc, ime_mode>>

\* The modifiers are seeded from the keyboard's state, pass-through from no one.
Begin(t) ==
  /\ At(t, "begin")
  /\ modifiers' = [modifiers EXCEPT ![t] = Commands \cap phys]
  /\ passthrough' = FALSE
  /\ meddled' = (generation # t)
  /\ Go(t, "head")
  /\ UNCHANGED <<shared, capture, toggle_held, remote, user, events, ime_mode>>

-----------------------------------------------------------------------------
(* The loop. *)

Continues(t) == hook_running /\ generation = t

\* Every key still held on the peer is released there.
release_pressed_keys(t) ==
  /\ pressed' = [pressed EXCEPT ![t] = {}]
  /\ peer' = peer \ pressed[t]
  /\ swallowed' = swallowed \ pressed[t]
  /\ dropped' = dropped \ pressed[t]

\* The head of the loop follows the IME; a composition that opens takes the
\* key-ups to come, so what is held is released.
LoopHead(t) ==
  /\ At(t, "head")
  /\ Continues(t)
  /\ LET next_mode == observe_composition(ime_mode[t], composing)
     IN  /\ ime_mode' = [ime_mode EXCEPT ![t] = next_mode]
         /\ IF next_mode # ime_mode[t] /\ next_mode = "Composing"
            THEN release_pressed_keys(t)
            ELSE UNCHANGED remote
  /\ Go(t, "recv")
  /\ UNCHANGED <<shared, flag, capture, keys, user, events>>

\* Nothing comes for 100 ms, or the hook and its sender are gone.
NoEvent(t) ==
  /\ At(t, "recv")
  /\ events[t] = <<>>
  /\ Go(t, IF hook = t THEN "head" ELSE "dropping")
  /\ UNCHANGED <<shared, flag, capture, keys, remote, user, events, ime_mode>>

\* The event at the head of the channel, and the modifiers after it.
Key(t) == Head(events[t]).key
Down(t) == Head(events[t]).down

\* Mutant: every key counts as a modifier.
HeldNowAny(t) ==
  IF Down(t) THEN modifiers[t] \cup {Key(t)} ELSE modifiers[t] \ {Key(t)}

HeldNow(t) ==
  IF Key(t) \notin Commands THEN modifiers[t]
  ELSE IF Down(t) THEN modifiers[t] \cup {Key(t)} ELSE modifiers[t] \ {Key(t)}

Take(t) ==
  /\ At(t, "recv")
  /\ events[t] # <<>>
  /\ events' = [events EXCEPT ![t] = Tail(@)]
  /\ modifiers' = [modifiers EXCEPT ![t] = HeldNow(t)]

IsToggle(t) == resolve /\ Key(t) \in Toggles

track_key_press(t, k, down) ==
  pressed' = [pressed EXCEPT ![t] = IF down THEN @ \cup {k} ELSE @ \ {k}]

\* Mutant: the key-up of a letter is never sent.
DeadKeyDown(t) == Down(t)

\* A letter without a text, such as a dead key, goes as a physical key, and so
\* does the key-up of one that did.
DeadKey(t) == Down(t) \/ Key(t) \in pressed[t]

\* Which keys go to the peer as physical keys.  With the setting off all do; with
\* a composition open none does; outside one, letters are left to the window while
\* the mode is on, and otherwise go as text, but for dead keys.
Physical(t) ==
  LET route == classify_key(Key(t), HeldNow(t))
  IN  \/ ~resolve
      \/ /\ is_on(ime_mode[t])
         /\ ~composing
         /\ route = "Physical"
      \/ /\ ~is_on(ime_mode[t])
         /\ \/ route = "Physical"
            \/ route = "Character" /\ DeadKey(t)

Forward(t) ==
  /\ Take(t)
  /\ ~IsToggle(t)
  /\ Physical(t)
  /\ track_key_press(t, Key(t), Down(t))
  /\ peer' = IF Down(t) THEN peer \cup {Key(t)} ELSE peer \ {Key(t)}
  /\ swallowed' = swallowed \ {Key(t)}
  /\ dropped' = dropped \ {Key(t)}
  /\ Go(t, "head")
  /\ UNCHANGED <<shared, flag, capture, toggle_held, user, ime_mode>>

\* A letter that has a text goes as that text; its key-up has no message.  While
\* the mode is on, what is not forwarded is the local IME's, key-ups of keys that
\* went down on the peer included.
NotForwarded(t) ==
  /\ Take(t)
  /\ ~IsToggle(t)
  /\ ~Physical(t) \/ (resolve /\ ~is_on(ime_mode[t]) /\ Down(t)
                        /\ classify_key(Key(t), HeldNow(t)) = "Character")
  /\ swallowed' = IF is_on(ime_mode[t]) /\ ~Down(t)
                  THEN swallowed \cup (pressed[t] \cap {Key(t)}) ELSE swallowed
  /\ Go(t, "head")
  /\ UNCHANGED <<shared, flag, capture, toggle_held, pressed, peer, dropped, user, ime_mode>>

\* The toggle's key-up, and the auto-repeats of its key-down.  A toggle key that
\* went to the peer while the setting was off and comes up after it was switched on
\* has its key-up dropped here, whatever the mode.
ToggleHeld(t) ==
  /\ Take(t)
  /\ IsToggle(t)
  /\ Down(t) => toggle_held[t]
  /\ toggle_held' = [toggle_held EXCEPT ![t] = Down(t)]
  /\ dropped' = IF Down(t) THEN dropped ELSE dropped \cup (pressed[t] \cap {Key(t)})
  /\ Go(t, "head")
  /\ UNCHANGED <<shared, flag, capture, pressed, peer, swallowed, user, ime_mode>>

\* start_ime_capture claims the sender slot and spawns the window's thread, or
\* refuses.
start_ime_capture(t) ==
  IF sender = None
  THEN /\ sender' = t
       /\ composing' = FALSE
       /\ window' = [window EXCEPT ![t] = "starting"]
       /\ Go(t, "opening")
       /\ UNCHANGED ime_mode
  ELSE /\ ime_mode' = [ime_mode EXCEPT ![t] = "Suspended"]
       /\ Go(t, "head")
       /\ UNCHANGED capture

\* The toggle's first key-down with the mode off.
ToggleOn(t) ==
  /\ Take(t)
  /\ IsToggle(t)
  /\ Down(t) /\ ~toggle_held[t]
  /\ on_toggle(ime_mode[t]) = "Armed"
  /\ toggle_held' = [toggle_held EXCEPT ![t] = TRUE]
  /\ start_ime_capture(t)
  /\ UNCHANGED <<shared, flag, remote, user>>

\* The toggle with the mode on drops the handle: the window's thread is told to
\* stop and joined.
ToggleOff(t) ==
  /\ Take(t)
  /\ IsToggle(t)
  /\ Down(t) /\ ~toggle_held[t]
  /\ on_toggle(ime_mode[t]) = "Off"
  /\ toggle_held' = [toggle_held EXCEPT ![t] = TRUE]
  /\ Go(t, "closing")
  /\ UNCHANGED <<shared, flag, capture, remote, user, ime_mode>>

-----------------------------------------------------------------------------
(* Entering and leaving the mode. *)

\* PASSTHROUGH is one flag, and any thread writes it.
set_passthrough(t, enabled) ==
  /\ passthrough' = enabled
  /\ meddled' = (meddled \/ generation # t)

\* The window is ready: the mode is armed, keys flow to the window, and what is
\* held on the peer is released.
Entered(t) ==
  /\ At(t, "opening")
  /\ window[t] = "open"
  /\ ime_mode' = [ime_mode EXCEPT ![t] = "Armed"]
  /\ set_passthrough(t, TRUE)
  /\ release_pressed_keys(t)
  /\ Go(t, "head")
  /\ UNCHANGED <<shared, capture, keys, user, events>>

\* Mutant: the mode is left armed.
EntryFailsArmed(t) ==
  /\ At(t, "opening")
  /\ window[t] = "none"
  /\ ime_mode' = [ime_mode EXCEPT ![t] = "Armed"]
  /\ Go(t, "head")
  /\ UNCHANGED <<shared, flag, capture, keys, remote, user, events>>

\* The window could not be made or could not take the focus.
EntryFails(t) ==
  /\ At(t, "opening")
  /\ window[t] = "none"
  /\ ime_mode' = [ime_mode EXCEPT ![t] = "Suspended"]
  /\ Go(t, "head")
  /\ UNCHANGED <<shared, flag, capture, keys, remote, user, events>>

\* The window is not ready within 2 s: it is told to stop and joined.
EntryTimesOut(t) ==
  /\ At(t, "opening")
  /\ window[t] = "starting"
  /\ Go(t, "abandoning")
  /\ UNCHANGED <<shared, flag, capture, keys, remote, user, events, ime_mode>>

\* After the join the slot is cleared once more, whoever is in it by now.
Abandoned(t) ==
  /\ At(t, "abandoning")
  /\ window[t] = "none"
  /\ sender' = None
  /\ ime_mode' = [ime_mode EXCEPT ![t] = "Suspended"]
  /\ Go(t, "head")
  /\ UNCHANGED <<shared, flag, window, composing, keys, remote, user, events>>

\* Mutant: the flag is left as it is.
ClosedAsIs(t) ==
  /\ At(t, "closing")
  /\ window[t] = "none"
  /\ ime_mode' = [ime_mode EXCEPT ![t] = "Off"]
  /\ Go(t, "head")
  /\ UNCHANGED <<shared, flag, capture, keys, remote, user, events>>

Closed(t) ==
  /\ At(t, "closing")
  /\ window[t] = "none"
  /\ ime_mode' = [ime_mode EXCEPT ![t] = "Off"]
  /\ set_passthrough(t, FALSE)
  /\ Go(t, "head")
  /\ UNCHANGED <<shared, capture, keys, remote, user, events>>

-----------------------------------------------------------------------------
(* The end of a thread: the loop's condition fails, the handle is dropped, and   *)
(* pass-through, flag and hook are reset by the current generation only.         *)

\* Mutant: the handle is forgotten instead of dropped.
LeaveWindow(t) ==
  /\ At(t, "head")
  /\ ~Continues(t)
  /\ Go(t, "clearing")
  /\ UNCHANGED <<shared, flag, capture, keys, remote, user, events, ime_mode>>

Leave(t) ==
  /\ At(t, "head")
  /\ ~Continues(t)
  /\ Go(t, "dropping")
  /\ UNCHANGED <<shared, flag, capture, keys, remote, user, events, ime_mode>>

\* The window is gone; nothing reads the loop's modifiers and mode after this.
Dropped(t) ==
  /\ At(t, "dropping")
  /\ window[t] = "none"
  /\ Go(t, IF is_on(ime_mode[t]) /\ generation = t THEN "unpassing" ELSE "clearing")
  /\ modifiers' = [modifiers EXCEPT ![t] = {}]
  /\ toggle_held' = [toggle_held EXCEPT ![t] = FALSE]
  /\ ime_mode' = [ime_mode EXCEPT ![t] = "Off"]
  /\ UNCHANGED <<shared, flag, capture, remote, user, events>>

Unpass(t) ==
  /\ At(t, "unpassing")
  /\ set_passthrough(t, FALSE)
  /\ Go(t, "clearing")
  /\ UNCHANGED <<shared, capture, keys, remote, user, events, ime_mode>>

Clear(t) ==
  /\ At(t, "clearing")
  /\ IF generation = t THEN hook_running' = FALSE /\ hook' = None
                       ELSE UNCHANGED <<hook_running, hook>>
  /\ Go(t, "draining")
  /\ UNCHANGED <<generation, flag, capture, keys, remote, user, events, ime_mode>>

Drain(t) ==
  /\ At(t, "draining")
  /\ release_pressed_keys(t)
  /\ events' = [events EXCEPT ![t] = <<>>]
  /\ Go(t, "done")
  /\ UNCHANGED <<shared, flag, capture, keys, user, ime_mode>>

-----------------------------------------------------------------------------
(* The capture window's thread (ime_capture.rs). *)

\* The handle is dropped, or its start was given up: the thread is told to stop.
Stopping(t) == pc[t] \in {"abandoning", "closing", "dropping"}

WindowOpens(t) ==
  /\ window[t] = "starting"
  /\ window' = [window EXCEPT ![t] = "open"]
  /\ UNCHANGED <<shared, flag, sender, composing, keys, remote, user, events, pc,
                 ime_mode>>

\* A window that cannot be made, or cannot take the focus under the abort policy,
\* is gone again; its thread clears the slot.
WindowFails(t) ==
  /\ window[t] = "starting"
  /\ window' = [window EXCEPT ![t] = "none"]
  /\ sender' = None
  /\ UNCHANGED <<shared, flag, composing, keys, remote, user, events, pc, ime_mode>>

\* A stop destroys the window; whether a composition that is open then says so
\* before the window is gone is the IME's choice.
WindowCloses(t) ==
  /\ window[t] = "open"
  /\ Stopping(t)
  /\ window' = [window EXCEPT ![t] = "none"]
  /\ sender' = None
  /\ composing' \in {composing, FALSE}
  /\ UNCHANGED <<shared, flag, keys, remote, user, events, pc, ime_mode>>

CompositionStarts(t) ==
  /\ window[t] = "open"
  /\ passthrough
  /\ composing' = TRUE
  /\ UNCHANGED <<shared, flag, window, sender, keys, remote, user, events, pc,
                 ime_mode>>

CompositionEnds(t) ==
  /\ window[t] = "open"
  /\ composing' = FALSE
  /\ UNCHANGED <<shared, flag, window, sender, keys, remote, user, events, pc,
                 ime_mode>>

-----------------------------------------------------------------------------
(* The user and the hook's callback. *)

Act == acts < MaxActs /\ acts' = acts + 1

Observe(k, down) ==
  IF hook = None THEN UNCHANGED events
  ELSE /\ Len(events[hook]) < MaxQueue
       /\ events' = [events EXCEPT ![hook] = Append(@, [key |-> k, down |-> down])]

\* A press, or its auto-repeat.
KeyDown(k) ==
  /\ Act
  /\ phys' = phys \cup {k}
  /\ Observe(k, TRUE)
  /\ UNCHANGED <<shared, flag, capture, keys, remote, resolve, pc, ime_mode>>

KeyUp(k) ==
  /\ k \in phys
  /\ phys' = phys \ {k}
  /\ Observe(k, FALSE)
  /\ UNCHANGED <<shared, flag, capture, keys, remote, resolve, acts, pc, ime_mode>>

SetResolveCharacters ==
  /\ Act
  /\ resolve' = ~resolve
  /\ UNCHANGED <<shared, flag, capture, keys, remote, phys, events, pc, ime_mode>>

-----------------------------------------------------------------------------
Loop(t) ==
  \/ Begin(t) \/ LoopHead(t) \/ NoEvent(t) \/ Forward(t) \/ NotForwarded(t)
  \/ ToggleHeld(t) \/ ToggleOn(t) \/ ToggleOff(t)
  \/ Entered(t) \/ EntryFails(t) \/ EntryTimesOut(t) \/ Abandoned(t) \/ Closed(t)

End(t) == Leave(t) \/ Dropped(t) \/ Unpass(t) \/ Clear(t) \/ Drain(t)

Window(t) == WindowOpens(t) \/ WindowFails(t) \/ WindowCloses(t)

User ==
  \/ \E k \in Keys : KeyDown(k) \/ KeyUp(k)
  \/ SetResolveCharacters
  \/ \E t \in Gens : CompositionStarts(t) \/ CompositionEnds(t)

Next ==
  \/ \E t \in Gens : StartForwarding(t) \/ Loop(t) \/ End(t) \/ Window(t)
  \/ StopForwarding
  \/ User

Spec == Init /\ [][Next]_vars

-----------------------------------------------------------------------------
(* Safety. *)

\* "The capture window exists iff is_on()" (forwarding.rs 390-391): between two
\* steps of the loop the mode says whether there is a window, whatever timeouts,
\* failures and refusals the entry met.
WindowIffOn ==
  \A t \in Gens : pc[t] \in {"head", "recv"} => (is_on(ime_mode[t]) <=> window[t] = "open")

\* Keys are let through to the local window exactly while the mode is on; a flag
\* left by an earlier generation is not inherited (forwarding.rs 401-402), unless a
\* superseded thread writes it after the new one has begun.
PassThroughIffOn ==
  \A t \in Gens :
    Continues(t) /\ pc[t] \in {"head", "recv"} => (passthrough <=> is_on(ime_mode[t])) \/ meddled

\* A key that is down on the peer is in the tracker of a living thread, and while
\* that thread forwards, the key is held, or its key-up is on the way, or one of two
\* things became of the key-up: it was left to the local IME with the mode on, or it
\* was a toggle key's, which went to the peer while the setting was off and came up
\* with it on.  No other key-up is lost, whatever characters, dead keys, shortcuts
\* and changes of the setting come between (forwarding.rs 703-765).
KeyUpsAccounted ==
  \A k \in peer : \E t \in Gens :
    /\ k \in pressed[t]
    /\ pc[t] # "done"
    /\ \/ ~Continues(t)
       \/ k \in phys \cup swallowed
       \/ k \in dropped \cap Toggles
       \/ \E i \in 1 .. Len(events[t]) : events[t][i] = [key |-> k, down |-> FALSE]

\* A capture window, and the slot its texts go through, belong to a thread that is
\* still there to drop them: no end of a thread leaves the focus, the IME's state
\* or the slot taken, which would refuse the mode for good.
CaptureHasOwner ==
  \A t \in Gens :
    window[t] # "none" \/ sender = t =>
      \/ pc[t] \in {"opening", "abandoning", "closing", "dropping"}
      \/ pc[t] \in {"head", "recv"} /\ is_on(ime_mode[t])
=============================================================================
