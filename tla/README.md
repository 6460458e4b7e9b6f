# TailKVM: specifications, model checking and proofs

TailKVM shares one keyboard and mouse between Windows machines over a
tailnet.  One application plays two roles: the *controller*, whose keyboard
and mouse are used, and the *receiver*, whose input is injected.  This
directory holds TLA+ modules for the parts of it whose correctness depends on
the order of things, the TLC configurations that check them on small
instances, and TLAPS proofs about them.

Paths below are relative to the repository's root.  `APP` stands for
`apps/tailkvm-ui/src-tauri/src`.

## Inventory

| Component | Sources | State | Operations | What is hard |
|---|---|---|---|---|
| Receiver listener and inbound sessions | `APP/session/mod.rs`, `APP/session/receiver.rs` | `receiver_running`, cancel sender, `receiver_tx`, `receiver_abort`, status snapshot; per handler: handshake, watchdog, trackers of held input | accept and displace, a `select!` loop over messages, outbound channel, failsafes and cancel, an exit path | handlers overlap and share slots and flags; peers vanish; injections fail |
| 1:1 controller connection | `APP/session/mod.rs`, `APP/session/controller.rs` | `controller_generation`, `controller_should_run`, `controller_tx`; per supervisor: backoff, session | connect, disconnect, dial, session, reconnect | commands and supervisors interleave between any two accesses; dials block; senders are cloned |
| Hook forwarding | `APP/forwarding.rs`, `crates/tailkvm-win32/src/{keyboard,mouse}_hook.rs` | running flags, hook handles, generation, pre-held keys, pressed keys | start, stop, forward, watchdog and reinstall, failsafe | superseded threads clean up what newer ones own; keys held across a start or stop |
| Seamless engine | `APP/seamless.rs` | local/remote state, virtual cursor, link watchdog | cross an edge, move, return, lose the link | engine state against hooks and slot |
| Multi-screen router | `APP/router.rs`, `layout_graph.rs` | active screen and its sender slot, screen space | switch screens, reconfigure, stop | the slot moves while hooks and keys are in flight |
| Legacy capture, pause, emergency reset | `APP/legacy_capture.rs` | `capture_running`, `remote_control` | start, stop, reset all | several engines, one set of flags |
| Named screen sessions | `APP/session/mod.rs`, `APP/lib.rs` | `sessions` map | connect, disconnect, list | replaced sessions keep running for a while |
| Clipboard sync | `APP/clipboard_sync.rs`, `clipboard.rs`, `clipboard_watch.rs` | loop guard, watcher | watch, broadcast, apply, relay | echoes and loops |
| IME composition | `APP/ime_mode.rs`, `ime_capture.rs`, `key_class.rs` | mode, pass-through, capture window | toggle, compose, suspend | keys that go to the IME while their key-ups go to the peer |
| Wire protocol | `protocol.rs`, `APP/session/wire.rs` | line buffer, outbound batch | encode, decode, coalesce | order and size limits |
| Screen geometry | `geometry.rs`, `screen_space.rs`, `layout_graph.rs` | none (pure) | map, clamp, cross | edges, rounding, rectangles that do not tile |
| Motion pacing, UDP motion | `core/src/motion.rs`, `net/src/motion.rs` | gate, sequence number | admit, coalesce | wrap-around, zero intervals |

What each component must get right:

- **Inbound sessions**: newest controller wins and the older one leaves; whatever
  a controller pressed comes up however its session ends; a controller that dies
  in mid-press is noticed; the status settles; an emergency reset ends the
  sessions it was pressed for and no later one.
- **1:1 connection**: after any overlap of connects, disconnects and faults the
  newest supervisor is the one connected; superseded ones go away; the slot does
  not offer a finished session; a disconnect lasts; delays grow while dials fail.
- **Hook forwarding**: one hook, reachable by stop and failsafe; no key stuck on
  the peer or locally; local input comes back by itself when its engine dies.
- **Seamless engine, router**: the cursor is on exactly one screen; a switch
  releases on the screen it leaves what is held there; a lost link gives local
  control back; the slot the hooks send to belongs to the screen that is active.
- **Legacy capture**: what one engine starts no other stops by accident.
- **Named sessions**: a replaced session ends; the list tells which links are up.
- **Clipboard**: one copy is applied once on every machine and never echoes.
- **IME**: every key whose key-down reached the peer has its key-up sent there,
  and every other key-up stays here, across mode switches and composition.
- **Wire**: coalescing changes neither the last pointer position nor the order of
  pointer moves and clicks; sizes are bounded.
- **Geometry and motion**: mapping stays on a screen, a link is made both ways, a
  push through an edge needs dwell or strength, sequence numbers survive wrap-around.

Interaction: the user's commands and the engines share `AppState`, a bag of
atomics and mutexes; sessions are reached through sender slots (`controller_tx`,
`receiver_tx`, one per named session) whose ownership is by last writer; hook
threads feed whatever sender is in the slot; the receiver injects what arrives.
Nothing joins a task or a thread, so stopping is asking, and starting anew
overlaps with what was asked to stop.  That is where the hard behaviour is, and
where the models put one action per access to shared state.

## Modules

Each `M.tla` is the model, `MCM.tla` adds what only TLC needs (symmetry sets),
`M_proofs.tla` holds the theorems.  Definitions marked "Mutant" in a comment are
plausible bugs of the code; no behaviour of the specification uses them.

### ReceiverSession

`mod.rs` 28-160 and `receiver.rs` 28-620 on the controlled machine.

| State | Code |
|---|---|
| `listening`, `active_cancel` | `receiver_running`; the cancel sender the accept loop holds |
| `receiver_tx`, `receiver_abort`, `connected` | the shared slot, flag and snapshot |
| `phase[s]`, `cancelled[s]`, `outbound[s]` | where the task of connection `s` is, its cancel receiver, its channel |
| `accepted[s]`, `heartbeat[s]`, `held[s]` | locals of the task: handshake verdict, watchdog, `held_keys` and `held_buttons` together |
| `osDown`, `upFailed` | what Windows sees as down; which releases `SendInput` refused |

A task is a loop around one `tokio::select!`; each arm is an action (`Recv...` per
kind of message, `WriteOutbound`, `OutboundClosed`, the three `Failsafe...` checks of the
tick in their order, `Displaced`), and the exit path is three (`DropOutbound`,
`ReleaseHeld`, `Finish`) because other threads come in between.  Messages that
hold nothing down (pointer, wheel, text, clipboard, layout) are one action.
Peers send anything at any time, close, or vanish without a FIN.  Time is the one
bit the code compares: a heartbeat younger or older than `HEARTBEAT_STALE`.
The machine is assumed not to be a controller at the same moment, so the
snapshot's role stays "receiver".

### ControllerSupervisor

`mod.rs` 164-234 and `controller.rs` 23-148, 163-498 on the controlling machine.
Calls and supervisors are named by the generation they took.  `sup[g]` is where
supervisor `g` is in its loop (`check`, `publish`, `dial`, `session`, `clear`,
`recheck`, `sleep`); `controller_tx` is the shared slot, where a sender is named
by its supervisor, or `Dead` once its receiver is gone; `served[p]` is the
connection peer `p` serves, by the newest-wins rule of ReceiverSession; `clone` is the
sender a legacy capture may hold.  `late` is a history variable.  Connect and
disconnect are several actions each, because nothing keeps two calls apart.
Elapsed time is whether an attempt lasted `HEALTHY_SESSION_SECS`; delays are the
code's own numbers.

### HookForwarding

`forwarding.rs` 27-294, 305-545, 756-868, `keyboard_hook.rs` and `mouse_hook.rs`.  The keyboard and
the mouse have a twin each; `twin` says which one a behaviour is about.  `pc[g]` is where start `g`
and its thread are; `hook` is the handle slot, `event_sender` the hook's global
sender, `lost` whether Windows removed the hook silently; `queue`, `pressed`,
`missed` and `marker` are the thread's channel, tracker and health check.  `phys`,
`localDown` and `remoteDown` are the user's fingers, what local applications see,
and what the peer sees.  `gap` is a history variable: keys that went down locally
in the moments before a hook came in.  Dropping a handle joins its pump, so it is
one step; everything else that touches shared state is a step of its own.
The 3 s of `STALE_ACTIVE_TARGET_STOP` and the 2 s between health checks may have passed at
any look at the clock.  Every key is forwarded physically: characters and IME
routing (lines 572-765) are ImeComposition's; the 2 s ready timeout of a hook's start is left out.

`KeyService` is what the keyboard twin promises whoever starts and stops it, over three
variables: where each thread is (unborn, on, told to stop, draining, gone), what it has pressed,
what the peer has down.  One thread is on at a time; one that was told to stop may forward the one event it
was waiting for, and is never on again; none is gone before it has released what
it pressed.  These are the threads ControlEngine builds on.  The keyboard twin
implements it (`KeepsKeyPromise`) with `Stage(g)` saying where a start is: on while it
`Continues`, told to stop while it waits for an event (or reinstalls its hook first), draining from
the moment its next look ends it.  The mouse twin does not, because a new
start revives a thread that was told to stop and has not looked since; for it
`RemoteKeyHasOwner` says that nothing stays down.

### ControlEngine

`router.rs`, `seamless.rs` and `legacy_capture.rs`: three engines that are one loop
three times, so one module, and `engine` says which one a behaviour is about.  It
composes what the two modules above promise: sessions as their sender slots, hooks as
one twin's threads in the stages of `KeyService`.

| State | Code |
|---|---|
| `running`, `space` | `router_running` or `capture_running`; `router_space`, for the others the one peer |
| `pc[t]`, `active[t]`, `armed[t]` | engine thread `t`: its place in the loop; `active` / `remote_active`; whether `link_down_since` is set |
| `slot[t]` | the router's `active_slot`, or the sender the legacy capture cloned when it started; the seamless capture uses the session's own slot |
| `confined` | the `ClipCursor` region |
| `wanted[s]`, `tx[s]`, `live` | a named session's `should_run` and sender slot (for the one-to-one engines `controller_tx`); the channels behind which a session runs |
| `fwd[h]`, `owner[h]`, `pressed[h]` | a forwarding thread: on, told to stop, draining or gone; whose target it sends to; its tracker |
| `keysDown[c]` | what the peer of session `c` has down for it |
| `screen`, `panicked`, `stranded` | history: whom a channel was opened for, which bounds the connects; whether a one-to-one engine was reset while in control and not started since; keys that were down on a session when its sender left the slot |

A round of the loop is one step up to the first call that changes shared state: taking the
slot and going home (`Cross`, `ComeHome`) comes before the hooks are started or stopped (`Hook`,
`Unhook`), and the exit path is two steps (`ExitFlag`, `Clean`), because stops, starts and
hook threads come in between.  Two threads overlap because a start needs only the
flag, which a stop clears before the thread has left.  Where the cursor is and which edge it is
pushed through decide when control may move; here it may at any look.
`remote_control.active` is left out: it only narrows when the legacy
capture's peer may end it.  Mirror mode (`remote_mode = false`) installs no hooks and is left out.

`LocalInput` is what the engines promise the user of this machine: a thread takes control of a peer
before it takes input away, at most one thread has the hooks, and who gives
control up gives all of the input back in the same step, whoever had taken it; input may be
given back earlier, and is never taken by a thread that is not in control.  ControlEngine
implements it (`GivesInputBack`): the controllers are the threads that control a screen or
are about to give it up, the suppressor is the thread to which the hook that is on belongs.
`SuppressionHasOwner` is what follows for a single state.

### ImeComposition

`forwarding.rs` 361-451, 572-837 with `ime_mode.rs`, `key_class.rs`, `ime_capture.rs` 215-385, 559-599 and
the pass-through flag of `keyboard_hook.rs`: the part of a keyboard forwarding thread that HookForwarding
leaves out.

| State | Code |
|---|---|
| `generation`, `hook_running`, `hook` | `KEYBOARD_HOOK_GENERATION`, the flag, whose channel the installed hook feeds |
| `passthrough`, `composing`, `sender` | the process-wide `PASSTHROUGH`, `COMPOSING`, `COMMIT_SENDER` |
| `pc[t]`, `events[t]`, `ime_mode[t]`, `modifiers[t]`, `toggle_held[t]`, `pressed[t]` | thread `t`: its place, channel and locals |
| `window[t]` | its capture window's thread: none, starting, open |
| `phys`, `peer` | the user's fingers, what the peer sees as down |
| `swallowed`, `dropped`, `meddled` | history: tracked keys whose key-up was left to the IME; tracked toggle keys whose key-up the loop dropped; a superseded thread wrote the flag |

A key is a command modifier, a control key, a letter or a toggle; whether a letter has a text or is a
dead key is open at every press.  `Forward` and `NotForwarded` are the two outcomes of the routing,
`ToggleOn`, `Entered`, `EntryFails`, `EntryTimesOut`, `Abandoned` the ways into the mode, `ToggleOff` and
`Closed` the way out.  A start and a stop are one step here, the hook is never lost and
the target stays live.

### ClipboardSync

`clipboard_sync.rs`, the loop guard of `clipboard.rs`, `clipboard_watch.rs`, and the two handlers that apply a
peer's clipboard (`controller.rs` 271-310, `receiver.rs` 333-389), on a hub and its clients.

| State | Code |
|---|---|
| `clipboard[n]`, `last_hash[n]` | Windows' clipboard and `ClipboardLoopGuard` of machine `n` |
| `sync[n]`, `signals[n]`, `reading[n]` | `clipboard_sync_running`; signals not yet taken; what the watcher has read |
| `old[n][w]`, `hand[h]` | a watcher that was switched off and is still at work, with the signals left to it; what a send by hand has read and not yet checked |
| `channel[e]`, `handler[e]` | messages on their way to an end of a connection, and what the task there is doing |
| `author`, `expected`, `missed`, `history` | history: who made a copy, who should hold it, whose guard may have lost its clipboard, whether copies raced or something was lost |

The user copies (`Copy`); the watcher reads (`WatchReads`) or misses the change (`WatchMisses`), and asks the
guard (`WatchSends`); a message is marked, set and, on the hub, relayed (`Marks`, `Sets`, `Relays`), in
three steps because other tasks share guard and clipboard; a set may fail (`SetFails`), a connection
break (`Breaks`).  A send by hand reads the clipboard (`HandReads`) and only then locks the guard and asks it
(`HandSends`), with anything in between.  Switching sync off drops the window and does not wait for
the watcher: it becomes one of `old`, may yet take a signal (`OldReads`) or leave it (`OldDrops`), and
finishes what it has read (`OldSends`), also beside the watcher of a sync switched on again.  A content
is the number of the copy that made it.

`missed` names the machines of which `GuardMatches` says nothing: the last change of their
clipboard was not looked at, a set or a read failed, or one who had read before asked the guard
(`Overtakes`) when the clipboard had changed since.  A machine leaves `missed` when its watcher next reads.

### ScreenSpace, PointerPath, PointerStream

`ScreenSpace` has no state: rectangles and links of `screen_space.rs` and `layout_graph.rs`, and how a
cursor moves, crosses and is clamped.  Where the code rounds in floating point an operator is the
set of the values either rounding gives.

`CombinedSpace` has no state either: the older space of two screens (`screen_space.rs` 88-325) that
the seamless capture moves its cursor in (`seamless.rs` 368-411, 487-514), translated beside
ScreenSpace and not from it.  `LayoutOf` is the same two screens as a layout of one link, and
`SpacesAgree` compares a move in both; `RoundsCorner` names the moves on which they differ.
`ScreenSpace_proofs` says so for all screens, and an `ASSUME` of `MCPointerPath` lets TLC say it
of four small ones.

`PointerPath` follows a pointer from the router's loop (`router.rs` 250-482, 566-652) to the injection
on the screen it controls: `Leave`, `SendEntry`, `Move`, `LinkLost`, `ScreenRemoved`, `Reconfigure` are
the router's, `Click` the mouse hook's thread, `Collect`, `FindsNoMore` and `Write` a session's writer
(`controller.rs` 384-418 with `push_coalesced` of `wire.rs`), `Inject` and `Refuse` the receiver's,
`ScreenInfo` the session's.  `queue`, `batch` and `wire` are the three places where a
message of a session may be; `slot` is `active_slot`, `cursor` the virtual cursor.  A crossing is two steps,
because the slot is swapped before the entry position is sent.

A remote may have several sessions.  `tx[s]` is the sender that positions are sent to, looked up at
every use; `slot` is the copy that buttons are sent to, made at the last crossing; `live` are the sessions that
run.  `Disconnect` (`lib.rs` 522-539, and `session/mod.rs` 316-322 for a name that is connected again) empties
`tx` and nothing else: as long as the router's copy is in `slot`, the old session runs on, and buttons
go through it while positions go nowhere or, after `Opens`, to the new one.  A session ends when its link
breaks (`Breaks`, 370-382), when nobody has its sender (`Closes`, 440-445), or when the receiver
has accepted a newer one (`Displaced`, `receiver.rs` 163-170); `TakesBack` is the supervisor emptying `tx`
afterwards.  What it had written may still be injected, or be lost (`Drops`).  `gap` is a history
variable: the cursor's position could not be sent, was lost or refused, or a session `tx` no longer has put
the pointer elsewhere.

`PointerStream` is what this promises, in five actions: a connection opens; messages are sent to its
stream (`Send`), from which a position may be left out when another follows it directly (`Overtake`) and
which is applied in order (`Apply`); when it ends, the end of the stream is lost (`Cut`).  Two
connections of one machine have no order between them: that is what the code gives.  `PointerPath`
implements it with `pending[c]` being `wire[c]`, `batch[c]` and `queue[c]` put end to end (`Flow`).

## Runs

| Run | Bounds | What it shows |
|---|---|---|
| `receiver_safety` | 2 connections, 1 input, 1 queued outbound message | no interleaving of accepts, displacement, failsafes, listener restarts and exits leaves a stuck or unwatched input, two undisplaced sessions, or a session killed by an older reset |
| `receiver_liveness` | the same, no queued messages | displaced sessions end; a press of a controller that died is released; a reset ends the sessions it was pressed for |
| `receiver_newest` | the same | expected violation: see Divergences |
| `supervisor` | 2 connects, 2 peers, 1 fault, a capture | the slot never offers a finished session; an unwanted supervisor begins at most one attempt; the newest ends up served; a session whose sender left the slot ends, unless a capture has a clone |
| `hooks_safety` | keyboard, 2 starts, 1 key, 1 queued event, 1 lost hook | the slot holds the installed hook; the twin implements `KeyService`, so that nothing is stuck on the peer; no key is stuck locally but in `gap` |
| `hooks_liveness` | both twins, 2 starts, 1 lost hook, events but no keys | after a stop, a failsafe or the loss of the engine local input comes back |
| `engines_safety` | all 3 engines, 1 screen, 1 key, 2 threads, 1 session, 2 hook threads | the engines implement `LocalInput`: local input is suppressed and the cursor confined only while a thread controls a screen or is about to give them up, and who gives control up gives both back; no key stays down on a live session but by a change of the router's slot or the seamless capture's |
| `engines_liveness` | all 3 engines, 2 screens, 1 key, 1 thread, 1 session, 1 hook thread | a stop gives local input back; a dead link loses control; a disconnected session ends; an emergency reset ends control by the one-to-one engines |
| `engine_keys` | the router, 1 of each | expected violation: see Divergences |
| `ime` | Ctrl, a letter, the toggle; 2 starts, 1 queued event, 3 presses or changes of the setting | mode, window and pass-through agree whatever fails or times out; the end of a thread leaves no window and no taken slot; a key stays down on the peer only if its key-up was left to the IME, or was a toggle key's and the setting came on while it was held |
| `clipboard` | hub, one named and one 1:1 client, all syncing; 3 acts or faults, 3 sends, 2 queued messages, 1 send by hand at a time, 1 switched-off watcher per machine | the guard follows the clipboard but where the code leaves it behind (`missed`); a copy reaches all it is meant for; nobody sends back what it was sent; everything comes to rest |
| `pointer` | local screen with negative coordinates, a remote with a missing corner, another remote; 2 sessions of the first and 1 of the second; 2 layouts; 2 moves, 1 click, 2 faults, 2 queued | the cursor stays on its screens; each session implements `PointerStream`; a button that went the way of the positions lands where the cursor was; a resting pointer catches up |

Why the bounds are enough: what can go wrong between sessions, supervisors or
starts goes wrong between an older and a newer one, so two of each; inputs and
keys do not interact, so one stands for each; one queued message separates an
empty channel from one with something in it; two peers separate "another
connection to the same machine" from "to another machine".  With the
clipboard, a hub with a client of each kind has every path there is (broadcast, relay,
1:1), three acts are a copy, a second one and a fault, a switch or a send by hand between them, and one
slow reader is enough to be overtaken.  With
the IME, three presses are a modifier, a letter and a toggle, in any order and with
auto-repeat.  With the pointer, two moves are a crossing and a position on the
screen (two positions are what coalescing needs), another crossing, or a return; two faults are a
disconnect and a refusal, a broken link and a reconfiguration, and the like; two sessions
of a remote separate the one buttons go through from the one positions go through; the deltas
leave each screen at a side and at a corner.  For the engines, two threads
and two hook threads separate "mine" from "my successor's", which safety needs;
the liveness properties are about one thread and its screens, and need a second screen
for switches and reconfigurations.

`TypeOK` is each module's type invariant.  Deadlock is checked in the runs of the first four
modules: those systems never stop, since a reset, a disconnect or a stop is always possible.
In `ime`, `clipboard` and `pointer` what the user does is bounded, and the model stops when that is
used up and everything has been delivered.

## Fairness

- *ReceiverSession*: weak fairness of what the machine does for a session by itself
  (`Progress`): a spawned task is polled, the 50 ms interval keeps ticking and `select!` picks
  a ready arm in the end, and the exit path is straight-line code.  A write to a dead
  peer returns within `WIRE_WRITE_TIMEOUT`, so it delays those steps and does not prevent
  them.  Time passes for a peer that has vanished.  Peers, user and listener are
  not fair.
- *ControllerSupervisor*: weak fairness of a command that has begun and of each
  supervisor, including the return of its dial (`TcpStream::connect` has the operating
  system's own timeout) and its noticing a closed channel or stream.  Commands,
  captures and faults are not fair.
- *ControlEngine*: weak fairness of what a thread does by itself (`Starting`, `Loop`): it paces at
  8 to 100 ms and never blocks.  What it does for the user (`Led`: crossing, moving, returning)
  is not fair.  Strong fairness of `LinkLost`: a timer that stays armed is found expired by
  some look, though looks come in between.  Weak fairness of a forwarding thread that has been told to stop,
  which looks at the flag at least every 100 ms, and of its draining,
  of a supervisor clearing a slot after its session, and of a session noticing that
  its channel has closed.  User, commands, peers and links are not fair.
- *HookForwarding*: weak fairness of the second half of a stop, and of each started
  thread; strong fairness of `StaleStop`, because its condition is looked at in every
  round of the loop, and an absence that lasts is longer than 3 s in some round.
  The user, Windows and the target are not fair.

- *ClipboardSync*: weak fairness of each watcher thread, of each session task's handling of
  what it received, and of the second half of a send by hand, which is straight-line code.  A watcher that
  was switched off, user, failures and broken connections are not fair.
- *PointerPath*: weak fairness of the second half of a crossing, of each session's writer and
  of each receiver's injection.  User, faults and the return of a session are not fair.
- *ImeComposition* has safety properties only.

## Proofs

All theorems hold for every value of the constants; the only assumptions are the
named ones of the modules (bounds are numbers, `None` is not an identifier).

| Theorem | States | Argument |
|---|---|---|
| `ReceiverSession_proofs!TypeCorrect` | `TypeOK` | inductive |
| `...!InputIsWatched` | `HeldInputIsWatched` | with `AcceptedIsArmed`: a session that has accepted a Hello has its watchdog armed, which the property alone does not remember while nothing is held |
| `...!NoStuckInput` | `StuckInputHasOwner` | with the above: a task that has not run or has returned holds nothing |
| `...!OneUndisplacedSession` | `NewestWins` | inductive: accepting signals the one session not yet told to stop |
| `...!AbortIsNeverStale` | `AbortSparesLaterSessions` | from `AbortIsMeant`: while the flag is set every running session saw it set, since a starting one clears it |
| `...!SlotIsTakenByDisplaced` | `OnlyDisplacedTakeOutbound` | with `SlotWriters` and `NewestWins`: only a handler's start and its exit write the slot, and whoever starts or exits next to the newest session was told to stop |
| `...!StatusSettles` | `IdleMeansDisconnected` | inductive: only running sessions set the status |
| `ControllerSupervisor_proofs!TypeCorrect` | `TypeOK` | with `BackoffRange`: delays stay in 1..10 |
| `...!LiveSlot` | `SlotIsLive` | with `SpawnedOnce`: a supervisor exists only after its call |
| `...!FewLateAttempts` | `AtMostOneLateAttempt` | from `LateIsLeaving`: one that began an attempt unwanted stays unwanted, because the generation is bumped before `should_run` is set, and leaves at its next look |
| `...!BackoffFollowsPolicy` | `BackoffPolicy`: after an attempt of less than 15 s the delay is twice the last, at most 10 s; after any other, also a dial slow to fail, 1 s | from `Inherits`: the delay handed to the next attempt is the last one chosen, doubled |
| `HookForwarding_proofs!TypeCorrect` | `TypeOK` | the watchdog never counts past its second miss |
| `...!SlotOwnsHook` | `SlotHoldsTheHook` | with `CarriedHookIsTheOnlyOne`: while a start or a watchdog carries a new hook to the slot, the slot stays empty |
| `...!NoStuckRemoteKey` | `RemoteKeyHasOwner` | with `RemoteKeysTracked`: a peer without a session holds nothing, and a start that may yet fail has pressed nothing |
| `...!KeyboardKeepsPromise` | `KeepsKeyPromise` | refinement, for the keyboard twin: a thread that does not move stays in its stage or is told to stop (`StillMayHalt`); none that was told to stop continues unless there is a new start (`NoneRevived`), and a new start is of a generation no thread has (`Born`); an absent peer holds nothing (`RemoteKeysTracked`), so a release that is dropped has nothing to release |
| `...!NoStuckLocalKey` | `LocalKeysComeUp` | from `LocalKeysShielded`: as long as a hook is in, or a thread may still install one, every key that local applications hold is pre-held or in `gap`; and no start revives an older thread, because its generation is new |
| `ControlEngine_proofs!TypeCorrect` | `TypeOK` | inductive |
| `...!SuppressionIsOwned` | `SuppressionHasOwner` | from `OwnedSuppression`: a thread that is about to start the hooks has a screen to control, and hooks belong to a thread. What gives control up gives everything up, whoever it belongs to |
| `...!EnginesGiveInputBack` | `GivesInputBack` | refinement: with `OwnedSuppression`, and `OneHookOn`, that no second hook is on, since a start of the hooks is refused while one is |
| `...!KeysAreTraced` | `OnlySlotChangesStrandKeys` | with `KeysNeedSession` (a closed session has nothing down), `HooksFollowStart` (a thread that may still get its sender has no hooks) and `HomeSlotEmpty` (crossing fills a slot that was empty) |
| `ClipboardSync_proofs!TypeCorrect` | `TypeOK` | inductive |
| `...!GuardCorrect` | `GuardMatches` | by cases on what is still to be done at a machine: while a handler has marked and not set, or a signal is not taken, the machine is not still; the step that ends that leaves guard and clipboard equal, or is one that puts the machine in `missed`: a reader that asks the guard about what has been replaced |
| `...!NeverEchoes` | `NoEcho` | from `WaveInv`, below |
| `...!CopiesConverge` | `Converged` | from `SpreadInv`, below |
| `ImeComposition_proofs!TypeCorrect` | `TypeOK` | inductive |
| `...!WindowFollowsMode`, `...!CaptureIsOwned` | `WindowIffOn`, `CaptureHasOwner` | from `WindowsFit`: on the way in the mode is still off, at the end of a thread there is no window, and a slot that is taken has a window behind it |
| `...!PassThroughFollowsMode` | `PassThroughIffOn` | from `FlagFits`, which says it of the current generation already while its window is being made |
| `...!KeyUpsAreAccountedFor` | `KeyUpsAccounted` | from `KeysTraced`: the hook feeds the thread that goes on and no other, and a key-down on its channel is of a key still held or has its key-up behind it, so that a thread never presses a key whose release it has missed |
| `ScreenSpace_proofs!CombinedAgrees` | the two spaces agree on a move if and only if it does not round a corner | the layout has one neighbour, across the joined edge (`NeighbourIsOther`); entering by it is the same (`EntriesAgree`), possible (`EntriesExist`), and differs from staying |
| `...!SideBySideAgrees` | screens side by side: they agree on every move | right and left come first in the order of edges, so the joined edge is taken when it is passed |
| `...!SeamlessStaysOnScreen` | a move of the seamless capture ends on a screen or a monitor | entering and clamping end inside, when the screens are larger than the inset |
| `...!EntryDoesNotBounce` | after an entry a move of up to the inset does not return | clamping to a monitor of the screen keeps the distance to its edges (`ClampKeepsInset`) |
| `PointerPath_proofs!TypeCorrect` | `TypeOK` | from lemmas on the geometry: clamping ends on the rectangle or the monitor, entering ends inside the neighbour, so the cursor stays in the places of its screen |
| `...!PathImplementsStream` | `Spec => Implements` | refinement: every step opens a session, adds a message to the end of its stream, takes one from the front, cuts off the end when the session ends, leaves a position out before another (`CollectCoalesces`), or leaves it as it is, since moving a message from the queue to the batch or to the wire changes no concatenation |
| `...!ButtonsAlwaysLand` | `ButtonsLand` | with `InPlace`, below |

Some theorems state properties that no run checks any more: `StatusSettles`, `BackoffFollowsPolicy` and
`SlotIsTakenByDisplaced`, to keep the runs short; `SuppressionIsOwned` and `NoStuckRemoteKey`, because
`GivesInputBack` and `KeepsKeyPromise` say more.  `SlotOwnsHook` and `NoStuckRemoteKey` cover the mouse
twin too, which `hooks_safety` leaves out.
`KeysAreTraced` says that, apart from the two ways `stranded` records, keys come up by
themselves; it is the other half of the divergence `engine_keys`.

`ButtonsLand` looks at one moment, when a button is at the head of the wire, and is not
inductive.  `InPlace` says it of the whole stream of each session: every button with a place
directly follows a message for that place, and the first finds the pointer there, unless another session
of the machine put it elsewhere or the last position was refused (`Held`, `Landing`); and while buttons
and positions go the same way (`Together`), the stream ends where the router's cursor is
(`UpToDate`).  Sending a position, sending a button, leaving out an overtaken position, taking the
first message and cutting off the end each keep it; because `PathImplementsStream` has already
reduced the steps of the path to these, the proof is about streams and not about queues.  That a
session that has ended has nothing queued (`Emptied`) is what lets it be opened anew.

`Converged` looks at the moment when nothing is on its way, and `NoEcho` at the moment
when a watcher sends; neither says why the machines in between are in order.  `WaveInv` does, for as long
as the user waits for one copy to spread before the next act: then all that is on its way, in
channels, handlers and what watchers have read, is one content `w`, and a watcher that finds `w` new to its
guard is the author's, because everybody else's handler has marked it before setting it.
`SpreadInv` adds, for as long as nothing is lost, who still has to get it: whoever does not hold what it
should is expecting `w` (`Due`), and `w` is on a message or in a handler that leads to it or in the
hands of the author's watcher, who has everybody yet to reach (`Aimed`, `Leads`, `Shown`).  A handler
that has set and not yet relayed is the hub's (`OnlyHubRelays`).  TLC checked both as invariants
(on three machines, each kind of client once, and on two named clients) before they were proved; no run keeps them.

All safety and action properties of the passing runs are proved.  Only model-checked are the
liveness properties, which are out of this prover's reach, and what `MCPointerPath` assumes of
four small screens, which is proved for all screens.

## Divergences

Kept as runs, each with a counterexample TLC finds:

- `receiver_newest`: a displaced handler takes the outbound slot that the newest one has filled, which
  closes the newest session's channel and ends it.  In the trace TLC finds the listener accepts `s1` and then
  `s2`, the handler of `s2` starts first and publishes its sender, and the handler of `s1`, already told to stop,
  starts late and overwrites it (`receiver.rs` 54-57): no handler looks whose sender is there.  A displaced
  handler's exit, which empties the slot in the same way (595), is the second way; the trace does not need it.
  `OnlyDisplacedTakeOutbound` says that there is no third.
  It also means that `AbortEndsControl` holds partly by luck: one abort flag is
  consumed by one of two overlapping handlers, and the other ends because the slot was taken from it
  or because it was displaced.
- `engine_keys`: the router empties its slot before it stops the hooks (`router.rs` 404-412; 234-240,
  368-374 and the switch at 430 likewise), where the design (`docs/multi-client-runtime-design.md`
  161) wants the releases sent first.  The key held at that moment stays down on the
  peer until its session ends.  `OnlySlotChangesStrandKeys` says that nothing else does that.

Met while modelling, and not kept as runs:

- `emergency_reset_all` ("stop every forwarding path on this machine", `legacy_capture.rs` 638) stops the
  hooks and does not clear `router_running`: the router goes on reading raw input and sending positions.
- A disconnect between a supervisor's check (`controller.rs` 83) and its publishing of a new channel
  is lost: the attempt is dialled and may be served.  `AtMostOneLateAttempt` is the bound on that.
- A forwarding thread that is superseded between `forwarding.rs` 815 and 816-818 clears the
  flag and the hook of its successor.
- A disconnect or a reconnect of the active screen leaves the router's slot with the old session's sender,
  which keeps that session running, while moves resolve the screen's own: see "Pointer and screens".
- A router that ends late stores `router_running = false` and clears the layout (`router.rs` 487-490) of
  the one started since, which ends too.
- The seamless capture's link timer is disarmed by a move and not by a keepalive that was sent
  (`seamless.rs` 553-564): a link that comes back while the pointer rests still loses control after 1.5 s.
- `start_mouse_capture` rewrites `remote_control` (`legacy_capture.rs` 168) before it finds that a capture is
  running: the running legacy capture then ignores its peer's return edge.
- The legacy capture's hooks have a fixed sender, so neither link watchdog nor `StaleStop` applies to it: the
  engine's own move, or a key, has to find the channel closed.
- A legacy capture clones the controller's sender (`legacy_capture.rs` 184), so
  emptying the slot does not end the session as `mod.rs` 225 says; with a second
  connect, the older session can stay and keep the slot.  The liveness properties
  say so.
- A supervisor that is dialling is not interrupted by the next connect: for a while two
  supervisors dial the same peer (`mod.rs` 187-191 says that they do not).
- The backoff's clock starts before the dial (`controller.rs` 89), so a dial that takes 15 s
  to fail counts as a healthy session and the next delay is 1 s again.
- Two connect calls and a disconnect that overlap can leave `should_run` set with no
  supervisor.
- While a supervisor dials an address that does not answer, the slot holds a sender:
  the link looks up to `list_screens` and the router.
- A keyboard start that fails because the old hook is still registered has already
  taken a generation (`forwarding.rs` 330): the old thread, superseded, leaves its hook in
  place, and further starts are refused until a stop empties the slot.
- A key pressed between the snapshot of held keys (`forwarding.rs` 340) and the installation of the
  hook is never released locally; a reinstalled hook (line 496) takes no
  snapshot.  `LocalKeysComeUp` carries the exception as `gap`.  A stop that overlaps a start
  empties the slot of the new hook while its thread goes on: if events are queued, the thread's
  watchdog installs another hook instead of leaving, again without a snapshot.  The mouse hook has no record
  of buttons held before it.
- A mouse loop that finds its channel disconnected (`forwarding.rs` 208) leaves its flag set, for
  instance after a stopped predecessor's unconditional uninstall (248): every
  later start reports success and does nothing, until an explicit stop.

IME composition:

- With the mode on: Ctrl down, C down, Ctrl up, C up.  C went down on the peer as a
  shortcut; its key-up is routed as a letter, left to the IME and never sent, until the next
  release of all keys (`forwarding.rs` 717-724).  The same happens when a composition opens and closes
  between two heads of the loop.  `swallowed` names these keys.
- With the setting off (`set_resolve_characters`) a toggle key goes to the peer like any other.  Switched on
  while the key is held, the loop takes its key-up for the toggle's and drops it (`forwarding.rs` 702-706): no
  IME is involved, and the key stays down on the peer until all keys are released.  `dropped`
  names these keys, and `KeyUpsAccounted` says that there are no others than these two kinds.
- A superseded thread that finishes `start_ime_capture` sets `PASSTHROUGH` for its successor (653), which starts
  with "Never inherit pass-through" (403).  `meddled` records it.
- A key pressed in pass-through and released after it is off has its key-up suppressed locally.
- Committed text is drained at the head of the loop only (427-434), so that an Enter pressed after a commit
  may reach the peer before the text.
- Letters typed while the window is being made are lost; Space in the armed mode goes both to the peer and
  to the window.
- When a window's start is given up, the second clearing of the sender slot (`ime_capture.rs` 382)
  may clear the slot another thread has filled since.

Clipboard:

- Two machines that copy before the other's copy has arrived swap contents, and each then takes
  what it holds for news of the other's: the two contents circulate, where the guard
  "prevents infinite clipboard sync echo loops" (`clipboard.rs` 50).  Hence "unless copies race".
- A send by hand before the watcher has run remembers the hash, and the watcher then
  sends the copy to nobody else.
- The guard remembers what it lets through even if nothing could be sent, so a second
  attempt says "unchanged since last send".
- A send by hand reads the clipboard and only later asks the guard (`clipboard_sync.rs` 315-330), and the
  watcher of a sync that was switched off is not waited for (181-192): either may remember a
  content that a peer's has replaced in between, so that guard and clipboard differ at rest and
  the next signal is taken for a new copy.  `missed` records it (`Overtakes`).
- A set that fails after the mark leaves guard and clipboard apart; a change whose `OpenClipboard` fails is
  not looked at again.
- "Hub relay: forward to the other screens so all clients stay in sync" (`controller.rs` 280-281): the relay goes to
  named sessions only, so a 1:1 client does not get a named client's copy.  `expected` follows the code.
- Overlapping commands that switch sync on and off may leave the watch window behind with the flag off.

Pointer and screens:

- The slot is swapped before the entry position is sent (`router.rs` 327-341, 430-438): a button pressed in
  between arrives first and lands where the remote's pointer was.  `Nowhere` marks such a button.
- The slot is filled at a crossing only, although "`Active` resolves the current target at send time"
  (`forwarding.rs` 22-25).  After the active screen was disconnected, buttons go through the old session, which
  the slot keeps alive, for up to `LINK_LOST_RETURN`, while moves reach nobody.  After a quick reconnect
  positions go through the new session and buttons through the old one until that ends or the receiver
  has accepted the new one, and then to none until the next crossing: a button may arrive before a position
  sent earlier, and lands wherever the remote's pointer is.  `PointerStream` promises no order between two
  sessions, and `ButtonsLand` is about buttons sent while slot and `tx` agree.
- After a gap nothing sends the position again; the pointer lags until the next move (`gap`).
- "Generalizes the 2-screen `CombinedSpace`" (`layout_graph.rs` 61-62) is not so at corners: an edge is chosen
  in the order right, left, top, bottom, and a diagonal move past an unlinked right edge and a
  linked top edge is clamped.  `CombinedAgrees` says that these are the only moves on which they
  differ, and `SideBySideAgrees` that screens side by side have none.
- Relinking an edge leaves the old neighbour's link back in place, so neighbours need not be symmetric.
- On a screen of several monitors a slow move is put back on the monitor it leaves when the
  monitors do not touch there, and does not get across.
- `screen_sizes` is keyed by the name a peer gives itself and looked up by the screen's name.

## Not modelled

Named per component in `PROJECT.json`, and in short:

- `core/geometry.rs`, which looks for the edge a real cursor presses; `SwitchGuard` and `PushGate`,
  which hold a crossing back for a while: in the models a crossing may be held back, or
  happen, at any look.
- `CombinedSpace` on an empty screen, where `clamp` panics and `map_ratio` divides by zero.  The theorems
  assume screens larger than the inset.
- The UDP motion prototype (`net/src/motion.rs`): only its tests use it.
- Relative moves and the wheel in the writer's coalescing; they are added up, hold
  nothing down and have no place.
- The texts the IME commits, the conversion keys, the place of the capture window and
  the IME state it saves and restores.
- Text and image as different clipboard formats, their size limits and base64; two calls of
  `set_clipboard_sync` that overlap.
- Connecting a screen's name to another machine while the old session still runs.
- Mirror mode of the legacy capture and the raw-input diagnostic.
- Rendering and forms of the web interface, tray and windows, settings files, the
  Tailscale lookup, firewall rules, Win32 calls without state of their own (their
  outcomes are nondeterministic choices where they are used), encoding by serde, build scripts.

## Plan

Done: the modules above, `PointerStream`, `LocalInput` and `KeyService` as what they promise, and the
proofs.  What is left, in this order:

1. ControlEngine's forwarding threads shown to be those of `KeyService`, seen from the engine's
   side, so that the two promises compose.
2. Two hubs that are each other's clients in ClipboardSync; today's instance has one hub.
3. The hazards listed without a property in `PROJECT.json`: most are divergences whose
   property would be false, and want a statement of what does hold.
