--------------------------- MODULE ReceiverSession ---------------------------
(***************************************************************************)
(* The controlled machine: the TCP listener that accepts controllers       *)
(* (session/mod.rs, start_tcp_receiver) and the task it spawns for each    *)
(* connection (session/receiver.rs, handle_receiver_stream).               *)
(*                                                                         *)
(* Handlers share receiver_tx, receiver_abort, the status snapshot and the *)
(* keyboard and mouse of the machine; each keeps its own tracker of what   *)
(* its controller holds down.  A handler is a loop around one              *)
(* tokio::select!, so a step below is one arm of that select, and any arm  *)
(* that is ready may be the one taken.  A handler that is blocked in a     *)
(* write (at most WIRE_WRITE_TIMEOUT) is one that takes no step.           *)
(*                                                                         *)
(* Peers are environment: they send any message at any time, close the     *)
(* connection, or vanish without a FIN.  Time is abstracted to the one bit *)
(* the code compares: a heartbeat is younger or older than HEARTBEAT_STALE.*)
(* The machine is not a controller at the same time, so the snapshot's role *)
(* stays "receiver".                                                       *)
(***************************************************************************)
EXTENDS Naturals

CONSTANTS
  Sessions,   \* the connections ever accepted, one handler task each
  Inputs,     \* the keys and mouse buttons a controller can press
  None,       \* the empty value of an Option
  MaxOutbound \* bound on the queue of the outbound channel (unbounded in the code)

ASSUME SessionsAssumption == None \notin Sessions
ASSUME OutboundAssumption == MaxOutbound \in Nat

VARIABLES
  listening,     \* receiver_running: a listener is accepting
  active_cancel, \* the session whose cancel sender the accept loop holds
  cancelled,     \* the session's cancel_rx is ready: signalled, or its sender dropped
  phase,         \* where the handler task of each session is
  receiver_tx,   \* the session whose outbound sender is in the shared slot
  outbound,      \* messages queued in each session's outbound channel
  receiver_abort,
  connected,     \* the snapshot's "connected"
  accepted,      \* an accepted Hello was read
  heartbeat,     \* last_heartbeat: None, recent, or older than HEARTBEAT_STALE
  held,          \* held_keys and held_buttons of each handler
  osDown,        \* inputs the operating system sees as down
  upFailed,      \* history: inputs whose release SendInput refused
  pressed,       \* history: running sessions an emergency reset was meant for
  vanished       \* peers that died or left the network without a FIN

shared == <<listening, active_cancel, receiver_abort>>
input  == <<held, osDown, upFailed>>
vars == <<listening, active_cancel, cancelled, phase, receiver_tx, outbound,
          receiver_abort, connected, accepted, heartbeat,
          held, osDown, upFailed, pressed, vanished>>

Phases == {"free", "spawned", "running", "leaving", "releasing", "done"}
Running(s) == phase[s] = "running"
Live(s) == phase[s] \notin {"free", "done"}

TypeOK ==
  /\ listening \in BOOLEAN
  /\ active_cancel \in Sessions \cup {None}
  /\ cancelled \in [Sessions -> BOOLEAN]
  /\ phase \in [Sessions -> Phases]
  /\ receiver_tx \in Sessions \cup {None}
  /\ outbound \in [Sessions -> 0 .. MaxOutbound]
  /\ receiver_abort \in BOOLEAN
  /\ connected \in BOOLEAN
  /\ accepted \in [Sessions -> BOOLEAN]
  /\ heartbeat \in [Sessions -> {"unarmed", "recent", "stale"}]
  /\ held \in [Sessions -> SUBSET Inputs]
  /\ osDown \in SUBSET Inputs
  /\ upFailed \in SUBSET Inputs
  /\ pressed \in [Sessions -> BOOLEAN]
  /\ vanished \in [Sessions -> BOOLEAN]

Init ==
  /\ listening = FALSE
  /\ active_cancel = None
  /\ cancelled = [s \in Sessions |-> FALSE]
  /\ phase = [s \in Sessions |-> "free"]
  /\ receiver_tx = None
  /\ outbound = [s \in Sessions |-> 0]
  /\ receiver_abort = FALSE
  /\ connected = FALSE
  /\ accepted = [s \in Sessions |-> FALSE]
  /\ heartbeat = [s \in Sessions |-> "unarmed"]
  /\ held = [s \in Sessions |-> {}]
  /\ osDown = {}
  /\ upFailed = {}
  /\ pressed = [s \in Sessions |-> FALSE]
  /\ vanished = [s \in Sessions |-> FALSE]

-----------------------------------------------------------------------------
(* The listener. *)

\* start_tcp_receiver: receiver_running.swap(true) lets one accept loop run; the
\* task resets the status, then binds, and gives up when it cannot.
StartReceiver ==
  /\ ~listening
  /\ connected' = FALSE
  /\ \E bound \in BOOLEAN : listening' = bound
  /\ UNCHANGED <<active_cancel, receiver_abort, cancelled, phase, receiver_tx,
                 outbound, accepted, heartbeat, input, pressed, vanished>>

\* Mutant: the previous session is not told.
CancelNobody == cancelled' = cancelled

\* Signalling the session whose handler is over is a no-op.
CancelActive ==
  cancelled' = [t \in Sessions |-> cancelled[t] \/ (t = active_cancel /\ Live(t))]

\* A connection is accepted: the previous session is signalled and a handler
\* is spawned for the new one.
Accept(s) ==
  /\ listening
  /\ phase[s] = "free"
  /\ s = CHOOSE t \in Sessions : phase[t] = "free" \* any fresh name will do
  /\ CancelActive
  /\ active_cancel' = s
  /\ phase' = [phase EXCEPT ![s] = "spawned"]
  /\ UNCHANGED <<listening, receiver_abort, receiver_tx,
                 outbound, connected, accepted, heartbeat, input, pressed,
                 vanished>>

\* accept() fails: the loop ends and drops the cancel sender, which makes the
\* session's cancel_rx ready just as a signal does.
AcceptFails ==
  /\ listening
  /\ listening' = FALSE
  /\ CancelActive
  /\ active_cancel' = None
  /\ UNCHANGED <<receiver_abort, phase, receiver_tx, outbound,
                 connected, accepted, heartbeat, input, pressed, vanished>>

-----------------------------------------------------------------------------
(* The handler's loop. *)

\* Mutant: a stale abort is not cleared.
StartWithStaleAbort(s) ==
  /\ phase[s] = "spawned"
  /\ connected' = TRUE
  /\ receiver_tx' = s
  /\ phase' = [phase EXCEPT ![s] = "running"]
  /\ UNCHANGED <<shared, cancelled, outbound, accepted, heartbeat, input, pressed,
                 vanished>>

\* The task's first run: clear a stale abort, publish the outbound sender.
StartHandler(s) ==
  /\ phase[s] = "spawned"
  /\ receiver_abort' = FALSE
  /\ connected' = TRUE
  /\ receiver_tx' = s
  /\ phase' = [phase EXCEPT ![s] = "running"]
  /\ UNCHANGED <<listening, active_cancel, cancelled, outbound,
                 accepted, heartbeat, input, pressed, vanished>>

\* Mutant: an arm returns from the task instead of breaking out of the loop.
LeaveByReturn(s) == phase' = [phase EXCEPT ![s] = "done"]

Leave(s) == phase' = [phase EXCEPT ![s] = "leaving"]

\* Mutant: a refusal is reported, and the loop goes on.
StayAnyway(s, ok) == UNCHANGED phase

\* Go on with the loop if ok, break out of it otherwise.
StayIf(s, ok) == phase' = [phase EXCEPT ![s] = IF ok THEN "running" ELSE "leaving"]

\* A Hello, at any point of the session.  It is accepted when the user lets
\* controllers in (accept_incoming) and it presents the configured token; both
\* settings may change at any time and are read only here, so the verdict is
\* free.  The HelloAck may fail to go out.
RecvHello(s) ==
  /\ Running(s) /\ ~vanished[s]
  /\ heartbeat' = [heartbeat EXCEPT ![s] = "recent"]
  /\ \E verdict, ackSent \in BOOLEAN :
       /\ accepted' = [accepted EXCEPT ![s] = verdict]
       /\ StayIf(s, verdict /\ ackSent)
  /\ UNCHANGED <<shared, cancelled, receiver_tx, outbound, connected, input,
                 pressed, vanished>>

\* KeyboardKey or MouseButton with down = true: tracked first, then injected;
\* SendInput may refuse (an elevated window has the focus).
RecvPress(s, i) ==
  /\ Running(s) /\ ~vanished[s] /\ accepted[s]
  /\ held' = [held EXCEPT ![s] = @ \cup {i}]
  /\ \/ /\ osDown' = osDown \cup {i}
        /\ upFailed' = upFailed \ {i}
        /\ connected' = TRUE
     \/ UNCHANGED <<osDown, upFailed, connected>>
  /\ UNCHANGED <<shared, cancelled, phase, receiver_tx, outbound, accepted,
                 heartbeat, pressed, vanished>>

\* The same with down = false: the tracker forgets the input whether or not the
\* injection succeeds.
RecvRelease(s, i) ==
  /\ Running(s) /\ ~vanished[s] /\ accepted[s]
  /\ held' = [held EXCEPT ![s] = @ \ {i}]
  /\ \/ /\ osDown' = osDown \ {i}
        /\ upFailed' = upFailed \ {i}
        /\ connected' = TRUE
     \/ /\ upFailed' = upFailed \cup {i}
        /\ UNCHANGED <<osDown, connected>>
  /\ UNCHANGED <<shared, cancelled, phase, receiver_tx, outbound, accepted,
                 heartbeat, pressed, vanished>>

\* Any other accepted message (pointer, wheel, text, clipboard, layout): it
\* holds nothing down and, when applied, refreshes the snapshot.
RecvOther(s) ==
  /\ Running(s) /\ ~vanished[s] /\ accepted[s]
  /\ connected' = TRUE
  /\ UNCHANGED <<shared, cancelled, phase, receiver_tx, outbound, accepted,
                 heartbeat, input, pressed, vanished>>

RecvHeartbeat(s) ==
  /\ Running(s) /\ ~vanished[s] /\ accepted[s]
  /\ heartbeat' = [heartbeat EXCEPT ![s] = "recent"]
  /\ connected' = TRUE
  /\ \E ackSent \in BOOLEAN : StayIf(s, ackSent)
  /\ UNCHANGED <<shared, cancelled, receiver_tx, outbound, accepted, input,
                 pressed, vanished>>

\* End of stream, a read error, or a Disconnect message: the first two at any
\* time, the last only obeyed after an accepted Hello.
PeerEnds(s) ==
  /\ Running(s) /\ ~vanished[s]
  /\ Leave(s)
  /\ UNCHANGED <<shared, cancelled, receiver_tx, outbound, connected, accepted,
                 heartbeat, input, pressed, vanished>>

\* Mutant: the arm does not tell a closed channel from a message.
WriteWithoutMessage(s) ==
  /\ Running(s)
  /\ outbound' = [outbound EXCEPT ![s] = @ - 1]
  /\ UNCHANGED <<shared, cancelled, phase, receiver_tx, connected, accepted,
                 heartbeat, input, pressed, vanished>>

\* The outbound arm: a queued message is written (or the write fails), and a
\* closed and drained channel ends the session.
WriteOutbound(s) ==
  /\ Running(s)
  /\ outbound[s] > 0
  /\ outbound' = [outbound EXCEPT ![s] = @ - 1]
  /\ \E sent \in BOOLEAN : StayIf(s, sent)
  /\ UNCHANGED <<shared, cancelled, receiver_tx, connected, accepted, heartbeat,
                 input, pressed, vanished>>

OutboundClosed(s) ==
  /\ Running(s)
  /\ receiver_tx # s
  /\ outbound[s] = 0
  /\ Leave(s)
  /\ UNCHANGED <<shared, cancelled, receiver_tx, outbound, connected, accepted,
                 heartbeat, input, pressed, vanished>>

\* Mutant: the flag is consumed, and the loop goes on.
SwallowAbort(s) ==
  /\ Running(s)
  /\ receiver_abort
  /\ receiver_abort' = FALSE
  /\ UNCHANGED <<listening, active_cancel, cancelled, phase, receiver_tx, outbound,
                 connected, accepted, heartbeat, input, pressed, vanished>>

\* The failsafe tick looks at the abort flag (and consumes it), then at the
\* physical Ctrl+Alt+Pause, then at the heartbeat.
FailsafeAbort(s) ==
  /\ Running(s)
  /\ receiver_abort
  /\ receiver_abort' = FALSE
  /\ Leave(s)
  /\ UNCHANGED <<listening, active_cancel, cancelled,
                 receiver_tx, outbound, connected, accepted, heartbeat, input,
                 pressed, vanished>>

FailsafeHotkey(s) ==
  /\ Running(s)
  /\ ~receiver_abort
  /\ Leave(s)
  /\ UNCHANGED <<shared, cancelled, receiver_tx, outbound, connected, accepted,
                 heartbeat, input, pressed, vanished>>

\* Mutant: the watchdog does not interrupt a press.
StaleWhenIdle(s) ==
  /\ Running(s)
  /\ ~receiver_abort
  /\ heartbeat[s] = "stale"
  /\ held[s] = {}
  /\ Leave(s)
  /\ UNCHANGED <<shared, cancelled, receiver_tx, outbound, connected, accepted,
                 heartbeat, input, pressed, vanished>>

FailsafeStale(s) ==
  /\ Running(s)
  /\ ~receiver_abort
  /\ heartbeat[s] = "stale"
  /\ Leave(s)
  /\ UNCHANGED <<shared, cancelled, receiver_tx, outbound, connected, accepted,
                 heartbeat, input, pressed, vanished>>

\* Mutant: the cancel arm is armed by the handshake.
DisplacedAfterHello(s) ==
  /\ Running(s)
  /\ cancelled[s] /\ accepted[s]
  /\ Leave(s)
  /\ UNCHANGED <<shared, cancelled, receiver_tx, outbound, connected, accepted,
                 heartbeat, input, pressed, vanished>>

\* The cancel arm: a newer connection was accepted, or the listener is gone.
Displaced(s) ==
  /\ Running(s)
  /\ cancelled[s]
  /\ Leave(s)
  /\ UNCHANGED <<shared, cancelled, receiver_tx, outbound, connected, accepted,
                 heartbeat, input, pressed, vanished>>

-----------------------------------------------------------------------------
(* The way out, which other threads interleave with. *)

\* The shared slot is emptied, whoever's sender is in it.
DropOutbound(s) ==
  /\ phase[s] = "leaving"
  /\ receiver_tx' = None
  /\ phase' = [phase EXCEPT ![s] = "releasing"]
  /\ UNCHANGED <<shared, cancelled, outbound, connected, accepted, heartbeat,
                 input, pressed, vanished>>

\* One tracked input is drained and released; a failure is ignored.
ReleaseHeld(s, i) ==
  /\ phase[s] = "releasing"
  /\ i \in held[s]
  /\ held' = [held EXCEPT ![s] = @ \ {i}]
  /\ \/ /\ osDown' = osDown \ {i}
        /\ upFailed' = upFailed \ {i}
     \/ /\ upFailed' = upFailed \cup {i}
        /\ UNCHANGED osDown
  /\ UNCHANGED <<shared, cancelled, phase, receiver_tx, outbound, connected,
                 accepted, heartbeat, pressed, vanished>>

\* The task returns and its locals go with it: both channels, the handshake, the
\* watchdog (their variables take their initial values again).
Finish(s) ==
  /\ phase[s] = "releasing"
  /\ held[s] = {}
  /\ connected' = FALSE
  /\ phase' = [phase EXCEPT ![s] = "done"]
  /\ cancelled' = [cancelled EXCEPT ![s] = FALSE]
  /\ outbound' = [outbound EXCEPT ![s] = 0]
  /\ accepted' = [accepted EXCEPT ![s] = FALSE]
  /\ heartbeat' = [heartbeat EXCEPT ![s] = "unarmed"]
  /\ pressed' = [pressed EXCEPT ![s] = FALSE]
  /\ vanished' = [vanished EXCEPT ![s] = FALSE]
  /\ UNCHANGED <<shared, receiver_tx, input>>

-----------------------------------------------------------------------------
(* The rest of the machine, and the peers. *)

\* emergency_reset_all: ask the inbound session to end.
EmergencyReset ==
  /\ receiver_abort' = TRUE
  /\ pressed' = [s \in Sessions |-> pressed[s] \/ Running(s)]
  /\ UNCHANGED <<listening, active_cancel, cancelled, phase,
                 receiver_tx, outbound, connected, accepted, heartbeat, input,
                 vanished>>

\* The clipboard watcher pushes to whichever session is in the slot.
BroadcastClipboard(s) ==
  /\ receiver_tx = s
  /\ outbound[s] < MaxOutbound
  /\ outbound' = [outbound EXCEPT ![s] = @ + 1]
  /\ UNCHANGED <<shared, cancelled, phase, receiver_tx, connected, accepted,
                 heartbeat, input, pressed, vanished>>

\* HEARTBEAT_STALE passes without a heartbeat.
HeartbeatAges(s) ==
  /\ Running(s)
  /\ heartbeat[s] = "recent"
  /\ heartbeat' = [heartbeat EXCEPT ![s] = "stale"]
  /\ UNCHANGED <<shared, cancelled, phase, receiver_tx, outbound, connected,
                 accepted, input, pressed, vanished>>

PeerVanishes(s) ==
  /\ Running(s)
  /\ ~vanished[s]
  /\ vanished' = [vanished EXCEPT ![s] = TRUE]
  /\ UNCHANGED <<shared, cancelled, phase, receiver_tx, outbound, connected,
                 accepted, heartbeat, input, pressed>>

-----------------------------------------------------------------------------
Receive(s) ==
  \/ RecvHello(s) \/ RecvOther(s) \/ RecvHeartbeat(s) \/ PeerEnds(s)
  \/ \E i \in Inputs : RecvPress(s, i) \/ RecvRelease(s, i)

Tick(s) == FailsafeAbort(s) \/ FailsafeHotkey(s) \/ FailsafeStale(s)

Exit(s) == DropOutbound(s) \/ Finish(s) \/ \E i \in Inputs : ReleaseHeld(s, i)

Handler(s) ==
  \/ StartHandler(s) \/ Receive(s) \/ Tick(s) \/ Exit(s)
  \/ WriteOutbound(s) \/ OutboundClosed(s) \/ Displaced(s)

Environment ==
  \/ EmergencyReset
  \/ \E s \in Sessions : BroadcastClipboard(s) \/ HeartbeatAges(s) \/ PeerVanishes(s)

Next ==
  \/ StartReceiver \/ AcceptFails
  \/ \E s \in Sessions : Accept(s) \/ Handler(s)
  \/ Environment

\* What the machine does for a session by itself.
Progress(s) ==
  \/ StartHandler(s) \/ Exit(s)
  \/ FailsafeAbort(s) \/ FailsafeStale(s) \/ Displaced(s) \/ OutboundClosed(s)

\* The runtime polls a spawned task, the interval timer keeps ticking, a ready
\* arm of the select is eventually the one picked, and the straight-line exit
\* path runs to its end.  Nothing is assumed of the peers, of the user or of the
\* listener; time passes for a peer that has vanished.
Fairness ==
  \A s \in Sessions :
    WF_vars(Progress(s)) /\ WF_vars(vanished[s] /\ HeartbeatAges(s))

Spec == Init /\ [][Next]_vars
FairSpec == Spec /\ Fairness

-----------------------------------------------------------------------------
(* Safety. *)

\* Whatever is down on the machine because of a controller is in the tracker of
\* a handler that has yet to run its exit path, unless SendInput itself refused
\* the release: sessions that overlap, displace and interrupt each other never
\* leave a stuck key or button behind (receiver.rs 59-64, 599-608).
StuckInputHasOwner ==
  \A i \in osDown : i \in upFailed \/ \E s \in Sessions : Live(s) /\ i \in held[s]

\* A session holds input only after an accepted Hello and while its heartbeat
\* watchdog is armed, or on its way out, so no held input depends on the peer's
\* own good end (receiver.rs 66-70, 191-194, 259-269).
HeldInputIsWatched ==
  \A s \in Sessions :
    held[s] # {} =>
      /\ heartbeat[s] # "unarmed"
      /\ phase[s] \in {"leaving", "releasing"} \/ (Running(s) /\ accepted[s])

\* Across reconnects and listener restarts, at most one live session has not
\* been told to stop, and it is the newest (mod.rs 90-117).
NewestWins ==
  \A s \in Sessions : Live(s) /\ ~cancelled[s] => active_cancel = s

\* When no handler is left, the status shown to the user says so, in whatever
\* order overlapping handlers started, received and finished.
IdleMeansDisconnected ==
  (\A s \in Sessions : ~Live(s)) => ~connected

\* An emergency reset pressed while nobody controls this machine does not kill
\* a session that starts later: a session ends by the abort flag only if the
\* reset was pressed while it ran (receiver.rs 35-37, docs/recovery.md).
AbortSparesLaterSessions ==
  [][\A s \in Sessions :
       (receiver_abort /\ ~receiver_abort' /\ Running(s) /\ phase'[s] = "leaving")
         => pressed[s]]_vars

\* The inductive strengthening of AbortSparesLaterSessions.
AbortIsMeant ==
  receiver_abort => \A s \in Sessions : Running(s) => pressed[s]

\* The outbound channel of the newest session stays open while that session
\* runs, so that no older session's late start (receiver.rs 54-57) or exit (595)
\* ends it ("Single active session, newest wins", mod.rs 90-93).
NewestOwnsOutbound ==
  \A s \in Sessions : Running(s) /\ active_cancel = s => receiver_tx = s

\* NewestOwnsOutbound fails in one way only: whoever takes the slot from the newest
\* running session, or empties it, is another session that was told to stop, on its
\* way in or out.  The listener, a reset and the session itself never do.
DisplacedPasses(s) ==
  \E t \in Sessions \ {s} :
    /\ cancelled[t]
    /\ \/ phase[t] = "spawned" /\ phase'[t] = "running"
       \/ phase[t] = "leaving" /\ phase'[t] = "releasing"

OnlyDisplacedTakeOutbound ==
  [][\A s \in Sessions :
       (Running(s) /\ active_cancel = s /\ receiver_tx = s /\ receiver_tx' # s)
         => DisplacedPasses(s)]_vars

-----------------------------------------------------------------------------
(* Liveness. *)

\* A session that was told to stop does stop, having released what it held.
DisplacedSessionEnds ==
  \A s \in Sessions : (Live(s) /\ cancelled[s]) ~> phase[s] = "done"

\* A controller that dies in the middle of a press, without a FIN, does not
\* leave the press in force: the watchdog ends its session (receiver.rs 75-81).
VanishedPeerIsReleased ==
  \A s \in Sessions : (vanished[s] /\ held[s] # {}) ~> held[s] = {}

\* An emergency reset ends every session that ran when it was pressed.
AbortEndsControl ==
  \A s \in Sessions : (pressed[s] /\ Live(s)) ~> phase[s] = "done"
=============================================================================
