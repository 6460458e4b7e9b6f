------------------------ MODULE ControllerSupervisor ------------------------
(***************************************************************************)
(* The controlling machine's 1:1 connection: the connect and disconnect    *)
(* commands (session/mod.rs) and the reconnecting supervisors they start   *)
(* and stop (session/controller.rs).                                       *)
(*                                                                         *)
(* Every connect_tcp_peer call takes the next generation and spawns a      *)
(* supervisor of that generation, so calls and supervisors are named by    *)
(* their generation.  Nothing joins a supervisor: it notices between two   *)
(* of its own steps that it was stopped or superseded.  All supervisors    *)
(* store their sender into the one slot controller_tx, and a session ends  *)
(* when the last sender of its command channel is dropped.                 *)
(*                                                                         *)
(* Threads interleave between any two accesses to shared state, so each    *)
(* access is a step.  A supervisor has one channel at a time; a sender is  *)
(* named by the supervisor whose current channel it feeds, or is Dead once *)
(* that channel's receiver is gone.  Peers serve the newest connection     *)
(* only (module ReceiverSession).  Elapsed time is abstracted to whether   *)
(* an attempt lasted HEALTHY_SESSION_SECS.                                 *)
(***************************************************************************)
EXTENDS Naturals

CONSTANTS
  MaxGen,    \* bound on connect calls
  Peers,     \* the addresses the user connects to
  MaxFaults, \* bound on failed dials and dropped links
  Capture,   \* whether a legacy capture may run, which keeps a clone of the sender
  None, Dead \* no sender; a sender whose channel has lost its receiver

ASSUME GenAssumption == MaxGen \in Nat \ {0}
ASSUME FaultAssumption == MaxFaults \in Nat
ASSUME CaptureAssumption == Capture \in BOOLEAN
ASSUME SenderAssumption == None # Dead /\ None \notin Nat /\ Dead \notin Nat

Gens == 1 .. MaxGen
Senders == Gens \cup {None, Dead}

VARIABLES
  generation,    \* controller_generation
  should_run,    \* controller_should_run
  controller_tx, \* the shared sender slot
  clone,         \* the sender a running legacy capture holds
  call,          \* progress of each connect_tcp_peer call
  stopping,      \* a disconnect_tcp_peer call has yet to clear the slot
  target,        \* the address each generation dials
  sup,           \* where each supervisor is
  backoff_secs,  \* the delay each supervisor inherits
  sleep_secs,    \* the delay it chose for its current or latest sleep, 0 before the first
  healthy,       \* its latest attempt took at least HEALTHY_SESSION_SECS
  served,        \* the connection each peer serves
  late,          \* history: attempts begun since the supervisor was told to end
  faults         \* dial failures and link drops so far

vars == <<generation, should_run, controller_tx, clone, call, stopping, target,
          sup, backoff_secs, sleep_secs, healthy, served, late, faults>>

commands == <<generation, should_run, call, stopping, target>>
delays   == <<backoff_secs, sleep_secs>>

Places == {"unborn", "check", "publish", "dial", "session", "clear", "recheck",
           "sleep", "gone"}
Delays == 1 .. 10

TypeOK ==
  /\ generation \in 0 .. MaxGen
  /\ should_run \in BOOLEAN
  /\ controller_tx \in Senders
  /\ clone \in Senders
  /\ call \in [Gens -> {"none", "clear", "arm", "done"}]
  /\ stopping \in BOOLEAN
  /\ target \in [Gens -> Peers]
  /\ sup \in [Gens -> Places]
  /\ backoff_secs \in [Gens -> Delays]
  /\ sleep_secs \in [Gens -> Delays \cup {0}]
  /\ healthy \in [Gens -> BOOLEAN]
  /\ served \in [Peers -> Gens \cup {None}]
  /\ late \in [Gens -> Nat]
  /\ faults \in 0 .. MaxFaults

Init ==
  /\ generation = 0
  /\ should_run = FALSE
  /\ controller_tx = None
  /\ clone = None
  /\ call = [g \in Gens |-> "none"]
  /\ stopping = FALSE
  /\ target \in [Gens -> Peers]
  /\ sup = [g \in Gens |-> "unborn"]
  /\ backoff_secs = [g \in Gens |-> 1]
  /\ sleep_secs = [g \in Gens |-> 0]
  /\ healthy = [g \in Gens |-> FALSE]
  /\ served = [p \in Peers |-> None]
  /\ late = [g \in Gens |-> 0]
  /\ faults = 0

At(g, place) == sup[g] = place
Go(g, place) == sup' = [sup EXCEPT ![g] = place]

\* Mutant: the generation is forgotten.
WantedByAnyone(g) == should_run

\* should_run && is_current()
Wanted(g) == should_run /\ generation = g

-----------------------------------------------------------------------------
(* connect_tcp_peer and disconnect_tcp_peer, which may overlap. *)

ConnectBump(g) ==
  /\ call[g] = "none"
  /\ g = generation + 1
  /\ generation' = g
  /\ call' = [call EXCEPT ![g] = "clear"]
  /\ UNCHANGED <<should_run, controller_tx, clone, stopping, target, sup, delays,
                 healthy, served, late, faults>>

ConnectClear(g) ==
  /\ call[g] = "clear"
  /\ controller_tx' = None
  /\ call' = [call EXCEPT ![g] = "arm"]
  /\ UNCHANGED <<generation, should_run, clone, stopping, target, sup, delays,
                 healthy, served, late, faults>>

\* should_run is set and the supervisor spawned; its first step is its own.
ConnectSpawn(g) ==
  /\ call[g] = "arm"
  /\ should_run' = TRUE
  /\ call' = [call EXCEPT ![g] = "done"]
  /\ Go(g, "check")
  /\ late' = [h \in Gens |-> 0]
  /\ UNCHANGED <<generation, controller_tx, clone, stopping, target, delays,
                 healthy, served, faults>>

DisconnectStop ==
  /\ should_run' = FALSE
  /\ stopping' = TRUE
  /\ UNCHANGED <<generation, controller_tx, clone, call, target, sup, delays,
                 healthy, served, late, faults>>

DisconnectClear ==
  /\ stopping
  /\ stopping' = FALSE
  /\ controller_tx' = None
  /\ UNCHANGED <<generation, should_run, clone, call, target, sup, delays,
                 healthy, served, late, faults>>

\* start_mouse_capture without seamless clones the sender for as long as the
\* capture runs.
StartCapture ==
  /\ Capture
  /\ clone = None
  /\ controller_tx # None
  /\ clone' = controller_tx
  /\ UNCHANGED <<commands, controller_tx, sup, delays, healthy, served,
                 late, faults>>

StopCapture ==
  /\ clone # None
  /\ clone' = None
  /\ UNCHANGED <<commands, controller_tx, sup, delays, healthy, served,
                 late, faults>>

-----------------------------------------------------------------------------
(* The supervisor. *)

\* The head of the loop.
CheckWanted(g) ==
  /\ At(g, "check")
  /\ Go(g, IF Wanted(g) THEN "publish" ELSE "gone")
  /\ UNCHANGED <<commands, controller_tx, clone, delays, healthy, served,
                 late, faults>>

\* A fresh channel; its sender goes into the slot, dropping the one there.
Publish(g) ==
  /\ At(g, "publish")
  /\ controller_tx' = g
  /\ Go(g, "dial")
  /\ late' = [late EXCEPT ![g] = IF should_run /\ generation = g THEN @ ELSE @ + 1]
  /\ UNCHANGED <<commands, clone, delays, healthy, served, faults>>

\* The attempt is over: its receiver is dropped, so are its senders useless; the
\* peer sees the end of the stream.
EndAttempt(g) ==
  /\ Go(g, "clear")
  /\ controller_tx' = IF controller_tx = g THEN Dead ELSE controller_tx
  /\ clone' = IF clone = g THEN Dead ELSE clone
  /\ served' = [p \in Peers |-> IF served[p] = g THEN None ELSE served[p]]
  /\ \E long \in BOOLEAN : healthy' = [healthy EXCEPT ![g] = long]

\* TcpStream::connect succeeds: the peer drops whomever it served before.
DialSucceeds(g) ==
  /\ At(g, "dial")
  /\ Go(g, "session")
  /\ served' = [served EXCEPT ![target[g]] = g]
  /\ UNCHANGED <<commands, controller_tx, clone, delays, healthy, late, faults>>

\* It fails, at once or after the operating system's own timeout.
DialFails(g) ==
  /\ At(g, "dial")
  /\ faults < MaxFaults
  /\ faults' = faults + 1
  /\ EndAttempt(g)
  /\ UNCHANGED <<commands, delays, late>>

\* Mutant: a closed command channel is only an error while stopping.
ClosesWhenStopped(g) ==
  /\ At(g, "session")
  /\ g \notin {controller_tx, clone}
  /\ ~should_run
  /\ EndAttempt(g)
  /\ UNCHANGED <<commands, delays, late, faults>>

\* The select loop ends because no sender of the command channel is left.
ChannelCloses(g) ==
  /\ At(g, "session")
  /\ g \notin {controller_tx, clone}
  /\ EndAttempt(g)
  /\ UNCHANGED <<commands, delays, late, faults>>

\* It ends because the peer serves a newer connection.
PeerCloses(g) ==
  /\ At(g, "session")
  /\ served[target[g]] # g
  /\ EndAttempt(g)
  /\ UNCHANGED <<commands, delays, late, faults>>

\* It ends on a read or write error, or after INBOUND_STALE without an answer.
LinkDrops(g) ==
  /\ At(g, "session")
  /\ faults < MaxFaults
  /\ faults' = faults + 1
  /\ EndAttempt(g)
  /\ UNCHANGED <<commands, delays, late>>

\* Mutant: a superseded supervisor leaves the slot to its successor.
ClearOwnSlot(g) ==
  /\ At(g, "clear")
  /\ controller_tx' = IF generation = g THEN None ELSE controller_tx
  /\ Go(g, "recheck")
  /\ UNCHANGED <<commands, clone, delays, healthy, served, late, faults>>

\* The slot is emptied, whoever's sender is in it.
ClearSlot(g) ==
  /\ At(g, "clear")
  /\ controller_tx' = None
  /\ Go(g, "recheck")
  /\ UNCHANGED <<commands, clone, delays, healthy, served, late, faults>>

\* Mutant: a healthy session earns an immediate reconnect.
NoDelayWhenHealthy(previous, long) == IF long THEN 0 ELSE previous

current_backoff_secs(previous, long) == IF long THEN 1 ELSE previous

next_backoff_secs(previous, long) ==
  LET doubled == 2 * current_backoff_secs(previous, long)
  IN  IF doubled > 10 THEN 10 ELSE doubled

Recheck(g) ==
  /\ At(g, "recheck")
  /\ IF Wanted(g)
     THEN /\ Go(g, "sleep")
          /\ sleep_secs' = [sleep_secs EXCEPT
                              ![g] = current_backoff_secs(backoff_secs[g], healthy[g])]
     ELSE Go(g, "gone") /\ UNCHANGED sleep_secs
  /\ UNCHANGED <<commands, controller_tx, clone, backoff_secs, healthy,
                 served, late, faults>>

\* The sleep is over, or cut short because the supervisor is no longer wanted.
Wake(g) ==
  /\ At(g, "sleep")
  /\ Go(g, "check")
  /\ backoff_secs' = [backoff_secs EXCEPT ![g] = next_backoff_secs(@, healthy[g])]
  /\ UNCHANGED <<commands, controller_tx, clone, sleep_secs, healthy,
                 served, late, faults>>

-----------------------------------------------------------------------------
Connect(g) == ConnectBump(g) \/ ConnectClear(g) \/ ConnectSpawn(g)

Supervisor(g) ==
  \/ CheckWanted(g) \/ Publish(g) \/ DialSucceeds(g) \/ DialFails(g)
  \/ ChannelCloses(g) \/ PeerCloses(g) \/ ClearSlot(g) \/ Recheck(g) \/ Wake(g)

Next ==
  \/ DisconnectStop \/ DisconnectClear \/ StartCapture \/ StopCapture
  \/ \E g \in Gens : Connect(g) \/ Supervisor(g) \/ LinkDrops(g)

\* A command that has begun runs to its end; a supervisor is polled, its dial
\* returns and a session notices a closed channel or stream.  Nothing makes the
\* user issue commands or stop a capture, and nothing makes faults happen.
Fairness ==
  /\ WF_vars(DisconnectClear)
  /\ \A g \in Gens :
       /\ WF_vars(ConnectClear(g) \/ ConnectSpawn(g))
       /\ WF_vars(Supervisor(g))

Spec == Init /\ [][Next]_vars
FairSpec == Spec /\ Fairness

-----------------------------------------------------------------------------
(* Safety. *)

\* The slot never offers the sender of a session that is over for longer than
\* it takes that supervisor to clear it, and a sender in the slot belongs to an
\* attempt in progress: captures and the clipboard do not talk into the void
\* (controller.rs 84-87, 105-107; seamless.rs resolves the slot at each send).
SlotIsLive ==
  /\ controller_tx \in Gens => sup[controller_tx] \in {"dial", "session"}
  /\ controller_tx = Dead => \E g \in Gens : At(g, "clear")

\* A supervisor that was stopped or superseded begins at most the one attempt it
\* was about to begin, however connects and disconnects overlap (mod.rs 187-198,
\* controller.rs 83, 109, 136).
AtMostOneLateAttempt ==
  \A g \in Gens : late[g] <= 1

\* What an attempt that does not count as healthy makes of the last delay.
Doubled(secs) == IF secs = 0 THEN 1 ELSE IF 2 * secs > 10 THEN 10 ELSE 2 * secs

\* The delays (controller.rs 23-50): after an attempt of less than
\* HEALTHY_SESSION_SECS it is twice the last one, at most 10 s, and 1 s for the first;
\* after an attempt that took that long it is 1 s again.  The attempt counts as long by
\* its clock, which runs from before the dial (controller.rs 89): a dial that takes
\* 15 s to fail starts the delays over, as a session that lasted does.
BackoffPolicy ==
  [][\A g \in Gens :
       At(g, "recheck") /\ sup'[g] = "sleep" =>
         sleep_secs'[g] = IF healthy[g] THEN 1 ELSE Doubled(sleep_secs[g])]_vars

-----------------------------------------------------------------------------
(* Liveness. *)

\* When commands and faults have ceased and no capture keeps a clone of a sender,
\* the latest supervisor, unless it has seen a disconnect and left, has its sender
\* in the slot and is the one its peer serves, whatever older supervisors did to
\* both on their way out (controller.rs 84-116; mod.rs 187-217).
NewestConnects ==
  <>[](clone = None) =>
    <>[](should_run /\ ~At(generation, "gone") =>
           /\ At(generation, "session")
           /\ controller_tx = generation
           /\ served[target[generation]] = generation)

\* "Dropping the command sender ends the current session's select loop"
\* (mod.rs 225): a session whose sender is neither in the slot nor in a capture's
\* clone ends.
ClearedSlotEndsSession ==
  \A g \in Gens :
    (At(g, "session") /\ g \notin {controller_tx, clone}) ~> ~At(g, "session")
=============================================================================
