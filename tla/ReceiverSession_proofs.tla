----------------------- MODULE ReceiverSession_proofs -----------------------
(***************************************************************************)
(* Proofs about ReceiverSession, for any number of sessions and inputs.    *)
(*                                                                         *)
(* The safety invariants are proved one after the other.  Only one needs a *)
(* strengthening of its own: an accepted session has its watchdog armed    *)
(* (AcceptedIsArmed), without which the first key press of a session could *)
(* not be shown to be watched.                                             *)
(***************************************************************************)
EXTENDS ReceiverSession, TLAPS

USE SessionsAssumption, OutboundAssumption DEF SessionsAssumption, OutboundAssumption

\* An accepted session has an armed watchdog: the Hello does both.
AcceptedIsArmed ==
  \A s \in Sessions : accepted[s] => heartbeat[s] # "unarmed"

-----------------------------------------------------------------------------
(* Type correctness. *)

LEMMA EmptyQueue == 0 \in 0 .. MaxOutbound
OBVIOUS

LEMMA InitType == Init => TypeOK
BY EmptyQueue DEF Init, TypeOK, Phases

LEMMA ListenerType ==
  ASSUME TypeOK, StartReceiver \/ AcceptFails \/ \E s \in Sessions : Accept(s)
  PROVE  TypeOK'
<1>1. CASE StartReceiver
  BY <1>1 DEF TypeOK, Phases, StartReceiver, input
<1>2. CASE AcceptFails
  BY <1>2 DEF TypeOK, Phases, AcceptFails, CancelActive, Live, input
<1>3. ASSUME NEW s \in Sessions, Accept(s) PROVE TypeOK'
  BY <1>3 DEF TypeOK, Phases, Accept, CancelActive, Live, input
<1>4. QED BY <1>1, <1>2, <1>3

LEMMA ReceiveType ==
  ASSUME TypeOK, NEW s \in Sessions, Receive(s)
  PROVE  TypeOK'
<1> USE DEF TypeOK, Phases, shared, input, Running
<1>1. CASE RecvHello(s)
  BY <1>1 DEF RecvHello, StayIf
<1>2. CASE RecvOther(s)
  BY <1>2 DEF RecvOther
<1>3. CASE RecvHeartbeat(s)
  BY <1>3 DEF RecvHeartbeat, StayIf
<1>4. CASE PeerEnds(s)
  BY <1>4 DEF PeerEnds, Leave
<1>5. ASSUME NEW i \in Inputs, RecvPress(s, i) PROVE TypeOK'
  BY <1>5 DEF RecvPress
<1>6. ASSUME NEW i \in Inputs, RecvRelease(s, i) PROVE TypeOK'
  BY <1>6 DEF RecvRelease
<1>7. QED BY <1>1, <1>2, <1>3, <1>4, <1>5, <1>6 DEF Receive

LEMMA HandlerType ==
  ASSUME TypeOK, NEW s \in Sessions, Handler(s)
  PROVE  TypeOK'
<1> USE DEF TypeOK, Phases, shared, input, Running, Leave
<1>1. CASE StartHandler(s)
  BY <1>1 DEF StartHandler
<1>2. CASE Receive(s)
  BY <1>2, ReceiveType
<1>3. CASE Tick(s)
  BY <1>3 DEF Tick, FailsafeAbort, FailsafeHotkey, FailsafeStale
<1>4. CASE DropOutbound(s)
  BY <1>4 DEF DropOutbound
<1>5. CASE Finish(s)
  BY <1>5, EmptyQueue DEF Finish
<1>6. ASSUME NEW i \in Inputs, ReleaseHeld(s, i) PROVE TypeOK'
  BY <1>6 DEF ReleaseHeld
<1>7. CASE WriteOutbound(s)
  BY <1>7 DEF WriteOutbound, StayIf
<1>8. CASE OutboundClosed(s)
  BY <1>8 DEF OutboundClosed
<1>9. CASE Displaced(s)
  BY <1>9 DEF Displaced
<1>10. QED
  BY <1>1, <1>2, <1>3, <1>4, <1>5, <1>6, <1>7, <1>8, <1>9 DEF Handler, Exit

LEMMA EnvironmentType ==
  ASSUME TypeOK, Environment
  PROVE  TypeOK'
<1> USE DEF TypeOK, Phases, shared, input, Running, Live
<1>1. CASE EmergencyReset
  BY <1>1 DEF EmergencyReset
<1>2. ASSUME NEW s \in Sessions, BroadcastClipboard(s) PROVE TypeOK'
  BY <1>2 DEF BroadcastClipboard
<1>3. ASSUME NEW s \in Sessions, HeartbeatAges(s) PROVE TypeOK'
  BY <1>3 DEF HeartbeatAges
<1>4. ASSUME NEW s \in Sessions, PeerVanishes(s) PROVE TypeOK'
  BY <1>4 DEF PeerVanishes
<1>5. QED BY <1>1, <1>2, <1>3, <1>4 DEF Environment

\* The variables always have their declared types (the shape of the shared
\* slots and of every handler's locals).
THEOREM TypeCorrect == Spec => []TypeOK
<1>1. TypeOK /\ [Next]_vars => TypeOK'
  <2> SUFFICES ASSUME TypeOK, [Next]_vars PROVE TypeOK'
    OBVIOUS
  <2>1. CASE UNCHANGED vars
    BY <2>1 DEF TypeOK, vars
  <2>2. CASE Next
    BY <2>2, ListenerType, HandlerType, EnvironmentType DEF Next
  <2>3. QED BY <2>1, <2>2
<1>2. QED BY InitType, <1>1, PTL DEF Spec

-----------------------------------------------------------------------------
(* The watchdog. *)

\* No input is held before an accepted Hello has armed the watchdog: whatever a
\* session holds down, it holds accepted and watched, or on its way out.
THEOREM InputIsWatched == Spec => [](AcceptedIsArmed /\ HeldInputIsWatched)
<1> DEFINE Inv == AcceptedIsArmed /\ HeldInputIsWatched
<1>1. Init => Inv
  BY DEF Init, AcceptedIsArmed, HeldInputIsWatched
<1>2. TypeOK /\ Inv /\ [Next]_vars => Inv'
  <2> SUFFICES ASSUME TypeOK, Inv, [Next]_vars PROVE Inv'
    OBVIOUS
  <2> USE DEF TypeOK, Phases, AcceptedIsArmed, HeldInputIsWatched, shared, input,
              Running
  <2>1. CASE UNCHANGED vars
    BY <2>1 DEF vars
  <2>2. CASE StartReceiver \/ AcceptFails \/ Environment
    BY <2>2 DEF StartReceiver, AcceptFails, Environment, EmergencyReset,
                BroadcastClipboard, HeartbeatAges, PeerVanishes
  <2>3. ASSUME NEW s \in Sessions, Accept(s) PROVE Inv'
    BY <2>3 DEF Accept
  <2>4. ASSUME NEW s \in Sessions, Handler(s) PROVE Inv'
    <3>1. CASE StartHandler(s)
      BY <3>1 DEF StartHandler
    <3>2. CASE RecvHello(s)
      BY <3>2 DEF RecvHello, StayIf
    <3>3. ASSUME NEW i \in Inputs, RecvPress(s, i) PROVE Inv'
      BY <3>3 DEF RecvPress
    <3>4. ASSUME NEW i \in Inputs, RecvRelease(s, i) PROVE Inv'
      BY <3>4 DEF RecvRelease
    <3>5. CASE RecvOther(s)
      BY <3>5 DEF RecvOther
    <3>6. CASE RecvHeartbeat(s)
      BY <3>6 DEF RecvHeartbeat, StayIf
    <3>7. CASE PeerEnds(s) \/ OutboundClosed(s) \/ Displaced(s) \/ Tick(s)
      BY <3>7 DEF PeerEnds, OutboundClosed, Displaced, Tick, FailsafeAbort,
                  FailsafeHotkey, FailsafeStale, Leave
    <3>8. CASE WriteOutbound(s)
      BY <3>8 DEF WriteOutbound, StayIf
    <3>9. CASE DropOutbound(s)
      BY <3>9 DEF DropOutbound
    <3>10. ASSUME NEW i \in Inputs, ReleaseHeld(s, i) PROVE Inv'
      BY <3>10 DEF ReleaseHeld
    <3>11. CASE Finish(s)
      BY <3>11 DEF Finish
    <3>12. QED
      BY <2>4, <3>1, <3>2, <3>3, <3>4, <3>5, <3>6, <3>7, <3>8, <3>9, <3>10, <3>11
      DEF Handler, Receive, Exit
  <2>5. QED BY <2>1, <2>2, <2>3, <2>4 DEF Next
<1>3. QED BY <1>1, <1>2, TypeCorrect, PTL DEF Spec

-----------------------------------------------------------------------------
(* Stuck input. *)

\* The receiver never leaves a key or button down without a live handler that
\* still has it in its tracker, except one whose release the OS refused.
THEOREM NoStuckInput == Spec => []StuckInputHasOwner
<1>1. Init => StuckInputHasOwner
  BY DEF Init, StuckInputHasOwner
<1>2. TypeOK /\ StuckInputHasOwner /\ [Next]_vars => StuckInputHasOwner'
  <2> SUFFICES ASSUME TypeOK, StuckInputHasOwner, [Next]_vars
               PROVE  StuckInputHasOwner'
    OBVIOUS
  <2> USE DEF TypeOK, Phases, StuckInputHasOwner, shared, input, Running, Live
  <2>1. CASE UNCHANGED vars
    BY <2>1 DEF vars
  <2>2. CASE StartReceiver \/ AcceptFails \/ Environment
    BY <2>2 DEF StartReceiver, AcceptFails, Environment, EmergencyReset,
                BroadcastClipboard, HeartbeatAges, PeerVanishes
  <2>3. ASSUME NEW s \in Sessions, Accept(s) PROVE StuckInputHasOwner'
    BY <2>3 DEF Accept
  <2>4. ASSUME NEW s \in Sessions, Handler(s) PROVE StuckInputHasOwner'
    <3>1. CASE StartHandler(s)
      BY <3>1 DEF StartHandler
    <3>2. ASSUME NEW i \in Inputs, RecvPress(s, i) PROVE StuckInputHasOwner'
      \* The pressed input enters the tracker of s, which is live.
      BY <3>2 DEF RecvPress
    <3>3. ASSUME NEW i \in Inputs, RecvRelease(s, i) PROVE StuckInputHasOwner'
      \* The input leaves the tracker and, unless refused, the machine too.
      BY <3>3 DEF RecvRelease
    <3>4. CASE RecvHello(s) \/ RecvHeartbeat(s) \/ WriteOutbound(s)
      BY <3>4 DEF RecvHello, RecvHeartbeat, WriteOutbound, StayIf
    <3>5. CASE RecvOther(s)
      BY <3>5 DEF RecvOther
    <3>6. CASE PeerEnds(s) \/ OutboundClosed(s) \/ Displaced(s) \/ Tick(s)
      BY <3>6 DEF PeerEnds, OutboundClosed, Displaced, Tick, FailsafeAbort,
                  FailsafeHotkey, FailsafeStale, Leave
    <3>7. CASE DropOutbound(s)
      BY <3>7 DEF DropOutbound
    <3>8. ASSUME NEW i \in Inputs, ReleaseHeld(s, i) PROVE StuckInputHasOwner'
      BY <3>8 DEF ReleaseHeld
    <3>9. CASE Finish(s)
      \* Only a handler with an empty tracker stops being live.
      BY <3>9 DEF Finish
    <3>10. QED
      BY <2>4, <3>1, <3>2, <3>3, <3>4, <3>5, <3>6, <3>7, <3>8, <3>9
      DEF Handler, Receive, Exit
  <2>5. QED BY <2>1, <2>2, <2>3, <2>4 DEF Next
<1>3. QED BY <1>1, <1>2, TypeCorrect, PTL DEF Spec

-----------------------------------------------------------------------------
(* Newest wins. *)

\* At most one live session has not been told to stop, and it is the one whose
\* cancel sender the accept loop holds.
THEOREM OneUndisplacedSession == Spec => []NewestWins
<1>1. Init => NewestWins
  BY DEF Init, NewestWins, Live
<1>2. TypeOK /\ NewestWins /\ [Next]_vars => NewestWins'
  <2> SUFFICES ASSUME TypeOK, NewestWins, [Next]_vars PROVE NewestWins'
    OBVIOUS
  <2> USE DEF TypeOK, Phases, NewestWins, shared, Running, Live
  <2>1. CASE UNCHANGED vars
    BY <2>1 DEF vars
  <2>2. CASE StartReceiver \/ Environment
    BY <2>2 DEF StartReceiver, Environment, EmergencyReset, BroadcastClipboard,
                HeartbeatAges, PeerVanishes
  <2>3. CASE AcceptFails
    \* The only undisplaced session is cancelled by the dropped sender.
    BY <2>3 DEF AcceptFails, CancelActive
  <2>4. ASSUME NEW s \in Sessions, Accept(s) PROVE NewestWins'
    BY <2>4 DEF Accept, CancelActive
  <2>5. ASSUME NEW s \in Sessions, Handler(s) PROVE NewestWins'
    <3>1. Live(s) /\ active_cancel' = active_cancel
      BY <2>5 DEF Handler, StartHandler, Receive, RecvHello, RecvPress,
                  RecvRelease, RecvOther, RecvHeartbeat, PeerEnds, Tick,
                  FailsafeAbort, FailsafeHotkey, FailsafeStale, Exit,
                  DropOutbound, ReleaseHeld, Finish, WriteOutbound,
                  OutboundClosed, Displaced
    <3>2. \A t \in Sessions : t # s => phase'[t] = phase[t] /\ cancelled'[t] = cancelled[t]
      BY <2>5 DEF Handler, StartHandler, Receive, RecvHello, RecvPress,
                  RecvRelease, RecvOther, RecvHeartbeat, PeerEnds, Tick,
                  FailsafeAbort, FailsafeHotkey, FailsafeStale, Exit,
                  DropOutbound, ReleaseHeld, Finish, WriteOutbound,
                  OutboundClosed, Displaced, Leave, StayIf
    <3>3. cancelled'[s] = cancelled[s] \/ phase'[s] = "done"
      BY <2>5 DEF Handler, StartHandler, Receive, RecvHello, RecvPress,
                  RecvRelease, RecvOther, RecvHeartbeat, PeerEnds, Tick,
                  FailsafeAbort, FailsafeHotkey, FailsafeStale, Exit,
                  DropOutbound, ReleaseHeld, Finish, WriteOutbound,
                  OutboundClosed, Displaced
    <3>4. QED BY <3>1, <3>2, <3>3
  <2>6. QED BY <2>1, <2>2, <2>3, <2>4, <2>5 DEF Next
<1>3. QED BY <1>1, <1>2, TypeCorrect, PTL DEF Spec

-----------------------------------------------------------------------------
(* The slot of the newest session. *)

\* Only a handler that starts or leaves touches the slot, and what it writes there.
LEMMA SlotWriters ==
  ASSUME TypeOK, Next, receiver_tx' # receiver_tx
  PROVE  \E t \in Sessions :
           \/ /\ phase[t] = "spawned" /\ phase'[t] = "running"
              /\ receiver_tx' = t
           \/ /\ phase[t] = "leaving" /\ phase'[t] = "releasing"
              /\ receiver_tx' = None
<1> USE DEF shared, input
<1>1. ~StartReceiver /\ ~AcceptFails /\ ~Environment /\ ~\E s \in Sessions : Accept(s)
  BY DEF StartReceiver, AcceptFails, Accept, Environment, EmergencyReset,
         BroadcastClipboard, HeartbeatAges, PeerVanishes
<1>2. PICK t \in Sessions : Handler(t)
  BY <1>1 DEF Next
<1>3. StartHandler(t) \/ DropOutbound(t)
  BY <1>2 DEF Handler, Receive, RecvHello, RecvPress, RecvRelease, RecvOther,
              RecvHeartbeat, PeerEnds, Tick, FailsafeAbort, FailsafeHotkey,
              FailsafeStale, Exit, ReleaseHeld, Finish, WriteOutbound,
              OutboundClosed, Displaced
<1>4. QED BY <1>3 DEF StartHandler, DropOutbound, TypeOK

\* Nothing takes the outbound slot from the newest running session, or empties it, but
\* a session that was told to stop and has not run yet, or is on its way out.
THEOREM SlotIsTakenByDisplaced == Spec => OnlyDisplacedTakeOutbound
<1> DEFINE Taken ==
      \A s \in Sessions :
        (Running(s) /\ active_cancel = s /\ receiver_tx = s /\ receiver_tx' # s)
          => DisplacedPasses(s)
<1>1. TypeOK /\ NewestWins /\ [Next]_vars => [Taken]_vars
  <2> SUFFICES ASSUME TypeOK, NewestWins, Next,
                      NEW s \in Sessions, Running(s), active_cancel = s,
                      receiver_tx = s, receiver_tx' # s
               PROVE  DisplacedPasses(s)
    OBVIOUS
  <2>1. PICK t \in Sessions :
          \/ phase[t] = "spawned" /\ phase'[t] = "running"
          \/ phase[t] = "leaving" /\ phase'[t] = "releasing"
    BY SlotWriters
  <2>2. t # s
    BY <2>1 DEF Running
  <2>3. cancelled[t]
    BY <2>1, <2>2 DEF NewestWins, Live
  <2>4. QED BY <2>1, <2>2, <2>3 DEF DisplacedPasses
<1>2. QED
  BY <1>1, TypeCorrect, OneUndisplacedSession, PTL DEF Spec, OnlyDisplacedTakeOutbound

-----------------------------------------------------------------------------
(* The abort flag. *)

\* While the flag is up, every running session ran when it was raised: a session
\* that starts puts it down first.
LEMMA AbortFlag == Spec => []AbortIsMeant
<1>1. Init => AbortIsMeant
  BY DEF Init, AbortIsMeant
<1>2. TypeOK /\ AbortIsMeant /\ [Next]_vars => AbortIsMeant'
  <2> SUFFICES ASSUME TypeOK, AbortIsMeant, [Next]_vars PROVE AbortIsMeant'
    OBVIOUS
  <2> USE DEF TypeOK, Phases, AbortIsMeant, shared, Running
  <2>1. CASE UNCHANGED vars
    BY <2>1 DEF vars
  <2>2. CASE StartReceiver \/ AcceptFails \/ \E s \in Sessions : Accept(s)
    BY <2>2 DEF StartReceiver, AcceptFails, Accept
  <2>3. CASE Environment
    BY <2>3 DEF Environment, EmergencyReset, BroadcastClipboard, HeartbeatAges,
                PeerVanishes
  <2>4. ASSUME NEW s \in Sessions, Handler(s) PROVE AbortIsMeant'
    <3>1. CASE StartHandler(s)
      BY <3>1 DEF StartHandler
    <3>2. CASE Receive(s)
      <4>1. receiver_abort' = receiver_abort /\ pressed' = pressed
        BY <3>2 DEF Receive, RecvHello, RecvPress, RecvRelease, RecvOther,
                    RecvHeartbeat, PeerEnds
      <4>2. \A t \in Sessions : phase'[t] = "running" => phase[t] = "running"
        BY <3>2 DEF Receive, RecvHello, RecvPress, RecvRelease, RecvOther,
                    RecvHeartbeat, PeerEnds, StayIf, Leave
      <4>3. QED BY <4>1, <4>2
    <3>3. CASE FailsafeAbort(s)
      BY <3>3 DEF FailsafeAbort
    <3>4. CASE \/ FailsafeHotkey(s) \/ FailsafeStale(s) \/ OutboundClosed(s)
               \/ Displaced(s) \/ WriteOutbound(s) \/ DropOutbound(s) \/ Finish(s)
      <4>1. receiver_abort' = receiver_abort
        BY <3>4 DEF FailsafeHotkey, FailsafeStale, OutboundClosed, Displaced,
                    WriteOutbound, DropOutbound, Finish
      <4>2. \A t \in Sessions :
              phase'[t] = "running" => phase[t] = "running" /\ pressed'[t] = pressed[t]
        BY <3>4 DEF FailsafeHotkey, FailsafeStale, OutboundClosed, Displaced,
                    WriteOutbound, DropOutbound, Finish, StayIf, Leave
      <4>3. QED BY <4>1, <4>2
    <3>5. ASSUME NEW i \in Inputs, ReleaseHeld(s, i) PROVE AbortIsMeant'
      BY <3>5 DEF ReleaseHeld
    <3>6. QED BY <2>4, <3>1, <3>2, <3>3, <3>4, <3>5 DEF Handler, Exit, Tick
  <2>5. QED BY <2>1, <2>2, <2>3, <2>4 DEF Next
<1>3. QED BY <1>1, <1>2, TypeCorrect, PTL DEF Spec

\* A reset pressed while nobody is in control never ends a session that begins
\* afterwards.
THEOREM AbortIsNeverStale == Spec => AbortSparesLaterSessions
<1> DEFINE Spared ==
      \A s \in Sessions :
        (receiver_abort /\ ~receiver_abort' /\ Running(s) /\ phase'[s] = "leaving")
          => pressed[s]
<1>1. AbortIsMeant /\ [Next]_vars => [Spared]_vars
  BY DEF AbortIsMeant
<1>2. QED BY <1>1, AbortFlag, PTL DEF Spec, AbortSparesLaterSessions

-----------------------------------------------------------------------------
(* The status. *)

\* With no handler left, the status says disconnected.
THEOREM StatusSettles == Spec => []IdleMeansDisconnected
<1>1. Init => IdleMeansDisconnected
  BY DEF Init, IdleMeansDisconnected
<1>2. TypeOK /\ IdleMeansDisconnected /\ [Next]_vars => IdleMeansDisconnected'
  <2> SUFFICES ASSUME TypeOK, IdleMeansDisconnected, [Next]_vars
               PROVE  IdleMeansDisconnected'
    OBVIOUS
  <2> USE DEF TypeOK, Phases, IdleMeansDisconnected, shared, Running, Live
  <2>1. CASE UNCHANGED vars
    BY <2>1 DEF vars
  <2>2. CASE StartReceiver \/ AcceptFails \/ Environment
    BY <2>2 DEF StartReceiver, AcceptFails, Environment, EmergencyReset,
                BroadcastClipboard, HeartbeatAges, PeerVanishes
  <2>3. ASSUME NEW s \in Sessions, Accept(s) PROVE IdleMeansDisconnected'
    BY <2>3 DEF Accept
  <2>4. ASSUME NEW s \in Sessions, Handler(s) PROVE IdleMeansDisconnected'
    <3>1. CASE Finish(s)
      BY <3>1 DEF Finish
    <3>2. CASE ~Finish(s)
      \* Every other step of a handler leaves it live.
      <4>1. phase'[s] \notin {"free", "done"}
        BY <2>4, <3>2 DEF Handler, StartHandler, Receive, RecvHello, RecvPress,
                  RecvRelease, RecvOther, RecvHeartbeat, PeerEnds, Tick,
                  FailsafeAbort, FailsafeHotkey, FailsafeStale, Exit,
                  DropOutbound, ReleaseHeld, WriteOutbound,
                  OutboundClosed, Displaced, Leave, StayIf
      <4>2. QED BY <4>1
    <3>3. QED BY <3>1, <3>2
  <2>5. QED BY <2>1, <2>2, <2>3, <2>4 DEF Next
<1>3. QED BY <1>1, <1>2, TypeCorrect, PTL DEF Spec
=============================================================================
