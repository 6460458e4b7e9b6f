--------------------- MODULE ControllerSupervisor_proofs ---------------------
(***************************************************************************)
(* Proofs about ControllerSupervisor, for any number of connect calls,     *)
(* peers and faults, with and without captures.                            *)
(***************************************************************************)
EXTENDS ControllerSupervisor, TLAPS

USE GenAssumption, FaultAssumption, SenderAssumption
    DEF GenAssumption, FaultAssumption, SenderAssumption, Gens, Senders

-----------------------------------------------------------------------------
(* The backoff policy. *)

\* The delay never leaves the range the code promises, whatever the history of
\* the attempts.
LEMMA BackoffRange ==
  ASSUME NEW previous \in Delays, NEW long \in BOOLEAN
  PROVE  /\ current_backoff_secs(previous, long) \in Delays
         /\ next_backoff_secs(previous, long) \in Delays
BY DEF Delays, current_backoff_secs, next_backoff_secs

-----------------------------------------------------------------------------
(* Type correctness. *)

LEMMA Bounds == 0 \in 0 .. MaxGen /\ 0 \in 0 .. MaxFaults /\ 1 \in Delays
BY DEF Delays

LEMMA InitType == Init => TypeOK
<1> SUFFICES ASSUME Init PROVE TypeOK
  OBVIOUS
<1>1. target \in [Gens -> Peers]
  BY DEF Init
<1>2. /\ call \in [Gens -> {"none", "clear", "arm", "done"}]
      /\ sup \in [Gens -> Places]
      /\ healthy \in [Gens -> BOOLEAN]
  BY DEF Init, Places
<1>3. /\ backoff_secs \in [Gens -> Delays]
      /\ sleep_secs \in [Gens -> Delays \cup {0}]
      /\ late \in [Gens -> Nat]
  BY Bounds DEF Init
<1>4. served \in [Peers -> Gens \cup {None}]
  BY DEF Init
<1>5. /\ generation \in 0 .. MaxGen
      /\ faults \in 0 .. MaxFaults
      /\ should_run \in BOOLEAN
      /\ stopping \in BOOLEAN
      /\ controller_tx \in Senders
      /\ clone \in Senders
  BY Bounds DEF Init
<1>6. QED BY <1>1, <1>2, <1>3, <1>4, <1>5 DEF TypeOK

LEMMA EndAttemptType ==
  ASSUME TypeOK, NEW g \in Gens, EndAttempt(g)
  PROVE  /\ sup' \in [Gens -> Places]
         /\ controller_tx' \in Senders
         /\ clone' \in Senders
         /\ served' \in [Peers -> Gens \cup {None}]
         /\ healthy' \in [Gens -> BOOLEAN]
BY DEF EndAttempt, TypeOK, Places, Go

LEMMA CommandType ==
  ASSUME TypeOK,
         \/ DisconnectStop \/ DisconnectClear \/ StartCapture \/ StopCapture
         \/ \E g \in Gens : Connect(g)
  PROVE  TypeOK'
<1> USE DEF TypeOK, Places, commands, delays, Go
<1>1. CASE DisconnectStop
  BY <1>1 DEF DisconnectStop
<1>2. CASE DisconnectClear
  BY <1>2 DEF DisconnectClear
<1>3. CASE StartCapture
  BY <1>3 DEF StartCapture
<1>4. CASE StopCapture
  BY <1>4 DEF StopCapture
<1>5. ASSUME NEW g \in Gens, ConnectBump(g) PROVE TypeOK'
  BY <1>5 DEF ConnectBump
<1>6. ASSUME NEW g \in Gens, ConnectClear(g) PROVE TypeOK'
  BY <1>6 DEF ConnectClear
<1>7. ASSUME NEW g \in Gens, ConnectSpawn(g) PROVE TypeOK'
  BY <1>7 DEF ConnectSpawn
<1>8. QED BY <1>1, <1>2, <1>3, <1>4, <1>5, <1>6, <1>7 DEF Connect

LEMMA SupervisorType ==
  ASSUME TypeOK, NEW g \in Gens, Supervisor(g) \/ LinkDrops(g)
  PROVE  TypeOK'
<1> USE DEF TypeOK, commands, delays
<1>1. CASE CheckWanted(g)
  BY <1>1 DEF CheckWanted, Places, Go
<1>2. CASE Publish(g)
  BY <1>2 DEF Publish, Places, Go
<1>3. CASE DialSucceeds(g)
  BY <1>3 DEF DialSucceeds, Places, Go
<1>4. CASE DialFails(g)
  BY <1>4, EndAttemptType DEF DialFails
<1>5. CASE ChannelCloses(g)
  BY <1>5, EndAttemptType DEF ChannelCloses
<1>6. CASE PeerCloses(g)
  BY <1>6, EndAttemptType DEF PeerCloses
<1>7. CASE LinkDrops(g)
  BY <1>7, EndAttemptType DEF LinkDrops
<1>8. CASE ClearSlot(g)
  BY <1>8 DEF ClearSlot, Places, Go
<1>9. CASE Recheck(g)
  <2>1. current_backoff_secs(backoff_secs[g], healthy[g]) \in Delays
    BY BackoffRange
  <2>2. sup' \in [Gens -> Places]
    BY <1>9 DEF Recheck, Places, Go
  <2>3. sleep_secs' \in [Gens -> Delays \cup {0}]
    <3>1. CASE Wanted(g)
      <4> DEFINE d == current_backoff_secs(backoff_secs[g], healthy[g])
      <4>1. sleep_secs' = [sleep_secs EXCEPT ![g] = d]
        BY <1>9, <3>1 DEF Recheck
      <4>2. QED BY <2>1, <4>1
    <3>2. CASE ~Wanted(g)
      BY <1>9, <3>2 DEF Recheck
    <3>3. QED BY <3>1, <3>2
  <2>4. QED BY <1>9, <2>2, <2>3 DEF Recheck
<1>10. CASE Wake(g)
  <2>1. next_backoff_secs(backoff_secs[g], healthy[g]) \in Delays
    BY BackoffRange
  <2>2. QED BY <1>10, <2>1 DEF Wake, Places, Go
<1>11. QED
  BY <1>1, <1>2, <1>3, <1>4, <1>5, <1>6, <1>7, <1>8, <1>9, <1>10 DEF Supervisor

\* Types, which include that every delay stays between 1 and 10 seconds.
THEOREM TypeCorrect == Spec => []TypeOK
<1>1. TypeOK /\ [Next]_vars => TypeOK'
  <2> SUFFICES ASSUME TypeOK, [Next]_vars PROVE TypeOK'
    OBVIOUS
  <2>1. CASE UNCHANGED vars
    BY <2>1 DEF TypeOK, vars
  <2>2. CASE Next
    BY <2>2, CommandType, SupervisorType DEF Next
  <2>3. QED BY <2>1, <2>2
<1>2. QED BY InitType, <1>1, PTL DEF Spec

-----------------------------------------------------------------------------
(* The slot. *)

\* A supervisor exists only once its connect call has spawned it.
SpawnedOnce ==
  \A g \in Gens : call[g] # "done" => At(g, "unborn") /\ late[g] = 0

LEMMA OneSpawn == Spec => []SpawnedOnce
<1>1. Init => SpawnedOnce
  BY DEF Init, SpawnedOnce, At
<1>2. TypeOK /\ SpawnedOnce /\ [Next]_vars => SpawnedOnce'
  <2> SUFFICES ASSUME TypeOK, SpawnedOnce, [Next]_vars PROVE SpawnedOnce'
    OBVIOUS
  <2> USE DEF TypeOK, SpawnedOnce, At, Go, commands
  <2>1. CASE UNCHANGED vars
    BY <2>1 DEF vars
  <2>2. CASE DisconnectStop \/ DisconnectClear \/ StartCapture \/ StopCapture
    BY <2>2 DEF DisconnectStop, DisconnectClear, StartCapture, StopCapture
  <2>3. ASSUME NEW g \in Gens, Connect(g) PROVE SpawnedOnce'
    BY <2>3 DEF Connect, ConnectBump, ConnectClear, ConnectSpawn
  <2>4. ASSUME NEW g \in Gens, Supervisor(g) \/ LinkDrops(g) PROVE SpawnedOnce'
    \* A supervisor that takes a step has been spawned, and touches only itself.
    <3>1. call[g] = "done" /\ call' = call
      BY <2>4 DEF Supervisor, LinkDrops, CheckWanted, Publish, DialSucceeds,
                  DialFails, ChannelCloses, PeerCloses, ClearSlot, Recheck, Wake
    <3>2. \A h \in Gens : h # g => sup'[h] = sup[h] /\ late'[h] = late[h]
      BY <2>4 DEF Supervisor, LinkDrops, CheckWanted, Publish, DialSucceeds,
                  DialFails, ChannelCloses, PeerCloses, ClearSlot, Recheck, Wake,
                  EndAttempt
    <3>3. QED BY <3>1, <3>2
  <2>5. QED BY <2>1, <2>2, <2>3, <2>4 DEF Next
<1>3. QED BY <1>1, <1>2, TypeCorrect, PTL DEF Spec

\* A sender in the slot belongs to an attempt in progress, and a dead one is
\* about to be cleared.
THEOREM LiveSlot == Spec => []SlotIsLive
<1>1. Init => SlotIsLive
  BY DEF Init, SlotIsLive
<1>2. TypeOK /\ SpawnedOnce /\ SlotIsLive /\ [Next]_vars => SlotIsLive'
  <2> SUFFICES ASSUME TypeOK, SpawnedOnce, SlotIsLive, [Next]_vars
               PROVE  SlotIsLive'
    OBVIOUS
  <2> USE DEF TypeOK, SlotIsLive, At, Go, Places, commands
  <2>1. CASE UNCHANGED vars
    BY <2>1 DEF vars
  <2>2. CASE DisconnectStop \/ DisconnectClear \/ StartCapture \/ StopCapture
    BY <2>2 DEF DisconnectStop, DisconnectClear, StartCapture, StopCapture
  <2>3. ASSUME NEW g \in Gens, ConnectBump(g) \/ ConnectClear(g) PROVE SlotIsLive'
    BY <2>3 DEF ConnectBump, ConnectClear
  <2>4. ASSUME NEW g \in Gens, ConnectSpawn(g) PROVE SlotIsLive'
    BY <2>4 DEF ConnectSpawn, SpawnedOnce
  <2>5. ASSUME NEW g \in Gens, EndAttempt(g) PROVE SlotIsLive'
    \* The sender of g dies as g reaches "clear".
    BY <2>5 DEF EndAttempt
  <2>6. ASSUME NEW g \in Gens, CheckWanted(g) \/ Recheck(g) \/ Wake(g)
        PROVE  SlotIsLive'
    <3>1. sup[g] \in {"check", "recheck", "sleep"} /\ controller_tx' = controller_tx
      BY <2>6 DEF CheckWanted, Recheck, Wake
    <3>2. \A h \in Gens : h # g => sup'[h] = sup[h]
      BY <2>6 DEF CheckWanted, Recheck, Wake
    <3>3. QED BY <3>1, <3>2
  <2>7. ASSUME NEW g \in Gens, Publish(g) \/ DialSucceeds(g) \/ ClearSlot(g)
        PROVE  SlotIsLive'
    BY <2>7 DEF Publish, DialSucceeds, ClearSlot
  <2>8. QED
    BY <2>1, <2>2, <2>3, <2>4, <2>5, <2>6, <2>7
    DEF Next, Connect, Supervisor, DialFails, ChannelCloses, PeerCloses, LinkDrops
<1>3. QED BY <1>1, <1>2, TypeCorrect, OneSpawn, PTL DEF Spec

-----------------------------------------------------------------------------
(* Late attempts. *)

\* What makes AtMostOneLateAttempt inductive: a supervisor that began an attempt
\* while unwanted stays unwanted, because the generation is bumped before
\* should_run is set, and it is on its way to the exit.
LateIsLeaving ==
  \A g \in Gens :
    late[g] # 0 =>
      /\ late[g] = 1
      /\ ~Wanted(g)
      /\ sup[g] \in {"dial", "session", "clear", "recheck", "gone"}

\* A stopped or superseded supervisor begins at most one more attempt.
THEOREM FewLateAttempts == Spec => []AtMostOneLateAttempt
<1>1. Init => LateIsLeaving
  BY DEF Init, LateIsLeaving
<1>2. TypeOK /\ SpawnedOnce /\ LateIsLeaving /\ [Next]_vars => LateIsLeaving'
  <2> SUFFICES ASSUME TypeOK, SpawnedOnce, LateIsLeaving, [Next]_vars
               PROVE  LateIsLeaving'
    OBVIOUS
  <2> USE DEF TypeOK, LateIsLeaving, At, Go, Places, commands, Wanted
  <2>1. CASE UNCHANGED vars
    BY <2>1 DEF vars
  <2>2. CASE DisconnectStop \/ DisconnectClear \/ StartCapture \/ StopCapture
    BY <2>2 DEF DisconnectStop, DisconnectClear, StartCapture, StopCapture
  <2>3. ASSUME NEW g \in Gens, ConnectBump(g) PROVE LateIsLeaving'
    \* The new generation is that of a supervisor yet to be spawned.
    <3>1. late[g] = 0
      BY <2>3 DEF ConnectBump, SpawnedOnce
    <3>2. QED BY <2>3, <3>1 DEF ConnectBump
  <2>4. ASSUME NEW g \in Gens, ConnectClear(g) \/ ConnectSpawn(g)
        PROVE  LateIsLeaving'
    BY <2>4 DEF ConnectClear, ConnectSpawn
  <2>5. ASSUME NEW g \in Gens, EndAttempt(g), UNCHANGED commands, late' = late
        PROVE  LateIsLeaving'
    BY <2>5 DEF EndAttempt
  <2>6. ASSUME NEW g \in Gens, CheckWanted(g) \/ Recheck(g) \/ Wake(g)
        PROVE  LateIsLeaving'
    BY <2>6 DEF CheckWanted, Recheck, Wake
  <2>7. ASSUME NEW g \in Gens, Publish(g) PROVE LateIsLeaving'
    <3>1. late[g] = 0
      BY <2>7 DEF Publish
    <3>2. QED BY <2>7, <3>1 DEF Publish
  <2>8. ASSUME NEW g \in Gens, DialSucceeds(g) \/ ClearSlot(g)
        PROVE  LateIsLeaving'
    BY <2>8 DEF DialSucceeds, ClearSlot
  <2>9. QED
    BY <2>1, <2>2, <2>3, <2>4, <2>5, <2>6, <2>7, <2>8
    DEF Next, Connect, Supervisor, DialFails, ChannelCloses, PeerCloses, LinkDrops
<1>3. TypeOK /\ LateIsLeaving => AtMostOneLateAttempt
  BY DEF TypeOK, LateIsLeaving, AtMostOneLateAttempt
<1>4. QED BY <1>1, <1>2, <1>3, TypeCorrect, OneSpawn, PTL DEF Spec

-----------------------------------------------------------------------------
(* The backoff. *)

\* What makes BackoffPolicy provable: the delay a supervisor inherits is what the one
\* it chose last leads to, except while it sleeps, when the one it chose still is what
\* the inherited one and the verdict on the attempt make.
Inherits(g) ==
  IF At(g, "sleep")
  THEN sleep_secs[g] = current_backoff_secs(backoff_secs[g], healthy[g])
  ELSE backoff_secs[g] = Doubled(sleep_secs[g])

\* Both sides of a sleep double the same delay.
LEMMA NextIsDoubled ==
  ASSUME NEW b \in Delays, NEW long \in BOOLEAN
  PROVE  next_backoff_secs(b, long) = Doubled(current_backoff_secs(b, long))
BY DEF Delays, next_backoff_secs, current_backoff_secs, Doubled

\* A supervisor that keeps its place, or moves to one where it does not sleep, and
\* its delays, inherits as before.
LEMMA SameInherits ==
  ASSUME NEW g \in Gens, Inherits(g), UNCHANGED <<backoff_secs[g], sleep_secs[g]>>,
         \/ UNCHANGED <<sup[g], healthy[g]>>
         \/ ~At(g, "sleep") /\ ~At(g, "sleep")'
  PROVE  Inherits(g)'
BY DEF Inherits, At, current_backoff_secs, Doubled

LEMMA InheritedDelay == Spec => []\A g \in Gens : Inherits(g)
<1>1. Init => \A g \in Gens : Inherits(g)
  BY DEF Init, Inherits, At, Doubled
<1>2. TypeOK /\ SpawnedOnce /\ (\A g \in Gens : Inherits(g)) /\ [Next]_vars
        => (\A g \in Gens : Inherits(g))'
  <2> SUFFICES ASSUME TypeOK, SpawnedOnce, \A g \in Gens : Inherits(g), [Next]_vars,
                      NEW h \in Gens
               PROVE  Inherits(h)'
    OBVIOUS
  <2> USE DEF At, Go, commands, delays
  <2>1. CASE UNCHANGED vars
    BY <2>1, SameInherits DEF vars
  <2>2. CASE DisconnectStop \/ DisconnectClear \/ StartCapture \/ StopCapture
    BY <2>2, SameInherits DEF DisconnectStop, DisconnectClear, StartCapture, StopCapture
  <2>3. ASSUME NEW g \in Gens, Connect(g) PROVE Inherits(h)'
    \* Only a call whose supervisor is not asleep moves it.
    <3>1. UNCHANGED <<delays, healthy>>
      BY <2>3 DEF Connect, ConnectBump, ConnectClear, ConnectSpawn
    <3>2. CASE ConnectSpawn(g) /\ h = g
      <4>1. sup'[h] = "check"
        BY <3>2 DEF ConnectSpawn, TypeOK
      <4>2. sup[h] # "sleep"
        BY <3>2 DEF ConnectSpawn, SpawnedOnce
      <4>3. QED BY <3>1, <4>1, <4>2, SameInherits
    <3>3. CASE ~ConnectSpawn(g) \/ h # g
      BY <2>3, <3>1, <3>3, SameInherits
      DEF Connect, ConnectBump, ConnectClear, ConnectSpawn, TypeOK
    <3>4. QED BY <3>2, <3>3
  <2>4. ASSUME NEW g \in Gens, EndAttempt(g), UNCHANGED delays, ~At(g, "sleep")
        PROVE  Inherits(h)'
    BY <2>4, SameInherits DEF EndAttempt, TypeOK
  <2>5. ASSUME NEW g \in Gens,
               \/ CheckWanted(g) \/ Publish(g) \/ DialSucceeds(g) \/ ClearSlot(g)
        PROVE  Inherits(h)'
    <3>1. /\ UNCHANGED <<delays, healthy>>
          /\ sup[g] # "sleep"
          /\ sup'[g] # "sleep"
          /\ h # g => sup'[h] = sup[h]
      BY <2>5 DEF CheckWanted, Publish, DialSucceeds, ClearSlot, TypeOK
    <3>2. QED BY <3>1, SameInherits
  <2>6. ASSUME NEW g \in Gens, Recheck(g) PROVE Inherits(h)'
    <3>1. /\ UNCHANGED <<healthy, backoff_secs>>
          /\ h # g => UNCHANGED <<sup[h], sleep_secs[h]>>
      BY <2>6 DEF Recheck, TypeOK
    <3>2. CASE h = g /\ Wanted(g)
      BY <2>6, <3>1, <3>2 DEF Recheck, Inherits, TypeOK
    <3>3. CASE h = g /\ ~Wanted(g)
      BY <2>6, <3>1, <3>3, SameInherits DEF Recheck, TypeOK
    <3>4. QED BY <3>1, <3>2, <3>3, SameInherits
  <2>7. ASSUME NEW g \in Gens, Wake(g) PROVE Inherits(h)'
    <3>1. /\ UNCHANGED <<healthy, sleep_secs>>
          /\ h # g => UNCHANGED <<sup[h], backoff_secs[h]>>
      BY <2>7 DEF Wake, TypeOK
    <3>2. CASE h = g
      <4>1. /\ sup'[g] = "check"
            /\ backoff_secs'[g] = next_backoff_secs(backoff_secs[g], healthy[g])
            /\ sleep_secs[g] = current_backoff_secs(backoff_secs[g], healthy[g])
        BY <2>7, <3>2 DEF Wake, Inherits, TypeOK
      <4>2. backoff_secs'[g] = Doubled(sleep_secs[g])
        BY <4>1, NextIsDoubled DEF TypeOK
      <4>3. QED BY <3>1, <3>2, <4>1, <4>2 DEF Inherits, Doubled
    <3>3. QED BY <3>1, <3>2, SameInherits
  <2>8. QED
    BY <2>1, <2>2, <2>3, <2>4, <2>5, <2>6, <2>7
    DEF Next, Supervisor, DialFails, ChannelCloses, PeerCloses, LinkDrops
<1>3. QED BY <1>1, <1>2, TypeCorrect, OneSpawn, PTL DEF Spec

\* Between attempts of less than 15 s the delay doubles up to 10 s; an attempt that
\* took longer, be it a session or a dial that was slow to fail, starts over at 1 s
\* (controller.rs 23-50, 89, 113-140).
THEOREM BackoffFollowsPolicy == Spec => BackoffPolicy
<1> DEFINE Chosen(g) == At(g, "recheck") /\ sup'[g] = "sleep" =>
                          sleep_secs'[g] = IF healthy[g] THEN 1 ELSE Doubled(sleep_secs[g])
<1>1. TypeOK /\ (\A g \in Gens : Inherits(g)) /\ [Next]_vars
        => [\A g \in Gens : Chosen(g)]_vars
  <2> SUFFICES ASSUME TypeOK, \A g \in Gens : Inherits(g), Next, NEW g \in Gens,
                      At(g, "recheck"), sup'[g] = "sleep"
               PROVE  sleep_secs'[g] = IF healthy[g] THEN 1 ELSE Doubled(sleep_secs[g])
    OBVIOUS
  <2>1. CASE Recheck(g)
    <3>1. Wanted(g)
      BY <2>1 DEF Recheck, TypeOK, Go
    <3>2. sleep_secs'[g] = current_backoff_secs(backoff_secs[g], healthy[g])
      BY <2>1, <3>1 DEF Recheck, TypeOK
    <3>3. backoff_secs[g] = Doubled(sleep_secs[g])
      BY DEF Inherits, At
    <3>4. QED BY <3>2, <3>3 DEF current_backoff_secs
  <2>2. CASE ~Recheck(g)
    \* Nobody else moves g.
    BY <2>2 DEF Next, Connect, ConnectBump, ConnectClear, ConnectSpawn, Supervisor,
                LinkDrops, CheckWanted, Publish, DialSucceeds, DialFails,
                ChannelCloses, PeerCloses, ClearSlot, Recheck, Wake, EndAttempt,
                DisconnectStop, DisconnectClear, StartCapture, StopCapture,
                TypeOK, At, Go
  <2>3. QED BY <2>1, <2>2
<1>2. QED BY <1>1, TypeCorrect, InheritedDelay, PTL DEF Spec, BackoffPolicy
=============================================================================
