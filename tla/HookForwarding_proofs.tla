------------------------ MODULE HookForwarding_proofs ------------------------
(***************************************************************************)
(* Proofs about HookForwarding, for either twin and any number of starts,  *)
(* keys, queued events and lost hooks.                                     *)
(***************************************************************************)
EXTENDS HookForwarding, TLAPS

USE TwinAssumption, GenAssumption, QueueAssumption, LossAssumption, NoneAssumption
    DEF TwinAssumption, GenAssumption, QueueAssumption, LossAssumption,
        NoneAssumption, Gens

-----------------------------------------------------------------------------
(* Type correctness. *)

\* The ranges hold their least elements.
LEMMA Bounds == 0 \in 0 .. MaxGen /\ 0 \in 0 .. MaxLosses /\ 0 \in 0 .. 1
OBVIOUS

LEMMA InitType == Init => TypeOK
<1> SUFFICES ASSUME Init PROVE TypeOK
  OBVIOUS
<1>1. /\ twin \in Twins
      /\ generation \in 0 .. MaxGen
      /\ losses \in 0 .. MaxLosses
      /\ hook_running \in BOOLEAN
      /\ lost \in BOOLEAN
      /\ stopping \in BOOLEAN
      /\ hook \in Gens \cup {None}
      /\ event_sender \in Gens \cup {None}
  BY Bounds DEF Init
<1>2. /\ pc \in [Gens -> Places]
      /\ marker \in [Gens -> {"none", "seen", "unseen"}]
      /\ target \in {"live", "absent", "closed"}
  BY DEF Init, Places
<1>3. missed \in [Gens -> 0 .. 1]
  BY Bounds DEF Init
<1>4. queue \in [Gens -> Seq(Events)]
  BY DEF Init
<1>5. /\ pressed \in [Gens -> SUBSET Keys]
      /\ preheld \in SUBSET Keys
      /\ phys \in SUBSET Keys
      /\ localDown \in SUBSET Keys
      /\ remoteDown \in SUBSET Keys
      /\ gap \in SUBSET Keys
  BY DEF Init
<1>6. QED BY <1>1, <1>2, <1>3, <1>4, <1>5 DEF TypeOK

LEMMA StartType ==
  ASSUME TypeOK, NEW g \in Gens, Start(g)
  PROVE  TypeOK'
<1> USE DEF TypeOK, Go, Places, hooks, health, user
<1>1. CASE Claim(g)
  BY <1>1 DEF Claim
<1>2. CASE SnapshotKeys(g)
  BY <1>2 DEF SnapshotKeys
<1>3. CASE Install(g)
  BY <1>3 DEF Install, InstallHook
<1>4. CASE InstallFails(g)
  BY <1>4 DEF InstallFails
<1>5. CASE Spawn(g)
  BY <1>5 DEF Spawn, StoreHook
<1>6. QED BY <1>1, <1>2, <1>3, <1>4, <1>5 DEF Start

\* The watchdog's count of misses and its marker stay in range.
LEMMA CountType ==
  ASSUME TypeOK, NEW g \in Gens
  PROVE  MissedNow(g) \in Nat
<1>1. missed[g] \in 0 .. 1 /\ marker[g] \in {"none", "seen", "unseen"}
  BY DEF TypeOK
<1>2. QED BY <1>1 DEF MissedNow

LEMMA MarkerType ==
  ASSUME TypeOK, NEW g \in Gens, InjectMarker(g)
  PROVE  marker' \in [Gens -> {"none", "seen", "unseen"}]
BY DEF TypeOK, InjectMarker

LEMMA LoopType ==
  ASSUME TypeOK, NEW g \in Gens, Loop(g)
  PROVE  TypeOK'
<1> USE DEF TypeOK, Go, hooks, health, user
<1>1. CASE LoopHead(g)
  BY <1>1 DEF LoopHead, Places
<1>2. CASE StaleStop(g)
  BY <1>2 DEF StaleStop, Places
<1>3. CASE HealthCheck(g)
  <2>1. MissedNow(g) \in 0 .. 1
    BY <1>3, CountType DEF HealthCheck
  <2>2. missed' \in [Gens -> 0 .. 1]
    BY <1>3, <2>1 DEF HealthCheck
  <2>3. marker' \in [Gens -> {"none", "seen", "unseen"}]
    BY <1>3, MarkerType DEF HealthCheck
  <2>4. pc' \in [Gens -> Places]
    BY <1>3 DEF HealthCheck, Places
  <2>5. QED BY <1>3, <2>2, <2>3, <2>4 DEF HealthCheck
<1>4. CASE DropDeadHook(g)
  <2>1. missed' \in [Gens -> 0 .. 1]
    BY <1>4, Bounds DEF DropDeadHook
  <2>2. QED BY <1>4, <2>1 DEF DropDeadHook, DropHook, Places
<1>5. CASE Reinstall(g)
  <2>1. queue' \in [Gens -> Seq(Events)]
    BY <1>5 DEF Reinstall
  <2>2. QED BY <1>5, <2>1 DEF Reinstall, InstallHook, Places
<1>6. CASE ReinstallFails(g)
  BY <1>6 DEF ReinstallFails, Places
<1>7. CASE Restore(g)
  <2>1. marker' \in [Gens -> {"none", "seen", "unseen"}]
    BY <1>7, MarkerType DEF Restore
  <2>2. QED BY <1>7, <2>1 DEF Restore, StoreHook, Places
<1>8. CASE Timeout(g)
  BY <1>8 DEF Timeout, Places
<1>9. CASE Disconnected(g)
  BY <1>9 DEF Disconnected, Places
<1>10. CASE Forward(g)
  <2> DEFINE e == Head(queue[g])
  <2>1. queue[g] \in Seq(Events) /\ queue[g] # <<>>
    BY <1>10 DEF Forward
  <2>2. e \in Events /\ Tail(queue[g]) \in Seq(Events)
    BY <2>1
  <2>3. e.key \in Keys /\ e.down \in BOOLEAN
    BY <1>10, <2>2 DEF Forward, Events
  <2>4. queue' \in [Gens -> Seq(Events)]
    BY <1>10, <2>2 DEF Forward
  <2>5. pressed' \in [Gens -> SUBSET Keys]
    BY <1>10, <2>3 DEF Forward, Track
  <2>6. remoteDown' \in SUBSET Keys
    BY <1>10, <2>3 DEF Forward, Send
  <2>7. pc' \in [Gens -> Places] /\ hook_running' \in BOOLEAN
    BY <1>10 DEF Forward, Places
  <2>8. QED BY <1>10, <2>4, <2>5, <2>6, <2>7 DEF Forward
<1>11. CASE ForwardFailsafe(g)
  <2>1. queue[g] \in Seq(Events) /\ queue[g] # <<>>
    BY <1>11 DEF ForwardFailsafe
  <2>2. queue' \in [Gens -> Seq(Events)]
    BY <1>11, <2>1 DEF ForwardFailsafe
  <2>3. QED BY <1>11, <2>2 DEF ForwardFailsafe, Places
<1>12. QED
  BY <1>1, <1>2, <1>3, <1>4, <1>5, <1>6, <1>7, <1>8, <1>9, <1>10, <1>11 DEF Loop

LEMMA EndType ==
  ASSUME TypeOK, NEW g \in Gens, End(g)
  PROVE  TypeOK'
<1> USE DEF TypeOK, Go, hooks, health, user
<1>1. CASE CheckOwner(g)
  <2>1. missed' \in [Gens -> 0 .. 1]
    BY <1>1, Bounds DEF CheckOwner
  <2>2. QED BY <1>1, <2>1 DEF CheckOwner, Places
<1>2. CASE ClearFlag(g)
  BY <1>2 DEF ClearFlag, Places
<1>3. CASE ClearSlot(g)
  BY <1>3 DEF ClearSlot, DropHook, Places
<1>4. CASE Return(g)
  <2>1. queue' \in [Gens -> Seq(Events)]
    BY <1>4 DEF Return
  <2>2. QED BY <1>4, <2>1 DEF Return, Places
<1>5. ASSUME NEW k \in Keys, Drain(g, k) PROVE TypeOK'
  BY <1>5 DEF Drain, Track, Send
<1>6. QED BY <1>1, <1>2, <1>3, <1>4, <1>5 DEF End

LEMMA ObserveType ==
  ASSUME TypeOK, Takes, NEW e \in Events, Observe(e)
  PROVE  queue' \in [Gens -> Seq(Events)]
<1>1. event_sender \in Gens
  BY DEF TypeOK, Takes, Sees
<1>2. queue[event_sender] \in Seq(Events)
  BY <1>1 DEF TypeOK
<1>3. Append(queue[event_sender], e) \in Seq(Events)
  BY <1>2
<1>4. QED BY <1>1, <1>3 DEF TypeOK, Observe

LEMMA WorldType ==
  ASSUME TypeOK, World
  PROVE  TypeOK'
<1> USE DEF TypeOK, hooks, health, user
<1>1. CASE PressFailsafe
  <2>1. queue' \in [Gens -> Seq(Events)]
    BY <1>1, ObserveType DEF PressFailsafe, Events
  <2>2. QED BY <1>1, <2>1 DEF PressFailsafe
<1>2. CASE LoseHook
  BY <1>2 DEF LoseHook
<1>3. CASE TargetChanges
  BY <1>3 DEF TargetChanges
<1>4. ASSUME NEW k \in Keys, KeyDown(k) PROVE TypeOK'
  <2>1. [key |-> k, down |-> TRUE] \in Events
    BY DEF Events
  <2>2. queue' \in [Gens -> Seq(Events)]
    BY <1>4, <2>1, ObserveType DEF KeyDown
  <2>3. localDown' \in SUBSET Keys /\ gap' \in SUBSET Keys
    BY <1>4 DEF KeyDown
  <2>4. QED BY <1>4, <2>2, <2>3 DEF KeyDown
<1>5. ASSUME NEW k \in Keys, KeyUp(k) PROVE TypeOK'
  <2>1. [key |-> k, down |-> FALSE] \in Events
    BY DEF Events
  <2>2. queue' \in [Gens -> Seq(Events)]
    BY <1>5, <2>1, ObserveType DEF KeyUp
  <2>3. QED BY <1>5, <2>2 DEF KeyUp
<1>6. QED BY <1>1, <1>2, <1>3, <1>4, <1>5 DEF World

\* Types, which include that the watchdog never counts beyond its second miss.
THEOREM TypeCorrect == Spec => []TypeOK
<1>1. TypeOK /\ [Next]_vars => TypeOK'
  <2> SUFFICES ASSUME TypeOK, [Next]_vars PROVE TypeOK'
    OBVIOUS
  <2>1. CASE UNCHANGED vars
    BY <2>1 DEF TypeOK, vars
  <2>2. CASE StopFlag \/ StopSlot
    BY <2>2 DEF TypeOK, StopFlag, StopSlot, DropHook, hooks, health, user
  <2>3. QED BY <2>1, <2>2, StartType, LoopType, EndType, WorldType DEF Next
<1>2. QED BY InitType, <1>1, PTL DEF Spec

-----------------------------------------------------------------------------
(* The hook. *)

\* What makes SlotHoldsTheHook inductive: while a start or a watchdog carries the
\* hook it has just installed to the slot, the slot is empty and stays so, because
\* nobody else can install one.
CarriedHookIsTheOnlyOne ==
  \A g \in Gens :
    At(g, "installed") \/ At(g, "restore") => event_sender = g /\ hook = None

OneHook == SlotHoldsTheHook /\ CarriedHookIsTheOnlyOne

\* Dropping what is in the slot, from a place that carries no hook to another.
LEMMA DropKeepsOneHook ==
  ASSUME TypeOK, OneHook, DropHook,
         \A g \in Gens :
           \/ pc'[g] = pc[g]
           \/ {pc'[g], pc[g]} \cap {"installed", "restore"} = {}
  PROVE  OneHook'
<1>1. CASE hook = None
  \* Nothing is dropped.
  <2>1. hook' = hook /\ event_sender' = event_sender
    BY <1>1 DEF DropHook
  <2>2. event_sender = None \/ event_sender \in Gens
    BY DEF TypeOK
  <2>3. QED
    BY <1>1, <2>1, <2>2 DEF OneHook, SlotHoldsTheHook, CarriedHookIsTheOnlyOne, At
<1>2. CASE hook # None
  \* Nobody carries a hook, and the sender goes with the one that is dropped.
  BY <1>2 DEF DropHook, OneHook, SlotHoldsTheHook, CarriedHookIsTheOnlyOne, At
<1>3. QED BY <1>1, <1>2

LEMMA AlwaysOneHook == Spec => [](TypeOK /\ OneHook)
<1>1. Init => OneHook
  BY DEF Init, OneHook, SlotHoldsTheHook, CarriedHookIsTheOnlyOne, At
<1>2. TypeOK /\ OneHook /\ [Next]_vars => OneHook'
  <2> SUFFICES ASSUME TypeOK, OneHook, [Next]_vars PROVE OneHook'
    OBVIOUS
  <2>1. CASE UNCHANGED vars
    BY <2>1 DEF vars, OneHook, SlotHoldsTheHook, CarriedHookIsTheOnlyOne, At
  <2>2. CASE UNCHANGED <<hooks, pc>>
    BY <2>2 DEF hooks, OneHook, SlotHoldsTheHook, CarriedHookIsTheOnlyOne, At
  <2>3. ASSUME NEW g \in Gens, UNCHANGED hooks, NEW p \in Places, Go(g, p),
               p \notin {"installed", "restore"},
               pc[g] \notin {"installed", "restore"}
        PROVE  OneHook'
    <3>1. \A h \in Gens :
            pc'[h] = pc[h] \/ {pc'[h], pc[h]} \cap {"installed", "restore"} = {}
      BY <2>3 DEF Go, TypeOK
    <3>2. QED
      BY <2>3, <3>1
      DEF hooks, OneHook, SlotHoldsTheHook, CarriedHookIsTheOnlyOne, At, TypeOK
  <2>4. ASSUME NEW g \in Gens, Install(g) \/ Reinstall(g) PROVE OneHook'
    <3>1. event_sender = None /\ event_sender' = g /\ hook' = hook
      BY <2>4 DEF Install, Reinstall, InstallHook
    <3>2. hook = None
      BY <3>1 DEF OneHook, SlotHoldsTheHook, TypeOK
    <3>3. /\ pc'[g] \in {"installed", "restore"}
          /\ \A h \in Gens : h # g => pc'[h] = pc[h]
      BY <2>4 DEF Install, Reinstall, Go, TypeOK
    <3>4. \A h \in Gens : pc[h] \notin {"installed", "restore"}
      BY <3>1 DEF OneHook, CarriedHookIsTheOnlyOne, At
    <3>5. QED
      BY <3>1, <3>2, <3>3, <3>4
      DEF OneHook, SlotHoldsTheHook, CarriedHookIsTheOnlyOne, At
  <2>5. ASSUME NEW g \in Gens, Spawn(g) \/ Restore(g) PROVE OneHook'
    <3>1. event_sender = g /\ hook = None
      BY <2>5 DEF Spawn, Restore, OneHook, CarriedHookIsTheOnlyOne, At
    <3>2. hook' = g /\ event_sender' = g
      BY <2>5, <3>1 DEF Spawn, Restore, StoreHook
    <3>3. \A h \in Gens : pc'[h] \notin {"installed", "restore"}
      <4>1. pc'[g] \notin {"installed", "restore"}
        BY <2>5 DEF Spawn, Restore, Go, TypeOK
      <4>2. \A h \in Gens : h # g => pc'[h] = pc[h]
        BY <2>5 DEF Spawn, Restore, Go, TypeOK
      <4>3. \A h \in Gens : h # g => pc[h] \notin {"installed", "restore"}
        BY <3>1 DEF OneHook, CarriedHookIsTheOnlyOne, At
      <4>4. QED BY <4>1, <4>2, <4>3
    <3>4. QED
      BY <3>2, <3>3 DEF OneHook, SlotHoldsTheHook, CarriedHookIsTheOnlyOne, At
  <2>6. ASSUME NEW g \in Gens, DropDeadHook(g) \/ ClearSlot(g) PROVE OneHook'
    <3>1. \A h \in Gens :
            pc'[h] = pc[h] \/ {pc'[h], pc[h]} \cap {"installed", "restore"} = {}
      BY <2>6 DEF DropDeadHook, ClearSlot, Go, TypeOK
    <3>2. QED BY <2>6, <3>1, DropKeepsOneHook DEF DropDeadHook, ClearSlot
  <2>7. CASE StopSlot
    BY <2>7, DropKeepsOneHook DEF StopSlot
  <2>8. CASE StopFlag
    BY <2>8, <2>2 DEF StopFlag
  <2>9. CASE World
    <3>1. UNCHANGED <<hook, event_sender, pc>>
      BY <2>9 DEF World, PressFailsafe, LoseHook, TargetChanges, KeyDown, KeyUp,
                  hooks
    <3>2. QED BY <3>1 DEF OneHook, SlotHoldsTheHook, CarriedHookIsTheOnlyOne, At
  <2>10. ASSUME NEW g \in Gens, Claim(g) \/ SnapshotKeys(g) \/ InstallFails(g)
         PROVE  OneHook'
    BY <2>10, <2>3 DEF Claim, SnapshotKeys, InstallFails, At, Places
  <2>11. ASSUME NEW g \in Gens,
                \/ LoopHead(g) \/ StaleStop(g) \/ HealthCheck(g)
                \/ ReinstallFails(g) \/ Timeout(g) \/ Disconnected(g)
         PROVE  OneHook'
    BY <2>11, <2>3 DEF LoopHead, StaleStop, HealthCheck, ReinstallFails, Timeout,
                       Disconnected, At, Places
  <2>12. ASSUME NEW g \in Gens, Forward(g) \/ ForwardFailsafe(g) PROVE OneHook'
    BY <2>12, <2>3 DEF Forward, ForwardFailsafe, At, Places
  <2>13. ASSUME NEW g \in Gens, CheckOwner(g) \/ ClearFlag(g) \/ Return(g)
         PROVE  OneHook'
    BY <2>13, <2>3 DEF CheckOwner, ClearFlag, Return, At, Places
  <2>14. ASSUME NEW g \in Gens, NEW k \in Keys, Drain(g, k) PROVE OneHook'
    BY <2>14, <2>2 DEF Drain
  <2>15. QED
    BY <2>1, <2>4, <2>5, <2>6, <2>7, <2>8, <2>9, <2>10, <2>11, <2>12, <2>13, <2>14
    DEF Next, Start, Loop, End
<1>3. QED BY <1>1, <1>2, TypeCorrect, PTL DEF Spec

\* The installed hook is the one the slot holds, for every history of starts,
\* stops, lost hooks and ends of threads.
THEOREM SlotOwnsHook == Spec => []SlotHoldsTheHook
<1>1. OneHook => SlotHoldsTheHook
  BY DEF OneHook
<1>2. QED BY <1>1, AlwaysOneHook, PTL

-----------------------------------------------------------------------------
(* Keys held on the peer. *)

\* What makes RemoteKeyHasOwner inductive: a peer whose session is over holds
\* nothing, and a start that may still fail has pressed nothing.
RemoteKeysTracked ==
  /\ RemoteKeyHasOwner
  /\ target # "live" => remoteDown = {}
  /\ \A g \in Gens : pc[g] \in {"unborn", "claimed", "ready", "installed"}
                       => pressed[g] = {}

LEMMA AlwaysTracked == Spec => [](TypeOK /\ RemoteKeysTracked)
<1> USE DEF RemoteKeysTracked, RemoteKeyHasOwner, At
<1>1. Init => RemoteKeysTracked
  BY DEF Init
<1>2. TypeOK /\ RemoteKeysTracked /\ [Next]_vars => RemoteKeysTracked'
  <2> SUFFICES ASSUME TypeOK, RemoteKeysTracked, [Next]_vars
               PROVE  RemoteKeysTracked'
    OBVIOUS
  <2>1. CASE UNCHANGED <<pc, pressed, target, remoteDown>>
    BY <2>1
  <2>2. ASSUME NEW g \in Gens, UNCHANGED <<pressed, target, remoteDown>>,
               \A h \in Gens : h # g => pc'[h] = pc[h],
               pressed[g] = {} \/ pc'[g] \notin {"unborn", "claimed", "ready",
                                                 "installed", "gone"}
        PROVE  RemoteKeysTracked'
    BY <2>2
  <2>3. ASSUME NEW g \in Gens, Start(g) PROVE RemoteKeysTracked'
    <3>1. pressed[g] = {}
      BY <2>3 DEF Start, Claim, SnapshotKeys, Install, InstallFails, Spawn
    <3>2. /\ UNCHANGED <<pressed, target, remoteDown>>
          /\ \A h \in Gens : h # g => pc'[h] = pc[h]
      BY <2>3 DEF Start, Claim, SnapshotKeys, Install, InstallFails, Spawn, Go,
                  TypeOK
    <3>3. QED BY <3>1, <3>2, <2>2
  <2>4. ASSUME NEW g \in Gens,
               \/ LoopHead(g) \/ StaleStop(g) \/ HealthCheck(g) \/ DropDeadHook(g)
               \/ Reinstall(g) \/ ReinstallFails(g) \/ Restore(g)
               \/ Timeout(g) \/ Disconnected(g) \/ ForwardFailsafe(g)
               \/ CheckOwner(g) \/ ClearFlag(g) \/ ClearSlot(g)
        PROVE  RemoteKeysTracked'
    <3>1. UNCHANGED <<pressed, target, remoteDown>>
      BY <2>4 DEF LoopHead, StaleStop, HealthCheck, DropDeadHook, Reinstall,
                  ReinstallFails, Restore, Timeout, Disconnected, ForwardFailsafe,
                  CheckOwner, ClearFlag, ClearSlot
    <3>2. \A h \in Gens : h # g => pc'[h] = pc[h]
      BY <2>4 DEF LoopHead, StaleStop, HealthCheck, DropDeadHook, Reinstall,
                  ReinstallFails, Restore, Timeout, Disconnected, ForwardFailsafe,
                  CheckOwner, ClearFlag, ClearSlot, Go, TypeOK
    <3>3. pc'[g] \notin {"unborn", "claimed", "ready", "installed", "gone"}
      BY <2>4 DEF LoopHead, StaleStop, HealthCheck, DropDeadHook, Reinstall,
                  ReinstallFails, Restore, Timeout, Disconnected, ForwardFailsafe,
                  CheckOwner, ClearFlag, ClearSlot, Go, TypeOK
    <3>4. QED BY <3>1, <3>2, <3>3, <2>2
  <2>5. ASSUME NEW g \in Gens, Return(g) PROVE RemoteKeysTracked'
    BY <2>5, <2>2 DEF Return, Go, TypeOK
  <2>6. ASSUME NEW g \in Gens, NEW k, NEW down \in BOOLEAN,
               Track(g, k, down), Send(k, down), UNCHANGED target,
               pc[g] \in {"recv", "drain"},
               pc'[g] \in {"head", "exit", "drain"},
               \A h \in Gens : h # g => pc'[h] = pc[h]
        PROVE  RemoteKeysTracked'
    \* What is pressed is tracked, and only what is released is forgotten.
    <3>1. /\ \A h \in Gens : h # g => pressed'[h] = pressed[h]
          /\ pressed'[g] = IF down THEN pressed[g] \cup {k} ELSE pressed[g] \ {k}
      BY <2>6 DEF Track, TypeOK
    <3>2. CASE target # "live"
      BY <2>6, <3>1, <3>2 DEF Send
    <3>3. CASE target = "live" /\ down
      <4>1. remoteDown' = remoteDown \cup {k} /\ k \in pressed'[g]
        BY <2>6, <3>1, <3>3 DEF Send
      <4>2. QED BY <2>6, <3>1, <3>3, <4>1
    <3>4. CASE target = "live" /\ ~down
      <4>1. remoteDown' = remoteDown \ {k}
        BY <2>6, <3>4 DEF Send
      <4>2. QED BY <2>6, <3>1, <3>4, <4>1
    <3>5. QED BY <3>2, <3>3, <3>4
  <2>7. ASSUME NEW g \in Gens, Forward(g) PROVE RemoteKeysTracked'
    <3> DEFINE e == Head(queue[g])
    <3>1. Track(g, e.key, e.down) /\ Send(e.key, e.down) /\ UNCHANGED target
      BY <2>7 DEF Forward
    <3>2. e.down \in BOOLEAN
      <4>1. queue[g] \in Seq(Events) /\ queue[g] # <<>>
        BY <2>7 DEF Forward, TypeOK
      <4>2. e \in Events
        BY <4>1
      <4>3. QED BY <2>7, <4>2 DEF Forward, Events
    <3>3. pc[g] = "recv" /\ pc'[g] \in {"head", "exit"}
      BY <2>7 DEF Forward, Go, TypeOK
    <3>4. \A h \in Gens : h # g => pc'[h] = pc[h]
      BY <2>7 DEF Forward, Go, TypeOK
    <3>5. QED BY <3>1, <3>2, <3>3, <3>4, <2>6
  <2>8. ASSUME NEW g \in Gens, NEW k \in Keys, Drain(g, k)
        PROVE  RemoteKeysTracked'
    BY <2>8, <2>6 DEF Drain
  <2>9. CASE StopFlag \/ StopSlot
    BY <2>9, <2>1 DEF StopFlag, StopSlot
  <2>10. CASE World
    <3>1. CASE TargetChanges
      BY <3>1 DEF TargetChanges
    <3>2. CASE ~TargetChanges
      BY <2>10, <3>2, <2>1 DEF World, PressFailsafe, LoseHook, KeyDown, KeyUp
    <3>3. QED BY <3>1, <3>2
  <2>11. CASE UNCHANGED vars
    BY <2>11, <2>1 DEF vars
  <2>12. QED
    BY <2>3, <2>4, <2>5, <2>7, <2>8, <2>9, <2>10, <2>11 DEF Next, Loop, End
<1>3. QED BY <1>1, <1>2, TypeCorrect, PTL DEF Spec

\* Whatever is down on a live peer is in the tracker of a thread that will release
\* it before it ends.
THEOREM NoStuckRemoteKey == Spec => []RemoteKeyHasOwner
<1>1. RemoteKeysTracked => RemoteKeyHasOwner
  BY DEF RemoteKeysTracked
<1>2. QED BY <1>1, AlwaysTracked, PTL

-----------------------------------------------------------------------------
(* Keys held locally. *)

\* A thread from which a hook may come (back).
Expecting(g) ==
  \/ pc[g] \in {"ready", "reinstall"}
  \/ pc[g] \in {"head", "recv"} /\ Continues(g)

\* Keys are, or will be, taken from local applications.
Watched ==
  \/ event_sender # None /\ pc[event_sender] # "gone"
  \/ \E g \in Gens : Expecting(g)

\* What makes LocalKeysComeUp inductive: as long as keys are taken or may be, every
\* key local applications hold is pre-held or was pressed in the gap; and a start
\* is later than every thread there is.
LocalKeysShielded ==
  Keyboard => /\ localDown \subseteq phys \cup gap
              /\ Watched => localDown \subseteq preheld \cup gap

Born == \A g \in Gens : pc[g] # "unborn" => g <= generation

LocalTraced == LocalKeysShielded /\ Born

\* A step that moves no key need only show that nothing new is watched.
LEMMA NothingNew ==
  ASSUME LocalKeysShielded, UNCHANGED <<twin, phys, localDown, gap, preheld>>,
         Keyboard /\ Watched' => Watched
  PROVE  LocalKeysShielded'
BY DEF LocalKeysShielded, Keyboard

\* It is enough to look at the thread that moves and at whose hook there is.
LEMMA OneExpects ==
  ASSUME TypeOK, NEW g \in Gens, \A h \in Gens : h # g => pc'[h] = pc[h],
         pc[g] # "gone", Expecting(g)' => Watched, generation' = generation,
         twin' = twin, hook_running' => hook_running,
         event_sender' \in {event_sender, None}
  PROVE  Watched' => Watched
<1>1. \A h \in Gens : h # g => (Expecting(h)' => Expecting(h))
  BY DEF Expecting, Continues, Keyboard
<1>2. event_sender' # None /\ pc'[event_sender'] # "gone" => Watched
  <2>1. event_sender \in Gens \cup {None}
    BY DEF TypeOK
  <2>2. QED BY <2>1 DEF Watched
<1>3. QED BY <1>1, <1>2 DEF Watched

LEMMA StartKeepsLocal ==
  ASSUME TypeOK, OneHook, LocalTraced, NEW g \in Gens, Start(g)
  PROVE  LocalKeysShielded'
<1> USE DEF At, Go, TypeOK
<1>1. LocalKeysShielded /\ Born
  BY DEF LocalTraced
<1>2. CASE Claim(g)
  <2>1. UNCHANGED <<twin, phys, localDown, gap, preheld, event_sender>>
    BY <1>2 DEF Claim, user, hooks
  <2>2. /\ generation' = generation + 1 /\ g = generation + 1
        /\ pc'[g] = "claimed" /\ pc[g] = "unborn"
        /\ \A h \in Gens : h # g => pc'[h] = pc[h]
    BY <1>2 DEF Claim
  <2>3. \A h \in Gens : Keyboard /\ Expecting(h)' => Expecting(h)
    <3> SUFFICES ASSUME NEW h \in Gens, Keyboard, Expecting(h)' PROVE Expecting(h)
      OBVIOUS
    <3>1. h # g
      BY <2>2 DEF Expecting
    <3>2. pc'[h] \in {"head", "recv"} => ~Continues(h)'
      <4> SUFFICES ASSUME pc'[h] \in {"head", "recv"} PROVE ~Continues(h)'
        OBVIOUS
      <4>1. pc[h] # "unborn"
        BY <2>2, <3>1
      <4>2. h <= generation /\ generation \in Nat
        BY <1>1, <4>1 DEF Born
      <4>3. generation' # h
        BY <2>2, <4>2
      <4>4. Keyboard'
        BY <2>1 DEF Keyboard
      <4>5. QED BY <4>3, <4>4 DEF Continues
    <3>3. QED BY <2>2, <3>1, <3>2 DEF Expecting
  <2>4. event_sender' # None /\ pc'[event_sender'] # "gone" => Watched
    <3>1. event_sender \in Gens \cup {None}
      OBVIOUS
    <3>2. QED BY <2>1, <2>2, <3>1 DEF Watched
  <2>5. Keyboard /\ Watched' => Watched
    BY <2>3, <2>4 DEF Watched
  <2>6. QED BY <1>1, <2>1, <2>5, NothingNew
<1>3. CASE SnapshotKeys(g)
  <2>1. UNCHANGED <<twin, phys, localDown, gap>> /\ (Keyboard => preheld' = phys)
    BY <1>3 DEF SnapshotKeys
  <2>2. QED BY <1>1, <2>1 DEF LocalKeysShielded, Keyboard
<1>4. CASE Install(g)
  <2>1. UNCHANGED <<twin, phys, localDown, gap, preheld>>
    BY <1>4 DEF Install, user
  <2>2. Watched
    BY <1>4 DEF Install, Watched, Expecting
  <2>3. QED BY <1>1, <2>1, <2>2, NothingNew
<1>5. CASE InstallFails(g)
  <2>1. UNCHANGED <<twin, phys, localDown, gap, preheld>>
    BY <1>5 DEF InstallFails, user
  <2>2. Watched
    BY <1>5 DEF InstallFails, Watched, Expecting
  <2>3. QED BY <1>1, <2>1, <2>2, NothingNew
<1>6. CASE Spawn(g)
  <2>1. UNCHANGED <<twin, phys, localDown, gap, preheld>>
    BY <1>6 DEF Spawn, user
  <2>2. event_sender = g /\ pc[g] # "gone"
    BY <1>6 DEF Spawn, OneHook, CarriedHookIsTheOnlyOne
  <2>3. Watched
    BY <2>2 DEF Watched
  <2>4. QED BY <1>1, <2>1, <2>3, NothingNew
<1>7. QED BY <1>2, <1>3, <1>4, <1>5, <1>6 DEF Start

LEMMA ThreadKeepsLocal ==
  ASSUME TypeOK, OneHook, LocalTraced, NEW g \in Gens, Loop(g) \/ End(g)
  PROVE  LocalKeysShielded'
<1> USE DEF At, Go, TypeOK
<1>1. LocalKeysShielded
  BY DEF LocalTraced
<1>2. UNCHANGED <<twin, phys, localDown, gap, preheld, generation>>
  BY DEF Loop, LoopHead, StaleStop, HealthCheck, DropDeadHook, Reinstall,
     ReinstallFails, Restore, Timeout, Disconnected, Forward, ForwardFailsafe, End,
     CheckOwner, ClearFlag, ClearSlot, Return, Drain, user
\* The moves from which a hook may come.
<1>3. CASE DropDeadHook(g) \/ Reinstall(g) \/ ReinstallFails(g) \/ HealthCheck(g)
           \/ StaleStop(g)
  <2>1. Watched
    BY <1>3
    DEF DropDeadHook, Reinstall, ReinstallFails, HealthCheck, StaleStop, Watched, Expecting
  <2>2. QED BY <1>1, <1>2, <2>1, NothingNew
<1>4. CASE Restore(g)
  <2>1. event_sender = g /\ pc[g] # "gone"
    BY <1>4 DEF Restore, OneHook, CarriedHookIsTheOnlyOne
  <2>2. Watched
    BY <2>1 DEF Watched
  <2>3. QED BY <1>1, <1>2, <2>2, NothingNew
\* The others expect nothing they did not expect before.
<1>5. ASSUME \A h \in Gens : h # g => pc'[h] = pc[h], pc[g] # "gone",
             Expecting(g)' => Watched, hook_running' => hook_running,
             event_sender' \in {event_sender, None}
      PROVE  LocalKeysShielded'
  BY <1>1, <1>2, <1>5, OneExpects, NothingNew
<1>6. CASE LoopHead(g) \/ Timeout(g) \/ Forward(g)
  <2>1. /\ \A h \in Gens : h # g => pc'[h] = pc[h]
        /\ pc[g] \in {"head", "recv"}
        /\ pc'[g] \in {"head", "recv", "exit"}
        /\ hook_running' => hook_running
        /\ event_sender' = event_sender
    <3>1. CASE LoopHead(g)
      BY <3>1 DEF LoopHead, hooks
    <3>2. CASE Timeout(g)
      BY <3>2 DEF Timeout, hooks
    <3>3. CASE Forward(g)
      BY <3>3 DEF Forward, hooks
    <3>4. QED BY <1>6, <3>1, <3>2, <3>3
  <2>2. Continues(g)' => Continues(g)
    BY <1>2, <2>1 DEF Continues, Keyboard
  <2>3. Expecting(g)' => Watched
    BY <2>1, <2>2 DEF Expecting, Watched
  <2>4. QED BY <1>5, <2>1, <2>3
<1>7. CASE Disconnected(g) \/ ForwardFailsafe(g) \/ CheckOwner(g) \/ ClearFlag(g)
           \/ Return(g)
  <2>1. /\ \A h \in Gens : h # g => pc'[h] = pc[h]
        /\ pc[g] # "gone"
        /\ pc'[g] \in {"exit", "clearflag", "clearslot", "drain", "gone"}
        /\ hook_running' => hook_running
        /\ event_sender' = event_sender
    <3>1. CASE Disconnected(g) \/ ForwardFailsafe(g)
      <4>1. pc[g] = "recv" /\ pc' = [pc EXCEPT ![g] = "exit"]
        BY <3>1 DEF Disconnected, ForwardFailsafe
      <4>2. (hook_running' => hook_running) /\ event_sender' = event_sender
        BY <3>1 DEF Disconnected, ForwardFailsafe, hooks
      <4>3. QED BY <4>1, <4>2
    <3>2. CASE CheckOwner(g)
      BY <3>2 DEF CheckOwner, hooks
    <3>3. CASE ClearFlag(g) \/ Return(g)
      BY <3>3 DEF ClearFlag, Return, hooks
    <3>4. QED BY <1>7, <3>1, <3>2, <3>3
  <2>2. QED BY <1>5, <2>1 DEF Expecting
<1>8. CASE ClearSlot(g)
  <2>1. /\ \A h \in Gens : h # g => pc'[h] = pc[h]
        /\ pc[g] # "gone" /\ pc'[g] = "drain"
        /\ hook_running' = hook_running
        /\ event_sender' \in {event_sender, None}
    BY <1>8 DEF ClearSlot, DropHook
  <2>2. QED BY <1>5, <2>1 DEF Expecting
<1>9. ASSUME NEW k \in Keys, Drain(g, k) PROVE LocalKeysShielded'
  <2>1. pc' = pc /\ pc[g] = "drain" /\ hook_running' = hook_running
        /\ event_sender' = event_sender
    BY <1>9 DEF Drain, hooks
  <2>2. QED BY <1>5, <2>1 DEF Expecting
<1>10. QED
  BY <1>3, <1>4, <1>6, <1>7, <1>8, <1>9 DEF Loop, End

\* A key that is pressed or released while keys are taken, or may be.
LEMMA WorldKeepsLocal ==
  ASSUME TypeOK, LocalTraced, StopFlag \/ StopSlot \/ World
  PROVE  LocalKeysShielded'
<1>1. LocalKeysShielded
  BY DEF LocalTraced
<1>2. CASE StopFlag \/ StopSlot \/ PressFailsafe \/ LoseHook \/ TargetChanges
  <2>1. UNCHANGED <<twin, phys, localDown, gap, preheld, generation, pc>>
    BY <1>2 DEF StopFlag, StopSlot, PressFailsafe, LoseHook, TargetChanges, user
  <2>2. (hook_running' => hook_running) /\ event_sender' \in {event_sender, None}
    BY <1>2 DEF StopFlag, StopSlot, DropHook, PressFailsafe, LoseHook, TargetChanges, hooks
  <2>3. \A g \in Gens : Expecting(g)' => Expecting(g)
    BY <2>1, <2>2 DEF Expecting, Continues, Keyboard
  <2>4. Watched' => Watched
    BY <2>1, <2>2, <2>3 DEF Watched
  <2>5. QED BY <1>1, <2>1, <2>4, NothingNew
<1>3. ASSUME NEW k \in Keys, KeyDown(k) \/ KeyUp(k)
      PROVE  UNCHANGED <<twin, generation, hook_running, pc, event_sender, lost>>
             /\ (Watched' <=> Watched)
  <2>1. UNCHANGED <<twin, generation, hook_running, pc, event_sender, lost>>
    BY <1>3 DEF KeyDown, KeyUp, hooks
  <2>2. QED BY <2>1 DEF Watched, Expecting, Continues, Keyboard
<1>4. ASSUME NEW k \in Keys, KeyDown(k) PROVE LocalKeysShielded'
  <2>1. phys' = phys \cup {k} /\ preheld' = preheld
    BY <1>4 DEF KeyDown
  <2>2. CASE Takes
    BY <1>1, <1>3, <1>4, <2>1, <2>2 DEF KeyDown, LocalKeysShielded, Keyboard
  <2>3. CASE ~Takes
    <3>1. /\ localDown' = localDown \cup {k}
          /\ gap' = IF HookIsComing /\ k \notin localDown THEN gap \cup {k} ELSE gap
      BY <1>4, <2>3 DEF KeyDown
    <3>2. Watched => HookIsComing
      BY <2>3 DEF Watched, Expecting, Takes, Sees, HookIsComing
    <3>3. QED
      BY <1>1, <1>3, <1>4, <2>1, <3>1, <3>2 DEF LocalKeysShielded, Keyboard
  <2>4. QED BY <2>2, <2>3
<1>5. ASSUME NEW k \in Keys, KeyUp(k) PROVE LocalKeysShielded'
  <2>1. /\ phys' = phys \ {k}
        /\ localDown' = IF Takes /\ k \notin preheld THEN localDown ELSE localDown \ {k}
        /\ preheld' = IF Sees THEN preheld \ {k} ELSE preheld
        /\ gap' = gap \cap localDown'
    BY <1>5 DEF KeyUp
  <2>2. Takes => Watched /\ Sees
    BY DEF Takes, Sees, Watched
  <2>3. CASE Takes /\ k \notin preheld
    BY <1>1, <1>3, <1>5, <2>1, <2>2, <2>3 DEF LocalKeysShielded, Keyboard
  <2>4. CASE ~(Takes /\ k \notin preheld)
    BY <1>1, <1>3, <1>5, <2>1, <2>4 DEF LocalKeysShielded, Keyboard
  <2>5. QED BY <2>3, <2>4
<1>6. QED BY <1>2, <1>4, <1>5 DEF World

LEMMA StepKeepsBorn ==
  ASSUME TypeOK, Born, [Next]_vars
  PROVE  Born'
<1> USE DEF At, Go, TypeOK, Born
<1>1. ASSUME NEW g \in Gens, pc[g] # "unborn", generation' = generation,
             \A h \in Gens : h # g => pc'[h] = pc[h]
      PROVE  Born'
  BY <1>1
<1>2. ASSUME NEW g \in Gens, Claim(g) PROVE Born'
  BY <1>2 DEF Claim
<1>3. ASSUME NEW g \in Gens, SnapshotKeys(g) \/ Install(g) \/ InstallFails(g) \/ Spawn(g)
      PROVE  Born'
  BY <1>1, <1>3 DEF SnapshotKeys, Install, InstallFails, Spawn
<1>4. ASSUME NEW g \in Gens, Loop(g) PROVE Born'
  <2>1. pc[g] # "unborn" /\ generation' = generation
    BY <1>4
    DEF Loop, LoopHead, StaleStop, HealthCheck, DropDeadHook, Reinstall,
        ReinstallFails, Restore, Timeout, Disconnected, Forward, ForwardFailsafe
  <2>2. \A h \in Gens : h # g => pc'[h] = pc[h]
    BY <1>4
    DEF Loop, LoopHead, StaleStop, HealthCheck, DropDeadHook, Reinstall,
        ReinstallFails, Restore, Timeout, Disconnected, Forward, ForwardFailsafe
  <2>3. QED BY <1>1, <2>1, <2>2
<1>5. ASSUME NEW g \in Gens, End(g) PROVE Born'
  BY <1>1, <1>5 DEF End, CheckOwner, ClearFlag, ClearSlot, Return, Drain
<1>6. CASE UNCHANGED <<pc, generation>>
  BY <1>6
<1>7. CASE StopFlag \/ StopSlot \/ World \/ UNCHANGED vars
  BY <1>6, <1>7
  DEF StopFlag, StopSlot, World, PressFailsafe, LoseHook, TargetChanges, KeyDown, KeyUp, vars
<1>8. QED BY <1>2, <1>3, <1>4, <1>5, <1>7 DEF Next, Start

\* What local applications saw go down comes up for them, whatever starts, stops
\* and reinstalled hooks came in between, unless it was pressed while a hook was
\* about to come (back) (keyboard_hook.rs 56-89).
THEOREM NoStuckLocalKey == Spec => []LocalKeysComeUp
<1>1. Init => LocalTraced
  BY DEF Init, LocalTraced, LocalKeysShielded, Born
<1>2. TypeOK /\ OneHook /\ LocalTraced /\ [Next]_vars => LocalTraced'
  <2> SUFFICES ASSUME TypeOK, OneHook, LocalTraced, [Next]_vars PROVE LocalTraced'
    OBVIOUS
  <2>1. Born'
    BY StepKeepsBorn DEF LocalTraced
  <2>2. CASE UNCHANGED vars
    <3>1. LocalKeysShielded'
      BY <2>2
      DEF vars, LocalTraced, LocalKeysShielded, Watched, Expecting, Continues, Keyboard
    <3>2. QED BY <2>1, <3>1 DEF LocalTraced
  <2>3. CASE Next
    <3>1. LocalKeysShielded'
      BY <2>3, StartKeepsLocal, ThreadKeepsLocal, WorldKeepsLocal DEF Next
    <3>2. QED BY <2>1, <3>1 DEF LocalTraced
  <2>4. QED BY <2>2, <2>3
<1>3. LocalTraced => LocalKeysComeUp
  BY DEF LocalTraced, LocalKeysShielded, LocalKeysComeUp
<1>4. QED BY <1>1, <1>2, <1>3, AlwaysOneHook, PTL DEF Spec

-----------------------------------------------------------------------------
(* The keyboard twin keeps the promise of KeyService. *)

\* What the steps rely on: threads are of earlier starts, and what the peer has down
\* is tracked.
Promising == TypeOK /\ RemoteKeysTracked /\ Born

LEMMA AlwaysPromising == Spec => []Promising
<1>1. Init => Born
  BY DEF Init, Born
<1>2. TypeOK /\ Born /\ [Next]_vars => Born'
  BY StepKeepsBorn
<1>3. Spec => []Born
  BY <1>1, <1>2, TypeCorrect, PTL DEF Spec
<1>4. QED BY <1>3, AlwaysTracked, PTL DEF Promising

USE DEF Waiting, Ahead

\* The stages of all starts.
Where == [g \in Gens |-> Stage(g)]

LEMMA StageType ==
  ASSUME TypeOK, NEW g \in Gens
  PROVE  Stage(g) \in Service!Stages
BY DEF TypeOK, Stage, At, Places, Service!Stages

LEMMA WhereIs == \A g \in Gens : Where[g] = Stage(g)
BY DEF Where

LEMMA WhereWill == \A g \in Gens : Where'[g] = Stage(g)'
BY DEF Where

\* A thread that does not move is where it was, or was told to stop.
LEMMA StillMayHalt ==
  ASSUME TypeOK, NEW g \in Gens, pc'[g] = pc[g], Continues(g)' => Continues(g)
  PROVE  \/ Stage(g)' = Stage(g)
         \/ Stage(g) = "on" /\ Stage(g)' \in {"stop", "drain"}
<1>1. pc[g] \in Places
  BY DEF TypeOK
<1>2. QED BY <1>1 DEF Stage, At, Places

LEMMA StillOrHalted ==
  ASSUME TypeOK, NEW g \in Gens, pc'[g] = pc[g], Continues(g)' => Continues(g)
  PROVE  Service!MayHalt(g)
<1>1. \/ Where'[g] = Where[g]
      \/ Where[g] = "on" /\ Where'[g] \in {"stop", "drain"}
  BY StillMayHalt, WhereIs, WhereWill
<1>2. QED BY <1>1 DEF Service!MayHalt, Where

\* Nobody that was told to stop continues, unless there is a new start.
LEMMA NoneRevived ==
  ASSUME twin' = twin, generation' = generation, hook_running' => hook_running
  PROVE  \A g \in Gens : Continues(g)' => Continues(g)
BY DEF Continues, Keyboard

\* A step that moves one thread and no key.
LEMMA QuietStep ==
  ASSUME TypeOK, TypeOK', NEW g \in Gens, UNCHANGED <<pressed, remoteDown>>,
         \A h \in Gens : h # g => pc'[h] = pc[h],
         \A h \in Gens : Continues(h)' => Continues(h),
         \/ Stage(g)' = Stage(g)
         \/ Stage(g) = "on" /\ Stage(g)' \in {"stop", "drain"}
         \/ Stage(g) = "stop" /\ Stage(g)' = "drain"
         \/ Stage(g) \in {"on", "drain"} /\ Stage(g)' = "gone" /\ pressed[g] = {}
  PROVE  Service!Next
<1>1. \A h \in Gens \ {g} : Service!MayHalt(h)
  BY StillOrHalted
<1>2. Where[g] = Stage(g) /\ Where'[g] = Stage(g)'
  BY WhereIs, WhereWill
<1>3. CASE \/ Stage(g)' = Stage(g)
           \/ Stage(g) = "on" /\ Stage(g)' \in {"stop", "drain"}
  <2>1. Service!MayHalt(g)
    BY <1>2, <1>3 DEF Service!MayHalt, Where
  <2>2. QED BY <1>1, <2>1 DEF Service!Halt, Service!Next
<1>4. CASE Stage(g) = "stop" /\ Stage(g)' = "drain"
  <2>1. Service!Leave(g)
    BY <1>1, <1>2, <1>4 DEF Service!Leave, Service!Goes, Where
  <2>2. QED BY <2>1 DEF Service!Next
<1>5. CASE Stage(g) \in {"on", "drain"} /\ Stage(g)' = "gone" /\ pressed[g] = {}
  <2>1. Service!Return(g)
    BY <1>1, <1>2, <1>5 DEF Service!Return, Service!Goes, Where
  <2>2. QED BY <2>1 DEF Service!Next
<1>6. QED BY <1>3, <1>4, <1>5

LEMMA StartKeepsPromise ==
  ASSUME Keyboard, Promising, TypeOK', NEW g \in Gens, Start(g)
  PROVE  Service!Next
<1> USE DEF At, Go
<1>1. TypeOK /\ Born /\ RemoteKeysTracked
  BY DEF Promising
<1>2. UNCHANGED <<pressed, remoteDown, twin>> /\ \A h \in Gens : h # g => pc'[h] = pc[h]
  BY <1>1 DEF Start, Claim, SnapshotKeys, Install, InstallFails, Spawn, user, TypeOK
<1>3. CASE Claim(g)
  <2>1. /\ ~hook_running /\ pc[g] = "unborn" /\ pc'[g] = "claimed"
        /\ hook_running' /\ generation' = g /\ g = generation + 1
    BY <1>1, <1>3 DEF Claim, TypeOK
  <2>2. \A h \in Gens : ~Continues(h) /\ (h # g => ~Continues(h)')
    BY <1>2, <2>1 DEF Continues, Keyboard
  <2>3. \A h \in Gens \ {g} : Service!MayHalt(h)
    BY <1>1, <1>2, <2>2, StillOrHalted
  <2>4. Where'[g] = "on"
    <3>1. Continues(g)'
      BY <2>1 DEF Continues
    <3>2. Stage(g)' = "on"
      BY <2>1, <3>1 DEF Stage, At
    <3>3. QED BY <3>2, WhereWill
  <2>5. Where[g] = "unborn" /\ \A h \in Gens : Where[h] # "on"
    <3>1. Stage(g) = "unborn"
      BY <2>1 DEF Stage, At
    <3>2. \A h \in Gens : Stage(h) # "on"
      BY <1>1, <2>2 DEF Stage, At, TypeOK, Places
    <3>3. QED BY <3>1, <3>2, WhereIs
  <2>6. Service!Begin(g)
    BY <1>2, <2>3, <2>4, <2>5 DEF Service!Begin, Service!Goes, Where
  <2>7. QED BY <2>6 DEF Service!Next
<1>4. CASE ~Claim(g)
  <2>1. \A h \in Gens : Continues(h)' => Continues(h)
    <3>1. generation' = generation /\ (hook_running' => hook_running)
      BY <1>4 DEF Start, SnapshotKeys, Install, InstallFails, Spawn
    <3>2. QED BY <1>2, <3>1, NoneRevived
  <2>2. CASE SnapshotKeys(g) \/ Install(g) \/ Spawn(g)
    <3>1. /\ pc[g] \in {"claimed", "ready", "installed"}
          /\ pc'[g] \in {"ready", "installed", "head"}
      BY <1>1, <2>2 DEF SnapshotKeys, Install, Spawn, TypeOK
    <3>2. Continues(g)' <=> Continues(g)
      BY <1>2, <2>2 DEF SnapshotKeys, Install, Spawn, Continues, Keyboard
    <3>3. Stage(g)' = Stage(g)
      BY <3>1, <3>2 DEF Stage, At
    <3>4. QED BY <1>1, <1>2, <2>1, <3>3, QuietStep
  <2>3. CASE InstallFails(g)
    <3>1. pc[g] = "ready" /\ pc'[g] = "gone" /\ pressed[g] = {}
      BY <1>1, <2>3 DEF InstallFails, TypeOK, RemoteKeysTracked
    <3>2. Stage(g) \in {"on", "drain"} /\ Stage(g)' = "gone"
      BY <3>1 DEF Stage, At
    <3>3. QED BY <1>1, <1>2, <2>1, <3>1, <3>2, QuietStep
  <2>4. QED BY <1>4, <2>2, <2>3 DEF Start
<1>5. QED BY <1>3, <1>4

\* The steps of the loop and of the end that move no key.
QuietLoop(g) ==
  \/ LoopHead(g) \/ StaleStop(g) \/ HealthCheck(g) \/ DropDeadHook(g)
  \/ Reinstall(g) \/ ReinstallFails(g) \/ Restore(g)
  \/ Timeout(g) \/ Disconnected(g) \/ ForwardFailsafe(g)

LEMMA LoopKeepsPromise ==
  ASSUME Keyboard, Promising, TypeOK', NEW g \in Gens, QuietLoop(g)
  PROVE  Service!Next
<1> USE DEF At, Go
<1>1. TypeOK
  BY DEF Promising
<1>2. /\ UNCHANGED <<pressed, remoteDown, twin, generation>>
      /\ \A h \in Gens : h # g => pc'[h] = pc[h]
      /\ hook_running' => hook_running
  BY <1>1
  DEF QuietLoop, LoopHead, StaleStop, HealthCheck, DropDeadHook, Reinstall,
      ReinstallFails, Restore, Timeout, Disconnected, ForwardFailsafe, user, TypeOK
<1>3. \A h \in Gens : Continues(h)' => Continues(h)
  BY <1>2, NoneRevived
<1>4. CASE StaleStop(g) \/ ReinstallFails(g) \/ Disconnected(g) \/ ForwardFailsafe(g)
  <2>1. /\ pc[g] \in {"head", "recv", "reinstall"} /\ pc'[g] = "exit"
        /\ pc[g] = "head" => Continues(g)
    BY <1>1, <1>4 DEF StaleStop, ReinstallFails, Disconnected, ForwardFailsafe, TypeOK
  <2>2. Stage(g) \in {"on", "stop"} /\ Stage(g)' = "drain"
    BY <2>1 DEF Stage, At
  <2>3. QED BY <1>1, <1>2, <1>3, <2>2, QuietStep
<1>5. CASE \/ LoopHead(g) \/ HealthCheck(g) \/ DropDeadHook(g) \/ Reinstall(g)
           \/ Restore(g) \/ Timeout(g)
  <2>1. Continues(g)' <=> Continues(g)
    BY <1>2, <1>5
    DEF LoopHead, HealthCheck, DropDeadHook, Reinstall, Restore, Timeout, Continues, Keyboard
  <2>2. CASE LoopHead(g)
    <3>1. pc[g] = "head" /\ pc'[g] = IF Continues(g) THEN "recv" ELSE "exit"
      BY <1>1, <2>2 DEF LoopHead, TypeOK
    <3>2. Stage(g)' = Stage(g)
      BY <2>1, <3>1 DEF Stage, At
    <3>3. QED BY <1>1, <1>2, <1>3, <3>2, QuietStep
  <2>3. CASE HealthCheck(g) \/ DropDeadHook(g)
    <3>1. /\ pc[g] = "head" /\ pc'[g] \in {"recv", "reinstall"} /\ Continues(g)
      BY <1>1, <2>3 DEF HealthCheck, DropDeadHook, TypeOK
    <3>2. Stage(g)' = Stage(g)
      BY <2>1, <3>1 DEF Stage, At
    <3>3. QED BY <1>1, <1>2, <1>3, <3>2, QuietStep
  <2>4. CASE Reinstall(g) \/ Restore(g)
    <3>1. pc[g] \in {"reinstall", "restore"} /\ pc'[g] \in {"restore", "recv"}
      BY <1>1, <2>4 DEF Reinstall, Restore, TypeOK
    <3>2. Stage(g)' = Stage(g)
      BY <2>1, <3>1 DEF Stage, At
    <3>3. QED BY <1>1, <1>2, <1>3, <3>2, QuietStep
  <2>5. CASE Timeout(g)
    <3>1. pc[g] = "recv" /\ pc'[g] = "head"
      BY <1>1, <2>5 DEF Timeout, TypeOK
    <3>2. Stage(g)' = Stage(g) \/ (Stage(g) = "stop" /\ Stage(g)' = "drain")
      BY <2>1, <3>1 DEF Stage, At
    <3>3. QED BY <1>1, <1>2, <1>3, <3>2, QuietStep
  <2>6. QED BY <1>5, <2>2, <2>3, <2>4, <2>5
<1>6. QED BY <1>4, <1>5 DEF QuietLoop

\* A key is forwarded by a thread that is on or was told to stop.
LEMMA ForwardKeepsPromise ==
  ASSUME Keyboard, Promising, TypeOK', NEW g \in Gens, Forward(g)
  PROVE  Service!Next
<1> USE DEF At, Go
<1> DEFINE e == Head(queue[g])
<1>1. TypeOK /\ RemoteKeysTracked
  BY DEF Promising
<1>2. e.key \in Keys /\ e.down \in BOOLEAN
  <2>1. queue[g] \in Seq(Events) /\ queue[g] # <<>>
    BY <1>1 DEF Forward, TypeOK
  <2>2. e \in Events
    BY <2>1
  <2>3. QED BY <2>2 DEF Forward, Events
<1>3. /\ UNCHANGED <<twin, generation>> /\ (hook_running' => hook_running)
      /\ \A h \in Gens : h # g => pc'[h] = pc[h]
  BY <1>1 DEF Forward, user, TypeOK
<1>4. \A h \in Gens : Continues(h)' => Continues(h)
  BY <1>3, NoneRevived
<1>5. pc[g] = "recv" /\ pc'[g] \in {"head", "exit"}
  BY <1>1 DEF Forward, TypeOK
<1>6. Service!TakesEvent(g)
  <2>1. \A h \in Gens \ {g} : Service!MayHalt(h)
    BY <1>1, <1>3, <1>4, StillOrHalted
  <2>2. /\ Stage(g) \in {"on", "stop"} /\ Stage(g)' \in {"on", "drain"}
        /\ Stage(g)' = "on" => Stage(g) = "on"
    BY <1>4, <1>5 DEF Stage, At
  <2>3. Where[g] = Stage(g) /\ Where'[g] = Stage(g)'
    BY WhereIs, WhereWill
  <2>4. QED BY <2>1, <2>2, <2>3 DEF Service!TakesEvent, Service!Goes, Where
<1>7. Track(g, e.key, e.down) /\ Send(e.key, e.down)
  BY DEF Forward
<1>8. CASE e.down
  <2>1. Service!Press(g, e.key)
    BY <1>6, <1>7, <1>8 DEF Service!Press, Track, Send
  <2>2. QED BY <1>2, <2>1 DEF Service!Next
<1>9. CASE ~e.down
  <2>1. remoteDown' = remoteDown \ {e.key}
    BY <1>1, <1>7, <1>9 DEF Send, RemoteKeysTracked
  <2>2. Service!Release(g, e.key)
    BY <1>6, <1>7, <1>9, <2>1 DEF Service!Release, Track
  <2>3. QED BY <1>2, <2>2 DEF Service!Next
<1>10. QED BY <1>8, <1>9

LEMMA EndKeepsPromise ==
  ASSUME Keyboard, Promising, TypeOK', NEW g \in Gens, End(g)
  PROVE  Service!Next
<1> USE DEF At, Go
<1>1. TypeOK /\ RemoteKeysTracked
  BY DEF Promising
<1>2. /\ UNCHANGED <<twin, generation>> /\ (hook_running' => hook_running)
      /\ \A h \in Gens : h # g => pc'[h] = pc[h]
  BY <1>1 DEF End, CheckOwner, ClearFlag, ClearSlot, Return, Drain, user, TypeOK
<1>3. \A h \in Gens : Continues(h)' => Continues(h)
  BY <1>2, NoneRevived
<1>4. CASE CheckOwner(g) \/ ClearFlag(g) \/ ClearSlot(g) \/ Return(g)
  <2>1. UNCHANGED <<pressed, remoteDown>>
    BY <1>4 DEF CheckOwner, ClearFlag, ClearSlot, Return
  <2>2. /\ pc[g] \in {"exit", "clearflag", "clearslot", "drain"}
        /\ \/ pc'[g] \in {"clearflag", "clearslot", "drain"}
           \/ pc'[g] = "gone" /\ pressed[g] = {}
    BY <1>1, <1>4 DEF CheckOwner, ClearFlag, ClearSlot, Return, TypeOK
  <2>3. /\ Stage(g) = "drain"
        /\ Stage(g)' = "drain" \/ (Stage(g)' = "gone" /\ pressed[g] = {})
    BY <2>2 DEF Stage, At
  <2>4. QED BY <1>1, <1>2, <1>3, <2>1, <2>3, QuietStep
<1>5. ASSUME NEW k \in Keys, Drain(g, k) PROVE Service!Next
  <2>1. pc' = pc /\ pc[g] = "drain" /\ hook_running' = hook_running
    BY <1>5 DEF Drain
  <2>2. \A h \in Gens : Stage(h)' = Stage(h)
    BY <1>2, <2>1 DEF Stage, At, Continues, Keyboard
  <2>3. Where' = Where
    BY <2>2 DEF Where
  <2>4. Where[g] = "drain"
    BY <2>1, WhereIs DEF Stage, At
  <2>5. remoteDown' = remoteDown \ {k}
    BY <1>1, <1>5 DEF Drain, Send, RemoteKeysTracked
  <2>6. pressed' = [pressed EXCEPT ![g] = @ \ {k}]
    BY <1>5 DEF Drain, Track
  <2>7. Service!Release(g, k)
    BY <2>3, <2>4, <2>5, <2>6 DEF Service!Release, Where
  <2>8. QED BY <2>7 DEF Service!Next
<1>6. QED BY <1>4, <1>5 DEF End

\* A stop, the user, the system and the peer.
LEMMA WorldKeepsPromise ==
  ASSUME Keyboard, Promising, TypeOK', StopFlag \/ StopSlot \/ World
  PROVE  Service!Next
<1>1. TypeOK
  BY DEF Promising
<1>2. UNCHANGED <<twin, generation, pc, pressed>> /\ (hook_running' => hook_running)
  <2>1. CASE StopFlag \/ StopSlot
    BY <2>1 DEF StopFlag, StopSlot, user
  <2>2. CASE PressFailsafe \/ LoseHook \/ TargetChanges
    BY <2>2 DEF PressFailsafe, LoseHook, TargetChanges, user
  <2>3. ASSUME NEW k \in Keys, KeyDown(k) \/ KeyUp(k)
        PROVE  UNCHANGED <<twin, generation, pc, pressed, hook_running>>
    BY <2>3 DEF KeyDown, KeyUp
  <2>4. QED BY <2>1, <2>2, <2>3 DEF World
<1>3. \A h \in Gens : Continues(h)' => Continues(h)
  BY <1>2, NoneRevived
<1>4. CASE TargetChanges
  <2>1. hook_running' = hook_running /\ remoteDown' = {}
    BY <1>4 DEF TargetChanges
  <2>2. \A h \in Gens : Stage(h)' = Stage(h)
    BY <1>2, <2>1 DEF Stage, At, Continues, Keyboard
  <2>3. Service!PeerLetsGo
    BY <1>2, <2>1, <2>2 DEF Service!PeerLetsGo
  <2>4. QED BY <2>3 DEF Service!Next
<1>5. CASE ~TargetChanges
  <2>1. remoteDown' = remoteDown
    BY <1>5 DEF StopFlag, StopSlot, World, PressFailsafe, LoseHook, KeyDown, KeyUp, user
  <2>2. \A h \in Gens : Service!MayHalt(h)
    BY <1>1, <1>2, <1>3, StillOrHalted
  <2>3. QED BY <1>2, <2>1, <2>2 DEF Service!Halt, Service!Next
<1>6. QED BY <1>4, <1>5

\* The keyboard twin keeps the promise of KeyService: one thread is on at a time,
\* one that was told to stop is never on again and forwards one event at most, and
\* none is gone before it has released what it pressed.
THEOREM KeyboardKeepsPromise ==
  ASSUME Twins = {"keyboard"}
  PROVE  Spec => KeepsKeyPromise
<1>1. Init => Service!Init
  <2> SUFFICES ASSUME Init PROVE Service!Init
    OBVIOUS
  <2>1. \A g \in Gens : Stage(g) = "unborn"
    BY DEF Init, Stage, At
  <2>2. QED BY <2>1 DEF Init, Service!Init
<1>2. Promising /\ Promising' /\ [Next]_vars => [Service!Next]_Service!vars
  <2> SUFFICES ASSUME Promising, Promising', [Next]_vars
               PROVE  [Service!Next]_Service!vars
    OBVIOUS
  <2>1. Keyboard /\ TypeOK'
    BY DEF Promising, TypeOK, Keyboard
  <2>2. CASE UNCHANGED vars
    <3>1. \A g \in Gens : Stage(g)' = Stage(g)
      BY <2>2 DEF vars, Stage, At, Continues, Keyboard
    <3>2. QED BY <2>2, <3>1 DEF vars, Service!vars
  <2>3. CASE Next
    BY <2>1, <2>3, StartKeepsPromise, LoopKeepsPromise, ForwardKeepsPromise,
       EndKeepsPromise, WorldKeepsPromise
    DEF Next, Loop, QuietLoop
  <2>4. QED BY <2>2, <2>3
<1>3. Promising => Service!TypeOK
  BY StageType DEF Promising, TypeOK, Service!TypeOK
<1>4. QED
  BY <1>1, <1>2, <1>3, AlwaysPromising, PTL DEF Spec, KeepsKeyPromise, Service!Spec
=============================================================================
