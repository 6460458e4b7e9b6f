------------------------- MODULE ControlEngine_proofs -------------------------
(***************************************************************************)
(* Proofs about ControlEngine, for every engine and any number of screens, *)
(* keys, sessions, engine threads and hooks.                               *)
(***************************************************************************)
EXTENDS ControlEngine, TLAPS

USE EngineAssumption, ScreenAssumption, BoundAssumption, NoneAssumption
    DEF EngineAssumption, ScreenAssumption, BoundAssumption, NoneAssumption,
        Threads, Channels, Hooks, Working

-----------------------------------------------------------------------------
(* Type correctness. *)

LEMMA InitType == Init => TypeOK
<1> SUFFICES ASSUME Init PROVE TypeOK
  OBVIOUS
<1>1. /\ engine \in Engines
      /\ running \in BOOLEAN
      /\ confined \in BOOLEAN
      /\ panicked \in BOOLEAN
      /\ space \in (SUBSET Screens) \cup {NoLayout}
  BY DEF Init
<1>2. /\ pc \in [Threads -> {"unborn", "claimed", "spawned", "head", "hook", "unhook",
                              "exit", "clean", "gone"}]
      /\ active \in [Threads -> Screens \cup {None}]
      /\ slot \in [Threads -> Channels \cup {None}]
      /\ armed \in [Threads -> BOOLEAN]
  BY DEF Init
<1>3. /\ wanted \in [Screens -> BOOLEAN]
      /\ tx \in [Screens -> Channels \cup {None}]
      /\ screen \in [Channels -> Screens \cup {None}]
      /\ live \in SUBSET Channels
  BY DEF Init
<1>4. /\ fwd \in [Hooks -> {"unborn", "on", "stop", "drain", "gone"}]
      /\ owner \in [Hooks -> Threads \cup {None}]
      /\ pressed \in [Hooks -> SUBSET Keys]
      /\ keysDown \in [Channels -> SUBSET Keys]
      /\ stranded \in SUBSET (Channels \X Keys)
  BY DEF Init
<1>5. QED BY <1>1, <1>2, <1>3, <1>4 DEF TypeOK

LEMMA SendKeyType ==
  ASSUME TypeOK, NEW c, NEW k \in Keys, NEW isDown \in BOOLEAN, SendKey(c, k, isDown)
  PROVE  keysDown' \in [Channels -> SUBSET Keys] /\ stranded' \in SUBSET (Channels \X Keys)
<1>1. CASE c \notin live
  BY <1>1 DEF TypeOK, SendKey, peers
<1>2. CASE c \in live /\ isDown
  <2>1. keysDown' = [keysDown EXCEPT ![c] = @ \cup {k}] /\ stranded' \subseteq stranded
    BY <1>2 DEF SendKey
  <2>2. QED BY <1>2, <2>1 DEF TypeOK
<1>3. CASE c \in live /\ ~isDown
  <2>1. keysDown' = [keysDown EXCEPT ![c] = @ \ {k}] /\ stranded' \subseteq stranded
    BY <1>3 DEF SendKey
  <2>2. QED BY <1>3, <2>1 DEF TypeOK
<1>4. QED BY <1>1, <1>2, <1>3

LEMMA StopHooksType ==
  ASSUME TypeOK, StopHooks
  PROVE  /\ fwd' \in [Hooks -> {"unborn", "on", "stop", "drain", "gone"}]
         /\ owner' \in [Hooks -> Threads \cup {None}]
         /\ pressed' \in [Hooks -> SUBSET Keys]
BY DEF TypeOK, StopHooks

LEMMA StartHooksType ==
  ASSUME TypeOK, NEW t \in Threads, StartHooks(t)
  PROVE  /\ fwd' \in [Hooks -> {"unborn", "on", "stop", "drain", "gone"}]
         /\ owner' \in [Hooks -> Threads \cup {None}]
         /\ pressed' \in [Hooks -> SUBSET Keys]
<1>1. CASE UNCHANGED hooks
  BY <1>1 DEF TypeOK, hooks
<1>2. ASSUME NEW h \in Hooks,
             fwd' = [fwd EXCEPT ![h] = "on"],
             owner' = [owner EXCEPT ![h] = t],
             UNCHANGED pressed
      PROVE  /\ fwd' \in [Hooks -> {"unborn", "on", "stop", "drain", "gone"}]
             /\ owner' \in [Hooks -> Threads \cup {None}]
             /\ pressed' \in [Hooks -> SUBSET Keys]
  BY <1>2 DEF TypeOK
<1>3. QED BY <1>1, <1>2 DEF StartHooks

LEMMA LeftDownType ==
  ASSUME TypeOK, NEW c \in Channels \cup {None}
  PROVE  LeftDown(c) \in SUBSET (Channels \X Keys)
BY DEF TypeOK, LeftDown

LEMMA ForwardingType ==
  ASSUME TypeOK, NEW h \in Hooks, Forwarding(h)
  PROVE  TypeOK'
<1> USE DEF shared, threads, sessions, hooks, peers
<1>1. ASSUME NEW k \in Keys, Press(h, k) PROVE TypeOK'
  <2>1. keysDown' \in [Channels -> SUBSET Keys] /\ stranded' \in SUBSET (Channels \X Keys)
    BY <1>1, SendKeyType DEF Press
  <2>2. fwd' \in [Hooks -> {"unborn", "on", "stop", "drain", "gone"}]
    BY <1>1 DEF Press, TypeOK
  <2>3. pressed' \in [Hooks -> SUBSET Keys]
    BY <1>1 DEF Press, TypeOK
  <2>4. QED BY <1>1, <2>1, <2>2, <2>3 DEF Press, TypeOK
<1>2. ASSUME NEW k \in Keys, Release(h, k) PROVE TypeOK'
  <2>1. keysDown' \in [Channels -> SUBSET Keys] /\ stranded' \in SUBSET (Channels \X Keys)
    BY <1>2, SendKeyType DEF Release
  <2>2. pressed' \in [Hooks -> SUBSET Keys]
    BY <1>2 DEF Release, TypeOK
  <2>3. QED BY <1>2, <2>1, <2>2 DEF Release, TypeOK
<1>3. CASE StaleStop(h) \/ HookFailsafe(h) \/ SeesStop(h) \/ HookReturns(h)
  BY <1>3 DEF StaleStop, HookFailsafe, SeesStop, HookReturns, TypeOK
<1>4. QED BY <1>1, <1>2, <1>3 DEF Forwarding

LEMMA SessionType ==
  ASSUME TypeOK, Session
  PROVE  TypeOK'
<1> USE DEF shared, threads, sessions, hooks, peers
<1>1. ASSUME NEW s \in Screens, Publish(s) PROVE TypeOK'
  BY <1>1 DEF Publish, TypeOK
<1>2. ASSUME NEW s \in Screens, ClearTx(s) PROVE TypeOK'
  BY <1>2 DEF ClearTx, TypeOK
<1>3. ASSUME NEW s \in Screens, NEW want \in BOOLEAN, Unslot(s, want) PROVE TypeOK'
  <2>1. LeftDown(tx[s]) \in SUBSET (Channels \X Keys)
    BY LeftDownType DEF TypeOK
  <2>2. stranded' \in SUBSET (Channels \X Keys)
    BY <1>3, <2>1 DEF Unslot, TypeOK
  <2>3. QED BY <1>3, <2>2 DEF Unslot, TypeOK
<1>4. ASSUME NEW c \in Channels, End(c) PROVE TypeOK'
  BY <1>4 DEF End, TypeOK
<1>5. QED
  BY <1>1, <1>2, <1>3, <1>4
  DEF Session, ConnectScreen, DisconnectScreen, LinkDrops, ChannelCloses

LEMMA CommandType ==
  ASSUME TypeOK, Command
  PROVE  TypeOK'
<1> USE DEF shared, threads, sessions, hooks, peers, TypeOK
<1>1. CASE StopRouter \/ Reconfigure \/ ReturnReported
  BY <1>1 DEF StopRouter, Reconfigure, ReturnReported
<1>2. CASE Pause
  BY <1>2, StopHooksType DEF Pause, PauseAllCapture
<1>3. CASE EmergencyReset
  BY <1>3, StopHooksType DEF EmergencyReset, PauseAllCapture
<1>4. QED BY <1>1, <1>2, <1>3 DEF Command

LEMMA StartingType ==
  ASSUME TypeOK, NEW t \in Threads, Starting(t)
  PROVE  TypeOK'
<1> USE DEF shared, threads, sessions, hooks, peers, Go, TypeOK
<1>1. CASE Spawn(t)
  <2>1. slot' \in [Threads -> Channels \cup {None}]
    BY <1>1 DEF Spawn
  <2>2. space' \in (SUBSET Screens) \cup {NoLayout}
    BY <1>1 DEF Spawn
  <2>3. QED BY <1>1, <2>1, <2>2 DEF Spawn
<1>2. CASE Claim(t) \/ StartRefused(t)
  BY <1>2 DEF Claim, StartRefused
<1>3. CASE RawFails(t) \/ Begin(t)
  BY <1>3 DEF RawFails, Begin
<1>4. QED BY <1>1, <1>2, <1>3 DEF Starting

\* Taking control home, from wherever in the round.
LEMMA ComeHomeType ==
  ASSUME TypeOK, NEW t \in Threads, ComeHome(t)
  PROVE  TypeOK'
<1> USE DEF shared, sessions, hooks, TypeOK
<1>1. LeftDown(slot[t]) \in SUBSET (Channels \X Keys)
  BY LeftDownType
<1>2. stranded' \in SUBSET (Channels \X Keys)
  BY <1>1 DEF ComeHome
<1>3. slot' \in [Threads -> Channels \cup {None}]
  BY DEF ComeHome
<1>4. QED BY <1>2, <1>3 DEF ComeHome, Go

LEMMA ArmedType ==
  ASSUME TypeOK, NEW t \in Threads
  PROVE  ArmedNow(t) \in BOOLEAN
<1>1. Router \/ Seamless \/ Legacy
  BY DEF TypeOK, Router, Seamless, Legacy
<1>2. armed[t] \in BOOLEAN
  BY DEF TypeOK
<1>3. CASE Router
  BY <1>3 DEF ArmedNow, LinkAlive, Router, Seamless, Legacy
<1>4. CASE Seamless
  BY <1>2, <1>4 DEF ArmedNow, LinkAlive, Router, Seamless, Legacy
<1>5. CASE Legacy
  BY <1>5 DEF ArmedNow, LinkAlive, Router, Seamless, Legacy
<1>6. QED BY <1>1, <1>3, <1>4, <1>5

LEMMA LoopType ==
  ASSUME TypeOK, NEW t \in Threads, Loop(t)
  PROVE  TypeOK'
<1> USE DEF shared, threads, sessions, hooks, peers, Go
<1>1. CASE HeadExits(t) \/ ExitFlag(t)
  BY <1>1 DEF HeadExits, ExitFlag, TypeOK
<1>2. CASE RemovedByReconfigure(t) \/ LinkLost(t)
  BY <1>2, ComeHomeType DEF RemovedByReconfigure, LinkLost
<1>3. CASE Unhook(t)
  BY <1>3, StopHooksType DEF Unhook, TypeOK
<1>4. CASE Clean(t)
  <2>1. space' \in (SUBSET Screens) \cup {NoLayout}
    BY <1>4 DEF Clean, TypeOK
  <2>2. QED BY <1>4, <2>1, StopHooksType DEF Clean, TypeOK
<1>5. CASE Hook(t)
  <2>1. /\ fwd' \in [Hooks -> {"unborn", "on", "stop", "drain", "gone"}]
        /\ owner' \in [Hooks -> Threads \cup {None}]
        /\ pressed' \in [Hooks -> SUBSET Keys]
    BY <1>5, StartHooksType DEF Hook
  <2>2. QED BY <1>5, <2>1 DEF Hook, TypeOK
<1>6. CASE Still(t)
  BY <1>6, ArmedType DEF Still, TypeOK
<1>7. QED BY <1>1, <1>2, <1>3, <1>4, <1>5, <1>6 DEF Loop

LEMMA LedType ==
  ASSUME TypeOK, NEW t \in Threads, Led(t)
  PROVE  TypeOK'
<1> USE DEF shared, threads, sessions, hooks, peers, Go
<1>1. CASE Move(t)
  BY <1>1, ArmedType DEF Move, TypeOK
<1>2. CASE ReturnHome(t)
  BY <1>2, ComeHomeType DEF ReturnHome
<1>3. CASE ChannelClosed(t) \/ HeadExits(t)
  BY <1>3 DEF ChannelClosed, HeadExits, TypeOK
<1>4. ASSUME NEW s \in Screens, Cross(t, s) PROVE TypeOK'
  <2>1. slot' \in [Threads -> Channels \cup {None}]
    BY <1>4 DEF Cross, TypeOK
  <2>2. QED BY <1>4, <2>1 DEF Cross, TypeOK
<1>5. ASSUME NEW s \in Screens, Switch(t, s) PROVE TypeOK'
  <2>1. LeftDown(slot[t]) \in SUBSET (Channels \X Keys)
    BY LeftDownType DEF TypeOK
  <2>2. stranded' \in SUBSET (Channels \X Keys)
    BY <1>5, <2>1 DEF Switch, TypeOK
  <2>3. QED BY <1>5, <2>2, ArmedType DEF Switch, TypeOK
<1>6. QED BY <1>1, <1>2, <1>3, <1>4, <1>5 DEF Led

\* Every variable keeps its type, for every engine.
THEOREM TypeCorrect == Spec => []TypeOK
<1>1. TypeOK /\ [Next]_vars => TypeOK'
  <2> SUFFICES ASSUME TypeOK, [Next]_vars PROVE TypeOK'
    OBVIOUS
  <2>1. CASE UNCHANGED vars
    BY <2>1 DEF TypeOK, vars
  <2>2. QED
    BY <2>1, StartingType, LoopType, LedType, ForwardingType, SessionType, CommandType
    DEF Next
<1>2. QED BY InitType, <1>1, PTL DEF Spec

-----------------------------------------------------------------------------
(* Local input. *)

\* What makes SuppressionHasOwner inductive: a thread about to start the hooks has
\* a screen to control, and hooks belong to the thread that started them.
OwnedSuppression ==
  /\ SuppressionHasOwner
  /\ \A t \in Threads : At(t, "hook") => active[t] # None
  /\ \A h \in Hooks : fwd[h] # "unborn" => owner[h] \in Threads

\* Nothing more is suppressed, and who controls a screen still does or gives it up.
Quieter ==
  /\ owner' = owner
  /\ \A h \in Hooks : /\ fwd'[h] = "on" => fwd[h] = "on"
                      /\ fwd'[h] # "unborn" => fwd[h] # "unborn"
  /\ confined' => confined
  /\ \A t \in Threads :
       /\ active[t] # None \/ pc[t] = "unhook" => active'[t] # None \/ pc'[t] = "unhook"
       /\ pc'[t] = "hook" => active'[t] # None

LEMMA QuieterKeepsOwner ==
  ASSUME TypeOK, OwnedSuppression, Quieter
  PROVE  OwnedSuppression'
<1> USE DEF OwnedSuppression, Quieter, At
<1>1. ASSUME NEW h \in Hooks, fwd'[h] = "on" PROVE Controls(owner[h])'
  <2>1. fwd[h] = "on" /\ owner[h] \in Threads
    BY <1>1
  <2>2. active[owner[h]] # None \/ pc[owner[h]] = "unhook"
    BY <2>1 DEF SuppressionHasOwner, Controls
  <2>3. active'[owner[h]] # None \/ pc'[owner[h]] = "unhook"
    BY <2>1, <2>2
  <2>4. owner' = owner
    OBVIOUS
  <2>5. QED BY <2>3, <2>4 DEF Controls
<1>2. confined' => \E t \in Threads : Controls(t)'
  BY DEF SuppressionHasOwner, Controls
<1>3. QED BY <1>1, <1>2 DEF SuppressionHasOwner

\* Hooks and cursor are given up, whoever they belong to.
LEMMA GivingUpKeepsOwner ==
  ASSUME TypeOK, OwnedSuppression, StopHooks, confined' = FALSE,
         \A t \in Threads : pc'[t] = "hook" => active'[t] # None
  PROVE  OwnedSuppression'
<1>1. \A h \in Hooks : fwd'[h] # "on" /\ (fwd'[h] # "unborn" => fwd[h] # "unborn")
  BY DEF StopHooks, TypeOK
<1>2. owner' = owner
  BY DEF StopHooks
<1>3. QED BY <1>1, <1>2 DEF OwnedSuppression, SuppressionHasOwner, At

\* A thread goes from one place to another, neither of which is its business here.
LEMMA WalkingIsQuiet ==
  ASSUME TypeOK, OwnedSuppression,
         NEW t \in Threads, NEW place, Go(t, place), place # "hook", pc[t] # "unhook",
         UNCHANGED <<active, hooks>>, confined' => confined
  PROVE  Quieter
<1>1. pc'[t] = place /\ \A u \in Threads : u # t => pc'[u] = pc[u]
  BY DEF Go, TypeOK
<1>2. \A u \in Threads : pc[u] = "hook" => active[u] # None
  BY DEF OwnedSuppression, At
<1>3. QED BY <1>1, <1>2 DEF Quieter, hooks

LEMMA StoppingIsQuiet ==
  ASSUME TypeOK, StopHooks
  PROVE  /\ owner' = owner
         /\ \A h \in Hooks : /\ fwd'[h] = "on" => fwd[h] = "on"
                             /\ fwd'[h] # "unborn" => fwd[h] # "unborn"
BY DEF StopHooks, TypeOK

LEMMA ComingHomeIsQuiet ==
  ASSUME TypeOK, OwnedSuppression, NEW t \in Threads, ComeHome(t)
  PROVE  Quieter
<1>1. pc'[t] = "unhook" /\ \A u \in Threads : u # t => pc'[u] = pc[u]
  BY DEF ComeHome, Go, TypeOK
<1>2. \A u \in Threads : u # t => active'[u] = active[u]
  BY DEF ComeHome, TypeOK
<1>3. \A u \in Threads : pc[u] = "hook" => active[u] # None
  BY DEF OwnedSuppression, At
<1>4. UNCHANGED <<owner, fwd, confined>>
  BY DEF ComeHome, hooks, shared
<1>5. QED BY <1>1, <1>2, <1>3, <1>4 DEF Quieter

LEMMA EngineKeepsOwner ==
  ASSUME TypeOK, OwnedSuppression, NEW t \in Threads, Starting(t) \/ Loop(t) \/ Led(t)
  PROVE  OwnedSuppression'
<1>1. CASE Starting(t)
  <2>1. CASE Claim(t)
    BY <2>1, WalkingIsQuiet, QuieterKeepsOwner DEF Claim, At
  <2>2. CASE Spawn(t)
    BY <2>2, WalkingIsQuiet, QuieterKeepsOwner DEF Spawn, At
  <2>3. CASE StartRefused(t)
    BY <2>3, WalkingIsQuiet, QuieterKeepsOwner DEF StartRefused, At
  <2>4. CASE RawFails(t)
    BY <2>4, WalkingIsQuiet, QuieterKeepsOwner DEF RawFails, At
  <2>5. CASE Begin(t)
    BY <2>5, WalkingIsQuiet, QuieterKeepsOwner DEF Begin, At, shared
  <2>6. QED BY <1>1, <2>1, <2>2, <2>3, <2>4, <2>5 DEF Starting
<1>2. CASE HeadExits(t)
  BY <1>2, WalkingIsQuiet, QuieterKeepsOwner DEF HeadExits, At, shared
<1>3. CASE ChannelClosed(t)
  BY <1>3, WalkingIsQuiet, QuieterKeepsOwner
  DEF ChannelClosed, AtHome, OnScreen, At, shared
<1>4. CASE ExitFlag(t)
  BY <1>4, WalkingIsQuiet, QuieterKeepsOwner DEF ExitFlag, At
<1>5. CASE RemovedByReconfigure(t) \/ LinkLost(t) \/ ReturnHome(t)
  BY <1>5, ComingHomeIsQuiet, QuieterKeepsOwner
  DEF RemovedByReconfigure, LinkLost, ReturnHome
<1>6. CASE Unhook(t)
  <2>1. \A u \in Threads : pc'[u] = "hook" => active'[u] # None
    BY <1>6 DEF Unhook, Go, TypeOK, OwnedSuppression, At
  <2>2. QED BY <1>6, <2>1, GivingUpKeepsOwner DEF Unhook
<1>7. CASE Clean(t)
  <2>1. \A u \in Threads : pc'[u] = "hook" => active'[u] # None
    BY <1>7 DEF Clean, Go, TypeOK, OwnedSuppression, At
  <2>2. QED BY <1>7, <2>1, GivingUpKeepsOwner DEF Clean
<1>8. CASE Still(t) \/ Move(t)
  <2>1. Quieter
    BY <1>8 DEF Still, Move, Quieter, hooks, shared, OwnedSuppression, At
  <2>2. QED BY <2>1, QuieterKeepsOwner
<1>9. CASE Hook(t)
  \* The new hook and the confined cursor are those of a thread on a screen.
  <2>1. active[t] # None /\ active' = active
    BY <1>9 DEF Hook, OwnedSuppression
  <2>2. pc[t] = "hook" /\ pc'[t] = "head" /\ \A u \in Threads : u # t => pc'[u] = pc[u]
    BY <1>9 DEF Hook, Go, TypeOK, At
  <2>3. \A u \in Threads : Controls(u) => Controls(u)'
    BY <2>1, <2>2 DEF Controls, At
  <2>4. \A h \in Hooks :
          /\ fwd'[h] = "on" => owner'[h] = t \/ (fwd[h] = "on" /\ owner'[h] = owner[h])
          /\ fwd'[h] # "unborn" => owner'[h] \in Threads
    BY <1>9 DEF Hook, StartHooks, hooks, TypeOK, OwnedSuppression
  <2>5. Controls(t)'
    BY <2>1 DEF Controls
  <2>6. ASSUME NEW h \in Hooks, fwd'[h] = "on" PROVE Controls(owner[h])'
    <3>1. CASE owner'[h] = t
      BY <2>5, <3>1 DEF Controls, At
    <3>2. CASE fwd[h] = "on" /\ owner'[h] = owner[h]
      <4>1. owner[h] \in Threads /\ Controls(owner[h])
        BY <3>2 DEF OwnedSuppression, SuppressionHasOwner
      <4>2. QED BY <2>3, <3>2, <4>1 DEF Controls, At
    <3>3. QED BY <2>4, <2>6, <3>1, <3>2
  <2>7. \A u \in Threads : pc'[u] = "hook" => active'[u] # None
    BY <2>1, <2>2 DEF OwnedSuppression, At
  <2>8. QED BY <2>4, <2>5, <2>6, <2>7 DEF OwnedSuppression, SuppressionHasOwner, At
<1>10. ASSUME NEW s \in Screens, Cross(t, s) PROVE OwnedSuppression'
  <2>1. /\ active'[t] = s
        /\ \A u \in Threads : u # t => active'[u] = active[u] /\ pc'[u] = pc[u]
    BY <1>10 DEF Cross, Go, TypeOK
  <2>2. UNCHANGED <<owner, fwd, confined>>
    BY <1>10 DEF Cross, hooks, shared
  <2>3. Quieter
    BY <2>1, <2>2 DEF Quieter, OwnedSuppression, At
  <2>4. QED BY <2>3, QuieterKeepsOwner
<1>11. ASSUME NEW s \in Screens, Switch(t, s) PROVE OwnedSuppression'
  <2>1. /\ active'[t] = s
        /\ \A u \in Threads : u # t => active'[u] = active[u]
    BY <1>11 DEF Switch, TypeOK
  <2>2. UNCHANGED <<owner, fwd, confined, pc>>
    BY <1>11 DEF Switch, hooks, shared
  <2>3. Quieter
    BY <2>1, <2>2 DEF Quieter, OwnedSuppression, At
  <2>4. QED BY <2>3, QuieterKeepsOwner
<1>12. QED
  BY <1>1, <1>2, <1>3, <1>4, <1>5, <1>6, <1>7, <1>8, <1>9, <1>10, <1>11 DEF Loop, Led

LEMMA OwnershipHolds == Spec => []OwnedSuppression
<1>1. Init => OwnedSuppression
  BY DEF Init, OwnedSuppression, SuppressionHasOwner, At
<1>2. TypeOK /\ OwnedSuppression /\ [Next]_vars => OwnedSuppression'
  <2> SUFFICES ASSUME TypeOK, OwnedSuppression, [Next]_vars PROVE OwnedSuppression'
    OBVIOUS
  <2>1. ASSUME UNCHANGED <<threads, owner>>, confined' => confined,
               \A h \in Hooks : /\ fwd'[h] = "on" => fwd[h] = "on"
                                /\ fwd'[h] # "unborn" => fwd[h] # "unborn"
        PROVE  OwnedSuppression'
    <3>1. Quieter
      BY <2>1 DEF Quieter, threads, OwnedSuppression, At
    <3>2. QED BY <3>1, QuieterKeepsOwner
  <2>2. CASE UNCHANGED vars
    BY <2>2, <2>1 DEF vars, threads
  <2>3. ASSUME NEW h \in Hooks, Forwarding(h) PROVE OwnedSuppression'
    <3>1. UNCHANGED <<threads, owner, confined>>
      BY <2>3
      DEF Forwarding, Press, Release, StaleStop, HookFailsafe, SeesStop, HookReturns, shared
    <3>2. \A g \in Hooks : /\ fwd'[g] = "on" => fwd[g] = "on"
                           /\ fwd'[g] # "unborn" => fwd[g] # "unborn"
      BY <2>3
      DEF Forwarding, Press, Release, StaleStop, HookFailsafe, SeesStop, HookReturns, TypeOK
    <3>3. QED BY <3>1, <3>2, <2>1
  <2>4. CASE Session
    BY <2>4, <2>1 DEF Session, Publish, ClearTx, ConnectScreen, DisconnectScreen, Unslot,
                      LinkDrops, ChannelCloses, End, shared, hooks
  <2>5. CASE StopRouter \/ Reconfigure \/ ReturnReported
    BY <2>5, <2>1 DEF StopRouter, Reconfigure, ReturnReported, hooks
  <2>6. CASE Pause \/ EmergencyReset
    BY <2>6, <2>1, StoppingIsQuiet DEF Pause, EmergencyReset, PauseAllCapture
  <2>7. QED
    BY <2>2, <2>3, <2>4, <2>5, <2>6, EngineKeepsOwner DEF Next, Command
<1>3. QED BY <1>1, <1>2, TypeCorrect, PTL DEF Spec

\* However threads, stops, pauses and resets overlap, local input is suppressed and the
\* cursor confined only while a thread controls a screen or is about to give them up.
THEOREM SuppressionIsOwned == Spec => []SuppressionHasOwner
<1>1. OwnedSuppression => SuppressionHasOwner
  BY DEF OwnedSuppression
<1>2. QED BY <1>1, OwnershipHolds, PTL

-----------------------------------------------------------------------------
(* The promise of LocalInput. *)

InControl == {t \in Threads : Controls(t)}

\* One hook is on at a time.
OneHookOn == \A g, h \in Hooks : fwd[g] = "on" /\ fwd[h] = "on" => g = h

\* Suppressor, as a function of what it depends on.
Who(f, o) ==
  IF \E h \in Hooks : f[h] = "on" THEN o[CHOOSE h \in Hooks : f[h] = "on"] ELSE None

LEMMA WhoIs ==
  ASSUME NEW f, NEW o, NEW h \in Hooks, f[h] = "on",
         \A g \in Hooks : f[g] = "on" => g = h
  PROVE  Who(f, o) = o[h]
<1>1. (CHOOSE g \in Hooks : f[g] = "on") = h
  OBVIOUS
<1>2. QED BY <1>1, Zenon DEF Who

LEMMA NoOne ==
  ASSUME NEW f, NEW o, \A h \in Hooks : f[h] # "on"
  PROVE  Who(f, o) = None
BY DEF Who

LEMMA SuppressorIsWho == Suppressor = Who(fwd, owner) /\ Suppressor' = Who(fwd', owner')
BY DEF Suppressor, Who

\* Hooks are left on or not, and none is added.
NoNewHook == owner' = owner /\ \A h \in Hooks : fwd'[h] = "on" => fwd[h] = "on"

LEMMA NoNewSuppressor ==
  ASSUME OneHookOn, NoNewHook
  PROVE  Suppressor' \in {Suppressor, None} /\ OneHookOn'
<1>1. OneHookOn'
  BY DEF OneHookOn, NoNewHook
<1>2. CASE \E h \in Hooks : fwd'[h] = "on"
  <2>1. PICK h \in Hooks : fwd'[h] = "on"
    BY <1>2
  <2>2. fwd[h] = "on" /\ owner' = owner
    BY <2>1 DEF NoNewHook
  <2>3. Who(fwd', owner') = owner'[h]
    BY <1>1, <2>1, WhoIs DEF OneHookOn
  <2>4. Who(fwd, owner) = owner[h]
    BY <2>2, WhoIs DEF OneHookOn
  <2>5. QED BY <1>1, <2>2, <2>3, <2>4, SuppressorIsWho
<1>3. CASE \A h \in Hooks : fwd'[h] # "on"
  BY <1>1, <1>3, NoOne, SuppressorIsWho
<1>4. QED BY <1>2, <1>3

\* No input is taken, and the same threads are in control.
LEMMA FreeingStep ==
  ASSUME OneHookOn, NoNewHook, confined' = confined \/ confined' = FALSE,
         InControl' = InControl
  PROVE  Input!Next /\ OneHookOn'
<1>1. Suppressor' \in {Suppressor, None} /\ OneHookOn'
  BY NoNewSuppressor
<1>2. Input!FreeInput
  BY <1>1 DEF Input!FreeInput, InControl
<1>3. QED BY <1>1, <1>2 DEF Input!Next

\* All input is given back by a thread that may give up control.
LEMMA GivingBackStep ==
  ASSUME TypeOK, OneHookOn, StopHooks, confined' = FALSE, NEW t \in Threads,
         InControl' = InControl \/ InControl' = InControl \ {t}
  PROVE  Input!Next /\ OneHookOn'
<1>1. \A h \in Hooks : fwd'[h] # "on"
  BY DEF StopHooks, TypeOK
<1>2. Suppressor' = None /\ OneHookOn' /\ NoNewHook
  BY <1>1, NoOne, SuppressorIsWho DEF OneHookOn, NoNewHook, StopHooks
<1>3. CASE InControl' = InControl
  BY <1>2, <1>3, FreeingStep
<1>4. CASE InControl' = InControl \ {t} /\ t \in InControl
  <2>1. Input!GiveBack(t)
    BY <1>2, <1>4 DEF Input!GiveBack, InControl
  <2>2. QED BY <1>2, <2>1 DEF Input!Next
<1>5. QED BY <1>3, <1>4

\* A thread that walks from one place to another keeps its control or lack of it.
LEMMA WalkingKeepsControl ==
  ASSUME TypeOK, OneHookOn, NEW t \in Threads, NEW place, Go(t, place),
         place # "unhook", pc[t] # "unhook",
         UNCHANGED <<active, hooks>>, confined' = confined
  PROVE  Input!Next /\ OneHookOn'
<1>1. \A u \in Threads : (pc'[u] = "unhook" <=> pc[u] = "unhook") /\ active'[u] = active[u]
  BY DEF Go, TypeOK
<1>2. InControl' = InControl
  BY <1>1 DEF InControl, Controls, At
<1>3. NoNewHook
  BY DEF NoNewHook, hooks
<1>4. QED BY <1>2, <1>3, FreeingStep

\* On its way home a thread is still in control, until it has given the input back.
LEMMA ComingHomeKeepsControl ==
  ASSUME TypeOK, OneHookOn, NEW t \in Threads, ComeHome(t), active[t] # None
  PROVE  Input!Next /\ OneHookOn'
<1>1. /\ pc'[t] = "unhook"
      /\ \A u \in Threads : u # t => pc'[u] = pc[u] /\ active'[u] = active[u]
  BY DEF ComeHome, Go, TypeOK
<1>2. InControl' = InControl
  BY <1>1 DEF InControl, Controls, At
<1>3. NoNewHook /\ confined' = confined
  BY DEF NoNewHook, ComeHome, hooks, shared
<1>4. QED BY <1>2, <1>3, FreeingStep

LEMMA HookTakesInput ==
  ASSUME TypeOK, OwnedSuppression, OneHookOn, NEW t \in Threads, Hook(t)
  PROVE  Input!Next /\ OneHookOn'
<1>1. active[t] # None /\ active' = active /\ StartHooks(t)
  BY DEF Hook, OwnedSuppression
<1>2. pc[t] = "hook" /\ \A u \in Threads : pc'[u] = "unhook" <=> pc[u] = "unhook"
  BY DEF Hook, Go, TypeOK, At
<1>3. InControl' = InControl /\ t \in InControl
  BY <1>1, <1>2 DEF InControl, Controls, At
<1>4. confined' \in {confined, TRUE}
  <2>1. confined \in BOOLEAN /\ confined' = (confined \/ ~Legacy)
    BY DEF TypeOK, Hook
  <2>2. QED BY <2>1, Zenon
<1>5. Suppressor' \in {Suppressor, IF Suppressor = None THEN t ELSE Suppressor} /\ OneHookOn'
  <2>1. CASE UNCHANGED hooks
    <3>1. Suppressor' = Suppressor /\ OneHookOn'
      BY <2>1, SuppressorIsWho DEF hooks, OneHookOn
    <3>2. QED BY <3>1
  <2>2. ASSUME \A g \in Hooks : fwd[g] # "on",
               NEW h \in Hooks,
               fwd' = [fwd EXCEPT ![h] = "on"], owner' = [owner EXCEPT ![h] = t]
        PROVE  Suppressor' = t /\ Suppressor = None /\ OneHookOn'
    <3>1. /\ fwd'[h] = "on" /\ owner'[h] = t
          /\ \A g \in Hooks : fwd'[g] = "on" => g = h
      BY <2>2 DEF TypeOK
    <3>2. Who(fwd', owner') = t
      BY <3>1, WhoIs
    <3>3. Who(fwd, owner) = None
      BY <2>2, NoOne
    <3>4. QED BY <3>1, <3>2, <3>3, SuppressorIsWho DEF OneHookOn
  <2>3. QED BY <1>1, <2>1, <2>2 DEF StartHooks
<1>6. Input!TakeInput(t)
  BY <1>3, <1>4, <1>5 DEF Input!TakeInput, InControl
<1>7. QED BY <1>5, <1>6 DEF Input!Next

LEMMA EngineKeepsPromise ==
  ASSUME TypeOK, OwnedSuppression, OneHookOn,
         NEW t \in Threads, Starting(t) \/ Loop(t) \/ Led(t)
  PROVE  Input!Next /\ OneHookOn'
<1>1. CASE Starting(t)
  <2>1. CASE Claim(t)
    BY <2>1, WalkingKeepsControl DEF Claim, At
  <2>2. CASE Spawn(t)
    BY <2>2, WalkingKeepsControl DEF Spawn, At
  <2>3. CASE StartRefused(t)
    BY <2>3, WalkingKeepsControl DEF StartRefused, At
  <2>4. CASE RawFails(t)
    BY <2>4, WalkingKeepsControl DEF RawFails, At
  <2>5. CASE Begin(t)
    BY <2>5, WalkingKeepsControl DEF Begin, At, shared
  <2>6. QED BY <1>1, <2>1, <2>2, <2>3, <2>4, <2>5 DEF Starting
<1>2. CASE HeadExits(t)
  BY <1>2, WalkingKeepsControl DEF HeadExits, At, shared
<1>3. CASE ChannelClosed(t)
  BY <1>3, WalkingKeepsControl DEF ChannelClosed, AtHome, OnScreen, At, shared
<1>4. CASE ExitFlag(t)
  BY <1>4, WalkingKeepsControl DEF ExitFlag, At
<1>5. CASE RemovedByReconfigure(t) \/ LinkLost(t) \/ ReturnHome(t)
  BY <1>5, ComingHomeKeepsControl
  DEF RemovedByReconfigure, Removed, LinkLost, ReturnHome, OnScreen
<1>6. CASE Unhook(t)
  <2>1. /\ pc[t] = "unhook" /\ active' = active
        /\ \A u \in Threads : u # t => (pc'[u] = pc[u])
        /\ pc'[t] = "head"
    BY <1>6 DEF Unhook, Go, TypeOK, At
  <2>2. InControl' = InControl \/ InControl' = InControl \ {t}
    <3>1. CASE active[t] = None
      BY <2>1, <3>1 DEF InControl, Controls, At
    <3>2. CASE active[t] # None
      BY <2>1, <3>2 DEF InControl, Controls, At
    <3>3. QED BY <3>1, <3>2
  <2>3. QED BY <1>6, <2>2, GivingBackStep DEF Unhook
<1>7. CASE Clean(t)
  <2>1. /\ active'[t] = None /\ pc'[t] = "gone" /\ pc[t] = "clean"
        /\ \A u \in Threads : u # t => pc'[u] = pc[u] /\ active'[u] = active[u]
    BY <1>7 DEF Clean, Go, TypeOK, At
  <2>2. InControl' = InControl \ {t}
    BY <2>1 DEF InControl, Controls, At
  <2>3. QED BY <1>7, <2>2, GivingBackStep DEF Clean
<1>8. CASE Still(t) \/ Move(t)
  <2>1. InControl' = InControl /\ NoNewHook /\ confined' = confined
    BY <1>8 DEF Still, Move, InControl, Controls, At, NoNewHook, hooks, shared
  <2>2. QED BY <2>1, FreeingStep
<1>9. CASE Hook(t)
  BY <1>9, HookTakesInput
<1>10. ASSUME NEW s \in Screens, Cross(t, s) PROVE Input!Next /\ OneHookOn'
  <2>1. /\ active'[t] = s /\ active[t] = None /\ pc[t] = "head" /\ s # None
        /\ \A u \in Threads : u # t => active'[u] = active[u] /\ pc'[u] = pc[u]
    BY <1>10 DEF Cross, Go, TypeOK, AtHome, At
  <2>2. UNCHANGED <<hooks, confined>>
    BY <1>10 DEF Cross, shared
  <2>3. t \notin InControl /\ InControl' = InControl \cup {t}
    BY <2>1 DEF InControl, Controls, At
  <2>4. Suppressor' = Suppressor /\ OneHookOn'
    BY <2>2, SuppressorIsWho DEF hooks, OneHookOn
  <2>5. Input!TakeControl(t)
    BY <2>2, <2>3, <2>4 DEF Input!TakeControl, InControl
  <2>6. QED BY <2>4, <2>5 DEF Input!Next
<1>11. ASSUME NEW s \in Screens, Switch(t, s) PROVE Input!Next /\ OneHookOn'
  <2>1. /\ active'[t] = s /\ active[t] # None /\ s # None /\ pc' = pc
        /\ \A u \in Threads : u # t => active'[u] = active[u]
    BY <1>11 DEF Switch, TypeOK, OnScreen
  <2>2. InControl' = InControl
    BY <2>1 DEF InControl, Controls, At
  <2>3. NoNewHook /\ confined' = confined
    BY <1>11 DEF Switch, NoNewHook, hooks, shared
  <2>4. QED BY <2>2, <2>3, FreeingStep
<1>12. QED
  BY <1>1, <1>2, <1>3, <1>4, <1>5, <1>6, <1>7, <1>8, <1>9, <1>10, <1>11 DEF Loop, Led

\* Every step keeps the promise.
LEMMA PromiseNext ==
  ASSUME TypeOK, OwnedSuppression, OneHookOn, [Next]_vars
  PROVE  [Input!Next]_Input!vars /\ OneHookOn'
<1>1. CASE UNCHANGED vars
  BY <1>1, SuppressorIsWho DEF vars, Input!vars, Controls, At, OneHookOn
<1>2. ASSUME UNCHANGED threads, NoNewHook, confined' = confined \/ confined' = FALSE
      PROVE  Input!Next /\ OneHookOn'
  <2>1. InControl' = InControl
    BY <1>2 DEF InControl, Controls, At, threads
  <2>2. QED BY <1>2, <2>1, FreeingStep
<1>3. ASSUME NEW h \in Hooks, Forwarding(h) PROVE Input!Next /\ OneHookOn'
  <2>1. UNCHANGED <<threads, owner, confined>>
    BY <1>3
    DEF Forwarding, Press, Release, StaleStop, HookFailsafe, SeesStop, HookReturns, shared
  <2>2. \A g \in Hooks : fwd'[g] = "on" => fwd[g] = "on"
    BY <1>3
    DEF Forwarding, Press, Release, StaleStop, HookFailsafe, SeesStop, HookReturns, TypeOK
  <2>3. QED BY <1>2, <2>1, <2>2 DEF NoNewHook
<1>4. CASE Session
  BY <1>4, <1>2 DEF Session, Publish, ClearTx, ConnectScreen, DisconnectScreen, Unslot,
                    LinkDrops, ChannelCloses, End, shared, hooks, NoNewHook
<1>5. CASE StopRouter \/ Reconfigure \/ ReturnReported
  BY <1>5, <1>2 DEF StopRouter, Reconfigure, ReturnReported, hooks, NoNewHook
<1>6. CASE Pause \/ EmergencyReset
  BY <1>6, <1>2, StoppingIsQuiet DEF Pause, EmergencyReset, PauseAllCapture, NoNewHook
<1>7. QED
  BY <1>1, <1>3, <1>4, <1>5, <1>6, EngineKeepsPromise DEF Next, Command

\* The engines keep the promise of LocalInput: input is taken by a thread in control
\* only, by one at a time, and given back by the step that gives control up, whatever
\* two engine threads, stops, pauses and resets do to each other.
THEOREM EnginesGiveInputBack == Spec => GivesInputBack
<1> DEFINE Inv == TypeOK /\ OwnedSuppression /\ OneHookOn
<1>1. Init => OneHookOn /\ Input!Init
  <2> SUFFICES ASSUME Init PROVE OneHookOn /\ Input!Init
    OBVIOUS
  <2>1. \A h \in Hooks : fwd[h] # "on"
    BY DEF Init
  <2>2. Suppressor = None
    BY <2>1, NoOne, SuppressorIsWho
  <2>3. QED BY <2>1, <2>2 DEF Init, OneHookOn, Input!Init, Controls, At
<1>2. TypeOK /\ OwnedSuppression /\ OneHookOn /\ [Next]_vars
        => [Input!Next]_Input!vars /\ OneHookOn'
  BY PromiseNext
<1>3. Spec => [](TypeOK /\ OwnedSuppression)
  BY OwnershipHolds, TypeCorrect, PTL
<1>4. QED BY <1>1, <1>2, <1>3, PTL DEF Spec, GivesInputBack, Input!Spec

-----------------------------------------------------------------------------
(* Keys held on the peers. *)

\* A channel without a session has nothing down, and a session has a channel that
\* was opened.
KeysNeedSession ==
  \A c \in Channels :
    /\ c \notin live => keysDown[c] = {}
    /\ screen[c] = None => c \notin live

LEMMA SendKeepsKeys ==
  ASSUME TypeOK, KeysNeedSession, NEW c, NEW k \in Keys, NEW isDown \in BOOLEAN,
         SendKey(c, k, isDown), UNCHANGED sessions
  PROVE  KeysNeedSession'
<1>1. CASE c \notin live
  BY <1>1 DEF SendKey, peers, sessions, KeysNeedSession
<1>2. CASE c \in live
  <2>1. \A d \in Channels : d # c => keysDown'[d] = keysDown[d]
    BY <1>2 DEF SendKey, TypeOK
  <2>2. QED BY <1>2, <2>1 DEF sessions, KeysNeedSession
<1>3. QED BY <1>1, <1>2

LEMMA SessionKeys == Spec => []KeysNeedSession
<1>1. Init => KeysNeedSession
  BY DEF Init, KeysNeedSession
<1>2. TypeOK /\ KeysNeedSession /\ [Next]_vars => KeysNeedSession'
  <2> SUFFICES ASSUME TypeOK, KeysNeedSession, [Next]_vars PROVE KeysNeedSession'
    OBVIOUS
  <2>1. ASSUME UNCHANGED <<screen, live, keysDown>> PROVE KeysNeedSession'
    BY <2>1 DEF KeysNeedSession
  <2>2. ASSUME NEW t \in Threads, Starting(t) PROVE KeysNeedSession'
    BY <2>2, <2>1 DEF Starting, Claim, Spawn, StartRefused, RawFails, Begin,
                      sessions, peers
  <2>3. ASSUME NEW t \in Threads, ComeHome(t) PROVE KeysNeedSession'
    BY <2>3, <2>1 DEF ComeHome, sessions
  <2>4. ASSUME NEW t \in Threads, Loop(t) PROVE KeysNeedSession'
    BY <2>4, <2>3, <2>1 DEF Loop, HeadExits, RemovedByReconfigure, Unhook, Hook,
                            LinkLost, Still, ExitFlag, Clean, sessions, peers
  <2>5. ASSUME NEW t \in Threads, Led(t) PROVE KeysNeedSession'
    BY <2>5, <2>3, <2>1 DEF Led, Move, ReturnHome, ChannelClosed, HeadExits, Cross,
                            Switch, sessions, peers
  <2>6. ASSUME NEW h \in Hooks, NEW k \in Keys, Press(h, k) \/ Release(h, k)
        PROVE  KeysNeedSession'
    BY <2>6, SendKeepsKeys DEF Press, Release
  <2>7. ASSUME NEW h \in Hooks, StaleStop(h) \/ HookFailsafe(h) \/ SeesStop(h) \/ HookReturns(h)
        PROVE  KeysNeedSession'
    BY <2>7, <2>1 DEF StaleStop, HookFailsafe, SeesStop, HookReturns, sessions, peers
  <2>8. ASSUME NEW s \in Screens, Publish(s) PROVE KeysNeedSession'
    <3>1. PICK c \in Channels : /\ screen[c] = None
                                /\ screen' = [screen EXCEPT ![c] = s]
                                /\ live' = live \cup {c}
      BY <2>8 DEF Publish
    <3>2. keysDown' = keysDown
      BY <2>8 DEF Publish, peers
    <3>3. screen'[c] = s /\ \A d \in Channels : d # c => screen'[d] = screen[d]
      BY <3>1 DEF TypeOK
    <3>4. QED BY <3>1, <3>2, <3>3 DEF KeysNeedSession
  <2>9. ASSUME NEW s \in Screens,
               ClearTx(s) \/ ConnectScreen(s) \/ DisconnectScreen(s)
        PROVE  KeysNeedSession'
    BY <2>9, <2>1 DEF ClearTx, ConnectScreen, DisconnectScreen, Unslot, peers
  <2>10. ASSUME NEW c \in Channels, LinkDrops(c) \/ ChannelCloses(c)
         PROVE  KeysNeedSession'
    <3>1. End(c)
      BY <2>10 DEF LinkDrops, ChannelCloses
    <3>2. keysDown'[c] = {} /\ \A d \in Channels : d # c => keysDown'[d] = keysDown[d]
      BY <3>1 DEF End, TypeOK
    <3>3. QED BY <3>1, <3>2 DEF End, KeysNeedSession
  <2>11. CASE Command
    BY <2>11, <2>1 DEF Command, StopRouter, Reconfigure, Pause, EmergencyReset,
                       ReturnReported, sessions, peers
  <2>12. CASE UNCHANGED vars
    BY <2>12, <2>1 DEF vars
  <2>13. QED
    BY <2>2, <2>4, <2>5, <2>6, <2>7, <2>8, <2>9, <2>10, <2>11, <2>12
    DEF Next, Forwarding, Session
<1>3. QED BY <1>1, <1>2, TypeCorrect, PTL DEF Spec

\* A thread that may still get its sender has started no hooks.
HooksFollowStart ==
  \A h \in Hooks :
    fwd[h] # "unborn" => /\ owner[h] \in Threads
                         /\ pc[owner[h]] \notin {"unborn", "claimed", "spawned"}

\* At home, the router's slot is empty.
HomeSlotEmpty ==
  Router => \A t \in Threads : active[t] = None /\ pc[t] # "gone" => slot[t] = None

\* Threads do not go back to their start.
LEMMA WalkingKeepsOrder ==
  ASSUME TypeOK, HooksFollowStart, NEW t \in Threads, NEW place, Go(t, place),
         \/ place \notin {"unborn", "claimed", "spawned"}
         \/ pc[t] \in {"unborn", "claimed", "spawned"},
         owner' = owner, \A h \in Hooks : fwd'[h] # "unborn" => fwd[h] # "unborn"
  PROVE  HooksFollowStart'
<1>1. pc'[t] = place /\ \A u \in Threads : u # t => pc'[u] = pc[u]
  BY DEF Go, TypeOK
<1>2. QED BY <1>1 DEF HooksFollowStart

LEMMA HookOrder == Spec => []HooksFollowStart
<1>1. Init => HooksFollowStart
  BY DEF Init, HooksFollowStart
<1>2. TypeOK /\ HooksFollowStart /\ [Next]_vars => HooksFollowStart'
  <2> SUFFICES ASSUME TypeOK, HooksFollowStart, [Next]_vars PROVE HooksFollowStart'
    OBVIOUS
  <2>1. ASSUME UNCHANGED <<pc, owner>>,
               \A h \in Hooks : fwd'[h] # "unborn" => fwd[h] # "unborn"
        PROVE  HooksFollowStart'
    BY <2>1 DEF HooksFollowStart
  <2>2. ASSUME NEW t \in Threads, Starting(t) PROVE HooksFollowStart'
    BY <2>2, WalkingKeepsOrder DEF Starting, Claim, Spawn, StartRefused, RawFails,
                                   Begin, At, hooks
  <2>3. ASSUME NEW t \in Threads, ComeHome(t) PROVE HooksFollowStart'
    BY <2>3, WalkingKeepsOrder DEF ComeHome, hooks
  <2>4. ASSUME NEW t \in Threads,
               \/ HeadExits(t) \/ Unhook(t) \/ ExitFlag(t) \/ Clean(t) \/ ChannelClosed(t)
        PROVE  HooksFollowStart'
    BY <2>4, StoppingIsQuiet, WalkingKeepsOrder
    DEF HeadExits, Unhook, ExitFlag, Clean, ChannelClosed, hooks
  <2>5. ASSUME NEW t \in Threads, Hook(t) PROVE HooksFollowStart'
    <3>1. \A h \in Hooks :
            fwd'[h] # "unborn" =>
              owner'[h] = t \/ (fwd[h] # "unborn" /\ owner'[h] = owner[h])
      BY <2>5 DEF Hook, StartHooks, hooks, TypeOK
    <3>2. pc'[t] = "head" /\ \A u \in Threads : u # t => pc'[u] = pc[u]
      BY <2>5 DEF Hook, Go, TypeOK
    <3>3. QED BY <3>1, <3>2 DEF HooksFollowStart
  <2>6. ASSUME NEW t \in Threads, Still(t) \/ Move(t) PROVE HooksFollowStart'
    BY <2>6, <2>1 DEF Still, Move, hooks
  <2>7. ASSUME NEW t \in Threads, NEW s \in Screens, Cross(t, s) \/ Switch(t, s)
        PROVE  HooksFollowStart'
    BY <2>7, <2>1, WalkingKeepsOrder DEF Cross, Switch, hooks
  <2>8. ASSUME NEW h \in Hooks, Forwarding(h) PROVE HooksFollowStart'
    <3>1. UNCHANGED <<pc, owner>>
      BY <2>8
      DEF Forwarding, Press, Release, StaleStop, HookFailsafe, SeesStop, HookReturns, threads
    <3>2. \A g \in Hooks : fwd'[g] # "unborn" => fwd[g] # "unborn"
      BY <2>8
      DEF Forwarding, Press, Release, StaleStop, HookFailsafe, SeesStop, HookReturns, TypeOK
    <3>3. QED BY <3>1, <3>2, <2>1
  <2>9. CASE Session
    BY <2>9, <2>1 DEF Session, Publish, ClearTx, ConnectScreen, DisconnectScreen, Unslot,
                      LinkDrops, ChannelCloses, End, threads, hooks
  <2>10. CASE StopRouter \/ Reconfigure \/ ReturnReported
    BY <2>10, <2>1 DEF StopRouter, Reconfigure, ReturnReported, threads, hooks
  <2>11. CASE Pause \/ EmergencyReset
    BY <2>11, <2>1, StoppingIsQuiet DEF Pause, EmergencyReset, PauseAllCapture, threads
  <2>12. CASE UNCHANGED vars
    BY <2>12, <2>1 DEF vars
  <2>13. QED
    BY <2>2, <2>3, <2>4, <2>5, <2>6, <2>7, <2>8, <2>9, <2>10, <2>11, <2>12
    DEF Next, Loop, Led, RemovedByReconfigure, LinkLost, ReturnHome, Command
<1>3. QED BY <1>1, <1>2, TypeCorrect, PTL DEF Spec

LEMMA HomeSlot == Spec => []HomeSlotEmpty
<1>1. Init => HomeSlotEmpty
  BY DEF Init, HomeSlotEmpty
<1>2. TypeOK /\ HomeSlotEmpty /\ [Next]_vars => HomeSlotEmpty'
  <2> SUFFICES ASSUME TypeOK, HomeSlotEmpty, [Next]_vars PROVE HomeSlotEmpty'
    OBVIOUS
  <2> USE DEF Router
  <2>1. ASSUME UNCHANGED <<engine, pc, active, slot>> PROVE HomeSlotEmpty'
    BY <2>1 DEF HomeSlotEmpty
  <2>2. ASSUME NEW t \in Threads, NEW place, Go(t, place), pc[t] # "gone",
               UNCHANGED <<engine, active, slot>>
        PROVE  HomeSlotEmpty'
    <3>1. pc'[t] = place /\ \A u \in Threads : u # t => pc'[u] = pc[u]
      BY <2>2 DEF Go, TypeOK
    <3>2. QED BY <2>2, <3>1 DEF HomeSlotEmpty
  <2>3. ASSUME NEW t \in Threads, Claim(t) \/ StartRefused(t) \/ RawFails(t) \/ Begin(t)
        PROVE  HomeSlotEmpty'
    BY <2>3, <2>2 DEF Claim, StartRefused, RawFails, Begin, At
  <2>4. ASSUME NEW t \in Threads, Spawn(t) PROVE HomeSlotEmpty'
    <3>1. /\ pc'[t] = "spawned" /\ slot'[t] = IF Legacy THEN tx[Peer] ELSE None
          /\ \A u \in Threads : u # t => pc'[u] = pc[u] /\ slot'[u] = slot[u]
      BY <2>4 DEF Spawn, Go, TypeOK
    <3>2. QED BY <2>4, <3>1 DEF Spawn, HomeSlotEmpty, Legacy
  <2>5. ASSUME NEW t \in Threads, ComeHome(t) PROVE HomeSlotEmpty'
    <3>1. /\ Router => slot'[t] = None
          /\ \A u \in Threads :
               u # t => pc'[u] = pc[u] /\ slot'[u] = slot[u] /\ active'[u] = active[u]
      BY <2>5 DEF ComeHome, Go, TypeOK
    <3>2. QED BY <2>5, <3>1 DEF ComeHome, HomeSlotEmpty
  <2>6. ASSUME NEW t \in Threads,
               HeadExits(t) \/ Unhook(t) \/ Hook(t) \/ ExitFlag(t) \/ ChannelClosed(t)
        PROVE  HomeSlotEmpty'
    BY <2>6, <2>2 DEF HeadExits, Unhook, Hook, ExitFlag, ChannelClosed, AtHome, OnScreen, At
  <2>7. ASSUME NEW t \in Threads, Clean(t) PROVE HomeSlotEmpty'
    <3>1. /\ pc'[t] = "gone"
          /\ \A u \in Threads : u # t => pc'[u] = pc[u] /\ active'[u] = active[u]
      BY <2>7 DEF Clean, Go, TypeOK
    <3>2. QED BY <2>7, <3>1 DEF Clean, HomeSlotEmpty
  <2>8. ASSUME NEW t \in Threads, Still(t) \/ Move(t) PROVE HomeSlotEmpty'
    BY <2>8, <2>1 DEF Still, Move
  <2>9. ASSUME NEW t \in Threads, NEW s \in Screens, Cross(t, s) \/ Switch(t, s)
        PROVE  HomeSlotEmpty'
    <3>1. /\ active'[t] = s
          /\ \A u \in Threads :
               u # t => pc'[u] = pc[u] /\ slot'[u] = slot[u] /\ active'[u] = active[u]
      BY <2>9 DEF Cross, Switch, Go, TypeOK
    <3>2. QED BY <2>9, <3>1 DEF Cross, Switch, HomeSlotEmpty
  <2>10. ASSUME NEW h \in Hooks, Forwarding(h) PROVE HomeSlotEmpty'
    BY <2>10, <2>1
    DEF Forwarding, Press, Release, StaleStop, HookFailsafe, SeesStop, HookReturns,
       threads
  <2>11. CASE Session
    BY <2>11, <2>1 DEF Session, Publish, ClearTx, ConnectScreen, DisconnectScreen, Unslot,
                       LinkDrops, ChannelCloses, End, threads
  <2>12. CASE Command
    BY <2>12, <2>1 DEF Command, StopRouter, Reconfigure, Pause, EmergencyReset,
                       ReturnReported, threads
  <2>13. CASE UNCHANGED vars
    BY <2>13, <2>1 DEF vars
  <2>14. QED
    BY <2>3, <2>4, <2>5, <2>6, <2>7, <2>8, <2>9, <2>10, <2>11, <2>12, <2>13
    DEF Next, Starting, Loop, Led, RemovedByReconfigure, LinkLost, ReturnHome
<1>3. QED BY <1>1, <1>2, TypeCorrect, PTL DEF Spec

\* What the trackers know: a hook that will release key k on channel c.
Releases(h, c, k) ==
  fwd[h] \in Working /\ k \in pressed[h] /\ Target(owner[h]) = c

\* A step in which every hook keeps what it will release, or the key is stranded.
LEMMA TrackersKeepKeys ==
  ASSUME OnlySlotChangesStrandKeys, live' \subseteq live, keysDown' = keysDown,
         stranded \subseteq stranded',
         \A h \in Hooks : \A c \in live : \A k \in keysDown[c] :
           Releases(h, c, k) => Releases(h, c, k)' \/ <<c, k>> \in stranded'
  PROVE  OnlySlotChangesStrandKeys'
<1> SUFFICES ASSUME NEW c \in live', NEW k \in keysDown'[c], <<c, k>> \notin stranded'
             PROVE  \E h \in Hooks : Releases(h, c, k)'
  BY DEF OnlySlotChangesStrandKeys, Releases
<1>1. c \in live /\ k \in keysDown[c] /\ <<c, k>> \notin stranded
  OBVIOUS
<1>2. PICK h \in Hooks : Releases(h, c, k)
  BY <1>1 DEF OnlySlotChangesStrandKeys, Releases
<1>3. Releases(h, c, k)'
  BY <1>1, <1>2
<1>4. QED BY <1>3

\* A step that leaves trackers and peers alone, and every target, but for one
\* whose keys it strands.
LEMMA TargetsKeepKeys ==
  ASSUME OnlySlotChangesStrandKeys, None \notin live, live' \subseteq live, stranded \subseteq stranded',
         UNCHANGED <<keysDown, pressed>>,
         \A h \in Hooks : fwd[h] \in Working =>
           pressed[h] = {} \/ (fwd'[h] \in Working /\ owner'[h] = owner[h]),
         \A h \in Hooks : fwd[h] \in Working /\ Target(owner[h]) \in live =>
           \/ Target(owner[h])' = Target(owner[h])
           \/ LeftDown(Target(owner[h])) \subseteq stranded'
  PROVE  OnlySlotChangesStrandKeys'
<1>1. ASSUME NEW h \in Hooks, NEW c \in live, NEW k \in keysDown[c], Releases(h, c, k)
      PROVE  Releases(h, c, k)' \/ <<c, k>> \in stranded'
  <2>1. /\ fwd[h] \in Working
        /\ k \in pressed[h]
        /\ Target(owner[h]) = c
    BY <1>1 DEF Releases
  <2>2. fwd'[h] \in Working /\ k \in pressed'[h]
    BY <2>1
  <2>3. CASE Target(owner[h])' = Target(owner[h])
    BY <2>1, <2>2, <2>3 DEF Releases
  <2>4. CASE LeftDown(c) \subseteq stranded'
    <3>1. c # None
      OBVIOUS
    <3>2. <<c, k>> \in LeftDown(c)
      BY <3>1 DEF LeftDown
    <3>3. QED BY <3>2, <2>4
  <2>5. QED BY <2>1, <2>3, <2>4
<1>2. QED BY <1>1, TrackersKeepKeys

\* The same for a step after which hooks go on, are stopped or return with nothing
\* pressed, and no slot has changed.
LEMMA SlotsKeepKeys ==
  ASSUME OnlySlotChangesStrandKeys, UNCHANGED <<engine, slot, tx, live, keysDown, stranded, pressed>>,
         \A h \in Hooks : fwd[h] \in Working =>
           pressed[h] = {} \/ (fwd'[h] \in Working /\ owner'[h] = owner[h])
  PROVE  OnlySlotChangesStrandKeys'
<1>1. ASSUME NEW h \in Hooks, NEW c \in live, NEW k \in keysDown[c], Releases(h, c, k)
      PROVE  Releases(h, c, k)' \/ <<c, k>> \in stranded'
  BY <1>1 DEF Releases, Target, Seamless
<1>2. QED BY <1>1, TrackersKeepKeys

LEMMA StoppingKeepsTrackers ==
  ASSUME TypeOK, StopHooks
  PROVE  /\ pressed' = pressed
         /\ \A h \in Hooks : fwd[h] \in Working =>
              fwd'[h] \in Working /\ owner'[h] = owner[h]
BY DEF StopHooks, TypeOK

LEMMA NoneIsNotLive == TypeOK => None \notin live
<1>1. TypeOK => live \subseteq 1 .. MaxChannels
  BY DEF TypeOK
<1>2. 1 .. MaxChannels \subseteq Nat
  OBVIOUS
<1>3. QED BY <1>1, <1>2

\* A thread that goes home strands what its slot's channel has down.
LEMMA ComingHomeKeepsKeys ==
  ASSUME TypeOK, OnlySlotChangesStrandKeys, NEW t \in Threads, ComeHome(t)
  PROVE  OnlySlotChangesStrandKeys'
<1>1. UNCHANGED <<engine, tx, live, fwd, owner, keysDown, pressed>>
  BY DEF ComeHome, sessions, hooks
<1>2. stranded \subseteq stranded'
  BY DEF ComeHome
<1>3. ASSUME NEW h \in Hooks
      PROVE  \/ Target(owner[h])' = Target(owner[h])
             \/ LeftDown(Target(owner[h])) \subseteq stranded'
  <2>1. CASE Router /\ owner[h] = t
    <3>1. Target(owner[h]) = slot[t]
      BY <2>1 DEF Target, Router, Seamless
    <3>2. QED BY <2>1, <3>1 DEF ComeHome
  <2>2. CASE ~Router \/ owner[h] # t
    <3>1. slot'[owner[h]] = slot[owner[h]]
      BY <2>2 DEF ComeHome, TypeOK
    <3>2. QED BY <1>1, <3>1 DEF Target, Seamless
  <2>3. QED BY <2>1, <2>2
<1>4. QED BY <1>1, <1>2, <1>3, NoneIsNotLive, TargetsKeepKeys

LEMMA SendingKeepsKeys ==
  ASSUME TypeOK, OnlySlotChangesStrandKeys, NEW h \in Hooks, NEW k \in Keys,
         Press(h, k) \/ Release(h, k)
  PROVE  OnlySlotChangesStrandKeys'
<1> DEFINE d == Target(owner[h])
<1>1. UNCHANGED <<engine, slot, tx, live, owner>>
  BY DEF Press, Release, threads, sessions
<1>2. \A g \in Hooks : Target(owner[g])' = Target(owner[g])
  BY <1>1 DEF Target, Seamless
<1>3. \A g \in Hooks : fwd[g] \in Working => fwd'[g] \in {"on", "stop", "drain"}
  BY DEF Press, Release, TypeOK
<1>4. \A g \in Hooks : g # h => pressed'[g] = pressed[g]
  BY DEF Press, Release, TypeOK
<1>5. fwd[h] \in Working
  BY DEF Press, Release
<1>6. ASSUME NEW c \in live, NEW j \in keysDown[c], c # d \/ j # k
      PROVE  \/ <<c, j>> \in stranded'
             \/ \E g \in Hooks : Releases(g, c, j)'
  <2>1. CASE <<c, j>> \in stranded
    BY <1>6, <2>1 DEF Press, Release, SendKey, peers
  <2>2. CASE <<c, j>> \notin stranded
    <3>1. PICK g \in Hooks : Releases(g, c, j)
      BY <2>2 DEF OnlySlotChangesStrandKeys, Releases
    <3>2. j \in pressed'[g]
      <4>1. CASE g # h
        BY <1>4, <3>1, <4>1 DEF Releases
      <4>2. CASE g = h
        <5>1. c = d /\ j # k /\ j \in pressed[h]
          BY <1>6, <3>1, <4>2 DEF Releases
        <5>2. pressed'[h] \in {pressed[h] \cup {k}, pressed[h] \ {k}}
          BY DEF Press, Release, TypeOK
        <5>3. QED BY <4>2, <5>1, <5>2
      <4>3. QED BY <4>1, <4>2
    <3>3. QED BY <1>2, <1>3, <3>1, <3>2 DEF Releases
  <2>3. QED BY <2>1, <2>2
<1>7. SUFFICES ASSUME NEW c \in live', NEW j \in keysDown'[c]
               PROVE  <<c, j>> \in stranded' \/ \E g \in Hooks : Releases(g, c, j)'
  BY DEF OnlySlotChangesStrandKeys, Releases
<1>8. c \in live /\ c \in Channels
  BY <1>1 DEF TypeOK
<1>9. CASE c # d
  <2>1. keysDown'[c] = keysDown[c]
    BY <1>8, <1>9 DEF Press, Release, SendKey, peers, TypeOK
  <2>2. QED BY <1>6, <1>8, <1>9, <2>1
<1>10. CASE c = d /\ j # k
  <2>1. j \in keysDown[c]
    BY <1>7, <1>8, <1>10 DEF Press, Release, SendKey, peers, TypeOK
  <2>2. QED BY <1>6, <1>8, <1>10, <2>1
<1>11. CASE c = d /\ j = k
  <2>1. CASE Press(h, k)
    <3>1. k \in pressed'[h]
      BY <2>1 DEF Press, TypeOK
    <3>2. Releases(h, c, j)'
      BY <1>2, <1>3, <1>5, <1>11, <3>1 DEF Releases
    <3>3. QED BY <3>2
  <2>2. CASE Release(h, k)
    <3>1. k \notin keysDown'[c]
      BY <1>8, <1>11, <2>2 DEF Release, SendKey, TypeOK
    <3>2. QED BY <1>7, <1>11, <3>1
  <2>3. QED BY <2>1, <2>2
<1>12. QED BY <1>9, <1>10, <1>11

LEMMA EngineKeepsKeys ==
  ASSUME TypeOK, OnlySlotChangesStrandKeys, HooksFollowStart,
         HomeSlotEmpty, NEW t \in Threads, Starting(t) \/ Loop(t) \/ Led(t)
  PROVE  OnlySlotChangesStrandKeys'
<1>1. CASE Claim(t) \/ StartRefused(t) \/ RawFails(t) \/ Begin(t)
  BY <1>1, SlotsKeepKeys DEF Claim, StartRefused, RawFails, Begin, sessions, hooks, peers
<1>2. CASE HeadExits(t) \/ ChannelClosed(t) \/ ExitFlag(t) \/ Still(t) \/ Move(t)
  BY <1>2, SlotsKeepKeys DEF HeadExits, ChannelClosed, ExitFlag, Still, Move,
                             sessions, hooks, peers
<1>3. CASE Unhook(t) \/ Clean(t)
  BY <1>3, StoppingKeepsTrackers, SlotsKeepKeys DEF Unhook, Clean, sessions, peers
<1>4. CASE RemovedByReconfigure(t) \/ LinkLost(t) \/ ReturnHome(t)
  BY <1>4, ComingHomeKeepsKeys DEF RemovedByReconfigure, LinkLost, ReturnHome
<1>5. CASE Hook(t)
  \* The hook that comes in was unborn and releases nothing.
  <2>1. \A h \in Hooks : fwd[h] \in Working =>
          fwd'[h] \in Working /\ owner'[h] = owner[h]
    BY <1>5 DEF Hook, StartHooks, hooks, TypeOK
  <2>2. pressed' = pressed
    BY <1>5 DEF Hook, StartHooks, hooks
  <2>3. QED BY <1>5, <2>1, <2>2, SlotsKeepKeys DEF Hook, sessions, peers
<1>6. CASE Spawn(t)
  \* Nobody's hooks send through the slot of a thread that is starting.
  <2>1. UNCHANGED <<engine, tx, live, fwd, owner, keysDown, stranded, pressed>>
    BY <1>6 DEF Spawn, sessions, hooks, peers
  <2>2. ASSUME NEW h \in Hooks, fwd[h] \in Working
        PROVE  Target(owner[h])' = Target(owner[h])
    <3>1. owner[h] \in Threads /\ owner[h] # t
      BY <1>6, <2>2 DEF HooksFollowStart, Spawn, At
    <3>2. slot'[owner[h]] = slot[owner[h]]
      BY <1>6, <3>1 DEF Spawn, TypeOK
    <3>3. QED BY <2>1, <3>2 DEF Target, Seamless
  <2>3. QED BY <2>1, <2>2, NoneIsNotLive, TargetsKeepKeys
<1>7. ASSUME NEW s \in Screens, Cross(t, s) PROVE OnlySlotChangesStrandKeys'
  \* The router's slot was empty, the others' slots stay.
  <2>1. UNCHANGED <<engine, tx, live, fwd, owner, keysDown, stranded, pressed>>
    BY <1>7 DEF Cross, sessions, hooks, peers
  <2>2. pc[t] = "head" /\ active[t] = None
    BY <1>7 DEF Cross, AtHome, At
  <2>3. ASSUME NEW h \in Hooks, fwd[h] \in Working, Target(owner[h]) \in live
        PROVE  Target(owner[h])' = Target(owner[h])
    <3>1. owner[h] \in Threads
      BY <2>3 DEF HooksFollowStart
    <3>2. CASE Router /\ owner[h] = t
      <4>1. Target(owner[h]) = slot[t]
        BY <3>2 DEF Target, Router, Seamless
      <4>2. slot[t] = None
        BY <2>2, <3>2 DEF HomeSlotEmpty
      <4>3. QED BY <2>3, <4>1, <4>2, NoneIsNotLive
    <3>3. CASE ~Router \/ owner[h] # t
      <4>1. slot'[owner[h]] = slot[owner[h]]
        BY <1>7, <3>1, <3>3 DEF Cross, TypeOK
      <4>2. QED BY <2>1, <4>1 DEF Target, Seamless
    <3>4. QED BY <3>2, <3>3
  <2>4. QED BY <2>1, <2>3, NoneIsNotLive, TargetsKeepKeys
<1>8. ASSUME NEW s \in Screens, Switch(t, s) PROVE OnlySlotChangesStrandKeys'
  <2>1. UNCHANGED <<engine, tx, live, fwd, owner, keysDown, pressed>>
    BY <1>8 DEF Switch, sessions, hooks
  <2>2. stranded \subseteq stranded'
    BY <1>8 DEF Switch
  <2>3. ASSUME NEW h \in Hooks, fwd[h] \in Working
        PROVE  \/ Target(owner[h])' = Target(owner[h])
               \/ LeftDown(Target(owner[h])) \subseteq stranded'
    <3>1. owner[h] \in Threads
      BY <2>3 DEF HooksFollowStart
    <3>2. CASE owner[h] = t
      <4>1. Target(owner[h]) = slot[t]
        BY <1>8, <3>2 DEF Switch, Target, Router, Seamless
      <4>2. QED BY <1>8, <4>1 DEF Switch
    <3>3. CASE owner[h] # t
      <4>1. slot'[owner[h]] = slot[owner[h]]
        BY <1>8, <3>1, <3>3 DEF Switch, TypeOK
      <4>2. QED BY <2>1, <4>1 DEF Target, Seamless
    <3>4. QED BY <3>2, <3>3
  <2>4. QED BY <2>1, <2>2, <2>3, NoneIsNotLive, TargetsKeepKeys
<1>9. QED
  BY <1>1, <1>2, <1>3, <1>4, <1>5, <1>6, <1>7, <1>8 DEF Starting, Loop, Led

LEMMA SessionKeepsKeys ==
  ASSUME TypeOK, OnlySlotChangesStrandKeys, KeysNeedSession, Session
  PROVE  OnlySlotChangesStrandKeys'
<1>1. ASSUME NEW s \in Screens, Publish(s) PROVE OnlySlotChangesStrandKeys'
  <2>1. PICK c \in Channels : /\ screen[c] = None
                              /\ tx' = [tx EXCEPT ![s] = c]
                              /\ live' = live \cup {c}
    BY <1>1 DEF Publish
  <2>2. tx[s] = None /\ UNCHANGED <<engine, slot, fwd, owner, keysDown, stranded, pressed>>
    BY <1>1 DEF Publish, threads, hooks, peers
  <2>3. keysDown'[c] = {}
    BY <2>1, <2>2 DEF KeysNeedSession
  <2>4. ASSUME NEW d \in live, NEW k \in keysDown[d]
        PROVE  <<d, k>> \in stranded' \/ \E h \in Hooks : Releases(h, d, k)'
    <3>1. CASE <<d, k>> \in stranded
      BY <2>2, <3>1
    <3>2. CASE <<d, k>> \notin stranded
      <4>1. PICK h \in Hooks : Releases(h, d, k)
        BY <3>2 DEF OnlySlotChangesStrandKeys, Releases
      <4>2. d # None
        BY NoneIsNotLive
      <4>3. CASE Seamless
        <5>1. tx[Peer] = d
          BY <4>1, <4>3 DEF Releases, Target
        <5>2. tx'[Peer] = d
          BY <2>1, <2>2, <4>2, <5>1 DEF TypeOK
        <5>3. QED BY <2>2, <4>1, <4>3, <5>2 DEF Releases, Target, Seamless
      <4>4. CASE ~Seamless
        BY <2>2, <4>1, <4>4 DEF Releases, Target, Seamless
      <4>5. QED BY <4>3, <4>4
    <3>3. QED BY <3>1, <3>2
  <2>5. \A d \in live' : \A k \in keysDown'[d] : d \in live /\ k \in keysDown[d]
    BY <2>1, <2>2, <2>3
  <2>6. QED BY <2>4, <2>5 DEF OnlySlotChangesStrandKeys, Releases
<1>2. ASSUME NEW s \in Screens, ClearTx(s) PROVE OnlySlotChangesStrandKeys'
  <2>1. UNCHANGED <<engine, slot, live, fwd, owner, keysDown, stranded, pressed>>
    BY <1>2 DEF ClearTx, threads, hooks, peers
  <2>2. ASSUME NEW h \in Hooks, Target(owner[h]) \in live
        PROVE  Target(owner[h])' = Target(owner[h])
    <3>1. CASE Seamless
      <4>1. s # Peer
        BY <1>2, <2>2, <3>1 DEF ClearTx, Target
      <4>2. tx'[Peer] = tx[Peer]
        BY <1>2, <4>1 DEF ClearTx, TypeOK
      <4>3. QED BY <2>1, <3>1, <4>2 DEF Target, Seamless
    <3>2. CASE ~Seamless
      BY <2>1, <3>2 DEF Target, Seamless
    <3>3. QED BY <3>1, <3>2
  <2>3. QED BY <2>1, <2>2, NoneIsNotLive, TargetsKeepKeys
<1>3. ASSUME NEW s \in Screens, NEW want \in BOOLEAN, Unslot(s, want)
      PROVE  OnlySlotChangesStrandKeys'
  <2>1. UNCHANGED <<engine, slot, live, fwd, owner, keysDown, pressed>>
    BY <1>3 DEF Unslot, threads, hooks
  <2>2. stranded \subseteq stranded'
    BY <1>3 DEF Unslot
  <2>3. ASSUME NEW h \in Hooks, Target(owner[h]) \in live
        PROVE  \/ Target(owner[h])' = Target(owner[h])
               \/ LeftDown(Target(owner[h])) \subseteq stranded'
    <3>1. CASE Seamless /\ s = Peer
      <4>1. Target(owner[h]) = tx[s]
        BY <3>1 DEF Target
      <4>2. QED BY <1>3, <2>3, <3>1, <4>1 DEF Unslot
    <3>2. CASE Seamless /\ s # Peer
      <4>1. tx'[Peer] = tx[Peer]
        BY <1>3, <3>2 DEF Unslot, TypeOK
      <4>2. QED BY <2>1, <3>2, <4>1 DEF Target, Seamless
    <3>3. CASE ~Seamless
      BY <2>1, <3>3 DEF Target, Seamless
    <3>4. QED BY <3>1, <3>2, <3>3
  <2>4. QED BY <2>1, <2>2, <2>3, NoneIsNotLive, TargetsKeepKeys
<1>4. ASSUME NEW c \in Channels, End(c) PROVE OnlySlotChangesStrandKeys'
  <2>1. UNCHANGED <<engine, slot, tx, fwd, owner, pressed>>
    BY <1>4 DEF End, threads, hooks
  <2>2. \A h \in Hooks : \A d, k : Releases(h, d, k) => Releases(h, d, k)'
    BY <2>1 DEF Releases, Target, Seamless
  <2>3. \A d \in live' : d \in live /\ keysDown'[d] = keysDown[d]
    BY <1>4 DEF End, TypeOK
  <2>4. ASSUME NEW d \in live', NEW k \in keysDown'[d]
        PROVE  <<d, k>> \in stranded' \/ \E h \in Hooks : Releases(h, d, k)'
    <3>1. CASE <<d, k>> \in stranded
      BY <1>4, <3>1 DEF End
    <3>2. CASE <<d, k>> \notin stranded
      BY <2>2, <2>3, <3>2 DEF OnlySlotChangesStrandKeys, Releases
    <3>3. QED BY <3>1, <3>2
  <2>5. QED BY <2>4 DEF OnlySlotChangesStrandKeys, Releases
<1>5. QED
  BY <1>1, <1>2, <1>3, <1>4
  DEF Session, ConnectScreen, DisconnectScreen, LinkDrops, ChannelCloses

\* A key that a live session has down is in the tracker of a forwarding thread that will
\* release it there, unless the sender left the slot with the key down.
THEOREM KeysAreTraced == Spec => []OnlySlotChangesStrandKeys
<1>1. Init => OnlySlotChangesStrandKeys
  BY DEF Init, OnlySlotChangesStrandKeys
<1>2. /\ TypeOK /\ KeysNeedSession /\ HooksFollowStart /\ HomeSlotEmpty
      /\ OnlySlotChangesStrandKeys /\ [Next]_vars
      => OnlySlotChangesStrandKeys'
  <2> SUFFICES ASSUME TypeOK, KeysNeedSession, HooksFollowStart, HomeSlotEmpty,
                      OnlySlotChangesStrandKeys, [Next]_vars
               PROVE  OnlySlotChangesStrandKeys'
    OBVIOUS
  <2>1. CASE UNCHANGED vars
    BY <2>1, SlotsKeepKeys DEF vars
  <2>2. ASSUME NEW h \in Hooks, StaleStop(h) \/ HookFailsafe(h) \/ SeesStop(h) \/ HookReturns(h)
        PROVE  OnlySlotChangesStrandKeys'
    <3>1. UNCHANGED <<engine, slot, tx, live, keysDown, stranded, pressed, owner>>
      BY <2>2 DEF StaleStop, HookFailsafe, SeesStop, HookReturns, threads, sessions, peers
    <3>2. \A g \in Hooks : fwd[g] \in Working =>
            pressed[g] = {} \/ fwd'[g] \in Working
      BY <2>2 DEF StaleStop, HookFailsafe, SeesStop, HookReturns, TypeOK
    <3>3. QED BY <3>1, <3>2, SlotsKeepKeys
  <2>3. CASE StopRouter \/ Reconfigure \/ ReturnReported
    BY <2>3, SlotsKeepKeys DEF StopRouter, Reconfigure, ReturnReported, threads,
                               sessions, hooks, peers
  <2>4. CASE Pause \/ EmergencyReset
    BY <2>4, StoppingKeepsTrackers, SlotsKeepKeys
    DEF Pause, EmergencyReset, PauseAllCapture, threads, sessions, peers
  <2>5. QED
    BY <2>1, <2>2, <2>3, <2>4, EngineKeepsKeys, SessionKeepsKeys, SendingKeepsKeys
    DEF Next, Forwarding, Command
<1>3. QED
  BY <1>1, <1>2, TypeCorrect, SessionKeys, HookOrder, HomeSlot, PTL DEF Spec
=============================================================================
