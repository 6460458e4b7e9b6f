------------------------ MODULE ImeComposition_proofs ------------------------
(***************************************************************************)
(* Proofs about ImeComposition, for any keys, starts, queued events and    *)
(* number of presses.                                                      *)
(***************************************************************************)
EXTENDS ImeComposition, TLAPS

USE GenAssumption, QueueAssumption, ActAssumption, NoneAssumption
    DEF GenAssumption, QueueAssumption, ActAssumption, NoneAssumption, Gens

-----------------------------------------------------------------------------
(* Type correctness. *)

\* The ranges hold their least elements.
LEMMA Bounds == 0 \in 0 .. MaxGen /\ 0 \in 0 .. MaxActs
OBVIOUS

LEMMA InitType == Init => TypeOK
<1> SUFFICES ASSUME Init PROVE TypeOK
  OBVIOUS
<1>1. /\ generation \in 0 .. MaxGen
      /\ acts \in 0 .. MaxActs
      /\ hook \in Gens \cup {None}
      /\ sender \in Gens \cup {None}
  BY Bounds DEF Init
<1>2. /\ hook_running \in BOOLEAN
      /\ passthrough \in BOOLEAN
      /\ composing \in BOOLEAN
      /\ resolve \in BOOLEAN
      /\ meddled \in BOOLEAN
  BY DEF Init
<1>3. /\ pc \in [Gens -> Places]
      /\ ime_mode \in [Gens -> Modes]
      /\ window \in [Gens -> {"none", "starting", "open"}]
      /\ toggle_held \in [Gens -> BOOLEAN]
  BY DEF Init, Places, Modes
<1>4. events \in [Gens -> Seq(Events)]
  BY DEF Init
<1>5. /\ modifiers \in [Gens -> SUBSET Commands]
      /\ pressed \in [Gens -> SUBSET Keys]
      /\ phys \in SUBSET Keys
      /\ peer \in SUBSET Keys
      /\ swallowed \in SUBSET Keys
      /\ dropped \in SUBSET Keys
  BY DEF Init
<1>6. QED BY <1>1, <1>2, <1>3, <1>4, <1>5 DEF TypeOK

\* What a thread is about to take from its channel.
LEMMA EventType ==
  ASSUME TypeOK, NEW t \in Gens, events[t] # <<>>
  PROVE  /\ Key(t) \in Keys
         /\ Down(t) \in BOOLEAN
         /\ Tail(events[t]) \in Seq(Events)
<1>1. events[t] \in Seq(Events)
  BY DEF TypeOK
<1>2. Head(events[t]) \in Events /\ Tail(events[t]) \in Seq(Events)
  BY <1>1
<1>3. QED BY <1>2 DEF Key, Down, Events

LEMMA TakeType ==
  ASSUME TypeOK, NEW t \in Gens, Take(t)
  PROVE  /\ pc[t] = "recv"
         /\ Key(t) \in Keys
         /\ Down(t) \in BOOLEAN
         /\ events' \in [Gens -> Seq(Events)]
         /\ modifiers' \in [Gens -> SUBSET Commands]
<1>1. events[t] # <<>> /\ pc[t] = "recv"
  BY DEF Take, At
<1>2. Key(t) \in Keys /\ Down(t) \in BOOLEAN /\ Tail(events[t]) \in Seq(Events)
  BY <1>1, EventType
<1>3. events' \in [Gens -> Seq(Events)]
  BY <1>2 DEF Take, TypeOK
<1>4. modifiers' \in [Gens -> SUBSET Commands]
  <2>1. modifiers[t] \in SUBSET Commands
    BY DEF TypeOK
  <2>2. HeldNow(t) \in SUBSET Commands
    BY <1>2, <2>1 DEF HeldNow
  <2>3. QED BY <2>2 DEF Take, TypeOK
<1>5. QED BY <1>1, <1>2, <1>3, <1>4

\* Releasing what a thread holds.
LEMMA ReleaseType ==
  ASSUME TypeOK, NEW t \in Gens, release_pressed_keys(t)
  PROVE  /\ pressed' \in [Gens -> SUBSET Keys]
         /\ peer' \in SUBSET Keys
         /\ swallowed' \in SUBSET Keys
         /\ dropped' \in SUBSET Keys
BY DEF TypeOK, release_pressed_keys

LEMMA ForwardType ==
  ASSUME TypeOK, NEW t \in Gens, Forward(t)
  PROVE  TypeOK'
<1>1. Take(t)
  BY DEF Forward
<1>2. /\ Key(t) \in Keys
      /\ Down(t) \in BOOLEAN
      /\ events' \in [Gens -> Seq(Events)]
      /\ modifiers' \in [Gens -> SUBSET Commands]
  BY <1>1, TakeType
<1>3. pressed' \in [Gens -> SUBSET Keys]
  BY <1>2 DEF Forward, track_key_press, TypeOK
<1>4. peer' \in SUBSET Keys /\ swallowed' \in SUBSET Keys /\ dropped' \in SUBSET Keys
 /\ dropped' \in SUBSET Keys
  BY <1>2 DEF Forward, TypeOK
<1>5. pc' \in [Gens -> Places]
  BY DEF Forward, Go, Places, TypeOK
<1>6. QED
  BY <1>2, <1>3, <1>4, <1>5 DEF Forward, TypeOK, shared, flag, capture, user

LEMMA NotForwardedType ==
  ASSUME TypeOK, NEW t \in Gens, NotForwarded(t) \/ ToggleHeld(t)
  PROVE  TypeOK'
<1>1. Take(t)
  BY DEF NotForwarded, ToggleHeld
<1>2. /\ Key(t) \in Keys
      /\ Down(t) \in BOOLEAN
      /\ events' \in [Gens -> Seq(Events)]
      /\ modifiers' \in [Gens -> SUBSET Commands]
  BY <1>1, TakeType
<1>3. swallowed' \in SUBSET Keys /\ dropped' \in SUBSET Keys
  BY <1>2 DEF NotForwarded, ToggleHeld, TypeOK
<1>4. pc' \in [Gens -> Places]
  BY DEF NotForwarded, ToggleHeld, Go, Places, TypeOK
<1>5. toggle_held' \in [Gens -> BOOLEAN]
  BY <1>2 DEF NotForwarded, ToggleHeld, TypeOK
<1>6. QED
  BY <1>2, <1>3, <1>4, <1>5
  DEF NotForwarded, ToggleHeld, TypeOK, shared, flag, capture, user

LEMMA ToggleType ==
  ASSUME TypeOK, NEW t \in Gens, ToggleOn(t) \/ ToggleOff(t)
  PROVE  TypeOK'
<1>1. Take(t)
  BY DEF ToggleOn, ToggleOff
<1>2. /\ events' \in [Gens -> Seq(Events)]
      /\ modifiers' \in [Gens -> SUBSET Commands]
  BY <1>1, TakeType
<1>3. toggle_held' \in [Gens -> BOOLEAN] /\ pc' \in [Gens -> Places]
  BY DEF ToggleOn, ToggleOff, start_ime_capture, Go, Places, TypeOK
<1>4. /\ sender' \in Gens \cup {None}
      /\ composing' \in BOOLEAN
      /\ window' \in [Gens -> {"none", "starting", "open"}]
      /\ ime_mode' \in [Gens -> Modes]
  BY DEF ToggleOn, ToggleOff, start_ime_capture, capture, Modes, TypeOK
<1>5. QED
  BY <1>2, <1>3, <1>4 DEF ToggleOn, ToggleOff, TypeOK, shared, flag, remote, user

LEMMA LoopHeadType ==
  ASSUME TypeOK, NEW t \in Gens, LoopHead(t)
  PROVE  TypeOK'
<1>1. ime_mode' \in [Gens -> Modes]
  BY DEF LoopHead, observe_composition, Modes, TypeOK
<1>2. /\ pressed' \in [Gens -> SUBSET Keys]
      /\ peer' \in SUBSET Keys
      /\ swallowed' \in SUBSET Keys
      /\ dropped' \in SUBSET Keys
  BY ReleaseType DEF LoopHead, remote, TypeOK
<1>3. pc' \in [Gens -> Places]
  BY DEF LoopHead, Go, Places, TypeOK
<1>4. QED
  BY <1>1, <1>2, <1>3 DEF LoopHead, TypeOK, shared, flag, capture, keys, user

LEMMA LoopType ==
  ASSUME TypeOK, NEW t \in Gens, Loop(t)
  PROVE  TypeOK'
<1> USE DEF TypeOK, Go, Places, Modes, shared, flag, capture, keys, remote, user
<1>1. CASE Begin(t)
  BY <1>1 DEF Begin
<1>2. CASE NoEvent(t)
  BY <1>2 DEF NoEvent
<1>3. CASE Entered(t)
  <2>1. /\ pressed' \in [Gens -> SUBSET Keys]
        /\ peer' \in SUBSET Keys
        /\ swallowed' \in SUBSET Keys
        /\ dropped' \in SUBSET Keys
    BY <1>3, ReleaseType DEF Entered
  <2>2. QED BY <1>3, <2>1 DEF Entered, set_passthrough
<1>4. CASE EntryFails(t)
  BY <1>4 DEF EntryFails
<1>5. CASE EntryTimesOut(t)
  BY <1>5 DEF EntryTimesOut
<1>6. CASE Abandoned(t)
  BY <1>6 DEF Abandoned
<1>7. CASE Closed(t)
  BY <1>7 DEF Closed, set_passthrough
<1>8. QED
  BY <1>1, <1>2, <1>3, <1>4, <1>5, <1>6, <1>7, LoopHeadType, ForwardType,
     NotForwardedType, ToggleType
  DEF Loop

LEMMA EndType ==
  ASSUME TypeOK, NEW t \in Gens, End(t)
  PROVE  TypeOK'
<1> USE DEF TypeOK, Go, Places, shared, flag, capture, keys, remote, user
<1>1. CASE Leave(t)
  BY <1>1 DEF Leave
<1>2. CASE Dropped(t)
  <2>1. pc' \in [Gens -> Places]
    BY <1>2 DEF Dropped
  <2>2. QED BY <1>2, <2>1 DEF Dropped, Modes
<1>3. CASE Unpass(t)
  BY <1>3 DEF Unpass, set_passthrough
<1>4. CASE Clear(t)
  BY <1>4 DEF Clear
<1>5. CASE Drain(t)
  <2>1. /\ pressed' \in [Gens -> SUBSET Keys]
        /\ peer' \in SUBSET Keys
        /\ swallowed' \in SUBSET Keys
        /\ dropped' \in SUBSET Keys
    BY <1>5, ReleaseType DEF Drain
  <2>2. events' \in [Gens -> Seq(Events)]
    BY <1>5 DEF Drain
  <2>3. QED BY <1>5, <2>1, <2>2 DEF Drain
<1>6. QED BY <1>1, <1>2, <1>3, <1>4, <1>5 DEF End

LEMMA WindowType ==
  ASSUME TypeOK, NEW t \in Gens, Window(t) \/ CompositionStarts(t) \/ CompositionEnds(t)
  PROVE  TypeOK'
<1> USE DEF TypeOK, shared, flag, keys, remote, user
<1>1. CASE WindowOpens(t)
  BY <1>1 DEF WindowOpens
<1>2. CASE WindowFails(t)
  BY <1>2 DEF WindowFails
<1>3. CASE WindowCloses(t)
  BY <1>3 DEF WindowCloses
<1>4. CASE CompositionStarts(t) \/ CompositionEnds(t)
  BY <1>4 DEF CompositionStarts, CompositionEnds
<1>5. QED BY <1>1, <1>2, <1>3, <1>4 DEF Window

\* What the hook's callback puts into the channel.
LEMMA ObserveType ==
  ASSUME TypeOK, NEW k \in Keys, NEW down \in BOOLEAN, Observe(k, down)
  PROVE  events' \in [Gens -> Seq(Events)]
<1>1. CASE hook = None
  BY <1>1 DEF Observe, TypeOK
<1>2. CASE hook # None
  <2>1. hook \in Gens /\ events[hook] \in Seq(Events)
    BY <1>2 DEF TypeOK
  <2>2. [key |-> k, down |-> down] \in Events
    BY DEF Events
  <2>3. Append(events[hook], [key |-> k, down |-> down]) \in Seq(Events)
    BY <2>1, <2>2
  <2>4. QED BY <1>2, <2>3 DEF Observe, TypeOK
<1>3. QED BY <1>1, <1>2

LEMMA UserType ==
  ASSUME TypeOK, User
  PROVE  TypeOK'
<1> USE DEF TypeOK, shared, flag, capture, keys, remote
<1>1. ASSUME NEW k \in Keys, KeyDown(k) PROVE TypeOK'
  <2>1. events' \in [Gens -> Seq(Events)]
    BY <1>1, ObserveType DEF KeyDown
  <2>2. QED BY <1>1, <2>1 DEF KeyDown, Act
<1>2. ASSUME NEW k \in Keys, KeyUp(k) PROVE TypeOK'
  <2>1. events' \in [Gens -> Seq(Events)]
    BY <1>2, ObserveType DEF KeyUp
  <2>2. QED BY <1>2, <2>1 DEF KeyUp
<1>3. CASE SetResolveCharacters
  BY <1>3 DEF SetResolveCharacters, Act
<1>4. QED BY <1>1, <1>2, <1>3, WindowType DEF User

\* Every variable keeps its type, for any keys and any number of starts (start and
\* stop, the loop, the window's thread and the hook's callback).
THEOREM TypeCorrect == Spec => []TypeOK
<1>1. TypeOK /\ [Next]_vars => TypeOK'
  <2> SUFFICES ASSUME TypeOK, [Next]_vars PROVE TypeOK'
    OBVIOUS
  <2>1. ASSUME NEW t \in Gens, StartForwarding(t) PROVE TypeOK'
    BY <2>1 DEF TypeOK, StartForwarding, Go, Places, flag, capture, keys, remote, user
  <2>2. CASE StopForwarding
    BY <2>2 DEF TypeOK, StopForwarding, flag, capture, keys, remote, user
  <2>3. CASE UNCHANGED vars
    BY <2>3 DEF TypeOK, vars
  <2>4. QED
    BY <2>1, <2>2, <2>3, LoopType, EndType, WindowType, UserType DEF Next
<1>2. QED BY InitType, <1>1, PTL DEF Spec

-----------------------------------------------------------------------------
(* The capture window and its slot. *)

\* What makes both window properties inductive: before the loop and at its end
\* there is no window, inside it the mode tells, and on the way in the mode is
\* still off.  A claimed slot has a window behind it, starting or open.
WindowFits(t) ==
  /\ pc[t] \in {"unborn", "begin"} => ime_mode[t] = "Off"
  /\ pc[t] \in {"unborn", "begin", "unpassing", "clearing", "draining", "done"}
       => window[t] = "none"
  /\ pc[t] \in {"head", "recv"}
       => window[t] = IF is_on(ime_mode[t]) THEN "open" ELSE "none"
  /\ pc[t] \in {"opening", "abandoning"} => ~is_on(ime_mode[t])

WindowsFit ==
  \A t \in Gens : WindowFits(t) /\ (sender = t => window[t] # "none")

\* It is enough to look at the thread that moves: the others keep their window, and
\* nobody but that thread gets the slot.
LEMMA OneMoves ==
  ASSUME TypeOK, WindowsFit, NEW t \in Gens,
         \A u \in Gens : u # t => /\ pc'[u] = pc[u]
                                 /\ ime_mode'[u] = ime_mode[u]
                                 /\ window'[u] = window[u],
         sender' \in {sender, t, None},
         WindowFits(t)', sender' = t => window'[t] # "none"
  PROVE  WindowsFit'
BY DEF WindowsFit, WindowFits, is_on

LEMMA LoopFits ==
  ASSUME TypeOK, WindowsFit, NEW t \in Gens, Loop(t)
  PROVE  WindowsFit'
<1> USE DEF TypeOK, At, Go, capture, shared, flag, keys, remote, user
<1>0. /\ WindowFits(t)
      /\ sender = t => window[t] # "none"
      /\ pc[t] \in Places /\ ime_mode[t] \in Modes
      /\ window[t] \in {"none", "starting", "open"}
  BY DEF WindowsFit
<1>1. CASE Begin(t) \/ NoEvent(t)
  <2>1. WindowFits(t)'
    BY <1>0, <1>1 DEF Begin, NoEvent, WindowFits, is_on
  <2>2. /\ \A u \in Gens : u # t => pc'[u] = pc[u]
        /\ UNCHANGED <<ime_mode, window, sender>>
    BY <1>1 DEF Begin, NoEvent
  <2>3. QED BY <1>0, <2>1, <2>2, OneMoves
<1>2. CASE LoopHead(t)
  <2>1. WindowFits(t)'
    BY <1>0, <1>2 DEF LoopHead, observe_composition, WindowFits, is_on
  <2>2. QED BY <1>0, <1>2, <2>1, OneMoves DEF LoopHead
<1>3. CASE Forward(t) \/ NotForwarded(t) \/ ToggleHeld(t)
  <2>1. WindowFits(t)'
    BY <1>0, <1>3 DEF Forward, NotForwarded, ToggleHeld, Take, WindowFits, is_on
  <2>2. QED BY <1>0, <1>3, <2>1, OneMoves DEF Forward, NotForwarded, ToggleHeld
<1>4. CASE ToggleOn(t)
  <2>1. pc[t] = "recv" /\ ~is_on(ime_mode[t]) /\ start_ime_capture(t)
    BY <1>4 DEF ToggleOn, Take, on_toggle, is_on
  <2>2. WindowFits(t)' /\ (sender' = t => window'[t] # "none")
    BY <1>0, <2>1 DEF start_ime_capture, WindowFits, is_on
  <2>3. QED BY <1>0, <2>1, <2>2, OneMoves DEF start_ime_capture
<1>5. CASE ToggleOff(t)
  <2>1. WindowFits(t)'
    BY <1>0, <1>5 DEF ToggleOff, WindowFits, is_on
  <2>2. QED BY <1>0, <1>5, <2>1, OneMoves DEF ToggleOff
<1>6. CASE Entered(t)
  <2>1. WindowFits(t)'
    BY <1>0, <1>6 DEF Entered, WindowFits, is_on
  <2>2. QED BY <1>0, <1>6, <2>1, OneMoves DEF Entered
<1>7. CASE EntryFails(t) \/ EntryTimesOut(t)
  <2>1. WindowFits(t)'
    BY <1>0, <1>7 DEF EntryFails, EntryTimesOut, WindowFits, is_on
  <2>2. QED BY <1>0, <1>7, <2>1, OneMoves DEF EntryFails, EntryTimesOut
<1>8. CASE Abandoned(t) \/ Closed(t)
  <2>1. WindowFits(t)'
    BY <1>0, <1>8 DEF Abandoned, Closed, WindowFits, is_on
  <2>2. /\ \A u \in Gens : u # t => pc'[u] = pc[u] /\ ime_mode'[u] = ime_mode[u]
        /\ window' = window
        /\ sender' \in {sender, None}
    BY <1>8 DEF Abandoned, Closed
  <2>3. sender' = t => window'[t] # "none"
    BY <1>0, <2>2
  <2>4. sender' \in {sender, t, None}
    BY <2>2
  <2>5. QED BY <2>1, <2>2, <2>3, <2>4, OneMoves
<1>9. QED
  BY <1>1, <1>2, <1>3, <1>4, <1>5, <1>6, <1>7, <1>8 DEF Loop

LEMMA EndFits ==
  ASSUME TypeOK, WindowsFit, NEW t \in Gens, End(t)
  PROVE  WindowsFit'
<1> USE DEF TypeOK, At, Go, capture, shared, flag, keys, remote, user
<1>1. /\ WindowFits(t)
      /\ sender = t => window[t] # "none"
      /\ pc[t] \in Places /\ ime_mode[t] \in Modes
  BY DEF WindowsFit
<1>2. WindowFits(t)'
  BY <1>1 DEF End, Leave, Dropped, Unpass, Clear, Drain, WindowFits, is_on
<1>3. /\ \A u \in Gens : u # t => pc'[u] = pc[u] /\ ime_mode'[u] = ime_mode[u]
      /\ UNCHANGED <<window, sender>>
  BY DEF End, Leave, Dropped, Unpass, Clear, Drain
<1>4. QED BY <1>1, <1>2, <1>3, OneMoves

LEMMA WindowStepFits ==
  ASSUME TypeOK, WindowsFit, NEW t \in Gens, Window(t)
  PROVE  WindowsFit'
<1> USE DEF TypeOK, At
<1>1. /\ WindowFits(t)
      /\ sender = t => window[t] # "none"
      /\ pc[t] \in Places
  BY DEF WindowsFit
<1>2. WindowFits(t)' /\ (sender' = t => window'[t] # "none")
  <2>1. pc' = pc /\ ime_mode' = ime_mode
    BY DEF Window, WindowOpens, WindowFails, WindowCloses
  <2>2. CASE window[t] = "starting"
    <3>1. pc[t] \in {"opening", "abandoning", "closing", "dropping"}
      BY <1>1, <2>2 DEF WindowFits, Places
    <3>2. QED
      BY <1>1, <2>1, <2>2, <3>1
      DEF Window, WindowOpens, WindowFails, WindowCloses, WindowFits, is_on
  <2>3. CASE window[t] = "open"
    <3>1. WindowCloses(t)
      BY <2>3 DEF Window, WindowOpens, WindowFails
    <3>2. QED
      BY <1>1, <2>1, <2>3, <3>1 DEF WindowCloses, Stopping, WindowFits, is_on
  <2>4. QED
    BY <2>2, <2>3 DEF Window, WindowOpens, WindowFails, WindowCloses
<1>3. /\ \A u \in Gens : u # t => window'[u] = window[u]
      /\ UNCHANGED <<pc, ime_mode>>
      /\ sender' \in {sender, t, None}
  BY DEF Window, WindowOpens, WindowFails, WindowCloses
<1>4. QED BY <1>2, <1>3, OneMoves

LEMMA StepFits ==
  ASSUME TypeOK, WindowsFit, [Next]_vars
  PROVE  WindowsFit'
<1>1. CASE UNCHANGED <<pc, ime_mode, window, sender>>
  BY <1>1 DEF WindowsFit, WindowFits, is_on
<1>2. ASSUME NEW t \in Gens, StartForwarding(t) PROVE WindowsFit'
  <2>1. WindowFits(t)'
    BY <1>2 DEF TypeOK, StartForwarding, At, Go, capture, WindowsFit, WindowFits
  <2>2. QED
    BY <1>2, <2>1, OneMoves DEF TypeOK, StartForwarding, Go, capture, WindowsFit
<1>3. CASE StopForwarding \/ User \/ UNCHANGED vars
  BY <1>1, <1>3
  DEF StopForwarding, User, KeyDown, KeyUp, SetResolveCharacters, CompositionStarts,
      CompositionEnds, capture, vars
<1>4. QED
  BY <1>2, <1>3, LoopFits, EndFits, WindowStepFits DEF Next

LEMMA InitFits == Init => WindowsFit
BY DEF Init, WindowsFit, WindowFits

LEMMA AlwaysFits == Spec => [](TypeOK /\ WindowsFit)
BY InitFits, StepFits, TypeCorrect, PTL DEF Spec

\* Between two steps of the loop the mode says whether the thread has a window,
\* whatever timed out, failed or was refused on the way in (forwarding.rs 390-391).
THEOREM WindowFollowsMode == Spec => []WindowIffOn
<1>1. WindowsFit => WindowIffOn
  BY DEF WindowsFit, WindowFits, WindowIffOn
<1>2. QED BY <1>1, AlwaysFits, PTL

\* No end of a thread leaves its window or the sender slot behind
\* (ime_capture.rs 215-224, 334-385).
THEOREM CaptureIsOwned == Spec => []CaptureHasOwner
<1>1. TypeOK /\ WindowsFit => CaptureHasOwner
  BY DEF TypeOK, Places, WindowsFit, WindowFits, CaptureHasOwner
<1>2. QED BY <1>1, AlwaysFits, PTL

-----------------------------------------------------------------------------
(* The pass-through flag. *)

\* The flag agrees with the current generation's mode already while the window is
\* being made, and not only while the hook is in.
FlagFits ==
  \A t \in Gens :
    generation = t /\ pc[t] \in {"head", "recv", "opening", "abandoning"}
      => (passthrough <=> is_on(ime_mode[t])) \/ meddled

LEMMA LoopKeepsFlag ==
  ASSUME TypeOK, WindowsFit, FlagFits, NEW t \in Gens, Loop(t)
  PROVE  FlagFits'
<1> USE DEF TypeOK, At, Go, FlagFits, is_on
<1>0. WindowFits(t) /\ pc[t] \in Places /\ ime_mode[t] \in Modes
  BY DEF WindowsFit
<1>1. CASE Begin(t)
  <2>1. ime_mode[t] = "Off" /\ ime_mode' = ime_mode
    BY <1>0, <1>1 DEF Begin, WindowFits
  <2>2. passthrough' = FALSE /\ meddled' = (generation # t) /\ generation' = generation
    BY <1>1 DEF Begin, shared
  <2>3. QED BY <2>1, <2>2
<1>2. CASE LoopHead(t)
  <2>1. \A u \in Gens : is_on(ime_mode'[u]) <=> is_on(ime_mode[u])
    BY <1>2 DEF LoopHead, observe_composition
  <2>2. UNCHANGED <<generation, passthrough, meddled>> /\ pc[t] = "head"
    BY <1>2 DEF LoopHead, shared, flag
  <2>3. \A u \in Gens : u # t => pc'[u] = pc[u]
    BY <1>2 DEF LoopHead
  <2>4. QED BY <2>1, <2>2, <2>3
<1>3. ASSUME UNCHANGED <<generation, passthrough, meddled>>,
             \A u \in Gens : u # t => pc'[u] = pc[u] /\ ime_mode'[u] = ime_mode[u],
             is_on(ime_mode'[t]) <=> is_on(ime_mode[t]),
             pc[t] \in {"head", "recv", "opening", "abandoning"}
      PROVE  FlagFits'
  BY <1>3
<1>4. CASE NoEvent(t) \/ Forward(t) \/ NotForwarded(t) \/ ToggleHeld(t) \/ ToggleOff(t)
  BY <1>3, <1>4 DEF NoEvent, Forward, NotForwarded, ToggleHeld, ToggleOff, Take, shared, flag
<1>5. CASE ToggleOn(t)
  <2>1. ~is_on(ime_mode[t]) /\ ~is_on(ime_mode'[t])
    BY <1>5 DEF ToggleOn, on_toggle, start_ime_capture
  <2>2. QED BY <1>3, <1>5, <2>1 DEF ToggleOn, start_ime_capture, Take, shared, flag
<1>6. CASE EntryFails(t) \/ EntryTimesOut(t) \/ Abandoned(t)
  <2>1. ~is_on(ime_mode[t]) /\ ~is_on(ime_mode'[t])
    BY <1>0, <1>6 DEF EntryFails, EntryTimesOut, Abandoned, WindowFits
  <2>2. QED BY <1>3, <1>6, <2>1 DEF EntryFails, EntryTimesOut, Abandoned, shared, flag
<1>7. CASE Entered(t)
  <2>1. passthrough' = TRUE /\ meddled' = (meddled \/ generation # t)
    BY <1>7 DEF Entered, set_passthrough
  <2>2. ime_mode'[t] = "Armed" /\ generation' = generation
    BY <1>7 DEF Entered, shared
  <2>3. QED BY <2>1, <2>2
<1>8. CASE Closed(t)
  <2>1. passthrough' = FALSE /\ meddled' = (meddled \/ generation # t)
    BY <1>8 DEF Closed, set_passthrough
  <2>2. ime_mode'[t] = "Off" /\ generation' = generation
    BY <1>8 DEF Closed, shared
  <2>3. QED BY <2>1, <2>2
<1>9. QED
  BY <1>1, <1>2, <1>4, <1>5, <1>6, <1>7, <1>8 DEF Loop

LEMMA StepKeepsFlag ==
  ASSUME TypeOK, WindowsFit, FlagFits, [Next]_vars
  PROVE  FlagFits'
<1> USE DEF TypeOK, At, Go, FlagFits
<1>1. CASE UNCHANGED <<generation, passthrough, meddled, pc, ime_mode>>
  BY <1>1 DEF is_on
<1>2. ASSUME NEW t \in Gens, StartForwarding(t) PROVE FlagFits'
  BY <1>2 DEF StartForwarding
<1>3. ASSUME NEW t \in Gens, End(t) PROVE FlagFits'
  <2>1. \A u \in Gens : u # t => pc'[u] = pc[u] /\ ime_mode'[u] = ime_mode[u]
    BY <1>3 DEF End, Leave, Dropped, Unpass, Clear, Drain
  <2>2. pc'[t] \notin {"head", "recv", "opening", "abandoning"}
    BY <1>3 DEF End, Leave, Dropped, Unpass, Clear, Drain
  <2>3. generation' = generation
    BY <1>3 DEF End, Leave, Dropped, Unpass, Clear, Drain, shared
  <2>4. UNCHANGED <<passthrough, meddled>> \/ generation = t \/ meddled'
    BY <1>3 DEF End, Leave, Dropped, Unpass, Clear, Drain, set_passthrough, flag
  <2>5. QED BY <2>1, <2>2, <2>3, <2>4 DEF is_on
<1>4. ASSUME NEW t \in Gens, Window(t) PROVE FlagFits'
  BY <1>1, <1>4 DEF Window, WindowOpens, WindowFails, WindowCloses, shared, flag
<1>5. CASE StopForwarding \/ User \/ UNCHANGED vars
  BY <1>1, <1>5
  DEF StopForwarding, User, KeyDown, KeyUp, SetResolveCharacters, CompositionStarts,
      CompositionEnds, shared, flag, vars
<1>6. QED BY <1>2, <1>3, <1>4, <1>5, LoopKeepsFlag DEF Next

\* While a thread forwards, keys are let through to the local window exactly while
\* its mode is on, unless a superseded thread wrote the flag since it began
\* (forwarding.rs 401-403, 653, 695, 810-813).
THEOREM PassThroughFollowsMode == Spec => []PassThroughIffOn
<1>1. Init => FlagFits
  BY DEF Init, FlagFits
<1>2. FlagFits => PassThroughIffOn
  BY DEF FlagFits, PassThroughIffOn, Continues
<1>3. QED BY <1>1, <1>2, StepKeepsFlag, AlwaysFits, PTL DEF Spec

-----------------------------------------------------------------------------
(* Keys held on the peer. *)

Up(k) == [key |-> k, down |-> FALSE]
UpComes(t, k) == \E i \in 1 .. Len(events[t]) : events[t][i] = Up(k)

\* The key-ups that went nowhere: left to the local IME, or a toggle's that was dropped.
lost == swallowed \cup (dropped \cap Toggles)

\* Why a thread answers for a key that is down on the peer.
Kept(t, k) ==
  /\ k \in pressed[t]
  /\ pc[t] # "done"
  /\ ~Continues(t) \/ k \in phys \cup lost \/ UpComes(t, k)

\* What makes KeyUpsAccounted inductive: the hook feeds the thread that goes on
\* and no other, a thread that is not yet started knows of nothing, and a key-down
\* on the hook's channel is of a key still held or has its key-up behind it.
HookFollows ==
  /\ hook = IF hook_running THEN generation ELSE None
  /\ hook_running => generation \in Gens

Fresh ==
  \A t \in Gens : pc[t] = "unborn" => pressed[t] = {} /\ events[t] = <<>> /\ hook # t

Answered(t) ==
  \A i \in 1 .. Len(events[t]) :
    events[t][i].down =>
      \/ events[t][i].key \in phys
      \/ \E j \in i + 1 .. Len(events[t]) : events[t][j] = Up(events[t][i].key)

UpsCome == \A t \in Gens : hook = t => Answered(t)

KeysKept == \A k \in peer : \E t \in Gens : Kept(t, k)

KeysTraced == HookFollows /\ Fresh /\ UpsCome /\ KeysKept

LEMMA TracedSuffices == KeysTraced => KeyUpsAccounted
BY DEF KeysTraced, KeysKept, Kept, UpComes, Up, lost, KeyUpsAccounted

LEMMA InitTraced == Init => KeysTraced
BY DEF Init, KeysTraced, HookFollows, Fresh, UpsCome, Answered, KeysKept

\* A thread that goes on is the one the hook feeds.
LEMMA HookedGoesOn ==
  ASSUME HookFollows, NEW t, Continues(t)
  PROVE  hook = t
BY DEF HookFollows, Continues

\* The channel without its head: what is behind the head keeps its order.
Shifted(t) ==
  /\ \A u \in Gens : u # t => events'[u] = events[u]
  /\ Len(events[t]) \in Nat /\ Len(events[t]) > 0
  /\ Len(events'[t]) = Len(events[t]) - 1
  /\ \A i \in 1 .. Len(events[t]) - 1 : events'[t][i] = events[t][i + 1]
  /\ events[t][1].key = Key(t) /\ events[t][1].down = Down(t)

LEMMA TakeShifts ==
  ASSUME TypeOK, NEW t \in Gens, Take(t)
  PROVE  Shifted(t)
<1>1. events[t] \in Seq(Events) /\ events[t] # <<>>
  BY DEF TypeOK, Take
<1>2. /\ Len(events[t]) \in Nat /\ Len(events[t]) > 0
      /\ Len(Tail(events[t])) = Len(events[t]) - 1
      /\ \A i \in 1 .. Len(events[t]) - 1 : Tail(events[t])[i] = events[t][i + 1]
      /\ Head(events[t]) = events[t][1]
  BY <1>1
<1>3. /\ events'[t] = Tail(events[t])
      /\ \A u \in Gens : u # t => events'[u] = events[u]
  BY DEF TypeOK, Take
<1>4. QED BY <1>2, <1>3 DEF Key, Down, Shifted

\* Taking an event loses no other key-up, and leaves the rest answered.
LEMMA TakeKeepsUps ==
  ASSUME TypeOK, NEW t \in Gens, Take(t), NEW u \in Gens, NEW k,
         UpComes(u, k), u # t \/ Key(t) # k \/ Down(t)
  PROVE  UpComes(u, k)'
<1>1. Shifted(t)
  BY TakeShifts
<1>2. CASE u # t
  BY <1>1, <1>2 DEF UpComes, Up, Shifted
<1>3. CASE u = t
  <2>1. PICK i \in 1 .. Len(events[t]) : events[t][i] = Up(k)
    BY <1>3 DEF UpComes
  <2>2. i # 1
    BY <1>1, <1>3, <2>1 DEF Up, Shifted
  <2>3. i - 1 \in 1 .. Len(events'[t]) /\ events'[t][i - 1] = events[t][i]
    BY <1>1, <2>1, <2>2 DEF Shifted
  <2>4. QED BY <1>3, <2>1, <2>3 DEF UpComes, Up
<1>4. QED BY <1>2, <1>3

LEMMA TakeKeepsAnswers ==
  ASSUME TypeOK, UpsCome, NEW t \in Gens, Take(t), UNCHANGED <<hook, phys>>
  PROVE  UpsCome'
<1>1. Shifted(t)
  BY TakeShifts
<1>2. SUFFICES ASSUME NEW u \in Gens, hook = u PROVE Answered(u)'
  BY DEF UpsCome
<1>3. Answered(u)
  BY <1>2 DEF UpsCome
<1>4. CASE u # t
  BY <1>1, <1>3, <1>4 DEF Answered, Up, Shifted
<1>5. CASE u = t
  <2>1. SUFFICES ASSUME NEW i \in 1 .. Len(events'[t]), events'[t][i].down,
                        events'[t][i].key \notin phys
                 PROVE  \E j \in i + 1 .. Len(events'[t]) :
                          events'[t][j] = Up(events'[t][i].key)
    BY <1>5 DEF Answered, Up
  <2>2. /\ i + 1 \in 1 .. Len(events[t])
        /\ events'[t][i] = events[t][i + 1]
    BY <1>1 DEF Shifted
  <2>3. PICK j \in (i + 1) + 1 .. Len(events[t]) :
          events[t][j] = Up(events[t][i + 1].key)
    BY <1>3, <1>5, <2>1, <2>2 DEF Answered
  <2>4. /\ j - 1 \in i + 1 .. Len(events'[t])
        /\ events'[t][j - 1] = events[t][j]
    <3>1. Len(events'[t]) = Len(events[t]) - 1 /\ Len(events[t]) \in Nat
      BY <1>1 DEF Shifted
    <3>2. j \in Nat /\ i \in Nat /\ j - 1 \in 1 .. Len(events[t]) - 1 /\ j - 1 >= i + 1
      BY <3>1, <2>3
    <3>3. events'[t][j - 1] = events[t][(j - 1) + 1]
      BY <1>1, <3>2 DEF Shifted
    <3>4. QED BY <3>1, <3>2, <3>3
  <2>5. QED BY <2>2, <2>3, <2>4
<1>6. QED BY <1>4, <1>5

\* A key-down that the thread that goes on has taken is of a key still held, or its
\* key-up is left on the channel.
LEMMA DownIsAnswered ==
  ASSUME TypeOK, UpsCome, NEW t \in Gens, hook = t, Take(t), NEW k,
         k = Key(t), Down(t), k \notin phys
  PROVE  UpComes(t, k)'
<1>1. Shifted(t)
  BY TakeShifts
<1>2. Answered(t)
  BY DEF UpsCome
<1>3. 1 \in 1 .. Len(events[t]) /\ events[t][1].down /\ events[t][1].key = k
  BY <1>1 DEF Shifted
<1>4. PICK j \in 1 + 1 .. Len(events[t]) : events[t][j] = Up(k)
  BY <1>2, <1>3 DEF Answered
<1>5. j - 1 \in 1 .. Len(events'[t]) /\ events'[t][j - 1] = Up(k)
  BY <1>1, <1>4 DEF Shifted
<1>6. QED BY <1>5 DEF UpComes, Up

\* The hook's callback adds to the end of the channel it feeds.
Grown(t, e) ==
  /\ \A u \in Gens : u # t => events'[u] = events[u]
  /\ Len(events[t]) \in Nat
  /\ Len(events'[t]) = Len(events[t]) + 1
  /\ \A i \in 1 .. Len(events[t]) : events'[t][i] = events[t][i]
  /\ events'[t][Len(events[t]) + 1] = e

LEMMA ObserveGrows ==
  ASSUME TypeOK, NEW k \in Keys, NEW down \in BOOLEAN, Observe(k, down), hook # None
  PROVE  hook \in Gens /\ Grown(hook, [key |-> k, down |-> down])
<1>1. hook \in Gens /\ events[hook] \in Seq(Events)
  BY DEF TypeOK
<1>2. PICK e : e = [key |-> k, down |-> down]
  OBVIOUS
<1>3. e \in Events
  BY <1>2 DEF Events
<1>4. /\ Len(events[hook]) \in Nat
      /\ Len(Append(events[hook], e)) = Len(events[hook]) + 1
      /\ \A i \in 1 .. Len(events[hook]) : Append(events[hook], e)[i] = events[hook][i]
      /\ Append(events[hook], e)[Len(events[hook]) + 1] = e
  BY <1>1, <1>3
<1>5. /\ events'[hook] = Append(events[hook], e)
      /\ \A u \in Gens : u # hook => events'[u] = events[u]
  BY <1>1, <1>2 DEF Observe, TypeOK
<1>6. Grown(hook, e)
  BY <1>4, <1>5 DEF Grown
<1>7. QED BY <1>1, <1>2, <1>6

LEMMA ObserveKeepsUps ==
  ASSUME TypeOK, NEW j \in Keys, NEW down \in BOOLEAN, Observe(j, down),
         NEW t \in Gens, NEW k, UpComes(t, k)
  PROVE  UpComes(t, k)'
<1>1. CASE hook = None
  BY <1>1 DEF Observe, UpComes, Up
<1>2. CASE hook # None
  <2>1. hook \in Gens /\ Grown(hook, [key |-> j, down |-> down])
    BY <1>2, ObserveGrows
  <2>2. PICK i \in 1 .. Len(events[t]) : events[t][i] = Up(k)
    BY DEF UpComes
  <2>3. i \in 1 .. Len(events'[t]) /\ events'[t][i] = events[t][i]
    BY <2>1, <2>2 DEF Grown
  <2>4. QED BY <2>2, <2>3 DEF UpComes, Up
<1>3. QED BY <1>1, <1>2

\* The key-up of a key is behind everything that is on the channel.
LEMMA KeyUpComes ==
  ASSUME TypeOK, NEW k \in Keys, Observe(k, FALSE), NEW t \in Gens, hook = t
  PROVE  UpComes(t, k)'
<1>1. PICK down \in BOOLEAN : down = FALSE /\ Observe(k, down)
  OBVIOUS
<1>2. hook # None
  OBVIOUS
<1>3. PICK e : e = [key |-> k, down |-> down]
  OBVIOUS
<1>4. Grown(t, e) /\ e = Up(k)
  BY <1>1, <1>2, <1>3, ObserveGrows DEF Up
<1>5. QED BY <1>4 DEF Grown, UpComes, Up

\* A press is of a key that is held from then on, and a release answers every
\* earlier key-down of its key.
LEMMA PressIsAnswered ==
  ASSUME TypeOK, UpsCome, NEW k \in Keys, KeyDown(k) \/ KeyUp(k)
  PROVE  UpsCome'
<1>1. PICK down \in BOOLEAN :
        /\ Observe(k, down)
        /\ phys' = IF down THEN phys \cup {k} ELSE phys \ {k}
  BY DEF KeyDown, KeyUp
<1>2. hook' = hook
  BY DEF KeyDown, KeyUp, shared
<1>3. SUFFICES ASSUME NEW t \in Gens, hook = t PROVE Answered(t)'
  BY <1>2 DEF UpsCome
<1>4. Answered(t)
  BY <1>3 DEF UpsCome
<1>5. PICK e : e = [key |-> k, down |-> down]
  OBVIOUS
<1>6. Grown(t, e) /\ e.key = k /\ e.down = down
  BY <1>1, <1>3, <1>5, ObserveGrows
<1>7. SUFFICES ASSUME NEW i \in 1 .. Len(events'[t]), events'[t][i].down,
                      events'[t][i].key \notin phys'
               PROVE  \E j \in i + 1 .. Len(events'[t]) :
                        events'[t][j] = Up(events'[t][i].key)
  BY DEF Answered, Up
<1>8. CASE i = Len(events[t]) + 1
  <2>1. events'[t][i] = e
    BY <1>6, <1>8 DEF Grown
  <2>2. k \in phys'
    BY <1>1, <1>6, <1>7, <2>1
  <2>3. QED BY <1>6, <1>7, <2>1, <2>2
<1>9. CASE i # Len(events[t]) + 1
  <2>1. i \in 1 .. Len(events[t]) /\ events'[t][i] = events[t][i]
    BY <1>6, <1>9 DEF Grown
  <2>2. CASE events[t][i].key \notin phys
    <3>1. PICK j \in i + 1 .. Len(events[t]) : events[t][j] = Up(events[t][i].key)
      BY <1>4, <1>7, <2>1, <2>2 DEF Answered
    <3>2. j \in i + 1 .. Len(events'[t]) /\ j \in 1 .. Len(events[t])
      BY <1>6, <2>1, <3>1 DEF Grown
    <3>3. events'[t][j] = events[t][j]
      BY <1>6, <3>2 DEF Grown
    <3>4. QED BY <2>1, <3>1, <3>2, <3>3
  <2>3. CASE events[t][i].key \in phys
    <3>1. events[t][i].key = k /\ ~down
      BY <1>1, <1>7, <2>1, <2>3
    <3>2. e = Up(events'[t][i].key)
      BY <1>5, <2>1, <3>1 DEF Up
    <3>3. Len(events[t]) + 1 \in i + 1 .. Len(events'[t])
      BY <1>6, <2>1 DEF Grown
    <3>4. QED BY <1>6, <3>2, <3>3 DEF Grown
  <2>4. QED BY <2>2, <2>3
<1>10. QED BY <1>8, <1>9

LEMMA StepKeepsHook ==
  ASSUME TypeOK, HookFollows, [Next]_vars
  PROVE  HookFollows'
<1> USE DEF HookFollows
<1>1. CASE UNCHANGED <<generation, hook_running, hook>>
  BY <1>1
<1>2. ASSUME NEW t \in Gens, StartForwarding(t) PROVE HookFollows'
  BY <1>2 DEF StartForwarding
<1>3. CASE StopForwarding
  BY <1>3 DEF StopForwarding
<1>4. ASSUME NEW t \in Gens, Clear(t) PROVE HookFollows'
  BY <1>4 DEF Clear
<1>5. ASSUME NEW t \in Gens, Loop(t) PROVE HookFollows'
  BY <1>1, <1>5
  DEF Loop, Begin, LoopHead, NoEvent, Forward, NotForwarded, ToggleHeld, ToggleOn,
      ToggleOff, Entered, EntryFails, EntryTimesOut, Abandoned, Closed, shared
<1>6. ASSUME NEW t \in Gens, Leave(t) \/ Dropped(t) \/ Unpass(t) \/ Drain(t)
      PROVE  HookFollows'
  BY <1>1, <1>6 DEF Leave, Dropped, Unpass, Drain, shared
<1>7. ASSUME NEW t \in Gens, Window(t) PROVE HookFollows'
  BY <1>1, <1>7 DEF Window, WindowOpens, WindowFails, WindowCloses, shared
<1>8. CASE User \/ UNCHANGED vars
  BY <1>1, <1>8
  DEF User, KeyDown, KeyUp, SetResolveCharacters, CompositionStarts, CompositionEnds,
      shared, vars
<1>9. QED
  BY <1>2, <1>3, <1>4, <1>5, <1>6, <1>7, <1>8 DEF Next, End

LEMMA StepKeepsFresh ==
  ASSUME TypeOK, HookFollows, Fresh, [Next]_vars
  PROVE  Fresh'
<1> USE DEF TypeOK, At, Go, Fresh
<1>1. ASSUME NEW t \in Gens, \A u \in Gens : u # t => /\ pc'[u] = pc[u]
                                                     /\ pressed'[u] = pressed[u]
                                                     /\ events'[u] = events[u],
             pc'[t] # "unborn", hook' \in {hook, t, None}
      PROVE  Fresh'
  BY <1>1
<1>2. ASSUME NEW t \in Gens, StartForwarding(t) PROVE Fresh'
  BY <1>1, <1>2 DEF StartForwarding, remote
<1>3. ASSUME NEW t \in Gens, Loop(t) PROVE Fresh'
  <2>1. hook' = hook
    BY <1>3
    DEF Loop, Begin, LoopHead, NoEvent, Forward, NotForwarded, ToggleHeld, ToggleOn,
        ToggleOff, Entered, EntryFails, EntryTimesOut, Abandoned, Closed, shared
  <2>2. CASE Begin(t) \/ LoopHead(t) \/ NoEvent(t)
    BY <1>1, <2>1, <2>2
    DEF Begin, LoopHead, NoEvent, release_pressed_keys, remote
  <2>3. CASE Forward(t) \/ NotForwarded(t) \/ ToggleHeld(t)
    BY <1>1, <2>1, <2>3
    DEF Forward, NotForwarded, ToggleHeld, Take, track_key_press, remote
  <2>4. CASE ToggleOn(t) \/ ToggleOff(t)
    <3>1. \A u \in Gens : u # t => events'[u] = events[u]
      BY <2>4 DEF ToggleOn, ToggleOff, Take
    <3>2. pressed' = pressed
      BY <2>4 DEF ToggleOn, ToggleOff, remote
    <3>3. pc'[t] # "unborn" /\ \A u \in Gens : u # t => pc'[u] = pc[u]
      BY <2>4 DEF ToggleOn, ToggleOff, start_ime_capture
    <3>4. QED BY <1>1, <2>1, <3>1, <3>2, <3>3
  <2>5. CASE Entered(t) \/ EntryFails(t) \/ EntryTimesOut(t) \/ Abandoned(t) \/ Closed(t)
    BY <1>1, <2>1, <2>5
    DEF Entered, EntryFails, EntryTimesOut, Abandoned, Closed, release_pressed_keys, remote
  <2>6. QED BY <1>3, <2>2, <2>3, <2>4, <2>5 DEF Loop
<1>4. ASSUME NEW t \in Gens, End(t) PROVE Fresh'
  <2>1. CASE Leave(t) \/ Dropped(t) \/ Unpass(t)
    BY <1>1, <2>1 DEF Leave, Dropped, Unpass, remote, shared
  <2>2. CASE Clear(t)
    <3>1. hook' \in {hook, None} /\ UNCHANGED <<pressed, events>>
      BY <2>2 DEF Clear, remote, shared
    <3>2. pc'[t] # "unborn" /\ \A u \in Gens : u # t => pc'[u] = pc[u]
      BY <2>2 DEF Clear
    <3>3. QED BY <1>1, <3>1, <3>2
  <2>3. CASE Drain(t)
    BY <1>1, <2>3 DEF Drain, release_pressed_keys, shared
  <2>4. QED BY <1>4, <2>1, <2>2, <2>3 DEF End
<1>5. CASE StopForwarding
  <2>1. UNCHANGED <<pc, pressed, events>> /\ hook' = None
    BY <1>5 DEF StopForwarding, remote
  <2>2. \A u \in Gens : u # None
    OBVIOUS
  <2>3. QED BY <2>1, <2>2
<1>6. CASE UNCHANGED <<pc, pressed, events, hook>>
  BY <1>6
<1>7. ASSUME NEW t \in Gens, Window(t) PROVE Fresh'
  BY <1>6, <1>7 DEF Window, WindowOpens, WindowFails, WindowCloses, remote, shared
<1>8. ASSUME NEW k \in Keys, KeyDown(k) \/ KeyUp(k) PROVE Fresh'
  <2>1. UNCHANGED <<pc, pressed, hook>>
    BY <1>8 DEF KeyDown, KeyUp, remote, shared
  <2>2. \A u \in Gens : u # hook => events'[u] = events[u]
    BY <1>8 DEF KeyDown, KeyUp, Observe
  <2>3. QED BY <2>1, <2>2
<1>9. CASE SetResolveCharacters \/ UNCHANGED vars
  BY <1>6, <1>9 DEF SetResolveCharacters, remote, shared, vars
<1>10. ASSUME NEW t \in Gens, CompositionStarts(t) \/ CompositionEnds(t) PROVE Fresh'
  BY <1>6, <1>10 DEF CompositionStarts, CompositionEnds, remote, shared
<1>11. QED
  BY <1>2, <1>3, <1>4, <1>5, <1>7, <1>8, <1>9, <1>10 DEF Next, User

LEMMA StepKeepsAnswers ==
  ASSUME TypeOK, Fresh, UpsCome, [Next]_vars
  PROVE  UpsCome'
<1>1. CASE UNCHANGED <<hook, events, phys>>
  BY <1>1 DEF UpsCome, Answered, Up
<1>2. ASSUME NEW t \in Gens, StartForwarding(t) PROVE UpsCome'
  <2>1. hook' = t /\ events' = events /\ events[t] = <<>>
    BY <1>2 DEF StartForwarding, At, Fresh
  <2>2. QED BY <2>1 DEF UpsCome, Answered
<1>3. ASSUME StopForwarding \/ \E t \in Gens : Clear(t) PROVE UpsCome'
  <2>1. UNCHANGED <<events, phys>> /\ hook' \in {hook, None}
    BY <1>3 DEF StopForwarding, Clear, user, shared
  <2>2. CASE hook' = hook
    BY <1>1, <2>1, <2>2
  <2>3. CASE hook' = None
    BY <2>3 DEF UpsCome
  <2>4. QED BY <2>1, <2>2, <2>3
<1>4. ASSUME NEW t \in Gens,
             Forward(t) \/ NotForwarded(t) \/ ToggleHeld(t) \/ ToggleOn(t) \/ ToggleOff(t)
      PROVE  UpsCome'
  <2>1. Take(t) /\ UNCHANGED <<hook, phys>>
    BY <1>4 DEF Forward, NotForwarded, ToggleHeld, ToggleOn, ToggleOff, shared, user
  <2>2. QED BY <2>1, TakeKeepsAnswers
<1>5. ASSUME NEW t \in Gens,
             \/ Begin(t) \/ LoopHead(t) \/ NoEvent(t) \/ Entered(t) \/ EntryFails(t)
             \/ EntryTimesOut(t) \/ Abandoned(t) \/ Closed(t)
      PROVE  UpsCome'
  BY <1>1, <1>5
  DEF Begin, LoopHead, NoEvent, Entered, EntryFails, EntryTimesOut, Abandoned, Closed,
      shared, user
<1>6. ASSUME NEW t \in Gens, Leave(t) \/ Dropped(t) \/ Unpass(t) \/ Window(t)
      PROVE  UpsCome'
  BY <1>1, <1>6
  DEF Leave, Dropped, Unpass, Window, WindowOpens, WindowFails, WindowCloses, shared, user
<1>7. ASSUME NEW t \in Gens, Drain(t) PROVE UpsCome'
  <2>1. events' = [events EXCEPT ![t] = <<>>] /\ UNCHANGED <<hook, phys>>
    BY <1>7 DEF Drain, shared, user
  <2>2. SUFFICES ASSUME NEW u \in Gens, hook = u PROVE Answered(u)'
    BY <2>1 DEF UpsCome
  <2>3. CASE u = t
    BY <2>1, <2>3 DEF TypeOK, Answered
  <2>4. CASE u # t
    <3>1. events'[u] = events[u]
      BY <2>1, <2>4 DEF TypeOK
    <3>2. QED BY <2>1, <2>2, <3>1 DEF UpsCome, Answered, Up
  <2>5. QED BY <2>3, <2>4
<1>8. CASE User
  <2>1. ASSUME NEW t \in Gens, CompositionStarts(t) \/ CompositionEnds(t) PROVE UpsCome'
    BY <1>1, <2>1 DEF CompositionStarts, CompositionEnds, shared, user
  <2>2. CASE SetResolveCharacters
    BY <1>1, <2>2 DEF SetResolveCharacters, shared
  <2>3. QED BY <1>8, <2>1, <2>2, PressIsAnswered DEF User
<1>9. CASE UNCHANGED vars
  BY <1>1, <1>9 DEF vars
<1>10. QED
  BY <1>2, <1>3, <1>4, <1>5, <1>6, <1>7, <1>8, <1>9 DEF Next, Loop, End

\* The same thread goes on answering for a key.
LEMMA StaysKept ==
  ASSUME NEW u \in Gens, NEW k, Kept(u, k), k \in pressed'[u], pc'[u] # "done",
         Continues(u)' => Continues(u),
         k \in phys \cup lost \/ UpComes(u, k)
           => k \in phys' \cup lost' \/ UpComes(u, k)'
  PROVE  Kept(u, k)'
BY DEF Kept

\* The steps that move no key.
Quiet ==
  /\ UNCHANGED <<peer, pressed, events>>
  /\ phys \cup lost \subseteq phys' \cup lost'
  /\ \A u \in Gens : /\ pc[u] # "done" => pc'[u] # "done"
                     /\ pressed[u] # {} /\ Continues(u)' => Continues(u)

LEMMA QuietKeeps ==
  ASSUME KeysKept, Quiet
  PROVE  KeysKept'
<1> SUFFICES ASSUME NEW k, k \in peer' PROVE \E u \in Gens : Kept(u, k)'
  BY DEF KeysKept
<1>1. PICK u \in Gens : Kept(u, k)
  BY DEF KeysKept, Quiet
<1>2. Kept(u, k)'
  BY <1>1 DEF Kept, Quiet, UpComes, Up
<1>3. QED BY <1>2

\* A release takes its own keys off the peer and leaves the others' alone.
LEMMA ReleaseKeeps ==
  ASSUME TypeOK, KeysKept, NEW t \in Gens, release_pressed_keys(t),
         \A u \in Gens : u # t => pc'[u] = pc[u] /\ events'[u] = events[u],
         UNCHANGED <<generation, hook_running, phys>>
  PROVE  KeysKept'
<1> SUFFICES ASSUME NEW k, k \in peer' PROVE \E u \in Gens : Kept(u, k)'
  BY DEF KeysKept
<1>1. k \in peer /\ k \notin pressed[t]
  BY DEF release_pressed_keys
<1>2. PICK u \in Gens : Kept(u, k)
  BY <1>1 DEF KeysKept
<1>3. u # t
  BY <1>1, <1>2 DEF Kept
<1>4. k \in pressed'[u] /\ (k \in lost => k \in lost')
  BY <1>1, <1>2, <1>3 DEF Kept, release_pressed_keys, lost, TypeOK
<1>5. events'[u] = events[u] /\ pc'[u] = pc[u]
  BY <1>3
<1>6. Kept(u, k)'
  BY <1>2, <1>4, <1>5 DEF Kept, UpComes, Up, Continues
<1>7. QED BY <1>6

\* An event that is taken leaves every other key as it was answered for.
LEMMA TakeKeeps ==
  ASSUME TypeOK, NEW t \in Gens, Take(t), Go(t, "head") \/ pc'[t] # "done",
         \A u \in Gens : u # t => pc'[u] = pc[u],
         UNCHANGED <<generation, hook_running, phys>>,
         NEW u \in Gens, NEW k, Kept(u, k), k \in pressed'[u],
         k \in lost => k \in lost',
         u # t \/ Key(t) # k \/ Down(t) \/ k \in lost'
  PROVE  Kept(u, k)'
<1>1. pc'[u] # "done"
  BY DEF Kept, Go, TypeOK
<1>2. Continues(u)' => Continues(u)
  BY DEF Continues
<1>3. UpComes(u, k) => UpComes(u, k)' \/ k \in lost'
  BY TakeKeepsUps
<1>4. QED BY <1>1, <1>2, <1>3 DEF Kept

LEMMA ForwardKeeps ==
  ASSUME TypeOK, HookFollows, UpsCome, KeysKept, NEW t \in Gens, Forward(t)
  PROVE  KeysKept'
<1>1. Take(t) /\ Key(t) \in Keys /\ Down(t) \in BOOLEAN
  BY TakeType DEF Forward
<1>2. /\ UNCHANGED <<generation, hook_running, hook, phys>>
      /\ \A u \in Gens : u # t => pc'[u] = pc[u]
      /\ pc'[t] = "head"
  BY DEF Forward, shared, user, Go, TypeOK
<1> SUFFICES ASSUME NEW k, k \in peer' PROVE \E u \in Gens : Kept(u, k)'
  BY DEF KeysKept
<1>3. CASE k = Key(t)
  <2>1. Down(t)
    BY <1>1, <1>3 DEF Forward
  <2>2. k \in pressed'[t]
    BY <1>1, <1>3, <2>1 DEF Forward, track_key_press, TypeOK
  <2>3. Continues(t) => k \in phys \/ UpComes(t, k)'
    BY <1>1, <1>3, <2>1, HookedGoesOn, DownIsAnswered
  <2>4. Continues(t)' => Continues(t)
    BY <1>2 DEF Continues
  <2>5. Kept(t, k)'
    BY <1>2, <2>2, <2>3, <2>4 DEF Kept
  <2>6. QED BY <2>5
<1>4. CASE k # Key(t)
  <2>1. k \in peer
    BY <1>1, <1>4 DEF Forward
  <2>2. PICK u \in Gens : Kept(u, k)
    BY <2>1 DEF KeysKept
  <2>3. k \in pressed'[u]
    BY <1>1, <1>4, <2>2 DEF Kept, Forward, track_key_press, TypeOK
  <2>4. k \in lost => k \in lost'
    BY <1>4 DEF Forward, lost
  <2>5. Kept(u, k)'
    BY <1>1, <1>2, <1>4, <2>2, <2>3, <2>4, TakeKeeps
  <2>6. QED BY <2>5
<1>5. QED BY <1>3, <1>4

\* A key-up that is not forwarded, of a key its thread has pressed, is left to the
\* local IME: with the mode off only toggles are not forwarded.
LEMMA UpIsSwallowed ==
  ASSUME TypeOK, NEW t \in Gens, NotForwarded(t), ~Down(t), Key(t) \in pressed[t]
  PROVE  Key(t) \in lost'
<1>1. ~Physical(t) /\ ~IsToggle(t)
  BY DEF NotForwarded
<1>2. is_on(ime_mode[t])
  <2>1. SUFFICES ASSUME ~is_on(ime_mode[t]) PROVE FALSE
    OBVIOUS
  <2>2. resolve /\ Key(t) \notin Toggles
    BY <1>1 DEF Physical, IsToggle
  <2>3. classify_key(Key(t), HeldNow(t)) \in {"Physical", "Character"}
    BY <2>2 DEF classify_key
  <2>4. Physical(t)
    BY <2>1, <2>3 DEF Physical, DeadKey
  <2>5. QED BY <1>1, <2>4
<1>3. QED BY <1>2 DEF NotForwarded, lost

LEMMA OtherTakesKeep ==
  ASSUME TypeOK, KeysKept, NEW t \in Gens,
         NotForwarded(t) \/ ToggleHeld(t) \/ ToggleOn(t) \/ ToggleOff(t)
  PROVE  KeysKept'
<1>1. Take(t) /\ Down(t) \in BOOLEAN
  BY TakeType DEF NotForwarded, ToggleHeld, ToggleOn, ToggleOff
<1>2. UNCHANGED <<generation, hook_running, phys, peer, pressed>>
  BY DEF NotForwarded, ToggleHeld, ToggleOn, ToggleOff, shared, user, remote
<1>3. pc'[t] # "done" /\ \A u \in Gens : u # t => pc'[u] = pc[u]
  BY DEF TypeOK, NotForwarded, ToggleHeld, ToggleOn, ToggleOff, start_ime_capture, Go
<1>4. lost \subseteq lost'
  BY DEF NotForwarded, ToggleHeld, ToggleOn, ToggleOff, remote, lost
<1>5. ~Down(t) /\ Key(t) \in pressed[t] => Key(t) \in lost'
  BY UpIsSwallowed DEF ToggleHeld, ToggleOn, ToggleOff, IsToggle, lost
<1> SUFFICES ASSUME NEW k, k \in peer' PROVE \E u \in Gens : Kept(u, k)'
  BY DEF KeysKept
<1>6. PICK u \in Gens : Kept(u, k)
  BY <1>2 DEF KeysKept
<1>7. k \in pressed'[u]
  BY <1>2, <1>6 DEF Kept
<1>8. u # t \/ Key(t) # k \/ Down(t) \/ k \in lost'
  BY <1>1, <1>2, <1>5, <1>7
<1>9. Kept(u, k)'
  BY <1>1, <1>2, <1>3, <1>4, <1>6, <1>7, <1>8, TakeKeeps
<1>10. QED BY <1>9

LEMMA PressKeeps ==
  ASSUME TypeOK, HookFollows, KeysKept, NEW j \in Keys, KeyDown(j) \/ KeyUp(j)
  PROVE  KeysKept'
<1>1. UNCHANGED <<generation, hook_running, pc, peer, pressed, swallowed, dropped>>
  BY DEF KeyDown, KeyUp, shared, remote
<1> SUFFICES ASSUME NEW k, k \in peer' PROVE \E u \in Gens : Kept(u, k)'
  BY DEF KeysKept
<1>2. PICK u \in Gens : Kept(u, k)
  BY <1>1 DEF KeysKept
<1>3. (UpComes(u, k) => UpComes(u, k)') /\ lost' = lost
  BY <1>1, ObserveKeepsUps DEF KeyDown, KeyUp, lost
<1>4. k \in phys /\ k \notin phys' /\ Continues(u) => UpComes(u, k)'
  <2>1. SUFFICES ASSUME k \in phys, k \notin phys', Continues(u) PROVE UpComes(u, k)'
    OBVIOUS
  <2>2. k = j /\ Observe(k, FALSE)
    BY <2>1 DEF KeyDown, KeyUp
  <2>3. hook = u
    BY <2>1, HookedGoesOn
  <2>4. QED BY <2>2, <2>3, KeyUpComes
<1>5. Continues(u)' => Continues(u)
  BY <1>1 DEF Continues
<1>6. k \in pressed'[u] /\ pc'[u] # "done"
  BY <1>1, <1>2 DEF Kept
<1>7. ~Continues(u)' \/ k \in phys' \cup lost' \/ UpComes(u, k)'
  BY <1>1, <1>2, <1>3, <1>4, <1>5 DEF Kept
<1>8. Kept(u, k)'
  BY <1>6, <1>7 DEF Kept
<1>9. QED BY <1>8

LEMMA StepKeepsKeys ==
  ASSUME TypeOK, KeysTraced, [Next]_vars
  PROVE  KeysKept'
<1>0. HookFollows /\ Fresh /\ UpsCome /\ KeysKept
  BY DEF KeysTraced
<1>1. ASSUME UNCHANGED <<generation, hook_running, peer, pressed, events, phys, swallowed, dropped>>,
             \A u \in Gens : pc[u] # "done" => pc'[u] # "done"
      PROVE  KeysKept'
  BY <1>0, <1>1, QuietKeeps DEF Quiet, Continues, lost
<1>2. ASSUME NEW t \in Gens, StartForwarding(t) PROVE KeysKept'
  <2>1. /\ UNCHANGED <<peer, pressed, events, phys, swallowed, dropped>>
        /\ generation' = t
        /\ pressed[t] = {}
    BY <1>0, <1>2 DEF StartForwarding, remote, user, Fresh, At
  <2>2. \A u \in Gens : pc[u] # "done" => pc'[u] # "done"
    BY <1>2 DEF StartForwarding, Go, TypeOK
  <2>3. QED BY <1>0, <2>1, <2>2, QuietKeeps DEF Quiet, Continues, lost
<1>3. ASSUME UNCHANGED <<generation, peer, pressed, events, phys, swallowed, dropped>>,
             hook_running' => hook_running,
             \A u \in Gens : pc[u] # "done" => pc'[u] # "done"
      PROVE  KeysKept'
  BY <1>0, <1>3, QuietKeeps DEF Quiet, Continues, lost
<1>4. CASE StopForwarding
  BY <1>3, <1>4 DEF StopForwarding, remote, user
<1>5. ASSUME NEW t \in Gens, Clear(t) PROVE KeysKept'
  <2>1. /\ UNCHANGED <<generation, peer, pressed, events, phys, swallowed, dropped>>
        /\ hook_running' => hook_running
    BY <1>5 DEF Clear, remote, user
  <2>2. \A u \in Gens : pc[u] # "done" => pc'[u] # "done"
    BY <1>5 DEF Clear, Go, TypeOK
  <2>3. QED BY <1>3, <2>1, <2>2
<1>6. ASSUME NEW t \in Gens,
             \/ Begin(t) \/ NoEvent(t) \/ EntryFails(t) \/ EntryTimesOut(t)
             \/ Abandoned(t) \/ Closed(t) \/ Leave(t) \/ Dropped(t) \/ Unpass(t)
      PROVE  KeysKept'
  <2>1. UNCHANGED <<generation, hook_running, peer, pressed, events, phys, swallowed, dropped>>
    BY <1>6
    DEF Begin, NoEvent, EntryFails, EntryTimesOut, Abandoned, Closed, Leave, Dropped,
        Unpass, shared, remote, user
  <2>2. \A u \in Gens : pc[u] # "done" => pc'[u] # "done"
    BY <1>6
    DEF Begin, NoEvent, EntryFails, EntryTimesOut, Abandoned, Closed, Leave, Dropped,
        Unpass, Go, TypeOK
  <2>3. QED BY <1>1, <2>1, <2>2
<1>7. ASSUME NEW t \in Gens, LoopHead(t) PROVE KeysKept'
  <2>1. UNCHANGED <<generation, hook_running, phys, events>>
    BY <1>7 DEF LoopHead, shared, user
  <2>2. pc'[t] # "done" /\ \A u \in Gens : u # t => pc'[u] = pc[u]
    BY <1>7 DEF LoopHead, Go, TypeOK
  <2>3. CASE release_pressed_keys(t)
    BY <1>0, <2>1, <2>2, <2>3, ReleaseKeeps
  <2>4. CASE UNCHANGED remote
    BY <1>1, <2>1, <2>2, <2>4 DEF remote
  <2>5. QED BY <1>7, <2>3, <2>4 DEF LoopHead
<1>8. ASSUME NEW t \in Gens, Entered(t) \/ Drain(t) PROVE KeysKept'
  <2>1. UNCHANGED <<generation, hook_running, phys>> /\ release_pressed_keys(t)
    BY <1>8 DEF Entered, Drain, shared, user
  <2>2. \A u \in Gens : u # t => pc'[u] = pc[u] /\ events'[u] = events[u]
    BY <1>8 DEF Entered, Drain, Go, TypeOK
  <2>3. QED BY <1>0, <2>1, <2>2, ReleaseKeeps
<1>9. ASSUME NEW t \in Gens,
             Forward(t) \/ NotForwarded(t) \/ ToggleHeld(t) \/ ToggleOn(t) \/ ToggleOff(t)
      PROVE  KeysKept'
  BY <1>0, <1>9, ForwardKeeps, OtherTakesKeep
<1>10. ASSUME NEW t \in Gens, Window(t) \/ CompositionStarts(t) \/ CompositionEnds(t)
       PROVE  KeysKept'
  BY <1>1, <1>10
  DEF Window, WindowOpens, WindowFails, WindowCloses, CompositionStarts,
      CompositionEnds, shared, remote, user
<1>11. ASSUME NEW k \in Keys, KeyDown(k) \/ KeyUp(k) PROVE KeysKept'
  BY <1>0, <1>11, PressKeeps
<1>12. CASE SetResolveCharacters \/ UNCHANGED vars
  BY <1>1, <1>12 DEF SetResolveCharacters, shared, remote, vars
<1>13. QED
  BY <1>2, <1>4, <1>5, <1>6, <1>7, <1>8, <1>9, <1>10, <1>11, <1>12
  DEF Next, Loop, End, User

\* While the thread that pressed it forwards, a key that is down on the peer is held,
\* or its key-up is on the way, was left to the local IME, or was a toggle key's,
\* dropped after the setting was switched on; and a thread that ends releases what it
\* pressed (forwarding.rs 703-765, 835-860).
THEOREM KeyUpsAreAccountedFor == Spec => []KeyUpsAccounted
<1>1. TypeOK /\ KeysTraced /\ [Next]_vars => KeysTraced'
  BY StepKeepsHook, StepKeepsFresh, StepKeepsAnswers, StepKeepsKeys DEF KeysTraced
<1>2. QED BY InitTraced, TracedSuffices, <1>1, TypeCorrect, PTL DEF Spec
=============================================================================
