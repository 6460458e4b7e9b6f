------------------------- MODULE ClipboardSync_proofs -------------------------
(***************************************************************************)
(* Proofs about ClipboardSync, for any number of clients, copies, queued   *)
(* messages and failures.                                                  *)
(***************************************************************************)
EXTENDS ClipboardSync, TLAPS

USE NodeAssumption, BoundAssumption
    DEF NodeAssumption, BoundAssumption, Contents, Empty

--------------------------------------------------------------------------------
(* Ends and bounds. *)

LEMMA EndsAreAtNodes == \A e \in Ends : e[1] \in Nodes /\ e[2] \in Clients
BY DEF Ends, Nodes

LEMMA LeastElements ==
  0 \in 0 .. MaxActs /\ 0 \in 0 .. MaxSignals /\ 0 \in 0 .. MaxSends /\ 0 \in 0 .. 0
OBVIOUS

\* An act is one of those the bound allows.
LEMMA ActType ==
  ASSUME TypeOK, Acts
  PROVE  acts' \in 0 .. MaxActs /\ acts' = acts + 1 /\ copies \in 0 .. acts'
BY DEF TypeOK, Acts

LEMMA SignalledType ==
  ASSUME TypeOK, NEW n \in Nodes, Signalled(n)
  PROVE  /\ signals' \in [Nodes -> 0 .. MaxSignals]
         /\ missed' \in SUBSET Nodes
BY DEF TypeOK, Signalled

\* What is known of a watcher that was switched off keeps its type.
LEMMA OldType ==
  ASSUME TypeOK, NEW n \in Nodes, NEW w \in Olds, NEW s \in 0 .. MaxSignals, NEW k \in Contents,
         old' = [old EXCEPT ![n][w] = [signals |-> s, content |-> k]]
  PROVE  old' \in [Nodes -> [Olds -> [signals : 0 .. MaxSignals, content : Contents]]]
<1> DEFINE R == [signals : 0 .. MaxSignals, content : Contents]
<1>1. [signals |-> s, content |-> k] \in R /\ old \in [Nodes -> [Olds -> R]]
  BY DEF TypeOK
<1> HIDE DEF R
<1>2. QED BY <1>1 DEF R

LEMMA OvertakesType ==
  ASSUME TypeOK, NEW n \in Nodes, NEW k, Overtakes(n, k)
  PROVE  missed' \in SUBSET Nodes
BY DEF TypeOK, Overtakes

\* A message put into a channel keeps its type and is one more.
LEMMA AppendType ==
  ASSUME NEW S, NEW q \in Seq(S), NEW k \in S
  PROVE  Append(q, k) \in Seq(S) /\ Len(Append(q, k)) = Len(q) + 1 /\ Len(q) \in Nat
OBVIOUS

LEMMA SentType ==
  ASSUME TypeOK, NEW ends \in SUBSET Ends, NEW k \in Contents \ {Empty},
         Room(ends), Sent(ends, k)
  PROVE  /\ channel' \in [Ends -> Seq(Contents \ {Empty})]
         /\ \A e \in Ends : Len(channel'[e]) <= MaxQueue
<1> DEFINE S == Contents \ {Empty}
<1>1. k \in S /\ MaxQueue \in Nat
  OBVIOUS
<1>2. channel \in [Ends -> Seq(S)] /\ \A e \in Ends : Len(channel[e]) <= MaxQueue
  BY DEF TypeOK
<1>3. channel' = [e \in Ends |-> IF e \in ends THEN Append(channel[e], k) ELSE channel[e]]
  BY DEF Sent
<1>4. ASSUME NEW e \in ends PROVE Len(channel[e]) < MaxQueue
  BY DEF Room
<1> HIDE DEF S
<1>5. ASSUME NEW e \in Ends
      PROVE  channel'[e] \in Seq(S) /\ Len(channel'[e]) <= MaxQueue
  <2>1. channel[e] \in Seq(S)
    BY <1>2
  <2>2. CASE e \in ends
    <3>1. channel'[e] = Append(channel[e], k)
      BY <1>3, <2>2
    <3>2. Len(channel[e]) < MaxQueue
      BY <1>4, <2>2
    <3>3. QED BY <1>1, <2>1, <3>1, <3>2, AppendType
  <2>3. CASE e \notin ends
    BY <1>2, <1>3, <2>1, <2>3
  <2>4. QED BY <2>2, <2>3
<1>6. channel' \in [Ends -> Seq(S)]
  BY <1>3, <1>5
<1>7. QED BY <1>5, <1>6 DEF S

LEMMA EndsOfPeers ==
  /\ \A n \in Nodes : Peers(n) \subseteq Ends
  /\ \A c \in Clients : Siblings(c) \subseteq Ends
BY DEF Peers, Siblings, Ends, Nodes, Clients

LEMMA BroadcastsType ==
  ASSUME TypeOK, NEW n \in Nodes, NEW k \in Contents \ {Empty}, Broadcasts(n, k)
  PROVE  /\ channel' \in [Ends -> Seq(Contents \ {Empty})]
         /\ \A e \in Ends : Len(channel'[e]) <= MaxQueue
         /\ sends' \in 0 .. MaxSends
         /\ last_hash' \in [Nodes -> Contents]
<1>1. last_hash' \in [Nodes -> Contents]
  BY DEF Broadcasts, Remembered, TypeOK
<1>2. CASE ShouldBroadcast(n, k)
  <2>1. Room(Peers(n)) /\ Sent(Peers(n), k) /\ sends < MaxSends /\ sends' = sends + 1
    BY <1>2 DEF Broadcasts
  <2>2. sends' \in 0 .. MaxSends
    BY <2>1 DEF TypeOK
  <2>3. Peers(n) \in SUBSET Ends
    BY EndsOfPeers
  <2>4. QED BY <1>1, <2>1, <2>2, <2>3, SentType
<1>3. CASE ~ShouldBroadcast(n, k)
  BY <1>1, <1>3 DEF Broadcasts, TypeOK
<1>4. QED BY <1>2, <1>3

LEMMA AfterSetType ==
  ASSUME TypeOK, NEW e \in Ends, AfterSet(e), handler[e].phase = "marked"
  PROVE  /\ handler' \in [Ends -> [phase : {"idle", "marked", "set"}, content : Contents]]
         /\ \A d \in Ends : handler'[d].phase = "idle" <=> handler'[d].content = Empty
<1>1. handler \in [Ends -> [phase : {"idle", "marked", "set"}, content : Contents]]
  BY DEF TypeOK
<1>2. \A d \in Ends : handler[d].phase = "idle" <=> handler[d].content = Empty
  BY DEF TypeOK
<1>3. CASE e[1] = Hub
  <2>1. handler' = [handler EXCEPT ![e] = [phase |-> "set", content |-> handler[e].content]]
    BY <1>1, <1>3 DEF AfterSet
  <2>2. QED BY <1>1, <1>2, <2>1
<1>4. CASE e[1] # Hub
  <2>1. handler' = [handler EXCEPT ![e] = [phase |-> "idle", content |-> 0]]
    BY <1>1, <1>4 DEF AfterSet, Idle
  <2>2. QED BY <1>1, <1>2, <2>1
<1>5. QED BY <1>3, <1>4

LEMMA DisturbsType ==
  ASSUME TypeOK, Disturbs \/ Loses
  PROVE  history' \in {"calm", "lost", "raced"}
BY DEF TypeOK, Disturbs, Loses

LEMMA GhostTypes ==
  Nobody \in [1 .. MaxActs -> Nodes] /\ Nothing \in [Nodes -> Contents]
BY LeastElements DEF Nobody, Nothing, Nodes

--------------------------------------------------------------------------------
(* Type correctness. *)

LEMMA InitType == Init => TypeOK
<1> SUFFICES ASSUME Init PROVE TypeOK
  OBVIOUS
<1>1. /\ clipboard \in [Nodes -> Contents]
      /\ last_hash \in [Nodes -> Contents]
      /\ sync \in [Nodes -> BOOLEAN]
      /\ signals \in [Nodes -> 0 .. MaxSignals]
      /\ reading \in [Nodes -> Contents]
      /\ old \in [Nodes -> [Olds -> [signals : 0 .. MaxSignals, content : Contents]]]
      /\ hand \in [Hands -> Contents]
  BY LeastElements DEF Init, Gone
<1>2. /\ channel \in [Ends -> Seq(Contents \ {Empty})]
      /\ \A e \in Ends : Len(channel[e]) <= MaxQueue
  BY DEF Init
<1>3. /\ handler \in [Ends -> [phase : {"idle", "marked", "set"}, content : Contents]]
      /\ \A e \in Ends : handler[e].phase = "idle" <=> handler[e].content = Empty
  BY LeastElements DEF Init, Idle
<1>4. /\ copies \in 0 .. acts
      /\ sends \in 0 .. MaxSends /\ acts \in 0 .. MaxActs
      /\ author \in [1 .. MaxActs -> Nodes]
      /\ expected \in [Nodes -> Contents]
      /\ missed \in SUBSET Nodes
      /\ history \in {"calm", "lost", "raced"}
  BY LeastElements, GhostTypes DEF Init
<1>5. QED BY <1>1, <1>2, <1>3, <1>4 DEF TypeOK

\* What an end is about to receive, and what is left behind it.
LEMMA HeadType ==
  ASSUME TypeOK, NEW e \in Ends, channel[e] # <<>>
  PROVE  /\ Head(channel[e]) \in Contents \ {Empty}
         /\ Tail(channel[e]) \in Seq(Contents \ {Empty})
         /\ Len(Tail(channel[e])) <= MaxQueue
<1> DEFINE S == Contents \ {Empty}
<1>1. channel[e] \in Seq(S) /\ Len(channel[e]) <= MaxQueue
  BY DEF TypeOK
<1> HIDE DEF S
<1>2. /\ Head(channel[e]) \in S /\ Tail(channel[e]) \in Seq(S)
      /\ Len(Tail(channel[e])) = Len(channel[e]) - 1
      /\ Len(channel[e]) \in Nat
  BY <1>1
<1>3. QED BY <1>1, <1>2 DEF S

\* The watcher takes one signal.
LEMMA SignalTaken ==
  ASSUME TypeOK, NEW n \in Nodes, signals[n] > 0,
         signals' = [signals EXCEPT ![n] = @ - 1]
  PROVE  signals' \in [Nodes -> 0 .. MaxSignals]
<1>1. signals \in [Nodes -> 0 .. MaxSignals] /\ MaxSignals \in Nat
  BY DEF TypeOK
<1>2. signals[n] \in 0 .. MaxSignals /\ signals[n] - 1 \in 0 .. MaxSignals
  BY <1>1
<1>3. QED BY <1>1, <1>2

LEMMA CopyType ==
  ASSUME TypeOK, NEW n \in Nodes, Copy(n)
  PROVE  TypeOK'
<1>1. acts' \in 0 .. MaxActs /\ copies' \in 0 .. acts' /\ copies' \in 1 .. MaxActs
  BY DEF TypeOK, Copy, Acts
<1>2. copies' \in Contents
  BY <1>1
<1>3. clipboard' \in [Nodes -> Contents]
  BY <1>2 DEF TypeOK, Copy
<1>4. signals' \in [Nodes -> 0 .. MaxSignals] /\ missed' \in SUBSET Nodes
  BY SignalledType DEF Copy
<1>5. history' \in {"calm", "lost", "raced"}
  BY DisturbsType DEF Copy
<1>6. author' \in [1 .. MaxActs -> Nodes]
  BY GhostTypes DEF TypeOK, Copy
<1>7. expected' \in [Nodes -> Contents]
  BY <1>2, GhostTypes DEF TypeOK, Copy
<1>8. QED
  BY <1>1, <1>3, <1>4, <1>5, <1>6, <1>7 DEF TypeOK, Copy, wire, slow

LEMMA WatchingType ==
  ASSUME TypeOK, NEW n \in Nodes, Watching(n) \/ WatchMisses(n)
  PROVE  TypeOK'
<1>1. CASE WatchReads(n)
  <2>1. signals' \in [Nodes -> 0 .. MaxSignals]
    BY <1>1, SignalTaken DEF WatchReads
  <2>2. reading' \in [Nodes -> Contents] /\ missed' \in SUBSET Nodes
    BY <1>1 DEF WatchReads, TypeOK
  <2>3. QED BY <1>1, <2>1, <2>2 DEF WatchReads, TypeOK, data, slow, wire, bounds, trail
<1>2. CASE WatchMisses(n)
  <2>1. history' \in {"calm", "lost", "raced"}
    BY <1>2, DisturbsType DEF WatchMisses
  <2>2. acts' \in 0 .. MaxActs /\ copies \in 0 .. acts'
    BY <1>2, ActType DEF WatchMisses
  <2>3. signals' \in [Nodes -> 0 .. MaxSignals]
    BY <1>2, SignalTaken DEF WatchMisses
  <2>4. missed' \in SUBSET Nodes
    BY <1>2 DEF WatchMisses, TypeOK
  <2>5. QED BY <1>2, <2>1, <2>2, <2>3, <2>4 DEF WatchMisses, TypeOK, data, slow, wire, trail
<1>3. CASE WatchSends(n)
  <2>1. reading[n] \in Contents \ {Empty}
    BY <1>3 DEF WatchSends, TypeOK
  <2>2. /\ channel' \in [Ends -> Seq(Contents \ {Empty})]
        /\ \A e \in Ends : Len(channel'[e]) <= MaxQueue
        /\ sends' \in 0 .. MaxSends
        /\ last_hash' \in [Nodes -> Contents]
    BY <1>3, <2>1, BroadcastsType DEF WatchSends
  <2>3. reading' \in [Nodes -> Contents]
    BY <1>3 DEF WatchSends, TypeOK
  <2>4. QED BY <1>3, <2>2, <2>3 DEF WatchSends, TypeOK, slow, trail
<1>4. QED BY <1>1, <1>2, <1>3 DEF Watching

LEMMA LingeringType ==
  ASSUME TypeOK, NEW n \in Nodes, NEW w \in Olds, Lingering(n, w)
  PROVE  TypeOK'
<1>0. old[n][w] \in [signals : 0 .. MaxSignals, content : Contents]
  BY DEF TypeOK
<1>1. CASE OldReads(n, w)
  <2>1. clipboard[n] \in Contents /\ old[n][w].signals - 1 \in 0 .. MaxSignals
    BY <1>0, <1>1 DEF OldReads, TypeOK
  <2>2. old' = [old EXCEPT ![n][w] =
                  [signals |-> old[n][w].signals - 1, content |-> clipboard[n]]]
    BY <1>1 DEF OldReads
  <2>3. old' \in [Nodes -> [Olds -> [signals : 0 .. MaxSignals, content : Contents]]]
    BY <2>1, <2>2, OldType
  <2>4. QED BY <1>1, <2>3 DEF OldReads, TypeOK, data, watch, wire, bounds, trail
<1>2. CASE OldDrops(n, w)
  <2>1. old[n][w].signals - 1 \in 0 .. MaxSignals /\ Empty \in Contents
    BY <1>0, <1>2, LeastElements DEF OldDrops
  <2>2. old' = [old EXCEPT ![n][w] = [signals |-> old[n][w].signals - 1, content |-> Empty]]
    BY <1>2 DEF OldDrops
  <2>3. old' \in [Nodes -> [Olds -> [signals : 0 .. MaxSignals, content : Contents]]]
    BY <2>1, <2>2, OldType
  <2>4. missed' \in SUBSET Nodes
    BY <1>2 DEF OldDrops, TypeOK
  <2>5. QED BY <1>2, <2>3, <2>4 DEF OldDrops, TypeOK, data, watch, wire, bounds, trail
<1>3. CASE OldSends(n, w)
  <2>1. old[n][w].signals \in 0 .. MaxSignals /\ Empty \in Contents
    BY <1>0, LeastElements
  <2>2. old' = [old EXCEPT ![n][w] = [signals |-> old[n][w].signals, content |-> Empty]]
    BY <1>3 DEF OldSends
  <2>3. old' \in [Nodes -> [Olds -> [signals : 0 .. MaxSignals, content : Contents]]]
    BY <2>1, <2>2, OldType
  <2>4. /\ channel' \in [Ends -> Seq(Contents \ {Empty})]
        /\ \A e \in Ends : Len(channel'[e]) <= MaxQueue
        /\ sends' \in 0 .. MaxSends
        /\ last_hash' \in [Nodes -> Contents]
    BY <1>0, <1>3, BroadcastsType DEF OldSends
  <2>5. missed' \in SUBSET Nodes
    BY <1>3, OvertakesType DEF OldSends
  <2>6. QED BY <1>3, <2>3, <2>4, <2>5 DEF OldSends, TypeOK, watch, trail
<1>4. QED BY <1>1, <1>2, <1>3 DEF Lingering

LEMMA HandlingType ==
  ASSUME TypeOK, NEW e \in Ends, Handling(e) \/ SetFails(e)
  PROVE  TypeOK'
<1>0. e[1] \in Nodes /\ e[2] \in Clients
  BY EndsAreAtNodes
<1>1. CASE Marks(e)
  <2>1. /\ Head(channel[e]) \in Contents \ {Empty}
        /\ Tail(channel[e]) \in Seq(Contents \ {Empty})
        /\ Len(Tail(channel[e])) <= MaxQueue
    BY <1>1, HeadType DEF Marks
  <2>2. channel' = [channel EXCEPT ![e] = Tail(channel[e])]
    BY <1>1 DEF Marks
  <2>3. /\ channel' \in [Ends -> Seq(Contents \ {Empty})]
        /\ \A d \in Ends : Len(channel'[d]) <= MaxQueue
    <3>1. channel \in [Ends -> Seq(Contents \ {Empty})]
      BY DEF TypeOK
    <3>2. \A d \in Ends : Len(channel[d]) <= MaxQueue
      BY DEF TypeOK
    <3> HIDE DEF Contents
    <3>3. \A d \in Ends : channel'[d] = IF d = e THEN Tail(channel[e]) ELSE channel[d]
      BY <2>2, <3>1
    <3>4. channel' \in [Ends -> Seq(Contents \ {Empty})]
      BY <2>1, <2>2, <3>1
    <3>5. \A d \in Ends : Len(channel'[d]) <= MaxQueue
      BY <2>1, <3>2, <3>3
    <3>6. QED BY <3>4, <3>5
  <2>4. /\ handler' \in [Ends -> [phase : {"idle", "marked", "set"}, content : Contents]]
        /\ \A d \in Ends : handler'[d].phase = "idle" <=> handler'[d].content = Empty
    BY <1>1, <2>1 DEF Marks, TypeOK
  <2>5. last_hash' \in [Nodes -> Contents]
    BY <1>0, <1>1, <2>1 DEF Marks, Remembered, TypeOK
  <2>6. QED BY <1>1, <2>3, <2>4, <2>5 DEF Marks, TypeOK, watch, slow, bounds, trail
<1>2. CASE Sets(e)
  <2>1. signals' \in [Nodes -> 0 .. MaxSignals] /\ missed' \in SUBSET Nodes
    BY <1>0, <1>2, SignalledType DEF Sets
  <2>2. /\ handler' \in [Ends -> [phase : {"idle", "marked", "set"}, content : Contents]]
        /\ \A d \in Ends : handler'[d].phase = "idle" <=> handler'[d].content = Empty
    BY <1>2, AfterSetType DEF Sets
  <2>3. clipboard' \in [Nodes -> Contents]
    BY <1>2 DEF Sets, TypeOK
  <2>4. QED BY <1>2, <2>1, <2>2, <2>3 DEF Sets, TypeOK, slow, bounds, trail
<1>3. CASE SetFails(e)
  <2>1. /\ handler' \in [Ends -> [phase : {"idle", "marked", "set"}, content : Contents]]
        /\ \A d \in Ends : handler'[d].phase = "idle" <=> handler'[d].content = Empty
    BY <1>3, AfterSetType DEF SetFails
  <2>2. clipboard' \in [Nodes -> Contents] /\ signals' \in [Nodes -> 0 .. MaxSignals]
    <3>1. /\ clipboard \in [Nodes -> Contents] /\ signals \in [Nodes -> 0 .. MaxSignals]
          /\ MaxSignals \in Nat
      BY DEF TypeOK
    <3>2. CASE UNCHANGED <<clipboard, signals>>
      BY <3>1, <3>2
    <3>3. CASE /\ clipboard' = [clipboard EXCEPT ![e[1]] = Empty]
               /\ signals' = [signals EXCEPT ![e[1]] =
                    IF sync[e[1]] /\ @ < MaxSignals THEN @ + 1 ELSE @]
      <4>1. Empty \in Contents
        BY LeastElements
      <4>2. clipboard' \in [Nodes -> Contents]
        BY <3>1, <3>3, <4>1
      <4>3. signals[e[1]] < MaxSignals => signals[e[1]] + 1 \in 0 .. MaxSignals
        BY <1>0, <3>1
      <4>4. signals' \in [Nodes -> 0 .. MaxSignals]
        BY <1>0, <3>1, <3>3, <4>3
      <4>5. QED BY <4>2, <4>4
    <3>4. QED BY <1>3, <3>2, <3>3 DEF SetFails
  <2>3. history' \in {"calm", "lost", "raced"}
    BY <1>3, DisturbsType DEF SetFails
  <2>4. acts' \in 0 .. MaxActs /\ copies \in 0 .. acts'
    BY <1>3, ActType DEF SetFails
  <2>5. missed' \in SUBSET Nodes
    BY <1>0, <1>3 DEF SetFails, TypeOK
  <2>6. QED BY <1>3, <2>1, <2>2, <2>3, <2>4, <2>5 DEF SetFails, TypeOK, slow, trail
<1>4. CASE Relays(e)
  <2>1. handler[e].content \in Contents \ {Empty}
    BY <1>4 DEF Relays, TypeOK
  <2>2. Siblings(e[2]) \in SUBSET Ends
    BY <1>0, EndsOfPeers
  <2>3. /\ channel' \in [Ends -> Seq(Contents \ {Empty})]
        /\ \A d \in Ends : Len(channel'[d]) <= MaxQueue
    BY <1>4, <2>1, <2>2, SentType DEF Relays
  <2>4. /\ handler' \in [Ends -> [phase : {"idle", "marked", "set"}, content : Contents]]
        /\ \A d \in Ends : handler'[d].phase = "idle" <=> handler'[d].content = Empty
    BY <1>4, LeastElements DEF Relays, TypeOK, Idle
  <2>5. QED BY <1>4, <2>3, <2>4 DEF Relays, TypeOK, data, watch, slow, bounds, trail
<1>5. QED BY <1>1, <1>2, <1>3, <1>4 DEF Handling

LEMMA HandType ==
  ASSUME TypeOK, NEW h \in Hands, HandReads(h) \/ HandSends(h)
  PROVE  TypeOK'
<1>0. Hub \in Nodes
  BY DEF Nodes
<1>1. CASE HandReads(h)
  <2>1. acts' \in 0 .. MaxActs /\ copies \in 0 .. acts'
    BY <1>1, ActType DEF HandReads
  <2>2. history' \in {"calm", "lost", "raced"}
    BY <1>1, DisturbsType DEF HandReads
  <2>3. hand' \in [Hands -> Contents]
    BY <1>0, <1>1 DEF HandReads, TypeOK
  <2>4. author' \in [1 .. MaxActs -> Nodes] /\ expected' \in [Nodes -> Contents]
    BY <1>1, GhostTypes DEF HandReads, TypeOK
  <2>5. QED BY <1>1, <2>1, <2>2, <2>3, <2>4 DEF HandReads, TypeOK, data, watch, wire
<1>2. CASE HandSends(h)
  <2>1. hand[h] \in Contents \ {Empty}
    BY <1>2 DEF HandSends, TypeOK
  <2>2. /\ channel' \in [Ends -> Seq(Contents \ {Empty})]
        /\ \A e \in Ends : Len(channel'[e]) <= MaxQueue
    <3> DEFINE ends == {<<c, c>> : c \in Direct}
    <3>1. CASE ShouldBroadcast(Hub, hand[h])
      <4>1. ends \in SUBSET Ends
        BY DEF Ends, Clients
      <4>2. Room(ends) /\ Sent(ends, hand[h])
        BY <1>2, <3>1 DEF HandSends
      <4> HIDE DEF ends
      <4>3. QED BY <2>1, <4>1, <4>2, SentType
    <3>2. CASE ~ShouldBroadcast(Hub, hand[h])
      BY <1>2, <3>2 DEF HandSends, TypeOK
    <3>3. QED BY <3>1, <3>2
  <2>3. last_hash' \in [Nodes -> Contents] /\ hand' \in [Hands -> Contents]
    BY <1>0, <1>2, <2>1, LeastElements DEF HandSends, Remembered, TypeOK
  <2>4. missed' \in SUBSET Nodes
    BY <1>0, <1>2, OvertakesType DEF HandSends
  <2>5. expected' \in [Nodes -> Contents]
    BY <1>2, <2>1, GhostTypes DEF HandSends, TypeOK
  <2>6. QED BY <1>2, <2>2, <2>3, <2>4, <2>5 DEF HandSends, TypeOK, watch, bounds
<1>3. QED BY <1>1, <1>2

\* What switching does to the watchers.
LEMMA SwitchDoes ==
  ASSUME TypeOK, NEW n \in Nodes, Switches(n)
  PROVE  /\ signals' = signals \/ signals' = [signals EXCEPT ![n] = 0]
         /\ reading' = reading \/ reading' = [reading EXCEPT ![n] = Empty]
         /\ \/ signals' = signals /\ reading' = reading /\ old' = old
            \/ \E w \in Olds :
                 /\ old[n][w] = Gone
                 /\ old' = [old EXCEPT ![n][w] =
                              [signals |-> signals[n], content |-> reading[n]]]
BY DEF Switches, SwitchesOff, SwitchesOn

LEMMA OtherType ==
  ASSUME TypeOK,
         \/ \E n \in Nodes : Switches(n)
         \/ \E c \in Clients : Breaks(c)
  PROVE  TypeOK'
<1>2. ASSUME NEW n \in Nodes, Switches(n)
      PROVE  TypeOK'
  <2>1. acts' \in 0 .. MaxActs /\ copies \in 0 .. acts'
    BY <1>2, ActType DEF Switches
  <2>2. history' \in {"calm", "lost", "raced"}
    BY <1>2, DisturbsType DEF Switches
  <2>3. sync' \in [Nodes -> BOOLEAN]
    BY <1>2 DEF Switches, TypeOK
  <2>4. signals' \in [Nodes -> 0 .. MaxSignals] /\ reading' \in [Nodes -> Contents]
    <3>1. signals' = signals \/ signals' = [signals EXCEPT ![n] = 0]
      BY <1>2, SwitchDoes
    <3>2. reading' = reading \/ reading' = [reading EXCEPT ![n] = Empty]
      BY <1>2, SwitchDoes
    <3>3. signals' \in [Nodes -> 0 .. MaxSignals]
      BY <3>1, LeastElements DEF TypeOK
    <3>4. reading' \in [Nodes -> Contents]
      BY <3>2, LeastElements DEF TypeOK
    <3>5. QED BY <3>3, <3>4
  <2>5. author' \in [1 .. MaxActs -> Nodes] /\ expected' \in [Nodes -> Contents]
    BY <1>2, GhostTypes DEF Switches, TypeOK
  <2>6. old' \in [Nodes -> [Olds -> [signals : 0 .. MaxSignals, content : Contents]]]
    <3>1. CASE old' = old
      BY <3>1 DEF TypeOK
    <3>2. ASSUME NEW w \in Olds,
                 old' = [old EXCEPT ![n][w] = [signals |-> signals[n], content |-> reading[n]]]
          PROVE  old' \in [Nodes -> [Olds -> [signals : 0 .. MaxSignals, content : Contents]]]
      <4>1. signals[n] \in 0 .. MaxSignals /\ reading[n] \in Contents
        BY DEF TypeOK
      <4>2. QED BY <3>2, <4>1, OldType
    <3>3. QED BY <1>2, <3>1, <3>2, SwitchDoes
  <2>7. QED BY <1>2, <2>1, <2>2, <2>3, <2>4, <2>5, <2>6 DEF Switches, TypeOK, data, wire
<1>3. ASSUME NEW c \in Clients, Breaks(c)
      PROVE  TypeOK'
  <2>1. acts' \in 0 .. MaxActs /\ copies \in 0 .. acts'
    BY <1>3, ActType DEF Breaks
  <2>2. history' \in {"calm", "lost", "raced"}
    BY <1>3, DisturbsType DEF Breaks
  <2>3. /\ channel' \in [Ends -> Seq(Contents \ {Empty})]
        /\ \A e \in Ends : Len(channel'[e]) <= MaxQueue
    <3> HIDE DEF Contents
    <3>1. channel' = [e \in Ends |-> IF e[2] = c THEN <<>> ELSE channel[e]]
      BY <1>3 DEF Breaks
    <3>2. /\ channel \in [Ends -> Seq(Contents \ {Empty})]
          /\ \A e \in Ends : Len(channel[e]) <= MaxQueue
      BY DEF TypeOK
    <3>3. Len(<<>>) <= MaxQueue /\ <<>> \in Seq(Contents \ {Empty})
      OBVIOUS
    <3>4. QED BY <3>1, <3>2, <3>3
  <2>4. QED BY <1>3, <2>1, <2>2, <2>3 DEF Breaks, TypeOK, data, watch, slow, trail
<1>4. QED BY <1>2, <1>3

LEMMA NextType == TypeOK /\ [Next]_vars => TypeOK'
<1> SUFFICES ASSUME TypeOK, [Next]_vars PROVE TypeOK'
  OBVIOUS
<1>1. CASE UNCHANGED vars
  BY <1>1 DEF TypeOK, vars, data, watch, slow, wire, bounds, trail
<1>2. CASE Next
  BY <1>2, CopyType, WatchingType, LingeringType, HandlingType, HandType, OtherType DEF Next
<1>3. QED BY <1>1, <1>2

\* Every variable keeps its type.
THEOREM TypeCorrect == Spec => []TypeOK
BY InitType, NextType, PTL DEF Spec

--------------------------------------------------------------------------------
(* The guard. *)

\* Someone is about to see that n's guard and clipboard differ: there is a change
\* left to look at, be it by a watcher that was switched off, or a session that has
\* marked and not yet set.
Pending(n) ==
  \/ n \in missed
  \/ signals[n] > 0
  \/ \E w \in Olds : old[n][w].signals > 0
  \/ \E e \in EndsAt(n) : handler[e].phase = "marked"

\* A watcher is about to remember what the clipboard holds.
AboutToMatch(n) ==
  /\ clipboard[n] # Empty
  /\ reading[n] = clipboard[n] \/ \E w \in Olds : old[n][w].content = clipboard[n]

\* GuardMatches made inductive.  A content that the watcher read and that is no
\* longer the clipboard's must have a later change behind it, since it will be
\* remembered; and an empty clipboard gives a signal no content to remember.
NodeGuard(n) ==
  /\ last_hash[n] = clipboard[n] \/ Pending(n) \/ AboutToMatch(n)
  /\ reading[n] # Empty => reading[n] = clipboard[n] \/ n \in missed \/ signals[n] > 0
  /\ clipboard[n] = Empty =>
       n \in missed \/ (signals[n] = 0 /\ \A w \in Olds : ~(old[n][w].signals > 0))

GuardInv == \A n \in Nodes : NodeGuard(n)

LEMMA GuardInit == Init => GuardInv
<1> SUFFICES ASSUME Init, NEW n \in Nodes
             PROVE  /\ last_hash[n] = clipboard[n] /\ reading[n] = Empty /\ signals[n] = 0
                    /\ \A w \in Olds : ~(old[n][w].signals > 0)
  BY DEF GuardInv, NodeGuard
<1>1. QED BY DEF Init, Gone

LEMMA GuardImplies == TypeOK /\ GuardInv => GuardMatches
<1> SUFFICES ASSUME TypeOK, GuardInv, NEW n \in Nodes, Still(n), n \notin missed
             PROVE  last_hash[n] = clipboard[n]
  BY DEF GuardMatches
<1>1. ~Pending(n) /\ ~AboutToMatch(n)
  BY DEF Pending, AboutToMatch, Still, Idle, Gone
<1>2. QED BY <1>1 DEF GuardInv, NodeGuard

\* A step that leaves n's clipboard, guard and watcher alone, forgets no missed
\* change of n and lets no handler at n out of its mark keeps the invariant at n.
LEMMA GuardUntouched ==
  ASSUME NEW n \in Nodes, NodeGuard(n),
         /\ clipboard'[n] = clipboard[n] /\ last_hash'[n] = last_hash[n]
         /\ signals'[n] = signals[n] /\ reading'[n] = reading[n] /\ old'[n] = old[n]
         /\ n \in missed => n \in missed'
         /\ \A e \in EndsAt(n) : handler[e].phase = "marked" => handler'[e].phase = "marked"
  PROVE  NodeGuard(n)'
<1>1. Pending(n) => Pending(n)'
  BY DEF Pending
<1>2. AboutToMatch(n) <=> AboutToMatch(n)'
  BY DEF AboutToMatch
<1>3. QED BY <1>1, <1>2 DEF NodeGuard

\* A step after which n has missed a change keeps the invariant at n.
LEMMA GuardMissed ==
  ASSUME NEW n \in Nodes, n \in missed'
  PROVE  NodeGuard(n)'
BY DEF NodeGuard, Pending

\* A change of n's clipboard that is signalled, or missed, keeps the invariant at n.
LEMMA GuardSignalled ==
  ASSUME TypeOK, NEW n \in Nodes, Signalled(n), clipboard'[n] # Empty
  PROVE  NodeGuard(n)'
<1>1. signals \in [Nodes -> 0 .. MaxSignals] /\ MaxSignals \in Nat \ {0}
  BY DEF TypeOK
<1>2. n \in missed' \/ signals'[n] > 0
  BY <1>1 DEF Signalled
<1>3. QED BY <1>2 DEF NodeGuard, Pending

\* What is signalled at one machine leaves the others alone.
LEMMA SignalledElsewhere ==
  ASSUME TypeOK, NEW m \in Nodes, Signalled(m), NEW n \in Nodes \ {m}
  PROVE  signals'[n] = signals[n] /\ (n \in missed => n \in missed')
BY DEF Signalled, TypeOK

LEMMA GuardCopy ==
  ASSUME TypeOK, GuardInv, NEW m \in Nodes, Copy(m), NEW n \in Nodes
  PROVE  NodeGuard(n)'
<1>1. CASE n = m
  <2>1. clipboard'[n] = copies' /\ copies' \in Nat /\ copies' # 0
    BY <1>1 DEF Copy, TypeOK
  <2>2. QED BY <1>1, <2>1, GuardSignalled DEF Copy
<1>2. CASE n # m
  <2>1. signals'[n] = signals[n] /\ (n \in missed => n \in missed')
    BY <1>2, SignalledElsewhere DEF Copy
  <2>2. clipboard'[n] = clipboard[n]
    BY <1>2 DEF Copy, TypeOK
  <2>3. QED BY <2>1, <2>2, GuardUntouched DEF Copy, slow, wire, GuardInv
<1>3. QED BY <1>1, <1>2

LEMMA GuardWatch ==
  ASSUME TypeOK, GuardInv, NEW m \in Nodes, Watching(m) \/ WatchMisses(m), NEW n \in Nodes
  PROVE  NodeGuard(n)'
<1>0. NodeGuard(n)
  BY DEF GuardInv
<1>1. CASE WatchMisses(m)
  <2>1. CASE n = m
    BY <1>1, <2>1, GuardMissed DEF WatchMisses
  <2>2. CASE n # m
    BY <1>0, <1>1, <2>2, GuardUntouched DEF WatchMisses, data, slow, wire, TypeOK
  <2>3. QED BY <2>1, <2>2
<1>2. CASE WatchReads(m)
  <2>1. CASE n = m /\ clipboard[n] = Empty
    <3>1. n \in missed /\ missed' = missed
      BY <1>0, <1>2, <2>1 DEF WatchReads, NodeGuard, TypeOK
    <3>2. QED BY <3>1, GuardMissed
  <2>2. CASE n = m /\ clipboard[n] # Empty
    <3>1. reading'[n] = clipboard'[n] /\ clipboard'[n] # Empty
      BY <1>2, <2>2 DEF WatchReads, data, TypeOK
    <3>2. QED BY <3>1 DEF NodeGuard, AboutToMatch
  <2>3. CASE n # m
    <3>1. n \in missed => n \in missed'
      BY <1>2, <2>3 DEF WatchReads
    <3>2. signals'[n] = signals[n] /\ reading'[n] = reading[n]
      BY <1>2, <2>3 DEF WatchReads, TypeOK
    <3>3. QED BY <1>0, <1>2, <3>1, <3>2, GuardUntouched DEF WatchReads, data, slow, wire
  <2>4. QED BY <2>1, <2>2, <2>3
<1>3. CASE WatchSends(m)
  <2>1. CASE n = m
    <3>1. /\ last_hash'[n] = reading[n] /\ reading'[n] = Empty /\ reading[n] # Empty
          /\ clipboard' = clipboard /\ signals' = signals /\ missed' = missed /\ old' = old
      BY <1>3, <2>1 DEF WatchSends, Broadcasts, Remembered, slow, TypeOK
    <3>2. last_hash'[n] = clipboard'[n] \/ n \in missed' \/ signals'[n] > 0
      BY <1>0, <3>1 DEF NodeGuard
    <3>3. QED BY <1>0, <3>1, <3>2 DEF NodeGuard, Pending
  <2>2. CASE n # m
    BY <1>0, <1>3, <2>2, GuardUntouched DEF WatchSends, Broadcasts, Remembered, slow, TypeOK
  <2>3. QED BY <2>1, <2>2
<1>4. QED BY <1>1, <1>2, <1>3 DEF Watching

\* What becomes of a watcher that was switched off, and of the others.
LEMMA OldDoes ==
  ASSUME TypeOK, NEW m \in Nodes, NEW v \in Olds, NEW s, NEW k,
         old' = [old EXCEPT ![m][v] = [signals |-> s, content |-> k]]
  PROVE  /\ old'[m][v].signals = s /\ old'[m][v].content = k
         /\ \A w \in Olds : w # v => old'[m][w] = old[m][w]
         /\ \A n \in Nodes : n # m => old'[n] = old[n]
BY DEF TypeOK

LEMMA GuardLingering ==
  ASSUME TypeOK, GuardInv, NEW m \in Nodes, NEW v \in Olds, Lingering(m, v), NEW n \in Nodes
  PROVE  NodeGuard(n)'
<1>0. NodeGuard(n) /\ old[m][v] \in [signals : 0 .. MaxSignals, content : Contents]
  BY DEF GuardInv, TypeOK
<1>1. PICK s, k : old' = [old EXCEPT ![m][v] = [signals |-> s, content |-> k]]
  <2>1. CASE OldReads(m, v)
    BY <2>1 DEF OldReads
  <2>2. CASE OldDrops(m, v)
    BY <2>2 DEF OldDrops
  <2>3. CASE OldSends(m, v)
    BY <2>3 DEF OldSends
  <2>4. QED BY <2>1, <2>2, <2>3 DEF Lingering
<1>2. /\ clipboard' = clipboard /\ signals' = signals /\ reading' = reading
      /\ handler' = handler /\ \A a \in missed : a \in missed'
  BY DEF Lingering, OldReads, OldDrops, OldSends, Overtakes, data, watch, wire
<1>3. CASE n # m
  <2>1. old'[n] = old[n]
    BY <1>1, <1>3, OldDoes
  <2>2. last_hash'[n] = last_hash[n]
    BY <1>3 DEF Lingering, OldReads, OldDrops, OldSends, Broadcasts, Remembered, data, TypeOK
  <2>3. QED BY <1>0, <1>2, <2>1, <2>2, GuardUntouched
<1>4. CASE n = m /\ OldDrops(m, v)
  BY <1>4, GuardMissed DEF OldDrops
<1>5. CASE n = m /\ OldReads(m, v)
  <2>1. CASE clipboard[n] = Empty
    <3>1. n \in missed
      BY <1>0, <1>5, <2>1 DEF NodeGuard, OldReads
    <3>2. QED BY <1>2, <3>1, GuardMissed
  <2>2. CASE clipboard[n] # Empty
    <3>1. old'[n][v].content = clipboard[n]
      <4>1. old' = [old EXCEPT ![n][v] =
                      [signals |-> old[n][v].signals - 1, content |-> clipboard[n]]]
        BY <1>5 DEF OldReads
      <4>2. old \in [Nodes -> [Olds -> [signals : 0 .. MaxSignals, content : Contents]]]
        BY DEF TypeOK
      <4> HIDE DEF Contents, Empty
      <4>3. QED BY <4>1, <4>2
    <3>2. AboutToMatch(n)'
      BY <1>2, <2>2, <3>1 DEF AboutToMatch
    <3>3. QED BY <1>0, <1>2, <2>2, <3>2 DEF NodeGuard
  <2>3. QED BY <2>1, <2>2
<1>6. CASE n = m /\ OldSends(m, v)
  <2>1. CASE old[n][v].content # clipboard[n]
    BY <1>6, <2>1, GuardMissed DEF OldSends, Overtakes
  <2>2. CASE old[n][v].content = clipboard[n]
    <3>1. last_hash'[n] = clipboard'[n]
      BY <1>2, <1>6, <2>2 DEF OldSends, Broadcasts, Remembered, TypeOK
    <3>2. clipboard[n] # Empty
      BY <1>6, <2>2 DEF OldSends
    <3>3. QED BY <1>0, <1>2, <3>1, <3>2 DEF NodeGuard
  <2>3. QED BY <2>1, <2>2
<1>7. QED BY <1>3, <1>4, <1>5, <1>6 DEF Lingering

\* What a handler at another machine does with itself leaves n's handlers alone.
LEMMA HandlersElsewhere ==
  ASSUME NEW e \in Ends, NEW n \in Nodes \ {e[1]}, NEW h,
         TypeOK, handler' = [handler EXCEPT ![e] = h]
  PROVE  \A d \in EndsAt(n) : handler'[d] = handler[d]
BY DEF EndsAt, TypeOK

LEMMA GuardHandling ==
  ASSUME TypeOK, GuardInv, NEW e \in Ends, Handling(e) \/ SetFails(e), NEW n \in Nodes
  PROVE  NodeGuard(n)'
<1>0. NodeGuard(n) /\ e[1] \in Nodes
  BY EndsAreAtNodes DEF GuardInv
<1>1. CASE Marks(e)
  <2>1. CASE n = e[1]
    <3>1. handler'[e].phase = "marked" /\ e \in EndsAt(n)
      BY <1>1, <2>1 DEF Marks, TypeOK, EndsAt
    <3>2. Pending(n)'
      BY <3>1 DEF Pending, EndsAt
    <3>3. QED BY <1>0, <1>1, <3>2 DEF Marks, watch, slow, NodeGuard
  <2>2. CASE n # e[1]
    <3>1. \A d \in EndsAt(n) : handler'[d] = handler[d]
      BY <1>1, <2>2, HandlersElsewhere DEF Marks
    <3>2. last_hash'[n] = last_hash[n]
      BY <1>1, <2>2 DEF Marks, Remembered, TypeOK
    <3>3. QED BY <1>0, <1>1, <3>1, <3>2, GuardUntouched DEF Marks, watch, slow
  <2>3. QED BY <2>1, <2>2
<1>2. CASE Sets(e)
  <2>1. CASE n = e[1]
    <3>1. clipboard'[n] = handler[e].content /\ handler[e].content # Empty
      BY <1>2, <2>1 DEF Sets, TypeOK
    <3>2. QED BY <1>2, <2>1, <3>1, GuardSignalled DEF Sets
  <2>2. CASE n # e[1]
    <3>1. signals'[n] = signals[n] /\ (n \in missed => n \in missed')
      BY <1>0, <1>2, <2>2, SignalledElsewhere DEF Sets
    <3>2. \A d \in EndsAt(n) : handler'[d] = handler[d]
      BY <1>2, <2>2, HandlersElsewhere DEF Sets, AfterSet
    <3>3. clipboard'[n] = clipboard[n]
      BY <1>2, <2>2 DEF Sets, TypeOK
    <3>4. QED BY <1>0, <1>2, <3>1, <3>2, <3>3, GuardUntouched DEF Sets, slow
  <2>3. QED BY <2>1, <2>2
<1>3. CASE SetFails(e)
  <2>1. CASE n = e[1]
    BY <1>3, <2>1, GuardMissed DEF SetFails
  <2>2. CASE n # e[1]
    <3>1. \A d \in EndsAt(n) : handler'[d] = handler[d]
      BY <1>3, <2>2, HandlersElsewhere DEF SetFails, AfterSet
    <3>2. clipboard'[n] = clipboard[n] /\ signals'[n] = signals[n]
      BY <1>3, <2>2 DEF SetFails, TypeOK
    <3>3. QED BY <1>0, <1>3, <3>1, <3>2, GuardUntouched DEF SetFails, slow
  <2>3. QED BY <2>1, <2>2
<1>4. CASE Relays(e)
  <2>1. \A d \in EndsAt(n) : handler[d].phase = "marked" => handler'[d].phase = "marked"
    BY <1>4 DEF Relays, TypeOK, EndsAt
  <2>2. QED BY <1>0, <1>4, <2>1, GuardUntouched DEF Relays, data, watch, slow
<1>5. QED BY <1>1, <1>2, <1>3, <1>4 DEF Handling

LEMMA GuardOther ==
  ASSUME TypeOK, GuardInv, NEW n \in Nodes,
         \/ \E h \in Hands : HandReads(h) \/ HandSends(h)
         \/ \E m \in Nodes : Switches(m)
         \/ \E c \in Clients : Breaks(c)
  PROVE  NodeGuard(n)'
<1>0. NodeGuard(n)
  BY DEF GuardInv
<1>1. ASSUME NEW h \in Hands, HandReads(h)
      PROVE  NodeGuard(n)'
  BY <1>0, <1>1, GuardUntouched DEF HandReads, data, watch, wire
<1>2. ASSUME NEW h \in Hands, HandSends(h)
      PROVE  NodeGuard(n)'
  <2>0. /\ clipboard' = clipboard /\ signals' = signals /\ reading' = reading /\ old' = old
        /\ handler' = handler /\ \A a \in missed : a \in missed'
    BY <1>2 DEF HandSends, Overtakes, watch
  <2>1. CASE n = Hub /\ hand[h] = clipboard[n]
    <3>1. last_hash'[n] = clipboard'[n]
      BY <1>2, <2>1 DEF HandSends, Remembered, TypeOK
    <3>2. QED BY <1>0, <2>0, <3>1 DEF NodeGuard
  <2>2. CASE n = Hub /\ hand[h] # clipboard[n]
    BY <1>2, <2>2, GuardMissed DEF HandSends, Overtakes
  <2>3. CASE n # Hub
    BY <1>0, <1>2, <2>0, <2>3, GuardUntouched DEF HandSends, Remembered, TypeOK
  <2>4. QED BY <2>1, <2>2, <2>3
<1>4. ASSUME NEW m \in Nodes, Switches(m)
      PROVE  NodeGuard(n)'
  <2>0. /\ clipboard' = clipboard /\ last_hash' = last_hash /\ missed' = missed
        /\ handler' = handler
    BY <1>4 DEF Switches, data, wire
  <2>1. CASE signals' = signals /\ reading' = reading /\ old' = old
    BY <1>0, <2>0, <2>1, GuardUntouched
  <2>2. CASE SwitchesOff(m) /\ n # m
    <3>1. old'[n] = old[n] /\ signals'[n] = signals[n] /\ reading'[n] = reading[n]
      BY <2>2 DEF SwitchesOff, TypeOK
    <3>2. QED BY <1>0, <2>0, <3>1, GuardUntouched
  <2>3. CASE SwitchesOff(m) /\ n = m
    <3>1. PICK v \in Olds :
            /\ old[n][v] = Gone
            /\ old' = [old EXCEPT ![n][v] = [signals |-> signals[n], content |-> reading[n]]]
      BY <2>3 DEF SwitchesOff
    <3>2. signals'[n] = 0 /\ reading'[n] = Empty
      BY <2>3 DEF SwitchesOff, TypeOK
    <3>3. /\ old'[n][v].signals = signals[n] /\ old'[n][v].content = reading[n]
          /\ \A w \in Olds : w # v => old'[n][w] = old[n][w]
      <4>1. old \in [Nodes -> [Olds -> [signals : 0 .. MaxSignals, content : Contents]]]
        BY DEF TypeOK
      <4> HIDE DEF Contents, Empty
      <4>2. QED BY <3>1, <4>1
    <3>4. ~(old[n][v].signals > 0) /\ old[n][v].content = Empty
      BY <3>1 DEF Gone
    <3>5. (\E w \in Olds : old[n][w].signals > 0) \/ signals[n] > 0
            => \E w \in Olds : old'[n][w].signals > 0
      BY <3>3, <3>4
    <3>6. Pending(n) => Pending(n)'
      BY <2>0, <3>5 DEF Pending
    <3>7. AboutToMatch(n) => AboutToMatch(n)'
      BY <2>0, <3>3, <3>4 DEF AboutToMatch
    <3>8. clipboard[n] = Empty =>
            n \in missed \/ \A w \in Olds : ~(old'[n][w].signals > 0)
      BY <1>0, <3>3 DEF NodeGuard
    <3>9. QED BY <1>0, <2>0, <3>2, <3>6, <3>7, <3>8 DEF NodeGuard
  <2>4. QED BY <1>4, <2>1, <2>2, <2>3 DEF Switches, SwitchesOn
<1>3. ASSUME NEW c \in Clients, Breaks(c)
      PROVE  NodeGuard(n)'
  BY <1>0, <1>3, GuardUntouched DEF Breaks, data, watch, slow
<1>5. QED BY <1>1, <1>2, <1>3, <1>4

LEMMA GuardNext == TypeOK /\ GuardInv /\ [Next]_vars => GuardInv'
<1> SUFFICES ASSUME TypeOK, GuardInv, [Next]_vars, NEW n \in Nodes
             PROVE  NodeGuard(n)'
  BY DEF GuardInv
<1>1. CASE UNCHANGED vars
  <2>1. NodeGuard(n)
    BY DEF GuardInv
  <2>2. QED BY <1>1, <2>1, GuardUntouched DEF vars, data, watch, slow, wire
<1>2. CASE Next
  BY <1>2, GuardCopy, GuardWatch, GuardLingering, GuardHandling, GuardOther DEF Next
<1>3. QED BY <1>1, <1>2

\* A machine at rest remembers what its clipboard holds, however many sessions
\* mark and set it beside its watcher.  Not after a set or a read that failed, a
\* change no watcher looked at because sync was switched off, and a send by hand or
\* a watcher that was switched off that remembered what had been replaced.
THEOREM GuardCorrect == Spec => []GuardMatches
<1>1. Init => TypeOK /\ GuardInv
  BY InitType, GuardInit
<1>2. TypeOK /\ GuardInv /\ [Next]_vars => (TypeOK /\ GuardInv)'
  BY NextType, GuardNext
<1>3. QED BY <1>1, <1>2, GuardImplies, PTL DEF Spec

--------------------------------------------------------------------------------
(* What only a user in a hurry brings about. *)

\* As long as the user waits for things to come to rest, no watcher that was
\* switched off is at work, and a send by hand has the machines to itself.
Alone ==
  /\ \A n \in Nodes : \A w \in Olds : old[n][w] = Gone
  /\ \A h \in Hands : hand[h] # Empty =>
       /\ Settled /\ hand[h] = clipboard[Hub]
       /\ \A g \in Hands : g # h => hand[g] = Empty

AloneInv == history # "raced" => Alone

--------------------------------------------------------------------------------
(* A wave. *)

\* As long as the user waits for things to come to rest, all that is on its way
\* is one content, w: it is sent, marked, set, read and relayed, and nothing else is.
Watched(n) == signals[n] > 0 \/ reading[n] # Empty

\* n's watcher is about to take w for something new.
Fresh(n, w) == Watched(n) /\ last_hash[n] # w

EndCarries(e, w) ==
  /\ channel[e] \in Seq({w})
  /\ handler[e].phase # "idle" => handler[e].content = w /\ last_hash[e[1]] = w
NodeCarries(n, w) ==
  /\ reading[n] \in {Empty, w}
  /\ signals[n] > 0 => clipboard[n] \in {Empty, w}
  /\ Fresh(n, w) => author[w] = n

Wave(w) ==
  /\ \A e \in Ends : EndCarries(e, w)
  /\ \A n \in Nodes : NodeCarries(n, w)

\* No copy is remembered before it was made.
Known == \A n \in Nodes : clipboard[n] <= copies /\ last_hash[n] <= copies

WaveInv == history # "raced" => Known /\ (Settled \/ \E w \in 1 .. copies : Wave(w))

LEMMA EndForms ==
  /\ \A e \in Ends : /\ e = <<e[1], e[2]>> /\ e[1] \in Nodes /\ e[2] \in Clients
                     /\ e[1] = Hub \/ e[1] = e[2]
                     /\ e \in EndsAt(e[1])
  /\ \A c \in Clients : <<Hub, c>> \in Ends /\ <<c, c>> \in Ends
  /\ \A c \in Clients : c \in Nodes /\ c # Hub
  /\ Hub \in Nodes
  /\ \A n \in Nodes : EndsAt(n) \subseteq Ends
BY DEF Ends, EndsAt, Nodes

\* What the variables of a wave are.
LEMMA WaveTypes ==
  ASSUME TypeOK
  PROVE  /\ \A n \in Nodes : /\ clipboard[n] \in Nat /\ last_hash[n] \in Nat
                             /\ signals[n] \in Nat /\ reading[n] \in Nat
         /\ \A e \in Ends : /\ handler[e].phase \in {"idle", "marked", "set"}
                            /\ channel[e] \in Seq(Contents \ {Empty})
         /\ copies \in Nat
BY DEF TypeOK

\* While anything is on its way, things are not at rest.
LEMMA NotQuiet ==
  ASSUME TypeOK,
         \/ \E n \in Nodes : Watched(n)
         \/ \E e \in Ends : channel[e] # <<>> \/ handler[e].phase # "idle"
  PROVE  ~Settled
BY EndForms, WaveTypes DEF Settled, Still, Watched, Idle

--------------------------------------------------------------------------------
(* What each step does, at each machine and end. *)

LEMMA ReadsDo ==
  ASSUME TypeOK, NEW n \in Nodes, WatchReads(n), NEW m \in Nodes
  PROVE  /\ signals'[m] = IF m = n THEN signals[n] - 1 ELSE signals[m]
         /\ reading'[m] = IF m = n THEN clipboard[n] ELSE reading[m]
BY DEF WatchReads, TypeOK

LEMMA SendsDo ==
  ASSUME TypeOK, NEW n \in Nodes, WatchSends(n)
  PROVE  /\ \A m \in Nodes :
              /\ reading'[m] = IF m = n THEN Empty ELSE reading[m]
              /\ last_hash'[m] = IF m = n THEN reading[n] ELSE last_hash[m]
         /\ \A e \in Ends :
              channel'[e] = IF e \in Peers(n) /\ last_hash[n] # reading[n]
                            THEN Append(channel[e], reading[n]) ELSE channel[e]
<1>1. \A m \in Nodes :
        /\ reading'[m] = IF m = n THEN Empty ELSE reading[m]
        /\ last_hash'[m] = IF m = n THEN reading[n] ELSE last_hash[m]
  BY DEF WatchSends, Broadcasts, Remembered, TypeOK
<1>2. CASE last_hash[n] # reading[n]
  BY <1>1, <1>2 DEF WatchSends, Broadcasts, ShouldBroadcast, Sent
<1>3. CASE last_hash[n] = reading[n]
  BY <1>1, <1>3 DEF WatchSends, Broadcasts, ShouldBroadcast
<1>4. QED BY <1>2, <1>3

LEMMA MarksDo ==
  ASSUME TypeOK, NEW e \in Ends, Marks(e)
  PROVE  /\ channel'[e] = Tail(channel[e])
         /\ handler'[e].phase = "marked" /\ handler'[e].content = Head(channel[e])
         /\ \A d \in Ends : d # e => channel'[d] = channel[d] /\ handler'[d] = handler[d]
         /\ \A n \in Nodes :
              last_hash'[n] = IF n = e[1] THEN Head(channel[e]) ELSE last_hash[n]
BY DEF Marks, Remembered, TypeOK

\* What the handler becomes after a set, done or failed.
LEMMA AfterSetDoes ==
  ASSUME TypeOK, NEW e \in Ends, AfterSet(e), handler[e].phase = "marked"
  PROVE  /\ e[1] = Hub => /\ handler'[e].phase = "set"
                          /\ handler'[e].content = handler[e].content
         /\ e[1] # Hub => handler'[e].phase = "idle"
         /\ \A d \in Ends : d # e => handler'[d] = handler[d]
BY DEF AfterSet, TypeOK, Idle

LEMMA SignalDoes ==
  ASSUME TypeOK, NEW n \in Nodes, NEW m \in Nodes,
         signals' = [signals EXCEPT ![n] = IF sync[n] /\ @ < MaxSignals THEN @ + 1 ELSE @]
  PROVE  m # n => signals'[m] = signals[m]
BY DEF TypeOK

LEMMA RelaysDo ==
  ASSUME TypeOK, NEW e \in Ends, Relays(e)
  PROVE  \A d \in Ends :
           /\ channel'[d] = IF d \in Siblings(e[2]) THEN Append(channel[d], handler[e].content)
                            ELSE channel[d]
           /\ handler'[d] = IF d = e THEN Idle ELSE handler[d]
BY DEF Relays, Sent, TypeOK

LEMMA SeqOfOne ==
  ASSUME NEW w
  PROVE  \A q \in Seq({w}) : /\ Append(q, w) \in Seq({w})
                             /\ q # <<>> => Head(q) = w /\ Tail(q) \in Seq({w})
OBVIOUS

--------------------------------------------------------------------------------
(* A wave goes on. *)

LEMMA SentArrives ==
  ASSUME TypeOK, NEW w \in 1 .. copies, NEW e \in Ends
  PROVE  Append(channel[e], w) # <<>>
<1>1. w \in Contents \ {Empty} /\ channel[e] \in Seq(Contents \ {Empty})
  BY DEF TypeOK
<1> HIDE DEF Contents, Empty
<1>2. Len(Append(channel[e], w)) = Len(channel[e]) + 1 /\ Len(channel[e]) \in Nat
  BY <1>1, AppendType
<1>3. QED BY <1>2

LEMMA WaveReads ==
  ASSUME TypeOK, NEW w \in 1 .. copies, Wave(w), Known, NEW n \in Nodes,
         WatchReads(n) \/ WatchMisses(n)
  PROVE  Wave(w)' /\ Known'
<1>1. /\ clipboard' = clipboard /\ last_hash' = last_hash /\ copies' = copies
      /\ channel' = channel /\ handler' = handler /\ author' = author
  BY DEF WatchReads, WatchMisses, data, wire, bounds, trail
<1>2. ASSUME NEW m \in Nodes
      PROVE  NodeCarries(m, w)'
  <2>1. NodeCarries(m, w) /\ signals[n] > 0 /\ signals[m] \in Nat
    BY WaveTypes DEF Wave, WatchReads, WatchMisses
  <2>2. CASE WatchReads(n)
    <3>1. /\ signals'[m] = IF m = n THEN signals[n] - 1 ELSE signals[m]
          /\ reading'[m] = IF m = n THEN clipboard[n] ELSE reading[m]
      BY <2>2, ReadsDo
    <3>2. signals'[m] > 0 => signals[m] > 0
      BY <2>1, <3>1
    <3>3. QED BY <1>1, <2>1, <3>1, <3>2 DEF NodeCarries, Fresh, Watched
  <2>3. CASE WatchMisses(n)
    <3>1. /\ signals'[m] = IF m = n THEN signals[n] - 1 ELSE signals[m]
          /\ reading' = reading
      BY <2>3 DEF WatchMisses, TypeOK
    <3>2. signals'[m] > 0 => signals[m] > 0
      BY <2>1, <3>1
    <3>3. QED BY <1>1, <2>1, <3>1, <3>2 DEF NodeCarries, Fresh, Watched
  <2>4. QED BY <2>2, <2>3
<1>3. ASSUME NEW e \in Ends
      PROVE  EndCarries(e, w)'
  BY <1>1 DEF Wave, EndCarries
<1>4. QED BY <1>1, <1>2, <1>3 DEF Wave, Known

LEMMA WaveSends ==
  ASSUME TypeOK, NEW w \in 1 .. copies, Wave(w), Known, NEW n \in Nodes, WatchSends(n)
  PROVE  /\ Wave(w)' /\ Known'
         /\ reading[n] = w /\ (last_hash[n] # w => author[w] = n)
<1>1. /\ clipboard' = clipboard /\ signals' = signals /\ copies' = copies
      /\ handler' = handler /\ author' = author /\ reading[n] # Empty
  BY DEF WatchSends, trail
<1>2. NodeCarries(n, w)
  BY DEF Wave
<1>3. reading[n] = w /\ (last_hash[n] # w => author[w] = n)
  BY <1>1, <1>2 DEF NodeCarries, Fresh, Watched
<1>4. ASSUME NEW m \in Nodes
      PROVE  NodeCarries(m, w)' /\ (clipboard[m] <= copies /\ last_hash[m] <= copies)'
  <2>1. /\ reading'[m] = IF m = n THEN Empty ELSE reading[m]
        /\ last_hash'[m] = IF m = n THEN w ELSE last_hash[m]
    BY <1>3, SendsDo
  <2>2. NodeCarries(m, w) /\ w <= copies /\ clipboard[m] <= copies /\ last_hash[m] <= copies
    BY DEF Wave, Known
  <2>3. NodeCarries(m, w)'
    BY <1>1, <2>1, <2>2 DEF NodeCarries, Fresh, Watched
  <2>4. QED BY <1>1, <2>1, <2>2, <2>3
<1>5. ASSUME NEW e \in Ends
      PROVE  EndCarries(e, w)'
  <2>1. EndCarries(e, w) /\ e[1] \in Nodes
    BY EndForms DEF Wave
  <2>2. channel'[e] = Append(channel[e], w) \/ channel'[e] = channel[e]
    BY <1>3, SendsDo
  <2>a. \A q \in Seq({w}) : Append(q, w) \in Seq({w})
    BY SeqOfOne
  <2>3. channel'[e] \in Seq({w})
    BY <2>1, <2>2, <2>a, Zenon DEF EndCarries
  <2>4. last_hash'[e[1]] = last_hash[e[1]] \/ last_hash'[e[1]] = w
    BY <1>3, <2>1, SendsDo
  <2>5. QED BY <1>1, <2>1, <2>3, <2>4 DEF EndCarries
<1>6. QED BY <1>3, <1>4, <1>5 DEF Wave, Known

LEMMA WaveMarks ==
  ASSUME TypeOK, NEW w \in 1 .. copies, Wave(w), Known, NEW e \in Ends, Marks(e)
  PROVE  Wave(w)' /\ Known' /\ Head(channel[e]) = w
<1>1. /\ clipboard' = clipboard /\ signals' = signals /\ reading' = reading
      /\ copies' = copies /\ author' = author /\ channel[e] # <<>>
  BY DEF Marks, watch, bounds, trail
<1>2. Head(channel[e]) = w /\ Tail(channel[e]) \in Seq({w})
  BY <1>1, SeqOfOne DEF Wave, EndCarries
<1>3. \A n \in Nodes : last_hash'[n] = IF n = e[1] THEN w ELSE last_hash[n]
  BY <1>2, MarksDo
<1>4. ASSUME NEW m \in Nodes
      PROVE  NodeCarries(m, w)' /\ (clipboard[m] <= copies /\ last_hash[m] <= copies)'
  <2>1. NodeCarries(m, w) /\ w <= copies /\ clipboard[m] <= copies /\ last_hash[m] <= copies
    BY DEF Wave, Known
  <2>2. NodeCarries(m, w)'
    BY <1>1, <1>3, <2>1 DEF NodeCarries, Fresh, Watched
  <2>3. QED BY <1>1, <1>3, <2>1, <2>2
<1>5. ASSUME NEW d \in Ends
      PROVE  EndCarries(d, w)'
  <2>1. EndCarries(d, w) /\ d[1] \in Nodes
    BY EndForms DEF Wave
  <2>2. CASE d = e
    <3>1. channel'[d] = Tail(channel[e]) /\ handler'[d].content = w /\ last_hash'[d[1]] = w
      BY <1>2, <1>3, <2>1, <2>2, MarksDo
    <3>2. QED BY <1>2, <3>1 DEF EndCarries
  <2>3. CASE d # e
    <3>1. channel'[d] = channel[d] /\ handler'[d] = handler[d]
      BY <2>3, MarksDo
    <3>2. QED BY <1>3, <2>1, <3>1 DEF EndCarries
  <2>4. QED BY <2>2, <2>3
<1>6. QED BY <1>2, <1>4, <1>5 DEF Wave, Known

LEMMA WaveSets ==
  ASSUME TypeOK, NEW w \in 1 .. copies, Wave(w), Known, NEW e \in Ends,
         Sets(e) \/ SetFails(e)
  PROVE  Wave(w)' /\ Known'
<1>1. /\ last_hash' = last_hash /\ reading' = reading /\ channel' = channel
      /\ copies' = copies /\ author' = author
      /\ handler[e].phase = "marked" /\ AfterSet(e)
  BY DEF Sets, SetFails, bounds, trail
<1>2. handler[e].content = w /\ last_hash[e[1]] = w /\ e[1] \in Nodes
  BY <1>1, EndForms DEF Wave, EndCarries
<1>3. \A m \in Nodes :
        /\ m # e[1] => clipboard'[m] = clipboard[m] /\ signals'[m] = signals[m]
        /\ \/ clipboard'[m] \in {Empty, w}
           \/ clipboard'[m] = clipboard[m] /\ signals'[m] = signals[m]
  <2>1. CASE Sets(e)
    <3>1. /\ clipboard' = [clipboard EXCEPT ![e[1]] = w]
          /\ signals' = [signals EXCEPT ![e[1]] =
               IF sync[e[1]] /\ @ < MaxSignals THEN @ + 1 ELSE @]
      BY <1>2, <2>1 DEF Sets, Signalled
    <3>2. \A m \in Nodes : m # e[1] => signals'[m] = signals[m]
      BY <1>2, <3>1, SignalDoes
    <3>3. QED BY <1>2, <3>1, <3>2 DEF TypeOK
  <2>2. CASE SetFails(e)
    <3>1. CASE UNCHANGED <<clipboard, signals>>
      BY <3>1
    <3>2. CASE /\ clipboard' = [clipboard EXCEPT ![e[1]] = Empty]
               /\ signals' = [signals EXCEPT ![e[1]] =
                    IF sync[e[1]] /\ @ < MaxSignals THEN @ + 1 ELSE @]
      <4>1. \A m \in Nodes : m # e[1] => signals'[m] = signals[m]
        BY <1>2, <3>2, SignalDoes
      <4>2. QED BY <1>2, <3>2, <4>1 DEF TypeOK
    <3>3. QED BY <2>2, <3>1, <3>2 DEF SetFails
  <2>3. QED BY <2>1, <2>2
<1>4. ASSUME NEW m \in Nodes
      PROVE  NodeCarries(m, w)' /\ (clipboard[m] <= copies /\ last_hash[m] <= copies)'
  <2>1. NodeCarries(m, w) /\ w <= copies /\ clipboard[m] <= copies /\ last_hash[m] <= copies
    BY DEF Wave, Known
  <2>2. 0 <= copies
    BY WaveTypes
  <2>3. CASE m = e[1]
    BY <1>1, <1>2, <1>3, <2>1, <2>2, <2>3 DEF NodeCarries, Fresh, Watched
  <2>4. CASE m # e[1]
    BY <1>1, <1>3, <2>1, <2>4 DEF NodeCarries, Fresh, Watched
  <2>5. QED BY <2>3, <2>4
<1>5. ASSUME NEW d \in Ends
      PROVE  EndCarries(d, w)'
  <2>1. EndCarries(d, w)
    BY DEF Wave
  <2>2. handler'[d].phase # "idle" =>
          handler[d].phase # "idle" /\ handler'[d].content = handler[d].content
    BY <1>1, AfterSetDoes
  <2>3. QED BY <1>1, <2>1, <2>2 DEF EndCarries
<1>6. QED BY <1>4, <1>5 DEF Wave, Known

LEMMA WaveRelays ==
  ASSUME TypeOK, NEW w \in 1 .. copies, Wave(w), Known, NEW e \in Ends, Relays(e)
  PROVE  Wave(w)' /\ Known' /\ handler[e].content = w
<1>1. /\ clipboard' = clipboard /\ last_hash' = last_hash
      /\ signals' = signals /\ reading' = reading
      /\ copies' = copies /\ author' = author /\ handler[e].phase = "set"
  BY DEF Relays, data, watch, bounds, trail
<1>2. handler[e].content = w
  BY <1>1 DEF Wave, EndCarries
<1>3. ASSUME NEW d \in Ends
      PROVE  EndCarries(d, w)'
  <2>1. EndCarries(d, w)
    BY DEF Wave
  <2>2. channel'[d] = Append(channel[d], w) \/ channel'[d] = channel[d]
    BY <1>2, RelaysDo
  <2>a. \A q \in Seq({w}) : Append(q, w) \in Seq({w})
    BY SeqOfOne
  <2>3. channel'[d] \in Seq({w})
    BY <2>1, <2>2, <2>a, Zenon DEF EndCarries
  <2>4. handler'[d] = handler[d] \/ handler'[d].phase = "idle"
    BY RelaysDo DEF Idle
  <2>5. QED BY <1>1, <2>1, <2>3, <2>4 DEF EndCarries
<1>4. \A m \in Nodes : NodeCarries(m, w)'
  BY <1>1 DEF Wave, NodeCarries, Fresh, Watched
<1>5. QED BY <1>1, <1>2, <1>3, <1>4 DEF Wave, Known

LEMMA WaveBreaks ==
  ASSUME TypeOK, NEW w \in 1 .. copies, Wave(w), Known, NEW c \in Clients, Breaks(c)
  PROVE  Wave(w)' /\ Known'
<1>1. /\ clipboard' = clipboard /\ last_hash' = last_hash
      /\ signals' = signals /\ reading' = reading
      /\ copies' = copies /\ author' = author /\ handler' = handler
  BY DEF Breaks, data, watch, trail
<1>2. \A d \in Ends : channel'[d] = <<>> \/ channel'[d] = channel[d]
  BY DEF Breaks
<1>3. ASSUME NEW d \in Ends
      PROVE  EndCarries(d, w)'
  <2>1. EndCarries(d, w) /\ <<>> \in Seq({w})
    BY DEF Wave
  <2>2. channel'[d] \in Seq({w})
    BY <1>2, <2>1, Zenon DEF EndCarries
  <2>3. QED BY <1>1, <2>1, <2>2 DEF EndCarries
<1>4. \A m \in Nodes : NodeCarries(m, w)'
  BY <1>1 DEF Wave, NodeCarries, Fresh, Watched
<1>5. QED BY <1>1, <1>3, <1>4 DEF Wave, Known

--------------------------------------------------------------------------------
(* A wave begins. *)

\* What the user does keeps the history only when things are at rest.
LEMMA UserWaits ==
  ASSUME Disturbs, history' # "raced"
  PROVE  /\ Quiet /\ Settled /\ history' = history
         /\ \A h \in Hands : hand[h] = Empty
BY DEF Disturbs, Quiet

LEMMA AtRest ==
  ASSUME Settled
  PROVE  /\ \A n \in Nodes : signals[n] = 0 /\ reading[n] = Empty
         /\ \A e \in Ends : channel[e] = <<>> /\ handler[e] = Idle
BY EndForms DEF Settled, Still

LEMMA WaveCopy ==
  ASSUME TypeOK, Known, NEW n \in Nodes, Copy(n), history' # "raced",
         NEW w, w = copies'
  PROVE  w \in 1 .. copies' /\ Wave(w)' /\ Known'
<1>1. Settled /\ history' = history
  BY UserWaits DEF Copy
<1>2. copies \in Nat /\ w = copies + 1 /\ w \in 1 .. MaxActs
  BY DEF Copy, Acts, TypeOK
<1>3. /\ last_hash' = last_hash /\ reading' = reading
      /\ channel' = channel /\ handler' = handler
      /\ author' = [author EXCEPT ![w] = n]
      /\ clipboard' = [clipboard EXCEPT ![n] = w]
      /\ Signalled(n)
  BY <1>1 DEF Copy, wire
<1>4. author'[w] = n
  BY <1>2, <1>3 DEF TypeOK
<1>5. ASSUME NEW m \in Nodes
      PROVE  NodeCarries(m, w)' /\ (clipboard[m] <= copies /\ last_hash[m] <= copies)'
  <2>1. signals[m] = 0 /\ reading[m] = Empty
    BY <1>1, AtRest
  <2>2. clipboard[m] <= copies /\ last_hash[m] <= copies
        /\ clipboard[m] \in Nat /\ last_hash[m] \in Nat
    BY WaveTypes DEF Known
  <2>3. CASE m = n
    <3>1. clipboard'[m] = w
      BY <1>3, <2>3 DEF TypeOK
    <3>2. NodeCarries(m, w)'
      BY <1>3, <1>4, <2>1, <2>3, <3>1 DEF NodeCarries
    <3>3. QED BY <1>2, <1>3, <2>2, <3>1, <3>2
  <2>4. CASE m # n
    <3>1. clipboard'[m] = clipboard[m] /\ signals'[m] = signals[m]
      <4>1. signals'[m] = signals[m]
        BY <1>3, <2>4, SignalledElsewhere
      <4>2. QED BY <1>3, <2>4, <4>1 DEF TypeOK
    <3>2. NodeCarries(m, w)'
      BY <1>3, <2>1, <3>1 DEF NodeCarries, Fresh, Watched
    <3>3. QED BY <1>2, <1>3, <2>2, <3>1, <3>2
  <2>5. QED BY <2>3, <2>4
<1>6. ASSUME NEW e \in Ends
      PROVE  EndCarries(e, w)'
  <2>1. channel[e] = <<>> /\ handler[e] = Idle
    BY <1>1, AtRest
  <2>2. QED BY <1>3, <2>1 DEF EndCarries, Idle
<1>7. QED BY <1>2, <1>5, <1>6 DEF Wave, Known

LEMMA WaveByHand ==
  ASSUME TypeOK, Known, AloneInv, NEW h \in Hands, HandSends(h), history' # "raced",
         NEW w, w = hand[h]
  PROVE  w \in 1 .. copies /\ Wave(w)' /\ Known' /\ copies' = copies
<1>1. Settled /\ history' = history /\ w = clipboard[Hub]
  BY DEF HandSends, AloneInv, Alone
<1>2. /\ clipboard' = clipboard /\ signals' = signals /\ reading' = reading
      /\ handler' = handler /\ copies' = copies
      /\ last_hash' = [last_hash EXCEPT ![Hub] = w] /\ w # Empty
  BY DEF HandSends, Remembered, watch, bounds
<1>3. w \in 1 .. copies
  BY <1>1, <1>2, EndForms, WaveTypes DEF Known
<1>4. ASSUME NEW m \in Nodes
      PROVE  NodeCarries(m, w)' /\ (clipboard[m] <= copies /\ last_hash[m] <= copies)'
  <2>1. signals[m] = 0 /\ reading[m] = Empty
    BY <1>1, AtRest
  <2>2. clipboard[m] <= copies /\ last_hash[m] <= copies
    BY DEF Known
  <2>3. last_hash'[m] = last_hash[m] \/ last_hash'[m] = w
    BY <1>2 DEF TypeOK
  <2>4. NodeCarries(m, w)'
    BY <1>2, <2>1 DEF NodeCarries, Fresh, Watched
  <2>5. QED BY <1>2, <1>3, <2>2, <2>3, <2>4
<1>5. ASSUME NEW e \in Ends
      PROVE  EndCarries(e, w)'
  <2>1. channel[e] = <<>> /\ handler[e] = Idle
    BY <1>1, AtRest
  <2>2. channel'[e] = channel[e] \/ channel'[e] = Append(channel[e], w)
    BY DEF HandSends, Sent
  <2>3. <<>> \in Seq({w}) /\ Append(<<>>, w) \in Seq({w})
    OBVIOUS
  <2>4. channel'[e] \in Seq({w})
    BY <2>1, <2>2, <2>3
  <2>5. QED BY <1>2, <1>3, <2>1, <2>4 DEF EndCarries, Idle
<1>6. Wave(w)'
  BY <1>3, <1>4, <1>5 DEF Wave
<1>7. QED BY <1>2, <1>3, <1>4, <1>6 DEF Known

\* The command only reads, and nothing is on its way yet.
LEMMA WaveReadByHand ==
  ASSUME TypeOK, Known, NEW h \in Hands, HandReads(h), history' # "raced"
  PROVE  Settled' /\ Known'
<1>1. Settled
  BY UserWaits DEF HandReads
<1>2. QED BY <1>1 DEF HandReads, data, watch, wire, Settled, Still, Known

LEMMA WaveSwitches ==
  ASSUME TypeOK, Known, NEW n \in Nodes, Switches(n), history' # "raced"
  PROVE  Settled' /\ Known'
<1>1. Settled /\ history' = history
  BY UserWaits DEF Switches
<1>2. /\ clipboard' = clipboard /\ last_hash' = last_hash
      /\ channel' = channel /\ handler' = handler /\ copies' = copies
  BY DEF Switches, data, wire
<1>3. /\ \A m \in Nodes : signals[m] = 0 /\ reading[m] = Empty
      /\ \A m \in Nodes : \A w \in Olds : old[m][w] = Gone
  BY <1>1 DEF Settled, Still
<1>4. \A m \in Nodes : signals'[m] = 0 /\ reading'[m] = Empty
  BY <1>3, SwitchDoes DEF TypeOK
<1>5. \A m \in Nodes : \A w \in Olds : old'[m][w] = Gone
  <2>1. CASE old' = old
    BY <1>3, <2>1
  <2>2. ASSUME NEW v \in Olds, old' = [old EXCEPT ![n][v] = Gone]
        PROVE  \A m \in Nodes : \A w \in Olds : old'[m][w] = Gone
    BY <1>3, <2>2 DEF TypeOK
  <2>3. [signals |-> signals[n], content |-> reading[n]] = Gone
    BY <1>3 DEF Gone
  <2>4. QED BY <2>1, <2>2, <2>3, SwitchDoes
<1>6. QED BY <1>1, <1>2, <1>4, <1>5 DEF Settled, Still, Known

--------------------------------------------------------------------------------
(* A machine broadcasts what its own user copied. *)

\* A step of a watcher, a session task or a failure.
Moves ==
  \/ \E n \in Nodes : Watching(n) \/ WatchMisses(n)
  \/ \E e \in Ends : Handling(e) \/ SetFails(e)
  \/ \E c \in Clients : Breaks(c)

LEMMA MovesAreBusy ==
  ASSUME TypeOK, Moves
  PROVE  ~Settled /\ (history' # "raced" => history # "raced")
<1>1. \/ \E n \in Nodes : Watched(n)
      \/ \E e \in Ends : channel[e] # <<>> \/ handler[e].phase # "idle"
  BY DEF Moves, Watching, WatchReads, WatchMisses, WatchSends, Watched,
         Handling, Marks, Sets, SetFails, Relays, Breaks
<1>2. history' = history \/ Loses
  BY DEF Moves, Watching, WatchReads, WatchMisses, WatchSends,
         Handling, Marks, Sets, SetFails, Relays, Breaks
<1>3. QED BY <1>1, <1>2, NotQuiet DEF Loses

LEMMA WaveMoves ==
  ASSUME TypeOK, NEW w \in 1 .. copies, Wave(w), Known, Moves
  PROVE  Wave(w)' /\ Known' /\ copies' = copies
<1>1. copies' = copies
  BY DEF Moves, Watching, WatchReads, WatchMisses, WatchSends,
         Handling, Marks, Sets, SetFails, Relays, Breaks, bounds
<1>2. QED
  BY <1>1, WaveReads, WaveSends, WaveMarks, WaveSets, WaveRelays, WaveBreaks
  DEF Moves, Watching, Handling

LEMMA WaveInit == Init => WaveInv
<1> SUFFICES ASSUME Init PROVE Known /\ Settled
  BY DEF WaveInv
<1>1. QED BY EndForms DEF Init, Known, Settled, Still

LEMMA AloneInit == Init => AloneInv
BY DEF Init, AloneInv, Alone

\* Nothing but a send by hand goes on once it has begun.
LEMMA AloneNext == TypeOK /\ AloneInv /\ [Next]_vars => AloneInv'
<1> SUFFICES ASSUME TypeOK, AloneInv, [Next]_vars, history' # "raced"
             PROVE  Alone'
  BY DEF AloneInv
<1>1. CASE UNCHANGED vars
  BY <1>1 DEF AloneInv, Alone, Settled, Still, vars, data, watch, slow, wire
<1>2. CASE Moves
  <2>1. ~Settled /\ history # "raced"
    BY <1>2, MovesAreBusy
  <2>2. Alone /\ old' = old /\ hand' = hand
    BY <1>2, <2>1 DEF AloneInv, Moves, Watching, WatchReads, WatchMisses, WatchSends,
       Handling, Marks, Sets, SetFails, Relays, Breaks, slow
  <2>3. QED BY <2>1, <2>2 DEF Alone
<1>3. ASSUME NEW n \in Nodes, Copy(n)
      PROVE  Alone'
  BY <1>3, UserWaits DEF Copy, slow, Alone, Settled, Still
<1>4. ASSUME NEW n \in Nodes, Switches(n)
      PROVE  Alone'
  <2>1. /\ \A h \in Hands : hand[h] = Empty
        /\ hand' = hand
        /\ \A m \in Nodes : signals[m] = 0 /\ reading[m] = Empty
        /\ \A m \in Nodes : \A w \in Olds : old[m][w] = Gone
    BY <1>4, UserWaits DEF Switches, Settled, Still
  <2>2. \A m \in Nodes : \A w \in Olds : old'[m][w] = Gone
    <3>1. CASE old' = old
      BY <2>1, <3>1
    <3>2. ASSUME NEW v \in Olds, old' = [old EXCEPT ![n][v] = Gone]
          PROVE  \A m \in Nodes : \A w \in Olds : old'[m][w] = Gone
      BY <2>1, <3>2 DEF TypeOK
    <3>3. [signals |-> signals[n], content |-> reading[n]] = Gone
      BY <2>1 DEF Gone
    <3>4. QED BY <1>4, <3>1, <3>2, <3>3, SwitchDoes
  <2>3. QED BY <2>1, <2>2 DEF Alone
<1>5. ASSUME NEW h \in Hands, HandReads(h)
      PROVE  Alone'
  <2>1. Settled /\ \A g \in Hands : hand[g] = Empty
    BY <1>5, UserWaits DEF HandReads
  <2>2. Settled' /\ clipboard' = clipboard /\ old' = old
    BY <1>5, <2>1 DEF HandReads, data, watch, wire, Settled, Still
  <2>3. \A g \in Hands : hand'[g] = IF g = h THEN clipboard[Hub] ELSE Empty
    BY <1>5, <2>1 DEF HandReads, TypeOK
  <2>4. \A n \in Nodes : \A w \in Olds : old[n][w] = Gone
    BY <2>1 DEF Settled, Still
  <2>5. QED BY <2>2, <2>3, <2>4 DEF Alone
<1>6. ASSUME NEW h \in Hands, HandSends(h)
      PROVE  Alone'
  <2>1. Alone /\ old' = old
    BY <1>6 DEF HandSends, AloneInv
  <2>2. \A g \in Hands : hand'[g] = Empty
    BY <1>6, <2>1 DEF HandSends, Alone, TypeOK
  <2>3. QED BY <2>1, <2>2 DEF Alone
<1>7. ASSUME NEW n \in Nodes, NEW w \in Olds, Lingering(n, w)
      PROVE  Alone'
  <2>1. old[n][w] # Gone /\ history' = history
    BY <1>7 DEF Lingering, OldReads, OldDrops, OldSends, Gone
  <2>2. QED BY <2>1 DEF AloneInv, Alone
<1>8. QED BY <1>1, <1>2, <1>3, <1>4, <1>5, <1>6, <1>7 DEF Next, Moves

LEMMA WaveNext == TypeOK /\ AloneInv /\ WaveInv /\ [Next]_vars => WaveInv'
<1> SUFFICES ASSUME TypeOK, AloneInv, WaveInv, [Next]_vars, history' # "raced"
             PROVE  (Known /\ (Settled \/ \E w \in 1 .. copies : Wave(w)))'
  BY DEF WaveInv
<1>1. CASE UNCHANGED vars
  BY <1>1 DEF WaveInv, Known, Settled, Still, Wave, EndCarries, NodeCarries, Fresh, Watched,
              vars, data, watch, slow, wire, bounds, trail
<1>2. CASE Moves
  <2>1. ~Settled /\ history # "raced"
    BY <1>2, MovesAreBusy
  <2>2. PICK w \in 1 .. copies : Wave(w)
    BY <2>1 DEF WaveInv
  <2>3. Wave(w)' /\ Known' /\ copies' = copies
    BY <1>2, <2>1, <2>2, WaveMoves DEF WaveInv
  <2>4. QED BY <2>3
<1>3. ASSUME NEW n \in Nodes, Copy(n)
      PROVE  (Known /\ (Settled \/ \E w \in 1 .. copies : Wave(w)))'
  <2>1. Known
    BY <1>3, UserWaits DEF Copy, WaveInv
  <2>2. ASSUME NEW w, w = copies'
        PROVE  w \in 1 .. copies' /\ Wave(w)' /\ Known'
    BY <1>3, <2>1, <2>2, WaveCopy
  <2>3. \E w : w = copies'
    OBVIOUS
  <2>4. QED BY <2>2, <2>3
<1>4. ASSUME NEW n \in Nodes, Switches(n)
      PROVE  (Known /\ (Settled \/ \E w \in 1 .. copies : Wave(w)))'
  BY <1>4, UserWaits, WaveSwitches DEF Switches, WaveInv
<1>5. ASSUME NEW h \in Hands, HandReads(h)
      PROVE  (Known /\ (Settled \/ \E w \in 1 .. copies : Wave(w)))'
  BY <1>5, UserWaits, WaveReadByHand DEF HandReads, WaveInv
<1>6. ASSUME NEW h \in Hands, HandSends(h)
      PROVE  (Known /\ (Settled \/ \E w \in 1 .. copies : Wave(w)))'
  <2>1. Known
    BY <1>6 DEF HandSends, WaveInv
  <2>2. ASSUME NEW w, w = hand[h]
        PROVE  w \in 1 .. copies' /\ Wave(w)' /\ Known'
    BY <1>6, <2>1, <2>2, WaveByHand
  <2>3. \E w : w = hand[h]
    OBVIOUS
  <2>4. QED BY <2>2, <2>3
<1>7. ASSUME NEW n \in Nodes, NEW w \in Olds, Lingering(n, w)
      PROVE  FALSE
  <2>1. old[n][w] # Gone /\ history' = history
    BY <1>7 DEF Lingering, OldReads, OldDrops, OldSends, Gone
  <2>2. QED BY <2>1 DEF AloneInv, Alone
<1>8. QED BY <1>1, <1>2, <1>3, <1>4, <1>5, <1>6, <1>7 DEF Next, Moves

\* Only a watcher that checks what it has read lets go of it.
LEMMA OnlySendsEmpties ==
  ASSUME TypeOK, Next, NEW n \in Nodes, reading[n] # Empty, reading'[n] = Empty,
         channel' # channel
  PROVE  WatchSends(n)
<1>1. CASE reading' = reading
  BY <1>1
<1>2. ASSUME NEW m \in Nodes, WatchReads(m)
      PROVE  FALSE
  <2>1. m # n
    BY <1>2 DEF WatchReads
  <2>2. QED BY <1>2, <2>1, ReadsDo
<1>3. ASSUME NEW m \in Nodes, WatchSends(m)
      PROVE  m = n
  BY <1>3, SendsDo
<1>4. QED
  BY <1>1, <1>2, <1>3
  DEF Next, Copy, Watching, WatchMisses, Lingering, OldReads, OldDrops, OldSends, Switches,
      Handling, Marks, Sets, SetFails, Relays, Breaks, HandReads, HandSends, watch, wire

LEMMA EchoStep ==
  ASSUME TypeOK, WaveInv, [Next]_vars, NEW n \in Nodes,
         reading[n] # Empty, reading'[n] = Empty, channel' # channel
  PROVE  author[reading[n]] = n \/ history = "raced"
<1>1. Next
  BY DEF vars, watch
<1>2. WatchSends(n)
  BY <1>1, OnlySendsEmpties
<1>3. CASE history # "raced"
  <2>1. ~Settled
    BY <1>2, MovesAreBusy DEF Moves, Watching
  <2>2. PICK w \in 1 .. copies : Wave(w)
    BY <1>3, <2>1 DEF WaveInv
  <2>3. reading[n] = w /\ (last_hash[n] # w => author[w] = n)
    BY <1>2, <1>3, <2>2, WaveSends DEF WaveInv
  <2>4. last_hash[n] # reading[n]
    BY <1>2 DEF WatchSends, Broadcasts, ShouldBroadcast
  <2>5. QED BY <2>3, <2>4
<1>4. QED BY <1>3

\* A machine broadcasts what its own user copied and never what it was sent, if
\* each copy had spread before the next thing the user did; whatever is lost.
THEOREM NeverEchoes == Spec => NoEcho
<1>1. Init => TypeOK /\ AloneInv /\ WaveInv
  BY InitType, AloneInit, WaveInit
<1>2. TypeOK /\ AloneInv /\ WaveInv /\ [Next]_vars => (TypeOK /\ AloneInv /\ WaveInv)'
  BY NextType, AloneNext, WaveNext
<1>3. TypeOK /\ AloneInv /\ WaveInv /\ [Next]_vars =>
        [\A n \in Nodes :
           reading[n] # Empty /\ reading'[n] = Empty /\ channel' # channel
             => author[reading[n]] = n \/ history = "raced"]_vars
  BY EchoStep
<1>4. QED BY <1>1, <1>2, <1>3, PTL DEF Spec, NoEcho

--------------------------------------------------------------------------------
(* Where a wave goes. *)

Busy(e) == channel[e] # <<>> \/ handler[e].phase # "idle"

\* w will still be set at m: it is on its way to m, or a task of the hub will relay
\* it to m, or a watcher is about to send it.
Arriving(m) == \E e \in EndsAt(m) : channel[e] # <<>> \/ handler[e].phase = "marked"
Relayed(m) == m \in Named /\ \E c \in Clients \ {m} : Busy(<<Hub, c>>)
OnItsWay(m, w) ==
  \/ Arriving(m)
  \/ Relayed(m)
  \/ \E a \in Nodes \ {m} : m \in Audience(a) /\ Fresh(a, w)

\* What is on its way is meant for where it goes and for where it is relayed to.
Aimed(w) ==
  \A e \in Ends : Busy(e) =>
    expected[e[1]] = w /\ (e[1] = Hub => \A m \in Named \ {e[2]} : expected[m] = w)
\* What a watcher will send is meant for all it sends it to, and goes first.
Leads(w) ==
  \A n \in Nodes : Fresh(n, w) =>
    (\A m \in Audience(n) : expected[m] = w) /\ \A e \in Ends : ~Busy(e)
Shown(w) == \A n \in Nodes : signals[n] > 0 => clipboard[n] = w
\* Who does not yet hold what it should is waiting for w, and will get it.
Due(w) == \A m \in Nodes : clipboard[m] # expected[m] => expected[m] = w /\ OnItsWay(m, w)

Spreads(w) == Aimed(w) /\ Leads(w) /\ Shown(w) /\ Due(w)

SpreadInv ==
  history = "calm" =>
    (Settled /\ clipboard = expected) \/ \E w \in 1 .. copies : Wave(w) /\ Spreads(w)

\* A receiver does not relay.
OnlyHubRelays == \A e \in Ends : handler[e].phase = "set" => e[1] = Hub

LEMMA RelaysInit == Init => OnlyHubRelays
BY DEF Init, OnlyHubRelays, Idle

LEMMA RelaysNext == TypeOK /\ OnlyHubRelays /\ [Next]_vars => OnlyHubRelays'
<1> SUFFICES ASSUME TypeOK, OnlyHubRelays, [Next]_vars, NEW d \in Ends,
                    handler'[d].phase = "set"
             PROVE  d[1] = Hub
  BY DEF OnlyHubRelays
<1>1. CASE handler' = handler
  BY <1>1 DEF OnlyHubRelays
<1>2. ASSUME NEW e \in Ends, Marks(e)
      PROVE  d[1] = Hub
  BY <1>2, MarksDo DEF OnlyHubRelays
<1>3. ASSUME NEW e \in Ends, Sets(e) \/ SetFails(e)
      PROVE  d[1] = Hub
  <2>1. handler[e].phase = "marked" /\ AfterSet(e)
    BY <1>3 DEF Sets, SetFails
  <2>2. QED BY <2>1, AfterSetDoes DEF OnlyHubRelays
<1>4. ASSUME NEW e \in Ends, Relays(e)
      PROVE  d[1] = Hub
  BY <1>4, RelaysDo DEF OnlyHubRelays, Idle
<1>5. QED
  BY <1>1, <1>2, <1>3, <1>4
  DEF Next, Copy, Watching, WatchReads, WatchSends, WatchMisses, Lingering, OldReads,
      OldDrops, OldSends, Switches, Handling, Breaks, HandReads, HandSends, wire, vars

LEMMA FreshGoesFirst ==
  ASSUME NEW w, Spreads(w), NEW e \in Ends, Busy(e), NEW n \in Nodes
  PROVE  ~Fresh(n, w)
BY DEF Spreads, Leads

\* Where everything has come to rest, everyone holds what it should.
LEMMA SpreadAtRest ==
  ASSUME TypeOK, SpreadInv, history = "calm", Settled
  PROVE  clipboard = expected
<1>1. CASE Settled /\ clipboard = expected
  BY <1>1
<1>2. ASSUME NEW w \in 1 .. copies, Spreads(w)
      PROVE  clipboard = expected
  <2>1. /\ \A n \in Nodes : ~Watched(n)
        /\ \A e \in Ends : ~Busy(e)
    BY AtRest DEF Watched, Busy, Idle
  <2>2. \A m \in Nodes : ~OnItsWay(m, w)
    BY <2>1, EndForms DEF OnItsWay, Arriving, Relayed, Fresh, Busy
  <2>3. \A m \in Nodes : clipboard[m] = expected[m]
    BY <1>2, <2>2 DEF Spreads, Due
  <2>4. QED BY <2>3 DEF TypeOK
<1>3. QED BY <1>1, <1>2 DEF SpreadInv

\* What a watcher reads is what is on its way.
LEMMA SpreadReads ==
  ASSUME TypeOK, NEW w \in 1 .. copies, Wave(w), Spreads(w), NEW n \in Nodes, WatchReads(n)
  PROVE  Spreads(w)'
<1>1. /\ clipboard' = clipboard /\ last_hash' = last_hash /\ expected' = expected
      /\ channel' = channel /\ handler' = handler /\ signals[n] > 0
  BY DEF WatchReads, data, wire, trail
<1>2. clipboard[n] = w
  BY <1>1 DEF Spreads, Shown
<1>3. \A m \in Nodes : Fresh(m, w)' <=> Fresh(m, w)
  <2>1. SUFFICES ASSUME NEW m \in Nodes
                 PROVE  Watched(m)' <=> Watched(m)
    BY <1>1 DEF Fresh
  <2>2. /\ signals'[m] = IF m = n THEN signals[n] - 1 ELSE signals[m]
        /\ reading'[m] = IF m = n THEN w ELSE reading[m]
    BY <1>2, ReadsDo
  <2>3. QED BY <1>1, <2>2 DEF Watched
<1>4. \A m \in Nodes : signals'[m] > 0 => signals[m] > 0
  BY <1>1, ReadsDo, WaveTypes
<1>5. \A e \in Ends : Busy(e)' <=> Busy(e)
  BY <1>1 DEF Busy
<1>6. \A m \in Nodes : OnItsWay(m, w)' <=> OnItsWay(m, w)
  BY <1>1, <1>3, <1>5, EndForms DEF OnItsWay, Arriving, Relayed
<1>7. Aimed(w)' /\ Leads(w)'
  BY <1>1, <1>3, <1>5 DEF Spreads, Aimed, Leads
<1>8. Shown(w)' /\ Due(w)'
  BY <1>1, <1>4, <1>6 DEF Spreads, Shown, Due
<1>9. QED BY <1>7, <1>8 DEF Spreads

\* A watcher that sends is the only one that has something new to send.
LEMMA SpreadSends ==
  ASSUME TypeOK, NEW w \in 1 .. copies, Wave(w), Spreads(w), Known,
         NEW n \in Nodes, WatchSends(n)
  PROVE  Spreads(w)'
<1>1. /\ clipboard' = clipboard /\ signals' = signals /\ handler' = handler
      /\ expected' = expected /\ reading[n] # Empty
  BY DEF WatchSends, trail
<1>2. reading[n] = w
  BY WaveSends
<1>3. /\ \A m \in Nodes :
           /\ reading'[m] = IF m = n THEN Empty ELSE reading[m]
           /\ last_hash'[m] = IF m = n THEN w ELSE last_hash[m]
      /\ \A e \in Ends :
           channel'[e] = IF e \in Peers(n) /\ last_hash[n] # w
                         THEN Append(channel[e], w) ELSE channel[e]
  BY <1>2, SendsDo
<1>4. \A m \in Nodes : Fresh(m, w)' <=> m # n /\ Fresh(m, w)
  BY <1>1, <1>3 DEF Fresh, Watched
<1>5. Shown(w)'
  BY <1>1 DEF Spreads, Shown
<1>6. CASE last_hash[n] = w
  <2>1. \A e \in Ends : Busy(e)' <=> Busy(e)
    BY <1>1, <1>3, <1>6 DEF Busy
  <2>2. \A m \in Nodes : Fresh(m, w)' <=> Fresh(m, w)
    BY <1>4, <1>6 DEF Fresh
  <2>3. \A m \in Nodes : OnItsWay(m, w)' <=> OnItsWay(m, w)
    BY <1>1, <1>3, <1>6, <2>1, <2>2, EndForms DEF OnItsWay, Arriving, Relayed
  <2>4. Aimed(w)' /\ Leads(w)' /\ Due(w)'
    BY <1>1, <2>1, <2>2, <2>3 DEF Spreads, Aimed, Leads, Due
  <2>5. QED BY <1>5, <2>4 DEF Spreads
<1>7. CASE last_hash[n] # w
  <2>1. Fresh(n, w)
    BY <1>1, <1>7 DEF Fresh, Watched
  <2>2. \A m \in Nodes : Fresh(m, w) => m = n
    BY <2>1 DEF Wave, NodeCarries
  <2>3. (\A m \in Audience(n) : expected[m] = w) /\ \A e \in Ends : ~Busy(e)
    BY <2>1 DEF Spreads, Leads
  <2>4. \A m \in Nodes : ~Fresh(m, w)'
    BY <1>4, <2>2
  <2>5. \A e \in Ends : e \in Peers(n) => channel'[e] # <<>>
    BY <1>3, <1>7, SentArrives
  <2>6. \A e \in Ends : Busy(e)' => e \in Peers(n)
    BY <1>1, <1>3, <2>3 DEF Busy
  <2>7. Aimed(w)'
    BY <1>1, <2>3, <2>6, EndForms DEF Aimed, Peers, Audience, Clients, Nodes
  <2>8. ASSUME NEW m \in Nodes, clipboard[m] # expected[m]
        PROVE  expected[m] = w /\ OnItsWay(m, w)'
    <3>1. expected[m] = w /\ OnItsWay(m, w)
      BY <2>8 DEF Spreads, Due
    <3>2. m \in Audience(n) /\ m # n
      BY <2>2, <2>3, <3>1, EndForms DEF OnItsWay, Arriving, Relayed, Busy
    <3>3. ASSUME NEW d \in Peers(n), d[1] = m
          PROVE  OnItsWay(m, w)'
      <4>1. d \in EndsAt(m) /\ channel'[d] # <<>>
        BY <2>5, <3>3, EndsOfPeers DEF EndsAt
      <4>2. QED BY <4>1, Zenon DEF OnItsWay, Arriving
    <3>4. CASE n # Hub /\ m \in Named
      <4>1. n \in Clients \ {m} /\ <<Hub, n>> \in Peers(n) /\ <<Hub, n>> \in Ends
        BY <3>2, <3>4, EndForms DEF Peers, Nodes
      <4>2. Busy(<<Hub, n>>)'
        BY <2>5, <4>1 DEF Busy
      <4>3. QED BY <3>1, <3>4, <4>1, <4>2, Zenon DEF OnItsWay, Relayed
    <3>5. m \in Clients /\ n = Hub => <<m, m>> \in Peers(n) /\ <<m, m>>[1] = m
      BY DEF Peers
    <3>6. m = Hub /\ n # Hub => <<m, n>> \in Peers(n) /\ <<m, n>>[1] = m
      BY DEF Peers
    <3>7. QED BY <3>1, <3>2, <3>3, <3>4, <3>5, <3>6 DEF Audience, Clients, Nodes
  <2>9. Leads(w)' /\ Due(w)'
    BY <1>1, <2>4, <2>8 DEF Leads, Due
  <2>10. QED BY <1>5, <2>7, <2>9 DEF Spreads
<1>8. QED BY <1>6, <1>7

LEMMA SpreadMarks ==
  ASSUME TypeOK, NEW w \in 1 .. copies, Wave(w), Spreads(w), Known,
         NEW e \in Ends, Marks(e)
  PROVE  Spreads(w)'
<1>1. /\ clipboard' = clipboard /\ signals' = signals /\ reading' = reading
      /\ expected' = expected /\ channel[e] # <<>>
  BY DEF Marks, watch, trail
<1>2. /\ \A d \in Ends : d # e => channel'[d] = channel[d] /\ handler'[d] = handler[d]
      /\ handler'[e].phase = "marked"
  BY MarksDo
<1>3. \A d \in Ends : Busy(d)' <=> Busy(d)
  BY <1>1, <1>2 DEF Busy
<1>4. \A m \in Nodes : ~Fresh(m, w) /\ ~Fresh(m, w)'
  <2>1. \A m \in Nodes : ~Fresh(m, w)
    BY <1>1, FreshGoesFirst DEF Busy
  <2>2. \A m \in Nodes : last_hash'[m] = last_hash[m] \/ last_hash'[m] = w
    BY MarksDo, WaveMarks
  <2>3. QED BY <1>1, <2>1, <2>2 DEF Fresh, Watched
<1>5. Aimed(w)' /\ Leads(w)' /\ Shown(w)'
  BY <1>1, <1>3, <1>4 DEF Spreads, Aimed, Leads, Shown
<1>6. ASSUME NEW m \in Nodes, OnItsWay(m, w)
      PROVE  OnItsWay(m, w)'
  <2>1. CASE Arriving(m)
    BY <1>2, <2>1, EndForms DEF Arriving, OnItsWay
  <2>2. CASE Relayed(m)
    BY <1>3, <2>2, EndForms DEF Relayed, OnItsWay
  <2>3. QED BY <1>4, <1>6, <2>1, <2>2 DEF OnItsWay
<1>7. Due(w)'
  BY <1>1, <1>6 DEF Spreads, Due
<1>8. QED BY <1>5, <1>7 DEF Spreads

LEMMA SpreadSets ==
  ASSUME TypeOK, NEW w \in 1 .. copies, Wave(w), Spreads(w), Known,
         NEW e \in Ends, Sets(e)
  PROVE  Spreads(w)'
<1>1. /\ last_hash' = last_hash /\ reading' = reading /\ channel' = channel
      /\ expected' = expected /\ handler[e].phase = "marked" /\ AfterSet(e)
      /\ e[1] \in Nodes
  BY EndForms DEF Sets, trail
<1>2. handler[e].content = w /\ last_hash[e[1]] = w
  BY <1>1 DEF Wave, EndCarries
<1>3. /\ clipboard'[e[1]] = w
      /\ \A m \in Nodes : m # e[1] => clipboard'[m] = clipboard[m] /\ signals'[m] = signals[m]
  <2>1. clipboard' = [clipboard EXCEPT ![e[1]] = w]
    BY <1>2 DEF Sets
  <2>2. \A m \in Nodes : m # e[1] => signals'[m] = signals[m]
    BY <1>1, SignalledElsewhere DEF Sets
  <2>3. QED BY <1>1, <2>1, <2>2 DEF TypeOK
<1>4. \A d \in Ends : d # e => handler'[d] = handler[d]
  BY <1>1, AfterSetDoes
<1>5. e[1] = Hub => handler'[e].phase = "set"
  BY <1>1, AfterSetDoes
<1>6. Busy(e)
  BY <1>1 DEF Busy
<1>7. \A d \in Ends : Busy(d)' => Busy(d)
  BY <1>1, <1>4, <1>6 DEF Busy
<1>8. \A m \in Nodes : ~Fresh(m, w) /\ ~Fresh(m, w)'
  <2>1. \A m \in Nodes : ~Fresh(m, w)
    BY <1>6, FreshGoesFirst
  <2>2. QED BY <1>1, <1>2, <1>3, <2>1 DEF Fresh, Watched
<1>9. Aimed(w)' /\ Leads(w)' /\ Shown(w)'
  BY <1>1, <1>3, <1>7, <1>8 DEF Spreads, Aimed, Leads, Shown
<1>10. expected[e[1]] = w
  BY <1>6 DEF Spreads, Aimed
<1>11. ASSUME NEW m \in Nodes, clipboard'[m] # expected[m]
       PROVE  expected[m] = w /\ OnItsWay(m, w)'
  <2>1. m # e[1] /\ clipboard[m] # expected[m]
    BY <1>3, <1>10, <1>11
  <2>2. expected[m] = w /\ OnItsWay(m, w)
    BY <2>1 DEF Spreads, Due
  <2>3. CASE Arriving(m)
    <3>1. PICK d \in EndsAt(m) : channel[d] # <<>> \/ handler[d].phase = "marked"
      BY <2>3 DEF Arriving
    <3>2. channel'[d] # <<>> \/ handler'[d].phase = "marked"
      BY <1>1, <1>4, <2>1, <3>1 DEF EndsAt
    <3>3. QED BY <2>2, <3>1, <3>2, Zenon DEF Arriving, OnItsWay
  <2>4. CASE Relayed(m)
    <3>1. PICK c \in Clients \ {m} : Busy(<<Hub, c>>)
      BY <2>4 DEF Relayed
    <3>2. <<Hub, c>> \in Ends
      BY EndForms
    <3>3. Busy(<<Hub, c>>)'
      BY <1>1, <1>4, <1>5, <3>1, <3>2 DEF Busy
    <3>4. QED BY <2>2, <2>4, <3>1, <3>3 DEF Relayed, OnItsWay
  <2>5. QED BY <1>8, <2>2, <2>3, <2>4 DEF OnItsWay
<1>12. Due(w)'
  BY <1>1, <1>11 DEF Due
<1>13. QED BY <1>9, <1>12 DEF Spreads

LEMMA SpreadRelays ==
  ASSUME TypeOK, OnlyHubRelays, NEW w \in 1 .. copies, Wave(w), Spreads(w), Known,
         NEW e \in Ends, Relays(e)
  PROVE  Spreads(w)'
<1>1. /\ clipboard' = clipboard /\ last_hash' = last_hash /\ expected' = expected
      /\ signals' = signals /\ reading' = reading /\ handler[e].phase = "set"
      /\ e[1] = Hub /\ Busy(e)
  BY DEF Relays, data, watch, trail, OnlyHubRelays, Busy
<1>2. \A d \in Ends :
        /\ channel'[d] = IF d \in Siblings(e[2]) THEN Append(channel[d], w) ELSE channel[d]
        /\ handler'[d] = IF d = e THEN Idle ELSE handler[d]
  BY RelaysDo, WaveRelays
<1>3. \A d \in Ends : Busy(d)' => Busy(d) \/ d \in Siblings(e[2])
  BY <1>1, <1>2 DEF Busy, Idle
<1>4. \A d \in Ends : d \in Siblings(e[2]) \/ channel[d] # <<>> => channel'[d] # <<>>
  BY <1>2, SentArrives
<1>5. \A m \in Nodes : ~Fresh(m, w) /\ ~Fresh(m, w)'
  BY <1>1, FreshGoesFirst DEF Fresh, Watched
<1>6. ASSUME NEW d \in Siblings(e[2])
      PROVE  d[1] # Hub /\ expected[d[1]] = w
  <2>1. \A m \in Named \ {e[2]} : expected[m] = w /\ m # Hub
    BY <1>1, EndForms DEF Spreads, Aimed, Clients
  <2>2. QED BY <2>1 DEF Siblings
<1>7. Aimed(w)'
  BY <1>1, <1>3, <1>6 DEF Spreads, Aimed
<1>8. Leads(w)' /\ Shown(w)'
  BY <1>1, <1>5 DEF Spreads, Leads, Shown
<1>9. ASSUME NEW m \in Nodes, OnItsWay(m, w)
      PROVE  OnItsWay(m, w)'
  <2>1. CASE Arriving(m)
    <3>1. PICK d \in EndsAt(m) : channel[d] # <<>> \/ handler[d].phase = "marked"
      BY <2>1 DEF Arriving
    <3>2. d \in Ends /\ (channel'[d] # <<>> \/ handler'[d].phase = "marked")
      BY <1>1, <1>2, <1>4, <3>1 DEF EndsAt
    <3>3. QED BY <3>1, <3>2 DEF Arriving, OnItsWay, EndsAt
  <2>2. CASE Relayed(m)
    <3>1. PICK c \in Clients \ {m} : Busy(<<Hub, c>>)
      BY <2>2 DEF Relayed
    <3>2. CASE e = <<Hub, c>>
      <4>1. <<m, m>> \in Siblings(e[2])
        BY <2>2, <3>1, <3>2 DEF Relayed, Siblings
      <4>2. <<m, m>> \in EndsAt(m) /\ <<m, m>> \in Ends
        BY <2>2, EndForms DEF Relayed, Clients, EndsAt
      <4>3. QED BY <1>4, <4>1, <4>2 DEF Arriving, OnItsWay, EndsAt
    <3>3. CASE e # <<Hub, c>>
      <4>1. <<Hub, c>> \in Ends
        BY EndForms
      <4>2. Busy(<<Hub, c>>)'
        BY <1>2, <1>4, <3>1, <3>3, <4>1 DEF Busy
      <4>3. QED BY <2>2, <3>1, <4>2 DEF Relayed, OnItsWay
    <3>4. QED BY <3>2, <3>3
  <2>3. QED BY <1>5, <1>9, <2>1, <2>2 DEF OnItsWay
<1>10. Due(w)'
  BY <1>1, <1>9 DEF Spreads, Due
<1>11. QED BY <1>7, <1>8, <1>10 DEF Spreads

--------------------------------------------------------------------------------
(* What the user does once everything holds what it should. *)

LEMMA SpreadCopy ==
  ASSUME TypeOK, Known, clipboard = expected, NEW n \in Nodes, Copy(n),
         history' # "raced", NEW w, w = copies'
  PROVE  Spreads(w)'
<1>1. Settled
  BY UserWaits DEF Copy
<1>2. w = copies + 1 /\ copies \in Nat /\ last_hash[n] <= copies /\ last_hash[n] \in Nat
  BY WaveTypes DEF Copy, Known
<1>3. /\ last_hash' = last_hash /\ reading' = reading /\ channel' = channel
      /\ handler' = handler /\ Signalled(n)
      /\ clipboard' = [clipboard EXCEPT ![n] = w]
      /\ expected' = [m \in Nodes |->
           IF m = n \/ (sync[n] /\ m \in Audience(n)) THEN w ELSE expected[m]]
  BY DEF Copy, wire
<1>4. /\ clipboard'[n] = w
      /\ \A m \in Nodes : m # n => clipboard'[m] = clipboard[m] /\ signals'[m] = 0
      /\ signals'[n] > 0 <=> sync[n]
      /\ \A m \in Nodes : reading'[m] = Empty
  <2>1. \A m \in Nodes : signals[m] = 0 /\ reading[m] = Empty
    BY <1>1, AtRest
  <2>2. \A m \in Nodes : m # n => signals'[m] = signals[m]
    BY <1>3, SignalledElsewhere
  <2>3. signals'[n] > 0 <=> sync[n]
    BY <1>3, <2>1 DEF Signalled, TypeOK
  <2>4. QED BY <1>3, <2>1, <2>2, <2>3 DEF TypeOK
<1>5. \A e \in Ends : ~Busy(e)'
  BY <1>1, <1>3, AtRest DEF Busy, Idle
<1>6. \A m \in Nodes : Fresh(m, w)' <=> m = n /\ sync[n]
  BY <1>2, <1>3, <1>4 DEF Fresh, Watched
<1>7. Aimed(w)' /\ Shown(w)'
  BY <1>4, <1>5 DEF Aimed, Shown
<1>8. Leads(w)'
  BY <1>3, <1>5, <1>6 DEF Leads, Audience, Clients, Nodes
<1>9. ASSUME NEW m \in Nodes, clipboard'[m] # expected'[m]
      PROVE  expected'[m] = w /\ OnItsWay(m, w)'
  <2>1. m # n /\ sync[n] /\ m \in Audience(n) /\ expected'[m] = w
    BY <1>3, <1>4, <1>9
  <2>2. n \in Nodes \ {m} /\ Fresh(n, w)'
    BY <1>6, <2>1
  <2>3. QED BY <2>1, <2>2 DEF OnItsWay
<1>10. QED BY <1>7, <1>8, <1>9 DEF Spreads, Due

LEMMA SpreadByHand ==
  ASSUME TypeOK, Known, AloneInv, clipboard = expected, NEW h \in Hands, HandSends(h),
         history' # "raced", NEW w, w = hand[h]
  PROVE  (Settled /\ clipboard = expected)' \/ Spreads(w)'
<1>1. Settled /\ w = clipboard[Hub] /\ history # "raced" /\ old' = old
  BY DEF HandSends, AloneInv, Alone
<1>2. /\ clipboard' = clipboard /\ signals' = signals /\ reading' = reading
      /\ handler' = handler
      /\ expected' = [m \in Nodes |-> IF m \in Direct /\ ShouldBroadcast(Hub, w)
                                      THEN w ELSE expected[m]]
  BY <1>1 DEF HandSends, watch
<1>3. w \in 1 .. copies
  BY WaveByHand
<1>4. CASE ~ShouldBroadcast(Hub, w)
  <2>1. channel' = channel
    BY <1>4 DEF HandSends
  <2>2. expected' = expected
    BY <1>2, <1>4 DEF TypeOK
  <2>3. QED BY <1>1, <1>2, <2>1, <2>2 DEF Settled, Still
<1>5. CASE ShouldBroadcast(Hub, w)
  <2>1. \A e \in Ends : channel'[e] = IF e \in {<<c, c>> : c \in Direct}
                                      THEN Append(channel[e], w) ELSE channel[e]
    BY <1>5 DEF HandSends, Sent
  <2>2. \A m \in Nodes : ~Fresh(m, w)' /\ signals'[m] = 0
    BY <1>1, <1>2, AtRest DEF Fresh, Watched
  <2>3. \A e \in Ends : Busy(e)' => e \in {<<c, c>> : c \in Direct}
    BY <1>1, <1>2, <2>1, AtRest DEF Busy, Idle
  <2>4. \A m \in Direct : m \in Nodes /\ m # Hub /\ expected'[m] = w
    BY <1>2, <1>5 DEF Clients, Nodes
  <2>5. Aimed(w)'
    BY <1>2, <2>3, <2>4 DEF Aimed
  <2>6. Leads(w)' /\ Shown(w)'
    BY <2>2 DEF Leads, Shown
  <2>7. ASSUME NEW m \in Nodes, clipboard'[m] # expected'[m]
        PROVE  expected'[m] = w /\ OnItsWay(m, w)'
    <3>1. m \in Direct
      BY <1>2, <2>7
    <3>2. <<m, m>> \in Ends /\ <<m, m>> \in EndsAt(m)
      BY <3>1, EndForms DEF Clients, EndsAt
    <3>3. channel'[<<m, m>>] # <<>>
      BY <1>3, <2>1, <3>1, <3>2, SentArrives
    <3>4. QED BY <2>4, <3>1, <3>2, <3>3 DEF OnItsWay, Arriving
  <2>8. Due(w)'
    BY <2>7 DEF Due
  <2>9. Spreads(w)'
    BY <2>5, <2>6, <2>8 DEF Spreads
  <2>10. QED BY <2>9
<1>6. QED BY <1>4, <1>5

LEMMA SpreadInit == Init => SpreadInv
<1> SUFFICES ASSUME Init PROVE Settled /\ clipboard = expected
  BY DEF SpreadInv
<1>1. QED BY EndForms DEF Init, Settled, Still, Nothing

LEMMA SpreadNext ==
  TypeOK /\ OnlyHubRelays /\ AloneInv /\ WaveInv /\ SpreadInv /\ [Next]_vars => SpreadInv'
<1> DEFINE Goal == \/ (Settled /\ clipboard = expected)'
                   \/ \E w \in 1 .. copies' : Wave(w)' /\ Spreads(w)'
<1> SUFFICES ASSUME TypeOK, OnlyHubRelays, AloneInv, WaveInv, SpreadInv, [Next]_vars, history' = "calm"
             PROVE  Goal
  BY DEF SpreadInv
<1>1. CASE UNCHANGED vars
  <2>1. /\ clipboard' = clipboard /\ last_hash' = last_hash /\ signals' = signals
        /\ reading' = reading /\ channel' = channel /\ handler' = handler
        /\ copies' = copies /\ author' = author /\ expected' = expected
        /\ history' = history /\ old' = old
    BY <1>1 DEF vars, data, watch, slow, wire, bounds, trail
  <2>2. Settled => Settled'
    BY <2>1 DEF Settled, Still
  <2>3. ASSUME NEW w, Wave(w)
        PROVE  Wave(w)'
    BY <2>1, <2>3 DEF Wave, EndCarries, NodeCarries, Fresh, Watched
  <2>4. ASSUME NEW w, Spreads(w)
        PROVE  Spreads(w)'
    <3>1. \A m \in Nodes : Fresh(m, w)' <=> Fresh(m, w)
      BY <2>1 DEF Fresh, Watched
    <3>2. \A e : Busy(e)' <=> Busy(e)
      BY <2>1 DEF Busy
    <3>3. \A m \in Nodes : OnItsWay(m, w)' <=> OnItsWay(m, w)
      BY <2>1, <3>1, <3>2 DEF OnItsWay, Arriving, Relayed
    <3>4. QED
      BY <2>1, <2>4, <3>1, <3>2, <3>3 DEF Spreads, Aimed, Leads, Shown, Due
  <2>5. QED BY <2>1, <2>2, <2>3, <2>4 DEF SpreadInv
<1>2. ASSUME ~Loses, Moves
      PROVE  Goal
  <2>1. ~Settled /\ history = "calm" /\ Known
    BY <1>2, MovesAreBusy
    DEF WaveInv, Moves, Watching, WatchReads, WatchMisses, WatchSends,
        Handling, Marks, Sets, SetFails, Relays, Breaks
  <2>2. PICK w \in 1 .. copies : Wave(w) /\ Spreads(w)
    BY <2>1 DEF SpreadInv
  <2>3. Wave(w)' /\ copies' = copies
    BY <1>2, <2>1, <2>2, WaveMoves
  <2>4. Spreads(w)'
    BY <1>2, <2>1, <2>2, SpreadReads, SpreadSends, SpreadMarks, SpreadSets, SpreadRelays
    DEF Moves, Watching, Handling, WatchMisses, SetFails, Breaks
  <2>5. QED BY <2>2, <2>3, <2>4
<1>3. ~Loses \/ ~Moves
  BY DEF Loses
<1>4. ASSUME Disturbs
      PROVE  Known /\ clipboard = expected
  <2>1. Settled /\ history = "calm"
    BY <1>4, UserWaits
  <2>2. QED BY <2>1, SpreadAtRest DEF WaveInv
<1>5. ASSUME NEW n \in Nodes, Copy(n)
      PROVE  Goal
  <2>1. Known /\ clipboard = expected
    BY <1>4, <1>5 DEF Copy
  <2>2. ASSUME NEW w, w = copies'
        PROVE  w \in 1 .. copies' /\ Wave(w)' /\ Spreads(w)'
    BY <1>5, <2>1, <2>2, WaveCopy, SpreadCopy
  <2>3. \E w : w = copies'
    OBVIOUS
  <2>4. QED BY <2>2, <2>3
<1>6. ASSUME NEW n \in Nodes, Switches(n)
      PROVE  Goal
  <2>1. Known /\ clipboard = expected
    BY <1>4, <1>6 DEF Switches
  <2>2. clipboard' = clipboard /\ expected' = expected
    BY <1>6 DEF Switches, data
  <2>3. QED BY <1>6, <2>1, <2>2, WaveSwitches
<1>7. ASSUME NEW h \in Hands, HandReads(h)
      PROVE  Goal
  <2>1. Known /\ clipboard = expected
    BY <1>4, <1>7 DEF HandReads
  <2>2. clipboard' = clipboard /\ expected' = expected
    BY <1>7 DEF HandReads, data
  <2>3. QED BY <1>7, <2>1, <2>2, WaveReadByHand
<1>8. ASSUME NEW h \in Hands, HandSends(h)
      PROVE  Goal
  <2>1. Known /\ clipboard = expected
    <3>1. history = "calm" /\ Settled
      BY <1>8 DEF HandSends, AloneInv, Alone
    <3>2. QED BY <3>1, SpreadAtRest DEF WaveInv
  <2>2. ASSUME NEW w, w = hand[h]
        PROVE  /\ w \in 1 .. copies' /\ Wave(w)'
               /\ (Settled /\ clipboard = expected)' \/ Spreads(w)'
    BY <1>8, <2>1, <2>2, WaveByHand, SpreadByHand
  <2>3. \E w : w = hand[h]
    OBVIOUS
  <2>4. QED BY <2>2, <2>3
<1>9. ASSUME NEW n \in Nodes, NEW w \in Olds, Lingering(n, w)
      PROVE  FALSE
  <2>1. old[n][w] # Gone /\ history' = history
    BY <1>9 DEF Lingering, OldReads, OldDrops, OldSends, Gone
  <2>2. QED BY <2>1 DEF AloneInv, Alone
<1>10. QED BY <1>1, <1>2, <1>3, <1>5, <1>6, <1>7, <1>8, <1>9 DEF Next, Moves

\* When everything has come to rest, every machine holds the last copy that was
\* meant for it, if each copy had spread before the next thing the user did and
\* nothing was lost on the way.
THEOREM CopiesConverge == Spec => []Converged
<1> DEFINE Inv == TypeOK /\ OnlyHubRelays /\ AloneInv /\ WaveInv /\ SpreadInv
<1>1. Init => Inv
  BY InitType, RelaysInit, AloneInit, WaveInit, SpreadInit
<1>2. Inv /\ [Next]_vars => Inv'
  BY NextType, RelaysNext, AloneNext, WaveNext, SpreadNext
<1>3. Inv => Converged
  BY SpreadAtRest DEF Converged, Quiet
<1> HIDE DEF Inv
<1>4. QED BY <1>1, <1>2, <1>3, PTL DEF Spec
================================================================================
