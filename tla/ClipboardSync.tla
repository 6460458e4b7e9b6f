----------------------------- MODULE ClipboardSync -----------------------------
(***************************************************************************)
(* Clipboard synchronisation: the watcher and the commands of              *)
(* clipboard_sync.rs, the echo guard of clipboard.rs, the signal of        *)
(* clipboard_watch.rs and the two message handlers that apply a peer's     *)
(* clipboard (session/controller.rs and session/receiver.rs).              *)
(*                                                                         *)
(* One machine is the hub.  It controls every client: a named screen, or   *)
(* the peer of its 1:1 session.  A client knows the hub only, through its  *)
(* receiver session.  Every machine has a clipboard, a guard, a watcher    *)
(* and, per connection, a task that handles what the other end sent; all   *)
(* of them run in parallel, and the user copies and switches sync on and   *)
(* off at any machine.  A watcher that is switched off may still be at     *)
(* work, beside the next one.                                              *)
(*                                                                         *)
(* A content is the number of the copy that made it, and two copies are    *)
(* never equal; text and image are not told apart, they take the same      *)
(* path.  The limits on their sizes and the base64 codec are left out.     *)
(***************************************************************************)
EXTENDS Naturals, Sequences, FiniteSets

CONSTANTS
  Named,       \* clients with a named session
  Direct,      \* the clients of the 1:1 controller session, at most one
  Hub,
  Syncing,     \* machines whose sync is on to begin with
  MaxQueue,    \* bound on messages in a channel (unbounded in the code)
  MaxSignals,  \* bound on change signals (unbounded in the code)
  MaxSends,    \* bound on what the watchers send
  MaxOld,      \* bound on watchers of a machine that were switched off
               \* and are still at work (unbounded in the code)
  MaxHands,    \* bound on sends by hand at a time (unbounded in the code)
  MaxActs      \* bound on what the user does and on what fails

Clients == Named \cup Direct
Nodes == Clients \cup {Hub}

ASSUME NodeAssumption == Named \cap Direct = {} /\ Hub \notin Clients /\ Syncing \subseteq Nodes
ASSUME BoundAssumption ==
  /\ MaxQueue \in Nat /\ MaxSignals \in Nat \ {0} /\ MaxSends \in Nat /\ MaxActs \in Nat
  /\ MaxOld \in Nat /\ MaxHands \in Nat

Empty == 0
Contents == 0 .. MaxActs

(* A connection has an end at the hub and one at the client; an end is     *)
(* named for the node that receives there and the client it belongs to.    *)
Ends == {<<Hub, c>> : c \in Clients} \cup {<<c, c>> : c \in Clients}
EndsAt(n) == {e \in Ends : e[1] = n}
Idle == [phase |-> "idle", content |-> Empty]

Olds == 1 .. MaxOld
Hands == 1 .. MaxHands
Gone == [signals |-> 0, content |-> Empty]

VARIABLES
  clipboard,  \* the content of each machine's clipboard
  last_hash,  \* ClipboardLoopGuard.last_hash
  sync,       \* clipboard_sync_running, with its watch window
  signals,    \* change signals the watcher has not taken
  reading,    \* what the watcher has read and not yet checked
  old,        \* watchers that were switched off: the same of each
  hand,       \* what each send by hand has read and not yet checked
  channel,    \* messages on their way to each end
  handler,    \* what the task at each end is doing
  copies,     \* copies made so far
  sends,      \* what the watchers have sent so far
  acts,       \* copies, other acts of the user and failures so far
  author,     \* who made each copy
  expected,   \* what each machine should come to hold
  missed,     \* machines whose guard may have lost their clipboard: the last
              \* change was not looked at, or one who had read before it came last
  history     \* "raced": the user acted before the last copy had spread;
              \* else "lost": a message or a change was lost; else "calm"

Nobody == [k \in 1 .. MaxActs |-> Hub]
Nothing == [n \in Nodes |-> Empty]

data == <<clipboard, last_hash>>
watch == <<sync, signals, reading>>
slow == <<old, hand>>
wire == <<channel, handler>>
bounds == <<copies, sends, acts>>
trail == <<author, expected>>
vars == <<data, watch, slow, wire, bounds, trail, missed, history>>

TypeOK ==
  /\ clipboard \in [Nodes -> Contents]
  /\ last_hash \in [Nodes -> Contents]
  /\ sync \in [Nodes -> BOOLEAN]
  /\ signals \in [Nodes -> 0 .. MaxSignals]
  /\ reading \in [Nodes -> Contents]
  /\ old \in [Nodes -> [Olds -> [signals : 0 .. MaxSignals, content : Contents]]]
  /\ hand \in [Hands -> Contents]
  /\ channel \in [Ends -> Seq(Contents \ {Empty})]
  /\ \A e \in Ends : Len(channel[e]) <= MaxQueue
  /\ handler \in [Ends -> [phase : {"idle", "marked", "set"}, content : Contents]]
  /\ \A e \in Ends : handler[e].phase = "idle" <=> handler[e].content = Empty
  /\ copies \in 0 .. acts
  /\ sends \in 0 .. MaxSends /\ acts \in 0 .. MaxActs
  /\ author \in [1 .. MaxActs -> Nodes]
  /\ expected \in [Nodes -> Contents]
  /\ missed \in SUBSET Nodes
  /\ history \in {"calm", "lost", "raced"}

Init ==
  /\ clipboard = [n \in Nodes |-> Empty]
  /\ last_hash = [n \in Nodes |-> Empty]
  /\ sync = [n \in Nodes |-> n \in Syncing]
  /\ signals = [n \in Nodes |-> 0]
  /\ reading = [n \in Nodes |-> Empty]
  /\ old = [n \in Nodes |-> [w \in Olds |-> Gone]]
  /\ hand = [h \in Hands |-> Empty]
  /\ channel = [e \in Ends |-> <<>>]
  /\ handler = [e \in Ends |-> Idle]
  /\ copies = 0 /\ sends = 0 /\ acts = 0
  /\ author = Nobody
  /\ expected = Nothing
  /\ missed = {}
  /\ history = "calm"

--------------------------------------------------------------------------------
(* Nothing is on its way, at one machine or anywhere.                      *)
Still(n) ==
  /\ signals[n] = 0 /\ reading[n] = Empty
  /\ \A w \in Olds : old[n][w] = Gone
  /\ \A e \in EndsAt(n) : handler[e] = Idle
Settled == (\A n \in Nodes : Still(n)) /\ (\A e \in Ends : channel[e] = <<>>)
Quiet == Settled /\ (\A h \in Hands : hand[h] = Empty)

(* A copy at n is meant for these machines: the hub relays to its named    *)
(* sessions and to no other, a broadcast goes to everyone it talks to.     *)
Audience(n) == {n, Hub} \cup Named \cup (IF n = Hub THEN Direct ELSE {})

(* clipboard_wnd_proc: a change is signalled while the watcher is on.      *)
Signalled(n) ==
  /\ signals' = [signals EXCEPT ![n] =
       IF sync[n] /\ @ < MaxSignals THEN @ + 1 ELSE @]
  /\ missed' = IF sync[n] THEN missed ELSE missed \cup {n}

(* The user acts before things are still.  From then on neither the author *)
(* of a content nor the machines it is meant for are followed.             *)
Disturbs == history' = IF Quiet THEN history ELSE "raced"
Loses == history' = IF history = "raced" THEN history ELSE "lost"

Acts == acts < MaxActs /\ acts' = acts + 1

(* Sending to a set of ends.                                               *)
Room(ends) == \A e \in ends : Len(channel[e]) < MaxQueue
Sent(ends, k) ==
  channel' = [e \in Ends |-> IF e \in ends THEN Append(channel[e], k) ELSE channel[e]]

(* broadcast_message: the hub sends to every client, a client to the hub.  *)
Peers(n) == IF n = Hub THEN {<<c, c>> : c \in Clients} ELSE {<<Hub, n>>}

(* relay_message: to every named session except the origin's.              *)
Siblings(c) == {<<m, m>> : m \in Named \ {c}}

\* Mutant: the guard lets everything through.
ShouldBroadcastAll(n, k) == k # Empty

(* should_broadcast: new content is remembered as it is let through.       *)
ShouldBroadcast(n, k) == last_hash[n] # k
Remembered(n, k) == last_hash' = [last_hash EXCEPT ![n] = k]

(* What a watcher read is compared with the guard and sent if it is new.   *)
Broadcasts(n, k) ==
  /\ Remembered(n, k)
  /\ IF ShouldBroadcast(n, k)
       THEN /\ sends < MaxSends /\ sends' = sends + 1
            /\ Room(Peers(n)) /\ Sent(Peers(n), k)
       ELSE UNCHANGED <<channel, sends>>

(* Whoever is not n's watcher marks the guard with what it read before:    *)
(* if the clipboard has changed since, nothing need put the guard right.   *)
Overtakes(n, k) == missed' = IF k = clipboard[n] THEN missed ELSE missed \cup {n}

--------------------------------------------------------------------------------
(* The user copies something at n.                                         *)
Copy(n) ==
  /\ Acts /\ copies' = copies + 1
  /\ clipboard' = [clipboard EXCEPT ![n] = copies']
  /\ Signalled(n)
  /\ Disturbs
  /\ author' = IF history' = "raced" THEN Nobody ELSE [author EXCEPT ![copies'] = n]
  /\ expected' = IF history' = "raced" THEN Nothing ELSE [m \in Nodes |->
       IF m = n \/ (sync[n] /\ m \in Audience(n)) THEN copies' ELSE expected[m]]
  /\ UNCHANGED <<last_hash, sync, reading, slow, wire, sends>>

(* The watcher thread takes a signal and reads the clipboard ...           *)
WatchReads(n) ==
  /\ sync[n] /\ signals[n] > 0 /\ reading[n] = Empty
  /\ signals' = [signals EXCEPT ![n] = @ - 1]
  /\ reading' = [reading EXCEPT ![n] = clipboard[n]]
  /\ missed' = IF clipboard[n] = Empty THEN missed ELSE missed \ {n}
  /\ UNCHANGED <<data, sync, slow, wire, bounds, trail, history>>

(* ... or cannot open it, and the change is dropped.                       *)
WatchMisses(n) ==
  /\ sync[n] /\ signals[n] > 0 /\ reading[n] = Empty
  /\ Acts
  /\ signals' = [signals EXCEPT ![n] = @ - 1]
  /\ missed' = missed \cup {n}
  /\ Loses
  /\ UNCHANGED <<data, sync, reading, slow, wire, copies, sends, trail>>

(* It compares what it read and sends it.                                  *)
WatchSends(n) ==
  /\ reading[n] # Empty
  /\ reading' = [reading EXCEPT ![n] = Empty]
  /\ Broadcasts(n, reading[n])
  /\ UNCHANGED <<clipboard, sync, signals, slow, handler, copies, acts, trail, missed,
                 history>>

(* A watcher that was switched off takes a signal that was left to it: it  *)
(* was waiting for one, or sync is on again when it looks ...              *)
OldReads(n, w) ==
  /\ old[n][w].signals > 0 /\ old[n][w].content = Empty
  /\ old' = [old EXCEPT ![n][w] = [signals |-> @.signals - 1, content |-> clipboard[n]]]
  /\ UNCHANGED <<data, watch, hand, wire, bounds, trail, missed, history>>

(* ... or leaves it: it ends, or cannot open the clipboard.                *)
OldDrops(n, w) ==
  /\ old[n][w].signals > 0 /\ old[n][w].content = Empty
  /\ old' = [old EXCEPT ![n][w] = [signals |-> @.signals - 1, content |-> Empty]]
  /\ missed' = missed \cup {n}
  /\ UNCHANGED <<data, watch, hand, wire, bounds, trail, history>>

(* It finishes what it began.                                              *)
OldSends(n, w) ==
  /\ old[n][w].content # Empty
  /\ old' = [old EXCEPT ![n][w] = [signals |-> @.signals, content |-> Empty]]
  /\ Broadcasts(n, old[n][w].content)
  /\ Overtakes(n, old[n][w].content)
  /\ UNCHANGED <<clipboard, watch, hand, handler, copies, acts, trail, history>>

--------------------------------------------------------------------------------
\* Mutant: the guard is not marked.
MarksNothing(e) ==
  /\ channel[e] # <<>> /\ handler[e] = Idle
  /\ channel' = [channel EXCEPT ![e] = Tail(@)]
  /\ handler' = [handler EXCEPT ![e] = [phase |-> "marked", content |-> Head(channel[e])]]
  /\ UNCHANGED <<data, watch, slow, bounds, trail, missed, history>>

(* ClipboardText or ClipboardImage arrives: the guard is marked ...        *)
Marks(e) ==
  /\ channel[e] # <<>> /\ handler[e] = Idle
  /\ channel' = [channel EXCEPT ![e] = Tail(@)]
  /\ handler' = [handler EXCEPT ![e] = [phase |-> "marked", content |-> Head(channel[e])]]
  /\ Remembered(e[1], Head(channel[e]))
  /\ UNCHANGED <<clipboard, watch, slow, bounds, trail, missed, history>>

\* Mutant: the handler does not let go of what it set.
AfterSetKeeps(e) == handler' = [handler EXCEPT ![e].phase =
  IF e[1] = Hub THEN "set" ELSE "idle"]

\* Mutant: the hub does not relay.
AfterSetDone(e) == handler' = [handler EXCEPT ![e] = Idle]

(* After the set the hub goes on to relay; a receiver is done.             *)
AfterSet(e) == handler' = [handler EXCEPT ![e] =
  IF e[1] = Hub THEN [phase |-> "set", content |-> handler[e].content] ELSE Idle]

(* ... the clipboard is set ...                                            *)
Sets(e) ==
  /\ handler[e].phase = "marked"
  /\ clipboard' = [clipboard EXCEPT ![e[1]] = handler[e].content]
  /\ Signalled(e[1])
  /\ AfterSet(e)
  /\ UNCHANGED <<last_hash, sync, reading, slow, channel, bounds, trail, history>>

(* ... or left as it was, or emptied: set_clipboard_text fails before or   *)
(* after EmptyClipboard.                                                   *)
SetFails(e) ==
  /\ handler[e].phase = "marked"
  /\ Acts
  /\ \/ UNCHANGED <<clipboard, signals>>
     \/ /\ clipboard' = [clipboard EXCEPT ![e[1]] = Empty]
        /\ signals' = [signals EXCEPT ![e[1]] =
             IF sync[e[1]] /\ @ < MaxSignals THEN @ + 1 ELSE @]
  /\ missed' = missed \cup {e[1]}
  /\ Loses
  /\ AfterSet(e)
  /\ UNCHANGED <<last_hash, sync, reading, slow, channel, copies, sends, trail>>

\* Mutant: the guard is marked after the set.
RelaysAndMarks(e) ==
  /\ handler[e].phase = "set"
  /\ Room(Siblings(e[2])) /\ Sent(Siblings(e[2]), handler[e].content)
  /\ Remembered(e[1], handler[e].content)
  /\ handler' = [handler EXCEPT ![e] = Idle]
  /\ UNCHANGED <<clipboard, watch, slow, bounds, trail, missed, history>>

(* ... and the hub passes the message on, whether or not it could set it.  *)
Relays(e) ==
  /\ handler[e].phase = "set"
  /\ Room(Siblings(e[2])) /\ Sent(Siblings(e[2]), handler[e].content)
  /\ handler' = [handler EXCEPT ![e] = Idle]
  /\ UNCHANGED <<data, watch, slow, bounds, trail, missed, history>>

--------------------------------------------------------------------------------
(* send_clipboard_text, send_clipboard_image: by hand, to the 1:1 peer.    *)
(* The command reads the clipboard ...                                     *)
HandReads(h) ==
  /\ Direct # {}
  /\ Acts
  /\ hand[h] = Empty /\ clipboard[Hub] # Empty
  /\ hand' = [hand EXCEPT ![h] = clipboard[Hub]]
  /\ Disturbs
  /\ author' = IF history' = "raced" THEN Nobody ELSE author
  /\ expected' = IF history' = "raced" THEN Nothing ELSE expected
  /\ UNCHANGED <<data, watch, old, wire, copies, sends, missed>>

(* ... and only then asks the guard, and sends what it read if it is new.  *)
HandSends(h) ==
  /\ hand[h] # Empty
  /\ hand' = [hand EXCEPT ![h] = Empty]
  /\ Remembered(Hub, hand[h])
  /\ LET ends == {<<c, c>> : c \in Direct} IN
       IF ShouldBroadcast(Hub, hand[h])
         THEN Room(ends) /\ Sent(ends, hand[h])
         ELSE UNCHANGED channel
  /\ Overtakes(Hub, hand[h])
  /\ expected' = IF history = "raced" THEN Nothing ELSE [m \in Nodes |->
       IF m \in Direct /\ ShouldBroadcast(Hub, hand[h]) THEN hand[h] ELSE expected[m]]
  /\ UNCHANGED <<clipboard, watch, old, handler, bounds, author, history>>

(* set_clipboard_sync, off: the window goes, so that the watcher is told   *)
(* of nothing more; it is not waited for.                                  *)
SwitchesOff(n) ==
  /\ sync[n]
  /\ \E w \in Olds :
       /\ old[n][w] = Gone
       /\ old' = [old EXCEPT ![n][w] = [signals |-> signals[n], content |-> reading[n]]]
  /\ signals' = [signals EXCEPT ![n] = 0]
  /\ reading' = [reading EXCEPT ![n] = Empty]

(* On: a new window and a new watcher.                                     *)
SwitchesOn(n) == ~sync[n] /\ UNCHANGED <<signals, reading, old>>

Switches(n) ==
  /\ Acts
  /\ SwitchesOff(n) \/ SwitchesOn(n)
  /\ sync' = [sync EXCEPT ![n] = ~@]
  /\ Disturbs
  /\ author' = IF history' = "raced" THEN Nobody ELSE author
  /\ expected' = IF history' = "raced" THEN Nothing ELSE expected
  /\ UNCHANGED <<data, hand, wire, copies, sends, missed>>

(* A connection breaks and is made again: what was on its way is gone and  *)
(* is not sent again.  What a sender queues while it is down is lost the   *)
(* same way, so that how long it is down does not matter.                  *)
Breaks(c) ==
  /\ Acts
  /\ \E e \in Ends : e[2] = c /\ channel[e] # <<>>
  /\ channel' = [e \in Ends |-> IF e[2] = c THEN <<>> ELSE channel[e]]
  /\ Loses
  /\ UNCHANGED <<data, watch, slow, handler, copies, sends, trail, missed>>

Watching(n) == WatchReads(n) \/ WatchSends(n)
Lingering(n, w) == OldReads(n, w) \/ OldDrops(n, w) \/ OldSends(n, w)
Handling(e) == Marks(e) \/ Sets(e) \/ Relays(e)

Next ==
  \/ \E n \in Nodes : Copy(n) \/ Watching(n) \/ WatchMisses(n) \/ Switches(n)
  \/ \E n \in Nodes, w \in Olds : Lingering(n, w)
  \/ \E e \in Ends : Handling(e) \/ SetFails(e)
  \/ \E c \in Clients : Breaks(c)
  \/ \E h \in Hands : HandReads(h) \/ HandSends(h)

Spec == Init /\ [][Next]_vars

(* The watchers, the session tasks and the commands run; users and faults  *)
(* need not.                                                               *)
FairSpec ==
  /\ Spec
  /\ \A h \in Hands : WF_vars(HandSends(h))
  /\ \A n \in Nodes : WF_vars(Watching(n))
  /\ \A e \in Ends : WF_vars(Handling(e))

--------------------------------------------------------------------------------
(* Once a machine is still, its guard remembers what its clipboard holds,  *)
(* so that its next signal is not taken for a new copy: whatever order the *)
(* watcher and several sessions marked and set in.  Not so after a set or  *)
(* a read that failed, after a change no watcher looked at because sync    *)
(* was switched off, and after a send by hand, or a watcher that was       *)
(* switched off, asked the guard about a content that had been replaced    *)
(* since it was read: the code lets each of these leave a guard that does  *)
(* not match, until the watcher next reads the clipboard.                  *)
GuardMatches ==
  \A n \in Nodes : Still(n) /\ n \notin missed => last_hash[n] = clipboard[n]

(* When everything has come to rest, every machine holds the last copy     *)
(* that was meant for it, if each copy had spread before the next thing    *)
(* the user did and nothing was lost on the way.                           *)
Converged == Quiet /\ history = "calm" => clipboard = expected

(* A machine broadcasts what its own user copied and never what it was     *)
(* sent, under the same proviso on the user: the guard stops the echo.     *)
NoEcho ==
  [][\A n \in Nodes :
       reading[n] # Empty /\ reading'[n] = Empty /\ channel' # channel
         => author[reading[n]] = n \/ history = "raced"]_vars

(* Every copy comes to rest: no content is passed round until the watchers *)
(* have sent all they may, under the same proviso.                         *)
ComesToRest == []<>(Quiet \/ history = "raced")
================================================================================
