------------------------------ MODULE KeyService ------------------------------
(***************************************************************************)
(* What the threads that forward keys promise whoever starts and stops     *)
(* them.  One thread is on at a time.  A thread that was told to stop may  *)
(* forward the one event it was waiting for, and is never on again.        *)
(* Whatever a thread has pressed on the peer it releases there before it   *)
(* is gone, unless the peer has let go of everything by itself.  Any step  *)
(* of a thread may tell the others to stop.                                *)
(***************************************************************************)
CONSTANTS
  Threads,  \* the threads ever started
  Keys

VARIABLES
  stage,    \* where each thread is
  tracker,  \* what each thread has pressed
  remote    \* what the peer has down

vars == <<stage, tracker, remote>>

Stages == {"unborn", "on", "stop", "drain", "gone"}

TypeOK ==
  /\ stage \in [Threads -> Stages]
  /\ tracker \in [Threads -> SUBSET Keys]
  /\ remote \in SUBSET Keys

Init ==
  /\ stage = [t \in Threads |-> "unborn"]
  /\ tracker = [t \in Threads |-> {}]
  /\ remote = {}

\* A thread goes on as it is, or is told to stop.
MayHalt(t) ==
  \/ stage'[t] = stage[t]
  \/ stage[t] = "on" /\ stage'[t] \in {"stop", "drain"}

Goes(t, place) ==
  /\ stage'[t] = place
  /\ \A u \in Threads \ {t} : MayHalt(u)

Begin(t) ==
  /\ stage[t] = "unborn"
  /\ \A u \in Threads : stage[u] # "on"
  /\ Goes(t, "on")
  /\ UNCHANGED <<tracker, remote>>

Halt ==
  /\ \A t \in Threads : MayHalt(t)
  /\ UNCHANGED <<tracker, remote>>

\* An event is forwarded; the late one is the last.
TakesEvent(t) ==
  \/ stage[t] = "on" /\ Goes(t, "on")
  \/ stage[t] \in {"on", "stop"} /\ Goes(t, "drain")

\* The peer may not be there.
Press(t, k) ==
  /\ TakesEvent(t)
  /\ tracker' = [tracker EXCEPT ![t] = @ \cup {k}]
  /\ remote' \in {remote, remote \cup {k}}

Release(t, k) ==
  /\ \/ TakesEvent(t)
     \/ stage[t] = "drain" /\ UNCHANGED stage
  /\ tracker' = [tracker EXCEPT ![t] = @ \ {k}]
  /\ remote' = remote \ {k}

\* The thread leaves its loop.
Leave(t) ==
  /\ stage[t] \in {"on", "stop"}
  /\ Goes(t, "drain")
  /\ UNCHANGED <<tracker, remote>>

\* The thread returns, or its hook was refused.
Return(t) ==
  /\ stage[t] \in {"on", "drain"}
  /\ tracker[t] = {}
  /\ Goes(t, "gone")
  /\ UNCHANGED <<tracker, remote>>

PeerLetsGo ==
  /\ remote' = {}
  /\ UNCHANGED <<stage, tracker>>

Next ==
  \/ Halt \/ PeerLetsGo
  \/ \E t \in Threads : Begin(t) \/ Leave(t) \/ Return(t)
  \/ \E t \in Threads : \E k \in Keys : Press(t, k) \/ Release(t, k)

\* The actions say what becomes of each thread; TypeOK, that these are all.
Spec == Init /\ [][Next]_vars /\ []TypeOK
================================================================================
