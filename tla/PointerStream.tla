----------------------------- MODULE PointerStream -----------------------------
(***************************************************************************)
(* What a machine's pointer is promised: the messages sent through one     *)
(* connection form a stream of positions and button presses.  They are     *)
(* applied in the order they were sent, none twice, and none is left out   *)
(* but a position that another position follows directly: a button finds   *)
(* the pointer where the last position sent before it put it, unless the   *)
(* machine has another connection that moves it.  Only when a connection   *)
(* ends may the rest of its stream be lost.  Between two connections of    *)
(* one machine there is no order.                                          *)
(***************************************************************************)
EXTENDS Integers, Sequences

CONSTANTS
  Machines,
  Connections,    \* each a machine and a number
  Messages        \* for each machine, each with a kind and a place "at"

VARIABLES
  open,      \* the connections that have not ended
  pending,   \* what was sent through each connection and not yet applied
  pointer    \* where each machine's pointer is

vars == <<open, pending, pointer>>

IsPosition(m) == m.kind = "position"
Without(q, i) == [j \in 1 .. Len(q) - 1 |-> IF j < i THEN q[j] ELSE q[j + 1]]

Init ==
  /\ open \in SUBSET Connections
  /\ pending = [c \in Connections |-> <<>>]
  /\ DOMAIN pointer = Machines
  /\ \A s \in Machines : \E m \in Messages[s] : pointer[s] = m.at

Open(c) ==
  /\ pending[c] = <<>>
  /\ open' = open \cup {c}
  /\ UNCHANGED <<pending, pointer>>

Send(c, m) ==
  /\ c \in open
  /\ pending' = [pending EXCEPT ![c] = Append(@, m)]
  /\ UNCHANGED <<open, pointer>>

(* A position is left out for the one that follows it.                     *)
Overtake(c) ==
  /\ \E i \in 1 .. Len(pending[c]) - 1 :
       /\ IsPosition(pending[c][i]) /\ IsPosition(pending[c][i + 1])
       /\ pending' = [pending EXCEPT ![c] = Without(@, i)]
  /\ UNCHANGED <<open, pointer>>

(* A machine may refuse a position.                                        *)
Apply(c) ==
  /\ pending[c] # <<>>
  /\ pending' = [pending EXCEPT ![c] = Tail(@)]
  /\ \/ /\ IsPosition(Head(pending[c]))
        /\ pointer' = [pointer EXCEPT ![c[1]] = Head(pending[c]).at]
     \/ UNCHANGED pointer
  /\ UNCHANGED open

(* A connection ends, or has ended: the end of its stream is lost.         *)
Cut(c) ==
  /\ open' = open \ {c}
  /\ \E n \in 0 .. Len(pending[c]) :
       pending' = [pending EXCEPT ![c] = SubSeq(@, 1, n)]
  /\ UNCHANGED pointer

Next ==
  \E c \in Connections :
    \/ Open(c)
    \/ Cut(c)
    \/ Apply(c)
    \/ Overtake(c)
    \/ \E m \in Messages[c[1]] : Send(c, m)

Spec == Init /\ [][Next]_vars
================================================================================
