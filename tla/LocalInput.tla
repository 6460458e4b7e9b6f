------------------------------ MODULE LocalInput ------------------------------
(***************************************************************************)
(* What the control engines promise the user of this machine about its own *)
(* keyboard, mouse and cursor.  An engine thread takes control of a peer   *)
(* before it takes local input away, at most one thread has the hooks at a *)
(* time, and who gives control up gives all of the input back in the same  *)
(* step, whoever had taken it.  Input may be given back earlier, at any    *)
(* time; it is never taken by a thread that is not in control.             *)
(***************************************************************************)
CONSTANTS
  Threads,  \* who may take control
  None      \* no thread

VARIABLES
  controllers,  \* the threads in control of a peer
  suppressor,   \* whose hooks keep local input from local applications
  confined      \* the cursor is confined

vars == <<controllers, suppressor, confined>>

Init ==
  /\ controllers = {}
  /\ suppressor = None
  /\ confined = FALSE

TakeControl(t) ==
  /\ t \notin controllers
  /\ controllers' = controllers \cup {t}
  /\ UNCHANGED <<suppressor, confined>>

(* The hooks may be refused, and the cursor be left alone.                 *)
TakeInput(t) ==
  /\ t \in controllers
  /\ suppressor' \in {suppressor, IF suppressor = None THEN t ELSE suppressor}
  /\ confined' \in {confined, TRUE}
  /\ UNCHANGED controllers

(* The hooks are stopped, by whomever, or the cursor is freed, or both.    *)
FreeInput ==
  /\ confined' => confined
  /\ UNCHANGED controllers
  /\ suppressor' = None \/ suppressor' = suppressor

GiveBack(t) ==
  /\ t \in controllers
  /\ controllers' = controllers \ {t}
  /\ suppressor' = None
  /\ confined' = FALSE

Next ==
  \/ FreeInput
  \/ \E t \in Threads : TakeControl(t) \/ TakeInput(t) \/ GiveBack(t)

Spec == Init /\ [][Next]_vars
================================================================================
