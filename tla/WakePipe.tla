------------------------------ MODULE WakePipe ------------------------------
(***************************************************************************)
(* What ntdll's server_select relies on: the wake-ups the server sends to a *)
(* thread travel through a pipe.  A select that is told to wait returns     *)
(* after the server has ended its wait, once, and then always returns.      *)
(* Nothing is promised any more once the pipe is broken.                    *)
(***************************************************************************)
CONSTANT Cookie

VARIABLES call,    \* state of the select that passed each cookie
          alive,   \* the thread has not been aborted
          intact   \* the pipe is not broken

vars == <<call, alive, intact>>

Init == call = [c \in Cookie |-> "idle"] /\ alive = TRUE /\ intact = TRUE

\* the select with cookie c is told to wait
Call(c) ==
  /\ alive /\ call[c] = "idle"
  /\ call' = [call EXCEPT ![c] = "waiting"]
  /\ UNCHANGED alive

\* the server ends the waits and sends their replies
Wake(C) ==
  /\ C # {}
  /\ \A c \in C : call[c] = "waiting"
  /\ call' = [c \in Cookie |-> IF c \in C THEN "sent" ELSE call[c]]
  /\ UNCHANGED alive

Return(c) ==
  /\ call[c] = "sent"
  /\ call' = [call EXCEPT ![c] = "idle"]
  /\ UNCHANGED alive

\* the thread has been killed
Abort == alive' = FALSE /\ call' = [c \in Cookie |-> "idle"]

Works ==
  \/ \E c \in Cookie : Call(c) \/ Return(c)
  \/ \E C \in SUBSET Cookie : Wake(C)
  \/ Abort

Next ==
  \/ intact /\ intact' /\ Works
  \/ ~intact'

Spec == Init /\ [][Next]_vars

FairSpec == Spec /\ \A c \in Cookie : WF_vars(intact /\ Return(c) /\ UNCHANGED intact)

=============================================================================
