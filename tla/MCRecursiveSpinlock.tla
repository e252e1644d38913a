------------------------ MODULE MCRecursiveSpinlock ------------------------
(* An instance of RecursiveSpinlock: three tasks.                           *)
EXTENDS RecursiveSpinlock, TLC

CONSTANTS t1, t2, t3

TaskCtx == {t1, t2, t3}
TaskPid == t1 :> 1 @@ t2 :> 2 @@ t3 :> 3
============================================================================
