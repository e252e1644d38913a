------------------------- MODULE RecursiveSpinlock -------------------------
(***************************************************************************)
(* thread_lock, the recursive spin lock that protects the wait lists of    *)
(* the dispatcher (lib.c, recursive_spin_lock_bh / _unlock_bh).            *)
(*                                                                         *)
(* A context is anything that can run the locking code at the same time as *)
(* the others: a task in a system call, the timer thread, or a soft        *)
(* interrupt that runs a poll callback.  A soft interrupt has no task of   *)
(* its own: "current" is the task it interrupted, which does not run       *)
(* meanwhile, so the two count as one context, except on an idle CPU where *)
(* "current" is that CPU's idle task and every idle task has pid 0.        *)
(*                                                                         *)
(* One action per access to the shared words: the owner is compared        *)
(* without holding the lock.                                               *)
(***************************************************************************)
EXTENDS Integers

CONSTANTS Ctx,        \* execution contexts
          PidOf,      \* the pid of "current" in each context
          MaxDepth    \* bound on the nesting of recursive_spin_lock_bh

NoPid == -1

ASSUME SpinlockAssumption ==
  /\ PidOf \in [Ctx -> Nat]
  /\ MaxDepth \in Nat \ {0}

\* No two contexts run with the same pid.  An assumption of the theorems and
\* of the passing run, not of the module: idle CPUs break it.
DistinctPids == \A c, d \in Ctx : PidOf[c] = PidOf[d] => c = d

VARIABLES spin,    \* lock->lock: is the spin lock taken
          pid,     \* lock->pid
          count,   \* lock->count
          pc,      \* where each context is in the locking code
          depth    \* how many times each context has locked and not unlocked

vars == <<spin, pid, count, pc, depth>>

PCs == {"run", "spin", "setpid", "bump", "clear", "release"}

TypeOK ==
  /\ spin \in BOOLEAN
  /\ pid \in Int
  /\ count \in 0 .. MaxDepth
  /\ pc \in [Ctx -> PCs]
  /\ depth \in [Ctx -> 0 .. MaxDepth]

Init ==
  /\ spin = FALSE
  /\ pid = NoPid
  /\ count = 0
  /\ pc = [c \in Ctx |-> "run"]
  /\ depth = [c \in Ctx |-> 0]

Goto(c, l) == pc' = [pc EXCEPT ![c] = l]

\* The recursion test of a version that takes any recorded owner for itself.
TestAnyOwner(c) ==
  /\ pc[c] = "run"
  /\ depth[c] < MaxDepth
  /\ Goto(c, IF pid = NoPid THEN "spin" ELSE "bump")
  /\ UNCHANGED <<spin, pid, count, depth>>

\* recursive_spin_lock_bh: if (lock->pid != current->pid)
Test(c) ==
  /\ pc[c] = "run"
  /\ depth[c] < MaxDepth
  /\ Goto(c, IF pid # PidOf[c] THEN "spin" ELSE "bump")
  /\ UNCHANGED <<spin, pid, count, depth>>

\* spin_lock_bh(&lock->lock)
Acquire(c) ==
  /\ pc[c] = "spin"
  /\ ~spin
  /\ spin' = TRUE
  /\ Goto(c, "setpid")
  /\ UNCHANGED <<pid, count, depth>>

\* lock->pid = current->pid
SetPid(c) ==
  /\ pc[c] = "setpid"
  /\ pid' = PidOf[c]
  /\ Goto(c, "bump")
  /\ UNCHANGED <<spin, count, depth>>

\* lock->count++, in both branches of recursive_spin_lock_bh
Bump(c) ==
  /\ pc[c] = "bump"
  /\ count' = count + 1
  /\ depth' = [depth EXCEPT ![c] = @ + 1]
  /\ Goto(c, "run")
  /\ UNCHANGED <<spin, pid>>

\* An unlock that releases the lock at every level of the nesting.
UnlockAlways(c) ==
  /\ pc[c] = "run"
  /\ depth[c] > 0
  /\ count' = count - 1
  /\ depth' = [depth EXCEPT ![c] = @ - 1]
  /\ Goto(c, "clear")
  /\ UNCHANGED <<spin, pid>>

\* recursive_spin_unlock_bh: if (--lock->count <= 0)
Unlock(c) ==
  /\ pc[c] = "run"
  /\ depth[c] > 0
  /\ count' = count - 1
  /\ depth' = [depth EXCEPT ![c] = @ - 1]
  /\ Goto(c, IF count' <= 0 THEN "clear" ELSE "run")
  /\ UNCHANGED <<spin, pid>>

\* lock->pid = -1
ClearPid(c) ==
  /\ pc[c] = "clear"
  /\ pid' = NoPid
  /\ Goto(c, "release")
  /\ UNCHANGED <<spin, count, depth>>

\* spin_unlock_bh(&lock->lock)
Release(c) ==
  /\ pc[c] = "release"
  /\ spin' = FALSE
  /\ Goto(c, "run")
  /\ UNCHANGED <<pid, count, depth>>

Step(c) == \/ Test(c) \/ Acquire(c) \/ SetPid(c) \/ Bump(c)
           \/ Unlock(c) \/ ClearPid(c) \/ Release(c)

Next == \E c \in Ctx : Step(c)

Spec == Init /\ [][Next]_vars

-----------------------------------------------------------------------------
\* The context has taken the spin lock and not yet given it back.
Holds(c) == depth[c] > 0 \/ pc[c] \in {"setpid", "bump", "clear", "release"}

\* At most one context is between its lock and its unlock: the unlocked read
\* of lock->pid never lets a second context into the wait lists.
MutualExclusion == \A c, d \in Ctx : Holds(c) /\ Holds(d) => c = d

\* A context that already owns the lock never spins on it: nested calls
\* (select_on -> wake_thread) take the counting branch.
NoSelfDeadlock == \A c \in Ctx : pc[c] = "spin" => ~Holds(c)

\* wait_on: assert( spin_is_locked(&thread_lock.lock) ).  Only a task calls it
\* (in a select request); the soft interrupt of an idle CPU, pid 0, does not.
WaitOnAssertion == \A c \in Ctx : PidOf[c] # 0 /\ depth[c] > 0 => spin
=============================================================================
