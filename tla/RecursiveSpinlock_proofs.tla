---------------------- MODULE RecursiveSpinlock_proofs ----------------------
(***************************************************************************)
(* Mutual exclusion of the recursive spin lock for any set of contexts     *)
(* with distinct pids and any nesting depth.                               *)
(***************************************************************************)
EXTENDS RecursiveSpinlock, TLAPS

\* What the words of the lock say about the one context that holds it.
OwnerWords(c) ==
  /\ spin
  /\ count = depth[c]
  /\ pc[c] = "setpid" => pid = NoPid /\ depth[c] = 0
  /\ pc[c] \in {"run", "bump", "clear"} => pid = PidOf[c]
  /\ pc[c] = "release" => pid = NoPid
  /\ pc[c] \in {"clear", "release"} => depth[c] = 0
  /\ pc[c] # "spin"

IInv ==
  /\ TypeOK
  /\ MutualExclusion
  /\ \A c \in Ctx : Holds(c) => OwnerWords(c)
  /\ \A c \in Ctx : pc[c] \in {"spin", "setpid", "bump"} => depth[c] < MaxDepth
  /\ (\A c \in Ctx : ~Holds(c)) => ~spin /\ pid = NoPid /\ count = 0

LEMMA InitIInv == Init => IInv
<1> SUFFICES ASSUME Init PROVE IInv
  OBVIOUS
<1>1. TypeOK
  <2>1. pc \in [Ctx -> PCs]
    BY DEF Init, PCs
  <2>2. depth \in [Ctx -> 0 .. MaxDepth]
    BY SpinlockAssumption DEF Init
  <2>3. pid \in Int /\ count \in 0 .. MaxDepth
    BY SpinlockAssumption DEF Init, NoPid
  <2> QED BY <2>1, <2>2, <2>3, Zenon DEF Init, TypeOK
<1>2. ASSUME NEW d \in Ctx PROVE ~Holds(d)
  BY DEF Init, Holds
<1> QED
  BY <1>1, <1>2 DEF Init, IInv, MutualExclusion

LEMMA StepIInv == ASSUME DistinctPids, IInv, NEW c \in Ctx, Step(c)
                  PROVE  IInv'
<1> USE SpinlockAssumption DEF DistinctPids, NoPid
<1>1. CASE Test(c)
  BY <1>1 DEF IInv, TypeOK, PCs, MutualExclusion, Holds, OwnerWords, Test, Goto
<1>2. CASE Acquire(c)
  BY <1>2 DEF IInv, TypeOK, PCs, MutualExclusion, Holds, OwnerWords, Acquire, Goto
<1>3. CASE SetPid(c)
  BY <1>3 DEF IInv, TypeOK, PCs, MutualExclusion, Holds, OwnerWords, SetPid, Goto
<1>4. CASE Bump(c)
  BY <1>4 DEF IInv, TypeOK, PCs, MutualExclusion, Holds, OwnerWords, Bump, Goto
<1>5. CASE Unlock(c)
  BY <1>5 DEF IInv, TypeOK, PCs, MutualExclusion, Holds, OwnerWords, Unlock, Goto
<1>6. CASE ClearPid(c)
  BY <1>6 DEF IInv, TypeOK, PCs, MutualExclusion, Holds, OwnerWords, ClearPid, Goto
<1>7. CASE Release(c)
  <2>1. Holds(c) /\ depth[c] = 0 /\ count = 0 /\ pid = NoPid
    BY <1>7 DEF IInv, Holds, OwnerWords, Release
  <2>2. \A d \in Ctx : ~Holds(d)'
    BY <1>7, <2>1 DEF IInv, TypeOK, MutualExclusion, Holds, Release, Goto
  <2> QED
    BY <1>7, <2>1, <2>2 DEF IInv, TypeOK, PCs, MutualExclusion, Release, Goto
<1> QED BY <1>1, <1>2, <1>3, <1>4, <1>5, <1>6, <1>7 DEF Step

LEMMA NextIInv == ASSUME DistinctPids, IInv, [Next]_vars PROVE IInv'
<1>1. CASE Next
  BY <1>1, StepIInv DEF Next
<1>2. CASE UNCHANGED vars
  BY <1>2 DEF vars, IInv, TypeOK, MutualExclusion, Holds, OwnerWords
<1> QED BY <1>1, <1>2

\* Only one context at a time works on the wait lists, whatever the number of
\* contexts and the nesting of their recursive_spin_lock_bh calls.
THEOREM SpinlockExclusion == ASSUME DistinctPids PROVE Spec => []MutualExclusion
<1>1. IInv /\ [Next]_vars => IInv'
  BY NextIInv
<1>2. IInv => MutualExclusion
  BY DEF IInv
<1> QED BY InitIInv, <1>1, <1>2, PTL DEF Spec

\* A context that owns thread_lock never waits for it, and the spin lock is
\* taken whenever wait_on asserts that it is.
THEOREM SpinlockNesting ==
  ASSUME DistinctPids
  PROVE  Spec => [](TypeOK /\ NoSelfDeadlock /\ WaitOnAssertion)
<1>1. IInv /\ [Next]_vars => IInv'
  BY NextIInv
<1>2. IInv => TypeOK /\ NoSelfDeadlock /\ WaitOnAssertion
  BY DEF IInv, NoSelfDeadlock, WaitOnAssertion, OwnerWords, Holds
<1> QED BY InitIInv, <1>1, <1>2, PTL DEF Spec
=============================================================================
