CONSTANTS
  t1 = t1
  t2 = t2
  t3 = t3
  Ctx <- TaskCtx
  PidOf <- TaskPid
  MaxDepth = 3
SPECIFICATION Spec
INVARIANTS MutualExclusion WaitOnAssertion
