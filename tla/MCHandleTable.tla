--------------------------- MODULE MCHandleTable ---------------------------
(* Instances of HandleTable for TLC.                                         *)
EXTENDS HandleTable, TLC

CONSTANTS p1, p2, o1, o2, d1, self, n1

\* One handle for each entry; the low two bits of a handle are ignored.
LocalHandles == {[kind |-> "local", value |-> IndexToHandle(i)] : i \in -1 .. MaxEntries - 1}
DupHandles == {[kind |-> "local", value |-> IndexToHandle(0) + 1],
               [kind |-> "local", value |-> IndexToHandle(1)],
               [kind |-> "global", value |-> IndexToHandle(0)],
               [kind |-> "pseudo", value |-> 0]}

Protect == {{}, {"protect"}}
NoFlags == {{}}

Processes == Permutations(Process)
=============================================================================
