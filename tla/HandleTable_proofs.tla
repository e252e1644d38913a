------------------------- MODULE HandleTable_proofs -------------------------
(***************************************************************************)
(* Proofs about the handle tables, for any number of processes, objects    *)
(* and names and any table sizes: the bookkeeping of the tables is          *)
(* consistent; and, in the second part, reference counts are exact, names   *)
(* are unique and a handle keeps denoting its object.                       *)
(***************************************************************************)
EXTENDS HandleTable, FiniteSetTheorems, TLAPS

\* A table whose entries up to last can be read.
Sound(tab) ==
  /\ tab \in TableType(tab.count)
  /\ tab.last < tab.count
  /\ \A i \in 0 .. tab.last : tab.entries[i].ptr # Junk

\* A table in use whose last entry may just have been closed.
Mid(tab) ==
  /\ Sound(tab)
  /\ tab.count >= MinEntries
  /\ tab.free <= tab.last + 1
  /\ \A i \in 0 .. tab.free - 1 : tab.entries[i].ptr # None

\* A table in use between requests.
Good(tab) == Mid(tab) /\ (tab.last >= 0 => tab.entries[tab.last].ptr # None)

ContOK == /\ cont.op # "none" => cont.table \in Process
          /\ cont.op = "close" => cont.handle \in Handles
          /\ cont.op = "destroy" => ~tables[cont.table].open

IInv == /\ TypeOK
        /\ \A t \in Table : Sound(tables[t]) /\ (tables[t].open => Good(tables[t]))
        /\ ContOK

-----------------------------------------------------------------------------
(* The operations on one table.                                             *)

\* alloc_handle_table makes a table that is in order.
LEMMA NewTableGood ==
  ASSUME NEW c \in 0 .. MaxEntries
  PROVE  Good(NewTable(c)) /\ NewTable(c).open
BY HandleTableAssumption DEF Good, Mid, Sound, NewTable, TableType, Entry, Fresh

LEMMA NoTableSound == Sound(NoTable) /\ ~NoTable.open
BY HandleTableAssumption DEF Sound, NoTable, TableType, Entry, Fresh

\* alloc_entry keeps a table in order.
LEMMA FilledGood ==
  ASSUME NEW tab, Good(tab), tab.open, NEW i \in 0 .. MaxEntries, IsSlot(tab, i),
         i >= tab.count => tab.count < MaxEntries,
         NEW o \in Object, NEW access \in SUBSET Flag
  PROVE  Good(Filled(tab, i, o, access)) /\ Filled(tab, i, o, access).open
<1> DEFINE c == IF i >= tab.count THEN Grown(tab) ELSE tab.count
           new == Filled(tab, i, o, access)
<1>1. /\ tab.count \in 0 .. MaxEntries /\ tab.last \in -1 .. MaxEntries - 1
      /\ tab.free \in 0 .. MaxEntries
      /\ tab.last < tab.count /\ tab.count >= MinEntries /\ tab.free <= tab.last + 1
      /\ MinEntries \in Nat \ {0} /\ MaxEntries \in Nat
  BY HandleTableAssumption, Zenon DEF Good, Mid, Sound, TableType
<1>e. tab.entries \in [0 .. tab.count - 1 -> Entry]
  BY Zenon DEF Good, Mid, Sound, TableType
<1>2. i <= tab.last + 1
  BY <1>1 DEF IsSlot
<1>3. c \in 0 .. MaxEntries /\ i < c /\ tab.count <= c /\ tab.last < c
  BY <1>1, <1>2 DEF Grown
<1>4. /\ new.count = c /\ new.free = i + 1 /\ new.open = tab.open
      /\ new.last = (IF i > tab.last THEN i ELSE tab.last)
  BY Zenon DEF Filled
<1>f. /\ new.entries = [k \in 0 .. c - 1 |->
                          IF k = i THEN [ptr |-> o, access |-> access]
                          ELSE IF k < tab.count THEN tab.entries[k] ELSE Fresh]
      /\ new = [open |-> new.open, count |-> new.count, last |-> new.last,
                free |-> new.free, entries |-> new.entries]
  BY Zenon DEF Filled
<1> HIDE DEF new, c
<1>5. /\ new.last \in -1 .. MaxEntries - 1 /\ new.last < c /\ i <= new.last /\ tab.last <= new.last
      /\ new.last \in {i, tab.last}
      /\ new.free \in 0 .. MaxEntries /\ new.free <= new.last + 1
  <2>1. tab.last \in Int /\ c \in Int /\ c <= MaxEntries /\ MaxEntries \in Nat
    BY <1>1, <1>3
  <2>2. CASE i > tab.last
    <3>1. new.last = i BY <2>2, <1>4, Zenon
    <3> QED BY <2>1, <2>2, <3>1, <1>3, <1>4
  <2>3. CASE ~(i > tab.last)
    <3>1. new.last = tab.last BY <2>3, <1>4, Zenon
    <3> QED BY <2>1, <2>3, <3>1, <1>1, <1>3, <1>4
  <2> QED BY <2>2, <2>3, Zenon
<1>6. ASSUME NEW k \in 0 .. c - 1
      PROVE  /\ new.entries[k] \in Entry
             /\ k = i => new.entries[k].ptr = o
             /\ k # i /\ k <= tab.last => new.entries[k] = tab.entries[k]
  <2>1. CASE k = i
    <3>1. new.entries[k] = [ptr |-> o, access |-> access] BY <2>1, <1>f, Zenon
    <3> QED BY <2>1, <3>1 DEF Entry
  <2>2. CASE k # i /\ k < tab.count
    <3>1. new.entries[k] = tab.entries[k] BY <2>2, <1>f, Zenon
    <3> QED BY <2>2, <3>1, <1>1, <1>e
  <2>3. CASE k # i /\ ~(k < tab.count)
    <3>1. new.entries[k] = Fresh BY <2>3, <1>f, Zenon
    <3>2. ~(k <= tab.last) BY <2>3, <1>1
    <3> QED BY <2>3, <3>1, <3>2 DEF Entry, Fresh
  <2> QED BY <2>1, <2>2, <2>3, Zenon
<1>7. new \in TableType(c)
  <2>1. new.entries \in [0 .. c - 1 -> Entry]
    BY <1>6, <1>f, Zenon
  <2>2. new.open \in BOOLEAN
    BY <1>4, Zenon DEF Good, Mid, Sound, TableType
  <2> QED BY <2>1, <2>2, <1>3, <1>4, <1>5, <1>f, Zenon DEF TableType
<1>8. ASSUME NEW k \in 0 .. new.last PROVE new.entries[k].ptr # Junk
  <2>1. k \in 0 .. c - 1 /\ (k # i => k \in 0 .. tab.last)
    BY <1>1, <1>2, <1>3, <1>5
  <2>2. CASE k = i
    <3>1. new.entries[k].ptr = o BY <2>1, <2>2, <1>6, Zenon
    <3> QED BY <3>1, HandleTableAssumption, Zenon
  <2>3. CASE k # i
    <3>1. new.entries[k] = tab.entries[k] BY <2>1, <2>3, <1>6
    <3>2. tab.entries[k].ptr # Junk BY <2>1, <2>3, Zenon DEF Good, Mid, Sound
    <3> QED BY <3>1, <3>2, Zenon
  <2> QED BY <2>2, <2>3, Zenon
<1>9. ASSUME NEW k \in 0 .. new.free - 1 PROVE new.entries[k].ptr # None
  <2>1. k \in 0 .. c - 1 /\ (k # i => k < i /\ k <= tab.last)
    BY <1>1, <1>2, <1>3, <1>4
  <2>2. CASE k = i
    <3>1. new.entries[k].ptr = o BY <2>1, <2>2, <1>6, Zenon
    <3> QED BY <3>1, HandleTableAssumption, Zenon
  <2>3. CASE k # i
    <3>1. tab.entries[k].ptr # None
      <4>1. CASE k \in 0 .. tab.free - 1
        BY <4>1, Zenon DEF Good, Mid
      <4>2. CASE k \notin 0 .. tab.free - 1
        <5>1. k \in tab.free .. i - 1
          BY <2>1, <2>3, <4>2, <1>1
        <5>2. \A j \in tab.free .. i - 1 : tab.entries[j].ptr # None
          BY Zenon DEF IsSlot
        <5> QED BY <5>1, <5>2, Zenon
      <4> QED BY <4>1, <4>2, Zenon
    <3>2. new.entries[k] = tab.entries[k]
      BY <2>1, <2>3, <1>6, Zenon
    <3> QED BY <3>1, <3>2, Zenon
  <2> QED BY <2>2, <2>3, Zenon
<1>10. new.entries[new.last].ptr # None
  <2>1. new.last \in 0 .. c - 1 BY <1>3, <1>5
  <2>2. CASE new.last = i
    <3>1. new.entries[new.last].ptr = o BY <2>1, <2>2, <1>6, Zenon
    <3> QED BY <3>1, HandleTableAssumption, Zenon
  <2>3. CASE new.last # i
    <3>1. new.last = tab.last BY <2>3, <1>5, Zenon
    <3>2. new.entries[new.last] = tab.entries[tab.last]
      <4>1. tab.last \in 0 .. c - 1 /\ tab.last # i /\ tab.last <= tab.last
        BY <2>1, <2>3, <3>1
      <4>2. new.entries[tab.last] = tab.entries[tab.last]
        BY <4>1, <1>6, Zenon
      <4> QED BY <3>1, <4>2, Zenon
    <3>3. tab.last >= 0 BY <2>1, <3>1
    <3> QED BY <3>2, <3>3, Zenon DEF Good
  <2> QED BY <2>2, <2>3, Zenon
<1>11. Sound(new)
  BY <1>4, <1>5, <1>7, <1>8, Zenon DEF Sound
<1>12. new.count >= MinEntries
  BY <1>1, <1>3, <1>4
<1> QED BY <1>4, <1>5, <1>9, <1>10, <1>11, <1>12, Zenon DEF Good, Mid, new

\* shrink_handle_table puts a table in order again.
LEMMA ShrunkGood ==
  ASSUME NEW tab, Mid(tab), NEW l \in -1 .. tab.last, NEW c \in 0 .. MaxEntries,
         IsLast(tab, l), IsCount(tab, l, c)
  PROVE  Good(Shrunk(tab, l, c)) /\ Shrunk(tab, l, c).open = tab.open
<1> DEFINE new == Shrunk(tab, l, c)
<1>1. /\ tab.count \in 0 .. MaxEntries /\ tab.last \in -1 .. MaxEntries - 1
      /\ tab.free \in 0 .. MaxEntries
      /\ tab.last < tab.count /\ tab.count >= MinEntries /\ tab.free <= tab.last + 1
      /\ MinEntries \in Nat \ {0} /\ MaxEntries \in Nat
  BY HandleTableAssumption, Zenon DEF Mid, Sound, TableType
<1>e. tab.entries \in [0 .. tab.count - 1 -> Entry]
  BY Zenon DEF Mid, Sound, TableType
<1>2. l < c /\ c <= tab.count /\ c >= MinEntries
  <2>1. CASE c = tab.count BY <2>1, <1>1
  <2>2. CASE l < tab.count \div 4 /\ tab.count >= 2 * MinEntries /\ c = tab.count \div 2
    BY <2>2, <1>1
  <2> QED BY <2>1, <2>2, Zenon DEF IsCount
<1>3. /\ new.count = c /\ new.free = tab.free /\ new.open = tab.open /\ new.last = l
  BY Zenon DEF Shrunk
<1>f. /\ new.entries = [k \in 0 .. c - 1 |-> tab.entries[k]]
      /\ new = [open |-> new.open, count |-> new.count, last |-> new.last,
                free |-> new.free, entries |-> new.entries]
  BY Zenon DEF Shrunk
<1> HIDE DEF new
<1>a. ASSUME NEW k \in 0 .. c - 1
      PROVE  /\ k \in 0 .. tab.count - 1 /\ new.entries[k] = tab.entries[k]
             /\ new.entries[k] \in Entry
  <2>1. k \in 0 .. tab.count - 1 BY <1>1, <1>2
  <2>2. new.entries[k] = tab.entries[k] BY <1>f, Zenon
  <2> QED BY <2>1, <2>2, <1>e, Zenon
<1>4. new \in TableType(c)
  <2>1. new.entries \in [0 .. c - 1 -> Entry]
    BY <1>f, <1>a, Zenon
  <2>2. new.last \in -1 .. MaxEntries - 1
    BY <1>1, <1>3
  <2>3. new.open \in BOOLEAN
    BY <1>3, Zenon DEF Mid, Sound, TableType
  <2> QED BY <2>1, <2>2, <2>3, <1>1, <1>3, <1>f, Zenon DEF TableType
<1>5. tab.free <= l + 1
  <2>1. SUFFICES ASSUME tab.free > l + 1 PROVE FALSE
    BY <1>1
  <2>2. tab.free - 1 \in 0 .. tab.free - 1 /\ tab.free - 1 \in l + 1 .. tab.last
    BY <1>1, <2>1
  <2>3. tab.entries[tab.free - 1].ptr # None
    BY <2>2, Zenon DEF Mid
  <2> QED BY <2>2, <2>3, Zenon DEF IsLast
<1>6. Sound(new)
  <2>1. ASSUME NEW k \in 0 .. l PROVE new.entries[k].ptr # Junk
    <3>1. k \in 0 .. c - 1 /\ k \in 0 .. tab.last BY <1>1, <1>2
    <3> QED BY <3>1, <1>a, Zenon DEF Mid, Sound
  <2> QED BY <2>1, <1>2, <1>3, <1>4, Zenon DEF Sound
<1>7. ASSUME NEW k \in 0 .. new.free - 1 PROVE new.entries[k].ptr # None
  <2>1. k \in 0 .. c - 1 /\ k \in 0 .. tab.free - 1 BY <1>1, <1>2, <1>3, <1>5
  <2> QED BY <2>1, <1>a, Zenon DEF Mid
<1>8. new.last >= 0 => new.entries[new.last].ptr # None
  <2>1. SUFFICES ASSUME l >= 0 PROVE new.entries[l].ptr # None BY <1>3, Zenon
  <2>2. l \in 0 .. c - 1 BY <1>1, <1>2, <2>1
  <2> QED BY <2>1, <2>2, <1>a, Zenon DEF IsLast
<1> QED BY <1>1, <1>2, <1>3, <1>5, <1>6, <1>7, <1>8, Zenon DEF Good, Mid, new

\* close_handle takes an entry out of a table.
LEMMA ClearedMid ==
  ASSUME NEW tab, Good(tab), NEW i \in 0 .. tab.last
  PROVE  /\ Mid(Cleared(tab, i)) /\ Cleared(tab, i).open = tab.open
         /\ Cleared(tab, i).last = tab.last
         /\ i # tab.last => Good(Cleared(tab, i))
<1> DEFINE new == Cleared(tab, i)
<1>1. /\ tab.count \in 0 .. MaxEntries /\ tab.last \in -1 .. MaxEntries - 1
      /\ tab.free \in 0 .. MaxEntries
      /\ tab.last < tab.count /\ tab.count >= MinEntries /\ tab.free <= tab.last + 1
      /\ tab.open \in BOOLEAN /\ MinEntries \in Nat \ {0} /\ MaxEntries \in Nat
  BY HandleTableAssumption, Zenon DEF Good, Mid, Sound, TableType
<1>e. tab.entries \in [0 .. tab.count - 1 -> Entry]
  BY Zenon DEF Good, Mid, Sound, TableType
<1>2. /\ new.count = tab.count /\ new.open = tab.open /\ new.last = tab.last
      /\ new.free = (IF i < tab.free THEN i ELSE tab.free)
  BY Zenon DEF Cleared, Emptied
<1>f. /\ new.entries = [tab.entries EXCEPT ![i] = Empty]
      /\ new = [open |-> new.open, count |-> new.count, last |-> new.last,
                free |-> new.free, entries |-> new.entries]
  BY Zenon DEF Cleared, Emptied
<1> HIDE DEF new
<1>3. Empty \in Entry /\ Empty.ptr = None
  BY Zenon DEF Empty, Entry
<1>4. /\ new.entries \in [0 .. tab.count - 1 -> Entry]
      /\ \A k \in 0 .. tab.count - 1 : new.entries[k] = IF k = i THEN Empty ELSE tab.entries[k]
  <2>1. i \in 0 .. tab.count - 1 BY <1>1
  <2> QED BY <2>1, <1>e, <1>f, <1>3, Zenon
<1>5. new \in TableType(new.count)
  <2>1. new.free \in 0 .. MaxEntries
    BY <1>1, <1>2
  <2> QED BY <2>1, <1>1, <1>2, <1>4, <1>f, Zenon DEF TableType
<1>6. Sound(new)
  <2>1. ASSUME NEW k \in 0 .. new.last PROVE new.entries[k].ptr # Junk
    <3>1. k \in 0 .. tab.count - 1 /\ k \in 0 .. tab.last BY <1>1, <1>2
    <3>2. CASE k = i
      <4>1. new.entries[k] = Empty BY <3>1, <3>2, <1>4, Zenon
      <4> QED BY <4>1, <1>3, HandleTableAssumption, Zenon
    <3>3. CASE k # i
      <4>1. new.entries[k] = tab.entries[k] BY <3>1, <3>3, <1>4, Zenon
      <4> QED BY <3>1, <4>1, Zenon DEF Good, Mid, Sound
    <3> QED BY <3>2, <3>3, Zenon
  <2> QED BY <2>1, <1>1, <1>2, <1>5, Zenon DEF Sound
<1>7. ASSUME NEW k \in 0 .. new.free - 1 PROVE new.entries[k].ptr # None
  <2>1. k \in 0 .. tab.count - 1 /\ k # i /\ k \in 0 .. tab.free - 1
    BY <1>1, <1>2
  <2> QED BY <2>1, <1>4, Zenon DEF Good, Mid
<1>8. Mid(new)
  BY <1>1, <1>2, <1>6, <1>7 DEF Mid
<1>9. i # tab.last => new.entries[new.last].ptr # None
  <2>1. SUFFICES ASSUME i # tab.last PROVE new.entries[tab.last].ptr # None
    BY <1>2, Zenon
  <2>2. tab.last \in 0 .. tab.count - 1 /\ tab.last >= 0
    BY <1>1
  <2>3. new.entries[tab.last] = tab.entries[tab.last]
    BY <2>1, <2>2, <1>4, Zenon
  <2> QED BY <2>2, <2>3, Zenon DEF Good
<1> QED BY <1>2, <1>8, <1>9, Zenon DEF Good, new

\* copy_handle_table makes a table that only shrink_handle_table has to put in
\* order.
LEMMA CopiedMid ==
  ASSUME NEW tab, Good(tab)
  PROVE  Mid(Copied(tab)) /\ Copied(tab).open
<1> DEFINE new == Copied(tab)
<1>1. /\ tab.count \in 0 .. MaxEntries /\ tab.last \in -1 .. MaxEntries - 1
      /\ tab.entries \in [0 .. tab.count - 1 -> Entry]
      /\ tab.last < tab.count /\ tab.count >= MinEntries
      /\ MinEntries \in Nat \ {0} /\ MaxEntries \in Nat
  BY HandleTableAssumption, Zenon DEF Good, Mid, Sound, TableType
<1>2. NewTable(tab.count).count = tab.count
  BY <1>1 DEF NewTable
<1>3. /\ new.count = tab.count /\ new.open = TRUE /\ new.last = tab.last /\ new.free = 0
      /\ new.entries = [k \in 0 .. tab.count - 1 |->
                          IF k > tab.last THEN Fresh
                          ELSE IF "inherit" \in tab.entries[k].access THEN tab.entries[k]
                          ELSE Empty]
      /\ new = [open |-> new.open, count |-> new.count, last |-> new.last,
                free |-> new.free, entries |-> new.entries]
  BY <1>2, Zenon DEF Copied
<1> HIDE DEF new
<1>4. new.entries \in [0 .. tab.count - 1 -> Entry]
  BY <1>1, <1>3 DEF Fresh, Empty, Entry
<1>5. new \in TableType(new.count)
  <2>1. new.open \in BOOLEAN
    BY <1>3, Zenon
  <2>2. /\ new.count \in 0 .. MaxEntries /\ new.last \in -1 .. MaxEntries - 1
        /\ new.free \in 0 .. MaxEntries /\ new.entries \in [0 .. new.count - 1 -> Entry]
    BY <1>1, <1>3, <1>4
  <2>3. new = [open |-> new.open, count |-> new.count, last |-> new.last,
               free |-> new.free, entries |-> new.entries]
    BY <1>3, Zenon
  <2> QED BY <2>1, <2>2, <2>3, Zenon DEF TableType
<1>6. ASSUME NEW k \in 0 .. new.last PROVE new.entries[k].ptr # Junk
  <2>1. k \in 0 .. tab.count - 1 /\ k \in 0 .. tab.last /\ ~(k > tab.last)
    BY <1>1, <1>3
  <2>2. tab.entries[k].ptr # Junk /\ Empty.ptr # Junk
    BY <2>1, HandleTableAssumption, Zenon DEF Good, Mid, Sound, Empty
  <2>3. new.entries[k] \in {tab.entries[k], Empty}
    BY <2>1, <1>3
  <2> QED BY <2>2, <2>3, Zenon
<1>7. Sound(new)
  BY <1>1, <1>3, <1>5, <1>6, Zenon DEF Sound
<1> QED BY <1>1, <1>3, <1>7 DEF Mid, new

\* Changing the flags of an entry does not disturb a table.
LEMMA FlaggedGood ==
  ASSUME NEW tab, Good(tab), NEW i \in 0 .. tab.last, NEW access \in SUBSET Flag
  PROVE  Good(Flagged(tab, i, access)) /\ Flagged(tab, i, access).open = tab.open
<1> DEFINE new == Flagged(tab, i, access)
           e == [ptr |-> tab.entries[i].ptr, access |-> access]
<1>1. /\ tab.count \in 0 .. MaxEntries /\ tab.last \in -1 .. MaxEntries - 1
      /\ tab.free \in 0 .. MaxEntries /\ tab.entries \in [0 .. tab.count - 1 -> Entry]
      /\ tab.last < tab.count /\ tab.free <= tab.last + 1 /\ tab.open \in BOOLEAN
  BY HandleTableAssumption, Zenon DEF Good, Mid, Sound, TableType
<1>2. i \in 0 .. tab.count - 1 /\ e \in Entry /\ e.ptr = tab.entries[i].ptr
  BY <1>1 DEF Entry
<1>3. /\ new.count = tab.count /\ new.open = tab.open /\ new.last = tab.last
      /\ new.free = tab.free
      /\ new.entries = [tab.entries EXCEPT ![i] = e]
      /\ new = [open |-> new.open, count |-> new.count, last |-> new.last,
                free |-> new.free, entries |-> new.entries]
  BY Zenon DEF Flagged
<1> HIDE DEF new, e
<1>4. /\ new.entries \in [0 .. tab.count - 1 -> Entry]
      /\ \A k \in 0 .. tab.count - 1 : new.entries[k].ptr = tab.entries[k].ptr
  BY <1>1, <1>2, <1>3, Zenon
<1>5. new \in TableType(new.count)
  BY <1>1, <1>3, <1>4, Zenon DEF TableType
<1>6. Sound(new)
  BY <1>1, <1>3, <1>4, <1>5 DEF Good, Mid, Sound
<1> QED BY <1>1, <1>3, <1>4, <1>6 DEF Good, Mid, new

\* What a valid handle denotes is an entry in use of an open table.
LEMMA ValidEntry ==
  ASSUME IInv, NEW p \in Process, NEW h \in Handles, Valid(p, h)
  PROVE  /\ TableOf(p, h) \in Table
         /\ tables[TableOf(p, h)].open /\ Good(tables[TableOf(p, h)])
         /\ HandleToIndex(h.value) \in 0 .. tables[TableOf(p, h)].last
         /\ EntryOf(p, h) \in Entry /\ EntryOf(p, h).ptr \in Object
<1> DEFINE tab == tables[TableOf(p, h)]
           i == HandleToIndex(h.value)
<1>1. TableOf(p, h) \in Table
  BY Zenon DEF TableOf, Table
<1>2. tab.open /\ i >= 0 /\ i <= tab.last /\ tab.entries[i].ptr # None
  BY Zenon DEF Valid
<1>3. h.value \in Nat /\ i \in Int
  BY HandleTableAssumption DEF HandleToIndex
<1>4. Good(tab)
  BY <1>1, <1>2, Zenon DEF IInv
<1>5. /\ tab.last \in Int /\ tab.count \in Int /\ tab.last < tab.count
      /\ tab.entries \in [0 .. tab.count - 1 -> Entry]
      /\ \A k \in 0 .. tab.last : tab.entries[k].ptr # Junk
  BY <1>4, HandleTableAssumption DEF Good, Mid, Sound, TableType
<1>6. i \in 0 .. tab.last /\ i \in 0 .. tab.count - 1
  BY <1>2, <1>3, <1>5
<1>7. tab.entries[i] \in Entry /\ tab.entries[i].ptr \in Object
  BY <1>2, <1>5, <1>6, Zenon DEF Entry
<1> QED BY <1>1, <1>2, <1>4, <1>6, <1>7, Zenon DEF EntryOf

-----------------------------------------------------------------------------
(* The initial state and the steps.                                         *)

LEMMA InitIInv == Init => IInv
<1> SUFFICES ASSUME Init PROVE IInv
  BY Zenon
<1>1. tables = [t \in Table |-> NoTable] /\ todo = <<>> /\ cont = NoCont
  BY Zenon DEF Init
<1>2. \A t \in Table : Sound(tables[t]) /\ ~tables[t].open
  BY <1>1, NoTableSound, Zenon
<1>3. refcount \in [Object -> Int] /\ pins \in [Object -> 0 .. MaxPins]
  BY HandleTableAssumption DEF Init
<1>4. name \in [Object -> Name \cup {None}] /\ parent \in [Object -> Dir \cup {None}]
  BY Zenon DEF Init
<1>5. /\ todo \in Seq(Object)
      /\ cont \in [op : {"none", "close", "destroy"}, table : Table \cup {None},
                   handle : Handles \cup {None}]
      /\ cont.op = "none"
  BY <1>1 DEF NoCont
<1>6. \A t \in Table : tables[t] \in TableType(tables[t].count)
  BY <1>2, Zenon DEF Sound
<1> QED BY <1>1, <1>2, <1>3, <1>4, <1>5, <1>6, Zenon DEF IInv, TypeOK, ContOK

\* A step that replaces one table by a sound one, in order if it is in use.
LEMMA OneTable ==
  ASSUME IInv, NEW t \in Table, NEW tab, Sound(tab), tab.open => Good(tab),
         tables' = [tables EXCEPT ![t] = tab]
  PROVE  /\ tables' = [u \in Table |-> tables'[u]]
         /\ \A u \in Table : tables'[u] \in TableType(tables'[u].count)
         /\ \A u \in Table : Sound(tables'[u]) /\ (tables'[u].open => Good(tables'[u]))
<1>1. tables = [u \in Table |-> tables[u]]
  BY Zenon DEF IInv, TypeOK
<1>2. \A u \in Table : tables'[u] = IF u = t THEN tab ELSE tables[u]
  BY <1>1, Zenon
<1>3. \A u \in Table : Sound(tables'[u]) /\ (tables'[u].open => Good(tables'[u]))
  BY <1>2, Zenon DEF IInv
<1>4. tables' = [u \in Table |-> tables'[u]]
  BY <1>1, Zenon
<1> QED BY <1>3, <1>4, Zenon DEF Sound

\* The part of IInv that is not about the tables.
Rest ==
  /\ refcount \in [Object -> Int]
  /\ pins \in [Object -> 0 .. MaxPins]
  /\ name \in [Object -> Name \cup {None}]
  /\ parent \in [Object -> Dir \cup {None}]
  /\ todo \in Seq(Object)
  /\ cont \in [op : {"none", "close", "destroy"}, table : Table \cup {None},
               handle : Handles \cup {None}]
  /\ ContOK

TablesOK ==
  /\ tables = [u \in Table |-> tables[u]]
  /\ \A u \in Table : tables[u] \in TableType(tables[u].count)
  /\ \A u \in Table : Sound(tables[u]) /\ (tables[u].open => Good(tables[u]))

LEMMA Groups == IInv <=> Rest /\ TablesOK
BY Zenon DEF IInv, TypeOK, Rest, TablesOK

LEMMA GroupsNext == IInv' <=> Rest' /\ TablesOK'
BY Zenon DEF IInv, TypeOK, Rest, TablesOK, ContOK

\* close_handle keeps the tables in order.
LEMMA CloseTables ==
  ASSUME IInv, NEW p \in Process, NEW h \in Handles, Valid(p, h),
         CloseEntry(TableOf(p, h), HandleToIndex(h.value))
  PROVE  TablesOK'
<1> DEFINE t == TableOf(p, h)
           i == HandleToIndex(h.value)
           tab == Cleared(tables[t], i)
<1>1. t \in Table /\ Good(tables[t]) /\ i \in 0 .. tables[t].last
  BY ValidEntry, Zenon
<1>2. Mid(tab) /\ (i # tables[t].last => Good(tab)) /\ tab.last = tables[t].last
  BY <1>1, ClearedMid, Zenon
<1>3. CASE i # tab.last
  <2>1. tables' = [tables EXCEPT ![t] = tab]
    BY <1>3, Zenon DEF CloseEntry
  <2>2. Good(tab) /\ Sound(tab)
    BY <1>2, <1>3, Zenon DEF Good, Mid
  <2> HIDE DEF t, tab, i
  <2> QED BY <2>1, <2>2, <1>1, OneTable, Zenon DEF TablesOK
<1>4. CASE i = tab.last
  <2>1. PICK l \in -1 .. tab.last, c \in 0 .. MaxEntries :
          /\ IsLast(tab, l) /\ IsCount(tab, l, c)
          /\ tables' = [tables EXCEPT ![t] = Shrunk(tab, l, c)]
    BY <1>4, Zenon DEF CloseEntry
  <2> HIDE DEF t, tab, i
  <2>2. Good(Shrunk(tab, l, c))
    BY <1>2, <2>1, ShrunkGood, Zenon
  <2>3. Sound(Shrunk(tab, l, c))
    BY <2>2, Zenon DEF Good, Mid
  <2> QED BY <2>1, <2>2, <2>3, <1>1, OneTable, Zenon DEF TablesOK
<1> QED BY <1>3, <1>4, Zenon

\* alloc_entry keeps the tables in order.
LEMMA AllocTables ==
  ASSUME IInv, NEW t \in Table, NEW o \in Object, NEW access \in SUBSET Flag,
         NEW refs \in [Object -> Int], Alloc(t, o, access, refs)
  PROVE  TablesOK' /\ refcount' \in [Object -> Int]
<1> DEFINE tab == IF t = Global /\ ~tables[t].open THEN NewTable(0) ELSE tables[t]
<1>1. Sound(tab) /\ (tab.open => Good(tab))
  <2>1. CASE t = Global /\ ~tables[t].open
    <3>1. Good(NewTable(0)) BY NewTableGood, HandleTableAssumption
    <3> QED BY <2>1, <3>1, Zenon DEF Good, Mid
  <2>2. CASE ~(t = Global /\ ~tables[t].open)
    BY <2>2, Zenon DEF IInv
  <2> QED BY <2>1, <2>2, Zenon
<1>2. CASE /\ tab.open
           /\ \E i \in 0 .. MaxEntries :
                /\ IsSlot(tab, i)
                /\ i >= tab.count => tab.count < MaxEntries
                /\ tables' = [tables EXCEPT ![t] = Filled(tab, i, o, access)]
           /\ refcount' = [refs EXCEPT ![o] = @ + 1]
  <2>1. PICK i \in 0 .. MaxEntries :
          /\ IsSlot(tab, i)
          /\ i >= tab.count => tab.count < MaxEntries
          /\ tables' = [tables EXCEPT ![t] = Filled(tab, i, o, access)]
    BY <1>2, Zenon
  <2> HIDE DEF tab
  <2>2. Good(Filled(tab, i, o, access))
    BY <1>1, <1>2, <2>1, FilledGood, Zenon
  <2>3. Sound(Filled(tab, i, o, access))
    BY <2>2, Zenon DEF Good, Mid
  <2>4. TablesOK'
    BY <2>1, <2>2, <2>3, OneTable, Zenon DEF TablesOK
  <2> QED BY <2>4, <1>2
<1>3. CASE /\ tables' = [tables EXCEPT ![t] = tab]
           /\ refcount' = refs
  <2> HIDE DEF tab
  <2>1. TablesOK'
    BY <1>1, <1>3, OneTable, Zenon DEF TablesOK
  <2> QED BY <2>1, <1>3, Zenon
<1> QED BY <1>2, <1>3, Zenon DEF Alloc

\* close_handle, and the set_handle_info of dup_handle, on a valid handle.
LEMMA CloseStep ==
  ASSUME IInv, NEW p \in Process, NEW h \in Handles, Close(p, h)
  PROVE  TablesOK' /\ todo' \in Seq(Object)
<1>1. /\ Valid(p, h) /\ CloseEntry(TableOf(p, h), HandleToIndex(h.value))
      /\ todo' = <<EntryOf(p, h).ptr>>
  BY Zenon DEF Close
<1>2. EntryOf(p, h).ptr \in Object
  BY <1>1, ValidEntry, Zenon
<1> QED BY <1>1, <1>2, CloseTables

LEMMA FlagStep ==
  ASSUME IInv, NEW p \in Process, NEW h \in Handles, Valid(p, h),
         NEW access \in SUBSET Flag,
         tables' = [tables EXCEPT ![TableOf(p, h)] = Flagged(@, HandleToIndex(h.value), access)]
  PROVE  TablesOK'
<1> DEFINE t == TableOf(p, h)
           tab == Flagged(tables[t], HandleToIndex(h.value), access)
<1>1. t \in Table /\ Good(tables[t]) /\ HandleToIndex(h.value) \in 0 .. tables[t].last
  BY ValidEntry, Zenon
<1>2. Good(tab) /\ Sound(tab)
  BY <1>1, FlaggedGood, Zenon DEF Good, Mid
<1>3. tables' = [tables EXCEPT ![t] = tab]
  BY Zenon
<1> HIDE DEF t, tab
<1> QED BY <1>1, <1>2, <1>3, OneTable, Zenon DEF TablesOK

LEMMA DenotesObject ==
  ASSUME IInv, NEW p \in Process, NEW h \in Handles, NEW o, Denotes(p, h, o)
  PROVE  o \in Object
BY ValidEntry, HandleTableAssumption, Zenon DEF Denotes

\* Taking an entry out of a table that is being destroyed.
LEMMA EmptiedSound ==
  ASSUME NEW tab, Sound(tab), NEW i \in 0 .. tab.last
  PROVE  Sound(Emptied(tab, i, tab.free)) /\ Emptied(tab, i, tab.free).open = tab.open
<1> DEFINE new == Emptied(tab, i, tab.free)
<1>1. /\ tab.count \in 0 .. MaxEntries /\ tab.last \in -1 .. MaxEntries - 1
      /\ tab.free \in 0 .. MaxEntries /\ tab.entries \in [0 .. tab.count - 1 -> Entry]
      /\ tab.last < tab.count /\ tab.open \in BOOLEAN /\ MaxEntries \in Nat
  BY HandleTableAssumption, Zenon DEF Sound, TableType
<1>2. /\ new.count = tab.count /\ new.open = tab.open /\ new.last = tab.last
      /\ new.free = tab.free
      /\ new.entries = [tab.entries EXCEPT ![i] = Empty]
      /\ new = [open |-> new.open, count |-> new.count, last |-> new.last,
                free |-> new.free, entries |-> new.entries]
  BY Zenon DEF Emptied
<1> HIDE DEF new
<1>3. Empty \in Entry /\ Empty.ptr # Junk
  BY HandleTableAssumption, Zenon DEF Empty, Entry
<1>4. /\ new.entries \in [0 .. tab.count - 1 -> Entry]
      /\ \A k \in 0 .. tab.count - 1 : new.entries[k] = IF k = i THEN Empty ELSE tab.entries[k]
  BY <1>1, <1>2, <1>3, Zenon
<1>5. new \in TableType(new.count)
  BY <1>1, <1>2, <1>4, Zenon DEF TableType
<1>6. \A k \in 0 .. new.last : new.entries[k].ptr # Junk
  BY <1>1, <1>2, <1>3, <1>4 DEF Sound
<1> QED BY <1>1, <1>2, <1>5, <1>6, Zenon DEF Sound, new

-----------------------------------------------------------------------------
(* The requests.                                                            *)

LEMMA CreateIInv ==
  ASSUME IInv, NEW p \in Process, NEW o \in Object, NEW d \in Dir \cup {None},
         NEW n \in Name \cup {None}, NEW inherit \in Inherit, Create(p, o, d, n, inherit)
  PROVE  IInv'
<1> DEFINE refs == [x \in Object |-> IF x = o THEN 1
                             ELSE IF x = d THEN refcount[x] + 1 ELSE refcount[x]]
<1>1. Rest BY Groups, Zenon
<1>2. refs \in [Object -> Int]
  BY <1>1 DEF Rest
<1>3. AttrAccess(inherit) \in SUBSET Flag /\ p \in Table
  BY Zenon DEF AttrAccess, Flag, Table
<1>4. Alloc(p, o, AttrAccess(inherit), refs)
  BY Zenon DEF Create
<1> HIDE DEF refs
<1>5. TablesOK' /\ refcount' \in [Object -> Int]
  BY <1>2, <1>3, <1>4, AllocTables, Zenon
<1>6. name' \in [Object -> Name \cup {None}] /\ parent' \in [Object -> Dir \cup {None}]
  BY <1>1, Zenon DEF Create, Rest
<1>7. todo' \in Seq(Object) /\ pins' = pins /\ cont' = cont
  BY DEF Create
<1>0. cont.op = "none"
  BY Zenon DEF Request, Idle, NoCont, Create
<1>8. Rest'
  BY <1>0, <1>1, <1>5, <1>6, <1>7, Zenon DEF Rest, ContOK
<1> QED BY <1>5, <1>8, GroupsNext, Zenon

LEMMA OpenObjectIInv ==
  ASSUME IInv, NEW p \in Process, NEW o \in Object, NEW d \in Dir \cup {None},
         NEW n \in Name, NEW inherit \in Inherit, NEW allowed \in BOOLEAN,
         OpenObject(p, o, d, n, inherit, allowed)
  PROVE  IInv'
<1> DEFINE refs == [refcount EXCEPT ![o] = @ + 1]
<1>1. Rest /\ TablesOK BY Groups, Zenon
<1>2. refs \in [Object -> Int]
  BY <1>1 DEF Rest
<1>3. AttrAccess(inherit) \in SUBSET Flag /\ p \in Table
  BY Zenon DEF AttrAccess, Flag, Table
<1>4. \/ Alloc(p, o, AttrAccess(inherit), refs)
      \/ refcount' = refs /\ UNCHANGED tables
  BY Zenon DEF OpenObject
<1> HIDE DEF refs
<1>5. TablesOK' /\ refcount' \in [Object -> Int]
  <2>1. CASE Alloc(p, o, AttrAccess(inherit), refs)
    BY <2>1, <1>2, <1>3, AllocTables, Zenon
  <2>2. CASE refcount' = refs /\ UNCHANGED tables
    BY <2>2, <1>1, <1>2, Zenon DEF TablesOK
  <2> QED BY <2>1, <2>2, <1>4, Zenon
<1>6. todo' \in Seq(Object) /\ pins' = pins /\ cont' = cont /\ name' = name /\ parent' = parent
  BY DEF OpenObject, nameVars
<1>0. cont.op = "none"
  BY Zenon DEF Request, Idle, NoCont, OpenObject
<1>7. Rest'
  BY <1>0, <1>1, <1>5, <1>6, Zenon DEF Rest, ContOK
<1> QED BY <1>5, <1>7, GroupsNext, Zenon

LEMMA UnlinkObjectIInv ==
  ASSUME IInv, NEW p \in Process, NEW h \in Handles, UnlinkObject(p, h)
  PROVE  IInv'
<1>1. Rest /\ TablesOK BY Groups, Zenon
<1>2. PICK o \in Object :
        /\ name' = [name EXCEPT ![o] = None]
        /\ parent' = [parent EXCEPT ![o] = None]
        /\ todo' = IF parent[o] = None THEN <<>> ELSE <<parent[o]>>
  BY Zenon DEF UnlinkObject
<1>3. name' \in [Object -> Name \cup {None}] /\ parent' \in [Object -> Dir \cup {None}]
  BY <1>1, <1>2, Zenon DEF Rest
<1>4. parent[o] \in Dir \cup {None} /\ Dir \subseteq Object
  BY <1>1, HandleTableAssumption, Zenon DEF Rest
<1>5. todo' \in Seq(Object)
  BY <1>2, <1>4
<1>6. tables' = tables /\ refcount' = refcount /\ pins' = pins /\ cont' = cont
  BY Zenon DEF UnlinkObject
<1>7. Rest' /\ TablesOK'
  BY <1>1, <1>3, <1>5, <1>6, Zenon DEF Rest, ContOK, TablesOK
<1> QED BY <1>7, GroupsNext, Zenon

LEMMA CloseHandleIInv ==
  ASSUME IInv, NEW p \in Process, NEW h \in Handles, CloseHandle(p, h)
  PROVE  IInv'
<1>1. Rest BY Groups, Zenon
<1>2. TablesOK' /\ todo' \in Seq(Object)
  BY CloseStep, Zenon DEF CloseHandle
<1>3. /\ refcount' = refcount /\ pins' = pins /\ cont' = cont
      /\ name' = name /\ parent' = parent
  BY Zenon DEF CloseHandle, nameVars
<1>0. cont.op = "none"
  BY Zenon DEF Request, Idle, NoCont, CloseHandle
<1>4. Rest'
  BY <1>0, <1>1, <1>2, <1>3, Zenon DEF Rest, ContOK
<1> QED BY <1>2, <1>4, GroupsNext, Zenon

LEMMA SetHandleInfoIInv ==
  ASSUME IInv, NEW p \in Process, NEW h \in Handles, NEW mask \in Flags, NEW flags \in Flags,
         SetHandleInfo(p, h, mask, flags)
  PROVE  IInv'
<1> DEFINE access == (EntryOf(p, h).access \ mask) \cup (flags \cap mask)
<1>1. Rest BY Groups, Zenon
<1>2. Valid(p, h) BY Zenon DEF SetHandleInfo
<1>3. access \in SUBSET Flag
  BY <1>2, ValidEntry, HandleTableAssumption, Zenon DEF Entry
<1>4. tables' = [tables EXCEPT ![TableOf(p, h)] = Flagged(@, HandleToIndex(h.value), access)]
  BY Zenon DEF SetHandleInfo
<1> HIDE DEF access
<1>5. TablesOK'
  BY <1>2, <1>3, <1>4, FlagStep, Zenon
<1>6. UNCHANGED <<refcount, pins, nameVars, todo, cont>>
  BY Zenon DEF SetHandleInfo
<1>0. cont.op = "none"
  BY Zenon DEF Request, Idle, NoCont, SetHandleInfo
<1>7. Rest'
  BY <1>0, <1>1, <1>6, Zenon DEF Rest, ContOK, nameVars
<1> QED BY <1>5, <1>7, GroupsNext, Zenon

LEMMA DupHandleIInv ==
  ASSUME IInv, NEW p \in Process, NEW src \in Process, NEW h \in Handles,
         NEW dst \in Process \cup {None}, NEW global \in BOOLEAN, NEW closeSource \in BOOLEAN,
         NEW rights, NEW inherit \in Inherit,
         DupHandle(p, src, h, dst, global, closeSource, rights, inherit)
  PROVE  IInv'
<1> DEFINE access == AttrAccess(inherit)
           close == IF closeSource THEN [op |-> "close", table |-> src, handle |-> h] ELSE NoCont
<1>1. Rest /\ TablesOK BY Groups, Zenon
<1>2. access \in SUBSET Flag /\ {} \in SUBSET Flag
  BY Zenon DEF AttrAccess, Flag
<1>3. /\ close \in [op : {"none", "close", "destroy"}, table : Table \cup {None},
                    handle : Handles \cup {None}]
      /\ close.op # "none" => close.table \in Process
      /\ close.op = "close" => close.handle \in Handles
      /\ close.op # "destroy"
  BY Zenon DEF NoCont, Table
<1>4. PICK o \in Object :
        \/ cont' = close /\ UNCHANGED <<tables, refcount>>
        \/ /\ Valid(src, h)
           /\ tables' = [tables EXCEPT ![TableOf(src, h)] =
                           Flagged(@, HandleToIndex(h.value), access)]
           /\ UNCHANGED <<refcount, cont>>
        \/ /\ dst # None \/ global
           /\ IF global THEN Alloc(Global, o, {}, refcount)
                        ELSE Alloc(dst, o, access, refcount)
           /\ cont' = close
  BY Zenon DEF DupHandle
<1>5. UNCHANGED <<pins, nameVars, todo>>
  BY Zenon DEF DupHandle
<1> HIDE DEF access, close
<1>6. refcount \in [Object -> Int] BY <1>1, Zenon DEF Rest
<1>7. TablesOK' /\ refcount' \in [Object -> Int] /\ (cont' = cont \/ cont' = close)
  <2>1. CASE cont' = close /\ UNCHANGED <<tables, refcount>>
    BY <2>1, <1>1, <1>6, Zenon DEF TablesOK
  <2>2. CASE /\ Valid(src, h)
             /\ tables' = [tables EXCEPT ![TableOf(src, h)] =
                             Flagged(@, HandleToIndex(h.value), access)]
             /\ UNCHANGED <<refcount, cont>>
    BY <2>2, <1>2, <1>6, FlagStep, Zenon
  <2>3. CASE /\ dst # None \/ global
             /\ IF global THEN Alloc(Global, o, {}, refcount)
                          ELSE Alloc(dst, o, access, refcount)
             /\ cont' = close
    <3>1. CASE global
      BY <3>1, <2>3, <1>2, <1>6, AllocTables, Zenon DEF Table
    <3>2. CASE ~global
      BY <3>2, <2>3, <1>2, <1>6, AllocTables, Zenon DEF Table
    <3> QED BY <3>1, <3>2, Zenon
  <2> QED BY <2>1, <2>2, <2>3, <1>4, Zenon
<1>0. cont.op = "none"
  BY Zenon DEF Request, Idle, NoCont, DupHandle
<1>8. Rest'
  BY <1>0, <1>1, <1>3, <1>5, <1>7 DEF Rest, ContOK, nameVars
<1> QED BY <1>7, <1>8, GroupsNext, Zenon

LEMMA QueueIInv ==
  ASSUME IInv,
         \/ \E p \in Process, h \in Handles : AddQueue(p, h)
         \/ \E o \in Object : RemoveQueue(o)
  PROVE  IInv'
<1>1. Rest /\ TablesOK BY Groups, Zenon
<1>2. MaxPins \in Nat BY HandleTableAssumption, Zenon
<1>3. /\ pins' \in [Object -> 0 .. MaxPins] /\ refcount' \in [Object -> Int]
      /\ todo' \in Seq(Object) /\ UNCHANGED <<tables, nameVars, cont>>
  <2>1. ASSUME NEW p \in Process, NEW h \in Handles, AddQueue(p, h)
        PROVE  /\ pins' \in [Object -> 0 .. MaxPins] /\ refcount' \in [Object -> Int]
               /\ todo' \in Seq(Object) /\ UNCHANGED <<tables, nameVars, cont>>
    BY <2>1, <1>1, <1>2 DEF AddQueue, Rest
  <2>2. ASSUME NEW o \in Object, RemoveQueue(o)
        PROVE  /\ pins' \in [Object -> 0 .. MaxPins] /\ refcount' \in [Object -> Int]
               /\ todo' \in Seq(Object) /\ UNCHANGED <<tables, nameVars, cont>>
    BY <2>2, <1>1, <1>2 DEF RemoveQueue, Rest
  <2> QED BY <2>1, <2>2, Zenon
<1>4. Rest' /\ TablesOK'
  BY <1>1, <1>3, Zenon DEF Rest, ContOK, TablesOK, nameVars
<1> QED BY <1>4, GroupsNext, Zenon

LEMMA ReleaseIInv ==
  ASSUME IInv, Release
  PROVE  IInv'
<1> DEFINE o == Head(todo)
<1>1. Rest /\ TablesOK BY Groups, Zenon
<1>2. todo # <<>> /\ todo \in Seq(Object) /\ o \in Object /\ Tail(todo) \in Seq(Object)
  BY <1>1 DEF Release, Rest
<1>3. parent[o] \in Dir \cup {None} /\ Dir \subseteq Object
  BY <1>1, <1>2, HandleTableAssumption, Zenon DEF Rest
<1>4. refcount' \in [Object -> Int]
  BY <1>1, <1>2 DEF Release, Rest
<1>5. /\ name' \in [Object -> Name \cup {None}]
      /\ parent' \in [Object -> Dir \cup {None}]
  BY <1>1, <1>2, Zenon DEF Release, Rest, nameVars
<1>6. todo' \in Seq(Object)
  <2>1. todo' = Tail(todo) \/ (parent[o] # None /\ todo' = <<parent[o]>> \o Tail(todo))
    BY Zenon DEF Release
  <2> QED BY <2>1, <1>2, <1>3
<1>7. UNCHANGED <<tables, pins, cont>>
  BY Zenon DEF Release
<1>8. Rest' /\ TablesOK'
  BY <1>1, <1>4, <1>5, <1>6, <1>7, Zenon DEF Rest, ContOK, TablesOK
<1> QED BY <1>8, GroupsNext, Zenon

LEMMA CloseSourceIInv ==
  ASSUME IInv, CloseSource
  PROVE  IInv'
<1>1. Rest /\ TablesOK BY Groups
<1>2. cont.table \in Process /\ cont.handle \in Handles
  BY <1>1, Zenon DEF CloseSource, Rest, ContOK
<1>3. TablesOK' /\ todo' \in Seq(Object)
  <2>1. CASE Close(cont.table, cont.handle)
    BY <2>1, <1>2, CloseStep, Zenon
  <2>2. CASE UNCHANGED <<tables, todo>>
    BY <2>2, <1>1, Zenon DEF TablesOK, Rest
  <2> QED BY <2>1, <2>2, Zenon DEF CloseSource
<1>4. cont' = NoCont /\ UNCHANGED <<refcount, pins, nameVars>>
  BY Zenon DEF CloseSource
<1>5. Rest'
  BY <1>1, <1>3, <1>4, Zenon DEF Rest, ContOK, nameVars, NoCont
<1> QED BY <1>3, <1>5, GroupsNext, Zenon

-----------------------------------------------------------------------------
(* Processes come and go.                                                   *)

LEMMA NewProcessIInv ==
  ASSUME IInv, NEW p \in Process, NewProcess(p)
  PROVE  IInv'
<1>1. Rest BY Groups, Zenon
<1>2. Good(NewTable(0)) /\ Sound(NewTable(0))
  BY NewTableGood, HandleTableAssumption DEF Good, Mid
<1>3. tables' = [tables EXCEPT ![p] = NewTable(0)] /\ p \in Table
  BY Zenon DEF NewProcess, Table
<1>4. TablesOK'
  BY <1>2, <1>3, OneTable, Zenon DEF TablesOK
<1>0. cont.op = "none"
  BY Zenon DEF Idle, NoCont, NewProcess
<1>5. Rest'
  BY <1>0, <1>1, Zenon DEF NewProcess, Rest, ContOK, nameVars
<1> QED BY <1>4, <1>5, GroupsNext, Zenon

LEMMA NewProcessInheritIInv ==
  ASSUME IInv, NEW p \in Process, NEW q \in Process, NewProcessInherit(p, q)
  PROVE  IInv'
<1> DEFINE tab == Copied(tables[q])
           copies(o) == {k \in 0 .. tab.last : tab.entries[k].ptr = o}
<1>1. Rest BY Groups, Zenon
<1>2. Good(tables[q]) /\ p \in Table
  BY Zenon DEF NewProcessInherit, Request, IInv, Table
<1>3. Mid(tab)
  BY <1>2, CopiedMid, Zenon
<1>4. PICK l \in -1 .. tab.last, c \in 0 .. MaxEntries :
        /\ IsLast(tab, l) /\ IsCount(tab, l, c)
        /\ tables' = [tables EXCEPT ![p] = Shrunk(tab, l, c)]
  BY Zenon DEF NewProcessInherit
<1>5. refcount' = [o \in Object |-> refcount[o] + Cardinality(copies(o))]
  BY Zenon DEF NewProcessInherit
<1>6. UNCHANGED <<pins, nameVars, todo, cont>>
  BY Zenon DEF NewProcessInherit
<1> HIDE DEF tab
<1>7. Good(Shrunk(tab, l, c)) /\ Sound(Shrunk(tab, l, c))
  BY <1>3, <1>4, ShrunkGood, Zenon DEF Good, Mid
<1>8. TablesOK'
  BY <1>2, <1>4, <1>7, OneTable, Zenon DEF TablesOK
<1>9. ASSUME NEW o \in Object PROVE Cardinality(copies(o)) \in Nat
  <2>1. tab.last \in Int
    BY <1>3, HandleTableAssumption DEF Mid, Sound, TableType
  <2>2. IsFiniteSet(0 .. tab.last)
    BY <2>1, FS_Interval
  <2>3. IsFiniteSet(copies(o))
    BY <2>2, FS_Subset, Zenon
  <2> QED BY <2>3, FS_CardinalityType, Zenon
<1> HIDE DEF copies
<1>10. refcount' \in [Object -> Int]
  BY <1>1, <1>5, <1>9 DEF Rest
<1>0. cont.op = "none"
  BY Zenon DEF Request, Idle, NoCont, NewProcessInherit
<1>11. Rest'
  BY <1>0, <1>1, <1>6, <1>10, Zenon DEF Rest, ContOK, nameVars
<1> QED BY <1>8, <1>11, GroupsNext, Zenon

LEMMA ExitProcessIInv ==
  ASSUME IInv, NEW p \in Process, ExitProcess(p)
  PROVE  IInv'
<1> DEFINE old == tables[p]
           new == [open |-> FALSE, count |-> old.count, last |-> old.last,
                   free |-> old.free, entries |-> old.entries]
<1>1. Rest BY Groups
<1>2. Sound(old) /\ p \in Table
  BY Zenon DEF IInv, Table
<1>3. /\ new.count = old.count /\ new.last = old.last /\ new.entries = old.entries
      /\ new.free = old.free /\ ~new.open
  BY Zenon
<1>4. new \in TableType(new.count)
  <2>1. /\ old.count \in 0 .. MaxEntries /\ old.last \in -1 .. MaxEntries - 1
        /\ old.free \in 0 .. MaxEntries /\ old.entries \in [0 .. old.count - 1 -> Entry]
    BY <1>2, Zenon DEF Sound, TableType
  <2> QED BY <2>1, Zenon DEF TableType
<1>5. tables' = [tables EXCEPT ![p] = new]
  BY Zenon DEF ExitProcess
<1> HIDE DEF new, old
<1>6. Sound(new)
  BY <1>2, <1>3, <1>4, Zenon DEF Sound
<1>7. TablesOK'
  BY <1>2, <1>3, <1>5, <1>6, OneTable, Zenon DEF TablesOK
<1>8. /\ cont' = [op |-> "destroy", table |-> p, handle |-> None]
      /\ UNCHANGED <<refcount, pins, nameVars, todo>>
  BY Zenon DEF ExitProcess
<1>9. Rest'
  <2>1. ~tables'[p].open /\ p # None
    BY <1>2, <1>3, <1>5, HandleTableAssumption, Zenon DEF IInv, TypeOK
  <2> QED BY <1>1, <1>2, <1>8, <2>1, Zenon DEF Rest, ContOK, nameVars
<1> QED BY <1>7, <1>9, GroupsNext

LEMMA DestroyIInv ==
  ASSUME IInv, DestroyEntry \/ DestroyTable
  PROVE  IInv'
<1> DEFINE t == cont.table
           tab == tables[t]
<1>1. Rest BY Groups, Zenon
<1>2. cont.op = "destroy"
  BY Zenon DEF DestroyEntry, DestroyTable
<1>3. t \in Table /\ t \in Process
  BY <1>1, <1>2, Zenon DEF Rest, ContOK, Table
<1>4. Sound(tab) /\ (tab.open => Good(tab))
  BY <1>3, Zenon DEF IInv
<1>5. CASE DestroyEntry
  <2>1. PICK i \in 0 .. tab.last :
          /\ tab.entries[i].ptr # None
          /\ tables' = [tables EXCEPT ![t] = Emptied(tab, i, tab.free)]
          /\ todo' = <<tab.entries[i].ptr>>
    BY <1>5, Zenon DEF DestroyEntry
  <2>2. Sound(Emptied(tab, i, tab.free)) /\ Emptied(tab, i, tab.free).open = tab.open
    BY <1>4, EmptiedSound, Zenon
  <2>3. ~tab.open
    BY <1>2, Zenon DEF IInv, ContOK
  <2>4. TablesOK'
    BY <1>3, <2>1, <2>2, <2>3, OneTable, Zenon DEF TablesOK
  <2>5. tab.entries[i].ptr \in Object
    <3>1. tab.entries[i].ptr # Junk
      BY <1>4, Zenon DEF Sound
    <3>2. tab.entries[i] \in Entry
      BY <1>4, HandleTableAssumption DEF Sound, TableType
    <3> QED BY <3>1, <3>2, <2>1, Zenon DEF Entry
  <2>6. todo' \in Seq(Object) /\ UNCHANGED <<refcount, pins, nameVars, cont>>
    <3>1. \A x \in Object : <<x>> \in Seq(Object)
      OBVIOUS
    <3>2. UNCHANGED <<refcount, pins, nameVars, cont>>
      BY <1>5, Zenon DEF DestroyEntry
    <3> QED BY <2>1, <2>5, <3>1, <3>2, Zenon
  <2>7. Rest'
    <3>1. tables'[cont.table].open = tab.open
      BY <1>1, <1>3, <2>1, <2>2 DEF Rest
    <3>2. ContOK'
      BY <1>1, <1>2, <2>3, <2>6, <3>1, Zenon DEF Rest, ContOK
    <3> QED BY <1>1, <2>1, <2>6, <3>2, Zenon DEF Rest, nameVars
  <2> QED BY <2>4, <2>7, GroupsNext, Zenon
<1>6. CASE DestroyTable
  <2>1. tables' = [tables EXCEPT ![t] = NoTable] /\ cont' = NoCont
        /\ UNCHANGED <<refcount, pins, nameVars, todo>>
    BY <1>6, Zenon DEF DestroyTable
  <2>2. TablesOK'
    BY <1>3, <2>1, NoTableSound, OneTable, Zenon DEF TablesOK
  <2>3. Rest'
    BY <1>1, <2>1, Zenon DEF Rest, ContOK, nameVars, NoCont
  <2> QED BY <2>2, <2>3, GroupsNext, Zenon
<1> QED BY <1>5, <1>6, Zenon

-----------------------------------------------------------------------------

LEMMA NextIInv == IInv /\ [Next]_vars => IInv'
<1> SUFFICES ASSUME IInv, [Next]_vars PROVE IInv'
  BY Zenon
<1>1. CASE Continue
  BY <1>1, ReleaseIInv, CloseSourceIInv, DestroyIInv, Zenon DEF Continue
<1>2. ASSUME NEW p \in Process, NewRequest(p) PROVE IInv'
  BY <1>2, CreateIInv, OpenObjectIInv, UnlinkObjectIInv, CloseHandleIInv, QueueIInv,
     SetHandleInfoIInv, DupHandleIInv, Zenon DEF NewRequest
<1>3. ASSUME NEW p \in Process, NewProcess(p) PROVE IInv'
  BY <1>3, NewProcessIInv, Zenon
<1>4. ASSUME NEW p \in Process, ExitProcess(p) PROVE IInv'
  BY <1>4, ExitProcessIInv, Zenon
<1>5. ASSUME NEW p \in Process, NEW q \in Process, NewProcessInherit(p, q) PROVE IInv'
  BY <1>5, NewProcessInheritIInv, Zenon
<1>6. ASSUME NEW o \in Object, RemoveQueue(o) PROVE IInv'
  BY <1>6, QueueIInv, Zenon
<1>7. CASE UNCHANGED vars
  BY <1>7, Groups, GroupsNext, Zenon DEF Rest, TablesOK, ContOK, vars, nameVars
<1> QED BY <1>1, <1>2, <1>3, <1>4, <1>5, <1>6, <1>7, Zenon DEF Next

\* Every table stays well formed whatever requests, process creations and exits
\* do: alloc_entry may start its search at table->free, table->last is the last
\* entry in use, and no entry up to it is memory nobody has written.
THEOREM TablesConsistent == Spec => [](TypeOK /\ TableConsistent)
<1>1. IInv => TypeOK /\ TableConsistent
  <2> SUFFICES ASSUME IInv PROVE TypeOK /\ TableConsistent
    BY Zenon
  <2>1. ASSUME NEW t \in Table, tables[t].open
        PROVE  LET tab == tables[t] IN
               /\ tab.last < tab.count /\ tab.free <= tab.last + 1
               /\ tab.last >= 0 => tab.entries[tab.last].ptr # None
               /\ \A i \in 0 .. tab.last : tab.entries[i].ptr # Junk
               /\ \A i \in 0 .. tab.free - 1 : tab.entries[i].ptr # None
    <3>1. Good(tables[t]) BY <2>1, Zenon DEF IInv
    <3> QED BY <3>1, Zenon DEF Good, Mid, Sound
  <2> QED BY <2>1, Zenon DEF IInv, TableConsistent
<1> QED BY InitIInv, NextIInv, <1>1, PTL DEF Spec

-----------------------------------------------------------------------------
(* Reference counts, names and handles.                                     *)

\* The entries of a table that refer to object o.
Used(tab, o) == {i \in 0 .. MaxEntries - 1 : InUse(tab, i) /\ tab.entries[i].ptr = o}

\* HandlesTo in terms of Used.
HandlesIn(tbs, o) == {h \in Table \X (0 .. MaxEntries - 1) : h[2] \in Used(tbs[h[1]], o)}

\* The objects whose names are in directory o, and the entries of a todo list
\* that are o.
Children(par, o) == {x \in Object : par[x] = o}
Awaiting(seq, o) == {k \in DOMAIN seq : seq[k] = o}

\* The sum RefcountExact is about.
References(o) ==
  Cardinality(HandlesIn(tables, o)) + pins[o] + Cardinality(Children(parent, o))
  + Cardinality(Awaiting(todo, o)) + (IF o = Self THEN 1 ELSE 0)

\* What an inductive argument for RefcountExact needs besides IInv: the sets it
\* counts are finite, only a named object is in a directory, a request has at
\* most one object to release at a time, and a table that is not in use has no
\* entries unless it is being destroyed.
RefInv ==
  /\ \A o \in Object : refcount[o] = References(o)
  /\ \A o \in Object : /\ IsFiniteSet(HandlesIn(tables, o))
                       /\ IsFiniteSet(Children(parent, o))
  /\ NamesUnique
  /\ \A o \in Object : name[o] = None => parent[o] = None
  /\ todo = <<>> \/ \E x \in Object : todo = <<x>>
  /\ \A t \in Table : ~tables[t].open =>
       tables[t].last = -1 \/ (cont.op = "destroy" /\ cont.table = t)

LEMMA HandlesToIn == \A o \in Object : HandlesTo(o) = HandlesIn(tables, o)
BY Zenon DEF HandlesTo, HandlesIn, Used

-----------------------------------------------------------------------------
(* The entries in use after the operations on one table.                    *)

\* The facts about a table that the lemmas below use.
LEMMA SoundFacts ==
  ASSUME NEW tab, Sound(tab)
  PROVE  /\ tab.count \in 0 .. MaxEntries /\ tab.last \in -1 .. MaxEntries - 1
         /\ tab.entries \in [0 .. tab.count - 1 -> Entry]
         /\ tab.last < tab.count /\ MaxEntries \in Nat
         /\ \A k \in 0 .. tab.last : tab.entries[k].ptr # Junk
BY HandleTableAssumption, Zenon DEF Sound, TableType

\* An entry is in use if and only if it refers to an object.
LEMMA InUseUsed ==
  ASSUME NEW tab, Sound(tab), NEW i \in 0 .. MaxEntries - 1
  PROVE  /\ InUse(tab, i) => tab.entries[i].ptr \in Object
         /\ InUse(tab, i) <=> \E o \in Object : i \in Used(tab, o)
<1>1. ASSUME InUse(tab, i) PROVE tab.entries[i].ptr \in Object
  <2>1. i \in 0 .. tab.last /\ i \in 0 .. tab.count - 1 /\ tab.entries[i].ptr # None
    BY <1>1, SoundFacts DEF InUse
  <2>2. tab.entries[i] \in Entry /\ tab.entries[i].ptr # Junk
    BY <2>1, SoundFacts, Zenon
  <2> QED BY <2>1, <2>2, Zenon DEF Entry
<1> QED BY <1>1, Zenon DEF Used

LEMMA UnusedEmpty ==
  ASSUME NEW tab, tab.last = -1, NEW o
  PROVE  Used(tab, o) = {}
BY HandleTableAssumption DEF Used, InUse

LEMMA UsedFilled ==
  ASSUME NEW tab, Good(tab), NEW i \in 0 .. MaxEntries, IsSlot(tab, i),
         i >= tab.count => tab.count < MaxEntries,
         NEW o \in Object, NEW access \in SUBSET Flag, NEW x \in Object
  PROVE  /\ i \in 0 .. MaxEntries - 1
         /\ i \notin Used(tab, x)
         /\ Used(Filled(tab, i, o, access), x)
              = IF x = o THEN Used(tab, x) \cup {i} ELSE Used(tab, x)
<1> DEFINE c == IF i >= tab.count THEN Grown(tab) ELSE tab.count
           new == Filled(tab, i, o, access)
<1>1. /\ tab.count \in 0 .. MaxEntries /\ tab.last \in -1 .. MaxEntries - 1
      /\ tab.entries \in [0 .. tab.count - 1 -> Entry]
      /\ tab.last < tab.count /\ tab.count >= MinEntries /\ tab.free \in Nat
      /\ MinEntries \in Nat \ {0} /\ MaxEntries \in Nat /\ tab.free <= tab.last + 1
  BY HandleTableAssumption DEF Good, Mid, Sound, TableType
<1>2. i <= tab.last + 1
  BY <1>1 DEF IsSlot
<1>3. c \in 0 .. MaxEntries /\ i < c /\ tab.count <= c
  BY <1>1, <1>2, SMTT(60) DEF Grown
<1>4. /\ new.last = (IF i > tab.last THEN i ELSE tab.last)
      /\ new.entries = [k \in 0 .. c - 1 |->
                          IF k = i THEN [ptr |-> o, access |-> access]
                          ELSE IF k < tab.count THEN tab.entries[k] ELSE Fresh]
  BY Zenon DEF Filled
<1> HIDE DEF new, c
<1>5. i \in 0 .. MaxEntries - 1
  BY <1>1, <1>3
<1>6. i \notin Used(tab, x)
  BY HandleTableAssumption, Zenon DEF Used, InUse, IsSlot
<1>7. InUse(new, i) /\ new.entries[i].ptr = o
  <2>1. new.entries[i] = [ptr |-> o, access |-> access]
    BY <1>3, <1>4
  <2>2. i <= new.last
    BY <1>1, <1>4
  <2> QED BY <2>1, <2>2, HandleTableAssumption DEF InUse
<1>8. ASSUME NEW k \in 0 .. MaxEntries - 1, k # i
      PROVE  /\ k <= new.last <=> k <= tab.last
             /\ k <= tab.last => new.entries[k] = tab.entries[k]
  <2>1. k <= new.last <=> k <= tab.last
    BY <1>1, <1>2, <1>4, <1>8
  <2>2. ASSUME k <= tab.last PROVE new.entries[k] = tab.entries[k]
    <3>1. k \in 0 .. c - 1 /\ k < tab.count
      BY <2>2, <1>1, <1>3
    <3> QED BY <3>1, <1>4, <1>8, Zenon
  <2> QED BY <2>1, <2>2, Zenon
<1>9. ASSUME NEW k \in 0 .. MaxEntries - 1, k # i
      PROVE  k \in Used(new, x) <=> k \in Used(tab, x)
  BY <1>8, <1>9, Zenon DEF Used, InUse
<1>10. i \in Used(new, x) <=> x = o
  BY <1>5, <1>7, Zenon DEF Used
<1>11. Used(new, x) \subseteq 0 .. MaxEntries - 1 /\ Used(tab, x) \subseteq 0 .. MaxEntries - 1
  BY Zenon DEF Used
<1>12. Used(new, x) = IF x = o THEN Used(tab, x) \cup {i} ELSE Used(tab, x)
  BY <1>5, <1>6, <1>9, <1>10, <1>11
<1> QED BY <1>5, <1>6, <1>12, Zenon DEF new

LEMMA UsedShrunk ==
  ASSUME NEW tab, Mid(tab), NEW l \in -1 .. tab.last, NEW c \in 0 .. MaxEntries,
         IsLast(tab, l), IsCount(tab, l, c), NEW x \in Object
  PROVE  Used(Shrunk(tab, l, c), x) = Used(tab, x)
<1> DEFINE new == Shrunk(tab, l, c)
<1>1. /\ tab.count \in 0 .. MaxEntries /\ tab.last \in -1 .. MaxEntries - 1
      /\ tab.last < tab.count /\ tab.count >= MinEntries
      /\ MinEntries \in Nat \ {0} /\ MaxEntries \in Nat
  BY HandleTableAssumption, Zenon DEF Mid, Sound, TableType
<1>2. l < c
  <2>1. CASE c = tab.count BY <2>1, <1>1
  <2>2. CASE l < tab.count \div 4 /\ tab.count >= 2 * MinEntries /\ c = tab.count \div 2
    BY <2>2, <1>1
  <2> QED BY <2>1, <2>2, Zenon DEF IsCount
<1>3. new.last = l /\ new.entries = [k \in 0 .. c - 1 |-> tab.entries[k]]
  BY Zenon DEF Shrunk
<1> HIDE DEF new
<1>4. ASSUME NEW k \in 0 .. MaxEntries - 1
      PROVE  k \in Used(new, x) <=> k \in Used(tab, x)
  <2>1. CASE k <= l
    <3>1. k \in 0 .. c - 1 BY <2>1, <1>2
    <3>2. new.entries[k] = tab.entries[k] BY <3>1, <1>3, Zenon
    <3>3. k <= tab.last BY <2>1, <1>1
    <3> QED BY <2>1, <3>2, <3>3, <1>3, Zenon DEF Used, InUse
  <2>2. CASE ~(k <= l)
    <3>1. k \notin Used(new, x) BY <2>2, <1>3, Zenon DEF Used, InUse
    <3>2. k <= tab.last => k \in l + 1 .. tab.last BY <2>2, <1>1
    <3>3. k <= tab.last => tab.entries[k].ptr = None BY <3>2, Zenon DEF IsLast
    <3> QED BY <3>1, <3>3, Zenon DEF Used, InUse
  <2> QED BY <2>1, <2>2, Zenon
<1>5. Used(new, x) \subseteq 0 .. MaxEntries - 1 /\ Used(tab, x) \subseteq 0 .. MaxEntries - 1
  BY Zenon DEF Used
<1>6. Used(new, x) = Used(tab, x)
  BY <1>4, <1>5, Zenon
<1> QED BY <1>6, Zenon DEF new

LEMMA UsedEmptied ==
  ASSUME NEW tab, Sound(tab), NEW i \in 0 .. tab.last, NEW f, NEW x \in Object
  PROVE  Used(Emptied(tab, i, f), x) = Used(tab, x) \ {i}
<1> DEFINE new == Emptied(tab, i, f)
<1>1. /\ tab.count \in 0 .. MaxEntries /\ tab.last \in -1 .. MaxEntries - 1
      /\ tab.entries \in [0 .. tab.count - 1 -> Entry]
      /\ tab.last < tab.count /\ MaxEntries \in Nat
  BY SoundFacts, Zenon
<1>2. new.last = tab.last /\ new.entries = [tab.entries EXCEPT ![i] = Empty]
  BY Zenon DEF Emptied
<1> HIDE DEF new
<1>3. ASSUME NEW k \in 0 .. MaxEntries - 1
      PROVE  k \in Used(new, x) <=> k \in Used(tab, x) \ {i}
  <2>1. CASE k <= tab.last
    <3>1. k \in 0 .. tab.count - 1 BY <2>1, <1>1
    <3>2. new.entries[k] = IF k = i THEN Empty ELSE tab.entries[k] BY <3>1, <1>1, <1>2, Zenon
    <3>3. Empty.ptr = None BY Zenon DEF Empty
    <3>4. CASE k = i
      BY <3>2, <3>3, <3>4, Zenon DEF Used, InUse
    <3>5. CASE k # i
      BY <3>2, <3>5, <1>2, Zenon DEF Used, InUse
    <3> QED BY <3>4, <3>5, Zenon
  <2>2. CASE ~(k <= tab.last)
    BY <2>2, <1>2, Zenon DEF Used, InUse
  <2> QED BY <2>1, <2>2, Zenon
<1>4. Used(new, x) \subseteq 0 .. MaxEntries - 1 /\ Used(tab, x) \subseteq 0 .. MaxEntries - 1
  BY Zenon DEF Used
<1>5. Used(new, x) = Used(tab, x) \ {i}
  BY <1>3, <1>4, Zenon
<1> QED BY <1>5, Zenon DEF new

LEMMA UsedFlagged ==
  ASSUME NEW tab, Sound(tab), NEW i \in 0 .. tab.last, NEW access, NEW x \in Object
  PROVE  Used(Flagged(tab, i, access), x) = Used(tab, x)
<1> DEFINE new == Flagged(tab, i, access)
<1>1. /\ tab.count \in 0 .. MaxEntries /\ tab.last \in -1 .. MaxEntries - 1
      /\ tab.entries \in [0 .. tab.count - 1 -> Entry]
      /\ tab.last < tab.count /\ MaxEntries \in Nat
  BY SoundFacts
<1>2. /\ new.last = tab.last
      /\ new.entries = [tab.entries EXCEPT ![i] = [ptr |-> tab.entries[i].ptr, access |-> access]]
  BY Zenon DEF Flagged
<1> HIDE DEF new
<1>3. ASSUME NEW k \in 0 .. MaxEntries - 1
      PROVE  k \in Used(new, x) <=> k \in Used(tab, x)
  <2>1. CASE k <= tab.last
    <3>1. k \in 0 .. tab.count - 1 BY <2>1, <1>1
    <3>2. new.entries[k].ptr = tab.entries[k].ptr BY <3>1, <1>1, <1>2
    <3> QED BY <3>2, <1>2, Zenon DEF Used, InUse
  <2>2. CASE ~(k <= tab.last)
    BY <2>2, <1>2, Zenon DEF Used, InUse
  <2> QED BY <2>1, <2>2, Zenon
<1>4. Used(new, x) \subseteq 0 .. MaxEntries - 1 /\ Used(tab, x) \subseteq 0 .. MaxEntries - 1
  BY DEF Used
<1>5. Used(new, x) = Used(tab, x)
  BY <1>3, <1>4, Zenon
<1> QED BY <1>5, Zenon DEF new

-----------------------------------------------------------------------------
(* Counting handles.                                                        *)

LEMMA HandlesSame ==
  ASSUME NEW old, NEW new, NEW x \in Object, IsFiniteSet(HandlesIn(old, x)),
         \A u \in Table : Used(new[u], x) = Used(old[u], x)
  PROVE  HandlesIn(new, x) = HandlesIn(old, x)
BY Zenon DEF HandlesIn

LEMMA HandlesGain ==
  ASSUME NEW old, NEW new, NEW x \in Object, IsFiniteSet(HandlesIn(old, x)),
         NEW t \in Table, NEW i \in 0 .. MaxEntries - 1,
         \A u \in Table \ {t} : new[u] = old[u],
         i \notin Used(old[t], x), Used(new[t], x) = Used(old[t], x) \cup {i}
  PROVE  /\ IsFiniteSet(HandlesIn(new, x))
         /\ Cardinality(HandlesIn(new, x)) = Cardinality(HandlesIn(old, x)) + 1
<1>1. HandlesIn(new, x) = HandlesIn(old, x) \cup {<<t, i>>}
  <2>1. ASSUME NEW h \in Table \X (0 .. MaxEntries - 1)
        PROVE  h[2] \in Used(new[h[1]], x) <=> h[2] \in Used(old[h[1]], x) \/ h = <<t, i>>
    <3>1. CASE h[1] = t
      BY <3>1
    <3>2. CASE h[1] # t
      BY <3>2
    <3> QED BY <3>1, <3>2, Zenon
  <2>2. <<t, i>> \in Table \X (0 .. MaxEntries - 1)
    BY Zenon
  <2> QED BY <2>1, <2>2, Zenon DEF HandlesIn
<1>2. <<t, i>> \notin HandlesIn(old, x)
  BY Zenon DEF HandlesIn
<1> QED BY <1>1, <1>2, FS_AddElement, ZenonT(30)

LEMMA HandlesLose ==
  ASSUME NEW old, NEW new, NEW x \in Object, IsFiniteSet(HandlesIn(old, x)),
         NEW t \in Table, NEW i \in 0 .. MaxEntries - 1,
         \A u \in Table \ {t} : new[u] = old[u],
         i \in Used(old[t], x), Used(new[t], x) = Used(old[t], x) \ {i}
  PROVE  /\ IsFiniteSet(HandlesIn(new, x))
         /\ Cardinality(HandlesIn(new, x)) = Cardinality(HandlesIn(old, x)) - 1
<1>1. HandlesIn(new, x) = HandlesIn(old, x) \ {<<t, i>>}
  <2>1. ASSUME NEW h \in Table \X (0 .. MaxEntries - 1)
        PROVE  h[2] \in Used(new[h[1]], x) <=> h[2] \in Used(old[h[1]], x) /\ h # <<t, i>>
    <3>1. CASE h[1] = t
      BY <3>1
    <3>2. CASE h[1] # t
      BY <3>2
    <3> QED BY <3>1, <3>2, Zenon
  <2> QED BY <2>1, Zenon DEF HandlesIn
<1>2. <<t, i>> \in HandlesIn(old, x)
  BY Zenon DEF HandlesIn
<1> QED BY <1>1, <1>2, FS_RemoveElement, Zenon

\* The entries of a table that was empty and now holds the entries in set S(x).
LEMMA HandlesCopy ==
  ASSUME NEW old, NEW new, NEW x \in Object, IsFiniteSet(HandlesIn(old, x)),
         NEW t \in Table, \A u \in Table \ {t} : new[u] = old[u], Used(old[t], x) = {}
  PROVE  /\ IsFiniteSet(HandlesIn(new, x))
         /\ Cardinality(HandlesIn(new, x))
              = Cardinality(HandlesIn(old, x)) + Cardinality(Used(new[t], x))
<1> DEFINE S == Used(new[t], x)
           P == {t} \X S
           f == [s \in S |-> <<t, s>>]
<1>1. S \subseteq 0 .. MaxEntries - 1 /\ IsFiniteSet(0 .. MaxEntries - 1)
  <2>1. S \subseteq 0 .. MaxEntries - 1
    BY Zenon DEF Used
  <2>2. 0 \in Int /\ MaxEntries - 1 \in Int
    BY HandleTableAssumption
  <2> QED BY <2>1, <2>2, FS_Interval, Zenon
<1>2. IsFiniteSet(S)
  BY <1>1, FS_Subset, Zenon
<1>3. P \cap HandlesIn(old, x) = {}
  BY Zenon DEF HandlesIn
<1>4. HandlesIn(new, x) = HandlesIn(old, x) \cup P
  <2>1. ASSUME NEW h \in Table \X (0 .. MaxEntries - 1)
        PROVE  h[2] \in Used(new[h[1]], x) <=> h[2] \in Used(old[h[1]], x) \/ h \in P
    <3>1. CASE h[1] = t
      BY <3>1, Zenon
    <3>2. CASE h[1] # t
      BY <3>2, Zenon
    <3> QED BY <3>1, <3>2, Zenon
  <2>2. P \subseteq Table \X (0 .. MaxEntries - 1)
    BY <1>1, Zenon
  <2> QED BY <2>1, <2>2, Zenon DEF HandlesIn
<1>5. f \in Bijection(S, P)
  <2>1. f \in [S -> P]
    BY Zenon
  <2>2. \A a, b \in S : f[a] = f[b] => a = b
    BY Zenon
  <2>3. ASSUME NEW h \in P PROVE \E a \in S : f[a] = h
    <3>1. h[2] \in S /\ f[h[2]] = h
      OBVIOUS
    <3> QED BY <3>1, Zenon
  <2> HIDE DEF f, P, S
  <2>4. DOMAIN f = S
    BY <2>1, Zenon
  <2> QED BY <2>1, <2>2, <2>3, <2>4, Zenon DEF Bijection, Injection, Surjection, IsInjective
<1>6. ExistsBijection(S, P)
  BY <1>5, Zenon DEF ExistsBijection
<1>7. IsFiniteSet(P) /\ Cardinality(P) = Cardinality(S)
  BY <1>2, <1>6, FS_Bijection, Zenon
<1>8. Cardinality(P \cap HandlesIn(old, x)) = 0
  BY <1>3, FS_EmptySet, Zenon
<1>9. Cardinality(HandlesIn(old, x)) \in Nat /\ Cardinality(P) \in Nat
  BY <1>7, FS_CardinalityType, Zenon
<1>10. /\ IsFiniteSet(HandlesIn(old, x) \cup P)
       /\ Cardinality(HandlesIn(old, x) \cup P)
            = Cardinality(HandlesIn(old, x)) + Cardinality(P)
              - Cardinality(HandlesIn(old, x) \cap P)
  BY <1>7, FS_Union, Zenon
<1>11. HandlesIn(old, x) \cap P = P \cap HandlesIn(old, x)
  BY Zenon
<1>12. Cardinality(P) = Cardinality(Used(new[t], x))
  BY <1>7, Zenon
<1> HIDE DEF P
<1>13. Cardinality(HandlesIn(old, x) \cap P) = 0
  BY <1>8, <1>11, Zenon
<1>14. /\ IsFiniteSet(HandlesIn(new, x))
       /\ Cardinality(HandlesIn(new, x)) = Cardinality(HandlesIn(old, x)) + Cardinality(P) - 0
  BY <1>4, <1>10, <1>13, Zenon
<1> QED BY <1>9, <1>12, <1>14

-----------------------------------------------------------------------------
(* What the operations of handle.c do to all the tables.                    *)

Kept == \A x \in Object : HandlesIn(tables', x) = HandlesIn(tables, x)

Gained(o) == \A x \in Object :
  /\ IsFiniteSet(HandlesIn(tables', x))
  /\ Cardinality(HandlesIn(tables', x)) = Cardinality(HandlesIn(tables, x)) + IF x = o THEN 1 ELSE 0

Lost(o) == \A x \in Object :
  /\ IsFiniteSet(HandlesIn(tables', x))
  /\ Cardinality(HandlesIn(tables', x)) = Cardinality(HandlesIn(tables, x)) - IF x = o THEN 1 ELSE 0

ClosedEmpty(tbs) == \A t \in Table : ~tbs[t].open => tbs[t].last = -1

\* HandleStable for one table.
StableTable(old, new) == old.open /\ new.open =>
  \A i \in 0 .. old.last : InUse(old, i) =>
    \/ InUse(new, i) /\ new.entries[i].ptr = old.entries[i].ptr
    \/ ~InUse(new, i) /\ "protect" \notin old.entries[i].access

StableTables == \A t \in Table : StableTable(tables[t], tables'[t])

LEMMA SameStable == \A tab : StableTable(tab, tab)
BY Zenon DEF StableTable

\* A table is stable if it loses no entry but entry c.
LEMMA UsedStable ==
  ASSUME NEW old, Sound(old), NEW new, Sound(new), NEW c,
         \A x \in Object : Used(old, x) \ {c} \subseteq Used(new, x),
         \/ \A x \in Object : Used(old, x) \subseteq Used(new, x)
         \/ /\ \A x \in Object : c \notin Used(new, x)
            /\ "protect" \notin old.entries[c].access
  PROVE  StableTable(old, new)
<1> SUFFICES ASSUME NEW i \in 0 .. old.last, InUse(old, i)
             PROVE  \/ InUse(new, i) /\ new.entries[i].ptr = old.entries[i].ptr
                    \/ ~InUse(new, i) /\ "protect" \notin old.entries[i].access
  BY Zenon DEF StableTable
<1>1. i \in 0 .. MaxEntries - 1
  BY SoundFacts
<1>2. old.entries[i].ptr \in Object /\ i \in Used(old, old.entries[i].ptr)
  BY <1>1, InUseUsed, Zenon DEF Used
<1>3. CASE i \in Used(new, old.entries[i].ptr)
  BY <1>3, Zenon DEF Used
<1>4. CASE i \notin Used(new, old.entries[i].ptr)
  <2>1. /\ i = c /\ \A x \in Object : i \notin Used(new, x)
        /\ "protect" \notin old.entries[i].access
    BY <1>2, <1>4, Zenon
  <2> QED BY <2>1, <1>1, InUseUsed, Zenon
<1> QED BY <1>3, <1>4, Zenon

LEMMA OtherTables ==
  ASSUME IInv, NEW t \in Table, NEW tab, tables' = [tables EXCEPT ![t] = tab]
  PROVE  /\ tables'[t] = tab
         /\ \A u \in Table \ {t} : tables'[u] = tables[u]
BY Zenon DEF IInv, TypeOK

\* A step that changes one table and leaves its entries alone.
LEMMA KeptTable ==
  ASSUME IInv, RefInv, NEW t \in Table, NEW tab, tables' = [tables EXCEPT ![t] = tab],
         \A x \in Object : Used(tab, x) = Used(tables[t], x)
  PROVE  Kept
<1>1. \A x \in Object, u \in Table : Used(tables'[u], x) = Used(tables[u], x)
  BY OtherTables, Zenon
<1>2. \A x \in Object : IsFiniteSet(HandlesIn(tables, x))
  BY Zenon DEF RefInv
<1>3. ASSUME NEW x \in Object PROVE HandlesIn(tables', x) = HandlesIn(tables, x)
  <2>1. \A u \in Table : Used(tables'[u], x) = Used(tables[u], x)
    BY <1>1, Zenon
  <2> QED BY <2>1, <1>2, HandlesSame, Zenon
<1> QED BY <1>3, Zenon DEF Kept

\* Entry i of a table becomes a handle to o.
Adds(old, new, i, o) == \A x \in Object :
  /\ i \notin Used(old, x)
  /\ Used(new, x) = IF x = o THEN Used(old, x) \cup {i} ELSE Used(old, x)

LEMMA GainedTable ==
  ASSUME IInv, RefInv, NEW t \in Table, NEW tab, tables' = [tables EXCEPT ![t] = tab],
         NEW i \in 0 .. MaxEntries - 1, NEW o \in Object, Adds(tables[t], tab, i, o)
  PROVE  Gained(o)
<1> SUFFICES ASSUME NEW x \in Object
             PROVE  /\ IsFiniteSet(HandlesIn(tables', x))
                    /\ Cardinality(HandlesIn(tables', x))
                         = Cardinality(HandlesIn(tables, x)) + IF x = o THEN 1 ELSE 0
  BY Zenon DEF Gained
<1>1. IsFiniteSet(HandlesIn(tables, x)) /\ Cardinality(HandlesIn(tables, x)) \in Nat
  BY FS_CardinalityType, Zenon DEF RefInv
<1>2. tables'[t] = tab /\ \A u \in Table \ {t} : tables'[u] = tables[u]
  BY OtherTables, Zenon
<1>3. CASE x = o
  <2>1. Used(tables'[t], x) = Used(tables[t], x) \cup {i} /\ i \notin Used(tables[t], x)
    BY <1>2, <1>3, Zenon DEF Adds
  <2>2. /\ IsFiniteSet(HandlesIn(tables', x))
        /\ Cardinality(HandlesIn(tables', x)) = Cardinality(HandlesIn(tables, x)) + 1
    BY <2>1, <1>1, <1>2, HandlesGain, Zenon
  <2> QED BY <2>2, <1>3, Zenon
<1>4. CASE x # o
  <2>1. \A u \in Table : Used(tables'[u], x) = Used(tables[u], x)
    BY <1>2, <1>4, Zenon DEF Adds
  <2>2. HandlesIn(tables', x) = HandlesIn(tables, x)
    BY <2>1, <1>1, HandlesSame, Zenon
  <2> QED BY <2>2, <1>1, <1>4
<1> QED BY <1>3, <1>4, Zenon

LEMMA LostTable ==
  ASSUME IInv, RefInv, NEW t \in Table, NEW tab, tables' = [tables EXCEPT ![t] = tab],
         NEW i \in 0 .. tables[t].last, InUse(tables[t], i),
         \A x \in Object : Used(tab, x) = Used(tables[t], x) \ {i}
  PROVE  Lost(tables[t].entries[i].ptr)
<1> DEFINE o == tables[t].entries[i].ptr
<1> SUFFICES ASSUME NEW x \in Object
             PROVE  /\ IsFiniteSet(HandlesIn(tables', x))
                    /\ Cardinality(HandlesIn(tables', x))
                         = Cardinality(HandlesIn(tables, x)) - IF x = o THEN 1 ELSE 0
  BY Zenon DEF Lost
<1>1. IsFiniteSet(HandlesIn(tables, x)) /\ Cardinality(HandlesIn(tables, x)) \in Nat
  BY FS_CardinalityType, Zenon DEF RefInv
<1>2. tables'[t] = tab /\ \A u \in Table \ {t} : tables'[u] = tables[u]
  BY OtherTables, Zenon
<1>i. i \in 0 .. MaxEntries - 1 /\ (i \in Used(tables[t], x) <=> x = o)
  <2>1. Sound(tables[t]) BY Zenon DEF IInv
  <2>2. i \in 0 .. MaxEntries - 1 BY <2>1, SoundFacts
  <2> QED BY <2>2, Zenon DEF Used
<1> HIDE DEF o
<1>3. CASE x = o
  <2>1. Used(tables'[t], x) = Used(tables[t], x) \ {i} /\ i \in Used(tables[t], x)
    BY <1>2, <1>3, <1>i, Zenon
  <2>2. /\ IsFiniteSet(HandlesIn(tables', x))
        /\ Cardinality(HandlesIn(tables', x)) = Cardinality(HandlesIn(tables, x)) - 1
    <3>1. \A u \in Table \ {t} : tables'[u] = tables[u]
      BY <1>2, Zenon
    <3>2. i \in 0 .. MaxEntries - 1
      BY <1>i, Zenon
    <3> QED BY <2>1, <1>1, <3>1, <3>2, HandlesLose, ZenonT(30)
  <2> QED BY <2>2, <1>3, Zenon
<1>4. CASE x # o
  <2>0. Used(tables[t], x) \ {i} = Used(tables[t], x)
    BY <1>4, <1>i, Zenon
  <2>1. \A u \in Table : Used(tables'[u], x) = Used(tables[u], x)
    BY <1>2, <2>0, Zenon
  <2>2. HandlesIn(tables', x) = HandlesIn(tables, x)
    BY <2>1, <1>1, HandlesSame, Zenon
  <2> QED BY <2>2, <1>1, <1>4
<1> QED BY <1>3, <1>4, Zenon

\* A step that changes one table, stably.
LEMMA StableStep ==
  ASSUME IInv, NEW t \in Table, NEW tab, tables' = [tables EXCEPT ![t] = tab],
         StableTable(tables[t], tab)
  PROVE  StableTables
<1>1. tables'[t] = tab /\ \A u \in Table \ {t} : tables'[u] = tables[u]
  BY OtherTables, Zenon
<1>2. ASSUME NEW u \in Table PROVE StableTable(tables[u], tables'[u])
  <2>1. CASE u = t BY <2>1, <1>1, Zenon
  <2>2. CASE u # t
    <3>1. tables'[u] = tables[u] BY <2>2, <1>1, Zenon
    <3> QED BY <3>1, SameStable, Zenon
  <2> QED BY <2>1, <2>2, Zenon
<1> QED BY <1>2, Zenon DEF StableTables

LEMMA ClosedStep ==
  ASSUME IInv, NEW t \in Table, NEW tab, tables' = [tables EXCEPT ![t] = tab],
         ClosedEmpty(tables), ~tab.open => tab.last = -1
  PROVE  ClosedEmpty(tables')
BY OtherTables DEF ClosedEmpty

\* alloc_handle: the object gains a handle and a reference, or neither.
LEMMA AllocEffect ==
  ASSUME IInv, RefInv, ClosedEmpty(tables), NEW t \in Table, NEW o \in Object,
         NEW access \in SUBSET Flag, NEW refs, Alloc(t, o, access, refs)
  PROVE  /\ \/ Gained(o) /\ refcount' = [refs EXCEPT ![o] = @ + 1]
            \/ Kept /\ refcount' = refs
         /\ ClosedEmpty(tables') /\ StableTables
<1> DEFINE tab == IF t = Global /\ ~tables[t].open THEN NewTable(0) ELSE tables[t]
<1>1. Sound(tab) /\ (tab.open => Good(tab))
  <2>1. CASE t = Global /\ ~tables[t].open
    <3>1. Good(NewTable(0)) BY NewTableGood, HandleTableAssumption
    <3> QED BY <2>1, <3>1, Zenon DEF Good, Mid
  <2>2. CASE ~(t = Global /\ ~tables[t].open)
    BY <2>2, Zenon DEF IInv
  <2> QED BY <2>1, <2>2, Zenon
<1>2. ASSUME NEW x \in Object PROVE Used(tab, x) = Used(tables[t], x)
  <2>1. CASE t = Global /\ ~tables[t].open
    <3>1. tab.last = -1 /\ tables[t].last = -1
      BY <2>1, Zenon DEF ClosedEmpty, NewTable
    <3> QED BY <3>1, UnusedEmpty, Zenon
  <2>2. CASE ~(t = Global /\ ~tables[t].open)
    BY <2>2, Zenon
  <2> QED BY <2>1, <2>2, Zenon
<1>3. ~tables[t].open \/ tab = tables[t]
  BY Zenon
<1>4. ~tab.open => tab.last = -1
  BY Zenon DEF ClosedEmpty, NewTable
<1>5. CASE /\ tab.open
           /\ \E i \in 0 .. MaxEntries :
                /\ IsSlot(tab, i)
                /\ i >= tab.count => tab.count < MaxEntries
                /\ tables' = [tables EXCEPT ![t] = Filled(tab, i, o, access)]
           /\ refcount' = [refs EXCEPT ![o] = @ + 1]
  <2>1. PICK i \in 0 .. MaxEntries :
          /\ IsSlot(tab, i)
          /\ i >= tab.count => tab.count < MaxEntries
          /\ tables' = [tables EXCEPT ![t] = Filled(tab, i, o, access)]
    BY <1>5, Zenon
  <2> DEFINE new == Filled(tab, i, o, access)
  <2> HIDE DEF tab
  <2>2. Good(new) /\ new.open
    BY <1>1, <1>5, <2>1, FilledGood, Zenon
  <2>3. Sound(new) /\ i \in 0 .. MaxEntries - 1
    <3>1. i \in 0 .. MaxEntries - 1
      BY <1>1, <1>5, <2>1, UsedFilled, Zenon
    <3> QED BY <2>2, <3>1, Zenon DEF Good, Mid
  <2>4. ASSUME NEW x \in Object
        PROVE  /\ i \notin Used(tables[t], x)
               /\ Used(new, x) = IF x = o THEN Used(tables[t], x) \cup {i} ELSE Used(tables[t], x)
    BY <1>1, <1>2, <1>5, <2>1, UsedFilled
  <2> HIDE DEF new
  <2>5. Gained(o)
    <3>1. tables' = [tables EXCEPT ![t] = new]
      BY <2>1, Zenon DEF new
    <3>2. Adds(tables[t], new, i, o)
      BY <2>4, Zenon DEF Adds
    <3>3. i \in 0 .. MaxEntries - 1
      BY <2>3, Zenon
    <3> QED BY <3>1, <3>2, <3>3, GainedTable, Zenon
  <2>6. StableTable(tables[t], new)
    <3>1. Sound(tables[t]) BY Zenon DEF IInv
    <3>2. \A x \in Object : Used(tables[t], x) \subseteq Used(new, x)
      BY <2>4, Zenon
    <3>3. \A x \in Object : Used(tables[t], x) \ {i} \subseteq Used(new, x)
      BY <3>2, Zenon
    <3> QED BY <3>1, <3>2, <3>3, <2>3, UsedStable, Zenon
  <2>7. tables' = [tables EXCEPT ![t] = new]
    BY <2>1 DEF new
  <2>8. StableTables
    BY <2>6, <2>7, StableStep, Zenon
  <2>9. ClosedEmpty(tables')
    BY <2>2, <2>7, ClosedStep, Zenon
  <2> QED BY <1>5, <2>5, <2>8, <2>9, Zenon
<1>6. CASE /\ tables' = [tables EXCEPT ![t] = tab]
           /\ refcount' = refs
  <2> HIDE DEF tab
  <2>1. Kept
    BY <1>2, <1>6, KeptTable, Zenon
  <2>2. StableTable(tables[t], tab)
    BY <1>3, SameStable, Zenon DEF StableTable
  <2>3. StableTables
    BY <2>2, <1>6, StableStep, Zenon
  <2>4. ClosedEmpty(tables')
    BY <1>4, <1>6, ClosedStep, Zenon
  <2> QED BY <1>6, <2>1, <2>3, <2>4, Zenon
<1> QED BY <1>5, <1>6, Zenon DEF Alloc

\* close_handle: the object loses the handle.
LEMMA CloseEffect ==
  ASSUME IInv, RefInv, ClosedEmpty(tables), NEW p \in Process, NEW h \in Handles, Close(p, h)
  PROVE  /\ EntryOf(p, h).ptr \in Object /\ todo' = <<EntryOf(p, h).ptr>>
         /\ Lost(EntryOf(p, h).ptr) /\ ClosedEmpty(tables') /\ StableTables
<1> DEFINE t == TableOf(p, h)
           i == HandleToIndex(h.value)
           tab == Cleared(tables[t], i)
<1>1. Valid(p, h) /\ CloseEntry(t, i) /\ todo' = <<EntryOf(p, h).ptr>>
      /\ "protect" \notin EntryOf(p, h).access
  BY Zenon DEF Close
<1>2. /\ t \in Table /\ tables[t].open /\ Good(tables[t]) /\ i \in 0 .. tables[t].last
      /\ EntryOf(p, h).ptr \in Object
  BY <1>1, ValidEntry, Zenon
<1>3. InUse(tables[t], i) /\ EntryOf(p, h) = tables[t].entries[i]
  BY <1>1, Zenon DEF Valid, InUse, EntryOf
<1>4. Sound(tables[t])
  BY <1>2, Zenon DEF Good, Mid
<1>5. /\ Mid(tab) /\ (i # tables[t].last => Good(tab)) /\ tab.last = tables[t].last
      /\ tab.open
  BY <1>2, ClearedMid, Zenon
<1>6. ASSUME NEW x \in Object PROVE Used(tab, x) = Used(tables[t], x) \ {i}
  BY <1>2, <1>4, UsedEmptied DEF Cleared
<1>7. \E new : /\ Sound(new) /\ new.open /\ tables' = [tables EXCEPT ![t] = new]
               /\ \A x \in Object : Used(new, x) = Used(tables[t], x) \ {i}
  <2>1. CASE i # tab.last
    <3>1. tables' = [tables EXCEPT ![t] = tab]
      BY <1>1, <2>1, Zenon DEF CloseEntry
    <3>2. Sound(tab)
      BY <1>5, Zenon DEF Mid
    <3> HIDE DEF t, tab, i
    <3> QED BY <3>1, <3>2, <1>5, <1>6, Zenon
  <2>2. CASE i = tab.last
    <3>1. PICK l \in -1 .. tab.last, c \in 0 .. MaxEntries :
            /\ IsLast(tab, l) /\ IsCount(tab, l, c)
            /\ tables' = [tables EXCEPT ![t] = Shrunk(tab, l, c)]
      BY <1>1, <2>2, Zenon DEF CloseEntry
    <3> HIDE DEF t, tab, i
    <3>2. Good(Shrunk(tab, l, c)) /\ Shrunk(tab, l, c).open
      BY <1>5, <3>1, ShrunkGood, Zenon
    <3>3. Sound(Shrunk(tab, l, c))
      BY <3>2, Zenon DEF Good, Mid
    <3>4. \A x \in Object : Used(Shrunk(tab, l, c), x) = Used(tables[t], x) \ {i}
      BY <1>5, <1>6, <3>1, UsedShrunk
    <3> QED BY <3>1, <3>2, <3>3, <3>4, Zenon
  <2> QED BY <2>1, <2>2, Zenon
<1>8. PICK new : /\ Sound(new) /\ new.open /\ tables' = [tables EXCEPT ![t] = new]
                 /\ \A x \in Object : Used(new, x) = Used(tables[t], x) \ {i}
  BY <1>7, Zenon
<1> HIDE DEF t, tab, i
<1>9. Lost(EntryOf(p, h).ptr)
  BY <1>2, <1>3, <1>8, LostTable, Zenon
<1>10. StableTable(tables[t], new)
  <2>1. \A x \in Object : i \notin Used(new, x) /\ Used(tables[t], x) \ {i} \subseteq Used(new, x)
    BY <1>8, Zenon
  <2>2. "protect" \notin tables[t].entries[i].access
    BY <1>1, <1>3, Zenon
  <2> QED BY <2>1, <2>2, <1>4, <1>8, UsedStable, Zenon
<1>11. StableTables
  BY <1>2, <1>8, <1>10, StableStep, Zenon
<1>12. ClosedEmpty(tables')
  BY <1>2, <1>8, ClosedStep, Zenon
<1> QED BY <1>1, <1>2, <1>9, <1>11, <1>12, Zenon

LEMMA FlagEffect ==
  ASSUME IInv, RefInv, ClosedEmpty(tables), NEW p \in Process, NEW h \in Handles, Valid(p, h),
         NEW access \in SUBSET Flag,
         tables' = [tables EXCEPT ![TableOf(p, h)] = Flagged(@, HandleToIndex(h.value), access)]
  PROVE  Kept /\ ClosedEmpty(tables') /\ StableTables
<1> DEFINE t == TableOf(p, h)
           i == HandleToIndex(h.value)
           new == Flagged(tables[t], i, access)
<1>1. /\ t \in Table /\ tables[t].open /\ Good(tables[t]) /\ i \in 0 .. tables[t].last
  BY ValidEntry, Zenon
<1>2. Sound(tables[t])
  BY <1>1, Zenon DEF Good, Mid
<1>3. Good(new) /\ new.open
  BY <1>1, FlaggedGood, Zenon
<1>4. ASSUME NEW x \in Object PROVE Used(new, x) = Used(tables[t], x)
  BY <1>1, <1>2, UsedFlagged, Zenon
<1>5. tables' = [tables EXCEPT ![t] = new]
  BY Zenon
<1> HIDE DEF t, i, new
<1>6. StableTable(tables[t], new)
  <2>1. Sound(new) BY <1>3, Zenon DEF Good, Mid
  <2>2. /\ \A x \in Object : Used(tables[t], x) \subseteq Used(new, x)
        /\ \A x \in Object : Used(tables[t], x) \ {i} \subseteq Used(new, x)
    BY <1>4, Zenon
  <2> QED BY <2>1, <2>2, <1>2, UsedStable, Zenon
<1>7. Kept
  BY <1>1, <1>4, <1>5, KeptTable, Zenon
<1>8. StableTables
  BY <1>1, <1>5, <1>6, StableStep, Zenon
<1>9. ClosedEmpty(tables')
  BY <1>1, <1>3, <1>5, ClosedStep, Zenon
<1> QED BY <1>7, <1>8, <1>9, Zenon

-----------------------------------------------------------------------------
(* Counting the other references.                                           *)

LEMMA AwaitingNone ==
  ASSUME NEW o PROVE Cardinality(Awaiting(<<>>, o)) = 0
<1>1. Awaiting(<<>>, o) = {}
  BY DEF Awaiting
<1> QED BY <1>1, FS_EmptySet, Zenon

LEMMA AwaitingOne ==
  ASSUME NEW o, NEW x PROVE Cardinality(Awaiting(<<x>>, o)) = IF x = o THEN 1 ELSE 0
<1>1. DOMAIN <<x>> = {1} /\ <<x>>[1] = x
  OBVIOUS
<1>2. CASE x = o
  <2>1. Awaiting(<<x>>, o) = {1}
    BY <1>1, <1>2, Zenon DEF Awaiting
  <2> QED BY <2>1, <1>2, FS_Singleton, Zenon
<1>3. CASE x # o
  <2>1. Awaiting(<<x>>, o) = {}
    BY <1>1, <1>3, Zenon DEF Awaiting
  <2> QED BY <2>1, <1>3, FS_EmptySet, Zenon
<1> QED BY <1>2, <1>3, Zenon

\* The directory of object o becomes d.
Moves(par, par2, o, d) == \A y \in Object : par2[y] = IF y = o THEN d ELSE par[y]

\* An object without a directory is put into directory d.
LEMMA ChildrenGain ==
  ASSUME NEW par, NEW par2, NEW o \in Object, NEW d,
         par[o] = None, Moves(par, par2, o, d),
         NEW x \in Object, IsFiniteSet(Children(par, x))
  PROVE  /\ IsFiniteSet(Children(par2, x))
         /\ Cardinality(Children(par2, x))
              = Cardinality(Children(par, x)) + IF x = d THEN 1 ELSE 0
<1>1. x # None /\ Cardinality(Children(par, x)) \in Nat
  BY HandleTableAssumption, FS_CardinalityType, Zenon
<1>2. o \notin Children(par, x)
  BY <1>1, Zenon DEF Children, Moves
<1>3. CASE x = d
  <2>1. Children(par2, x) = Children(par, x) \cup {o}
    BY <1>3, Zenon DEF Children, Moves
  <2>2. /\ IsFiniteSet(Children(par2, x))
        /\ Cardinality(Children(par2, x)) = Cardinality(Children(par, x)) + 1
    BY <2>1, <1>2, FS_AddElement, Zenon
  <2> QED BY <2>2, <1>3, Zenon
<1>4. CASE x # d
  <2>1. Children(par2, x) = Children(par, x)
    BY <1>1, <1>4, Zenon DEF Children, Moves
  <2> QED BY <2>1, <1>1, <1>4
<1> QED BY <1>3, <1>4, Zenon

\* An object is taken out of its directory, if it has one.
LEMMA ChildrenLose ==
  ASSUME NEW par, NEW par2, NEW o \in Object, Moves(par, par2, o, None),
         NEW x \in Object, IsFiniteSet(Children(par, x))
  PROVE  /\ IsFiniteSet(Children(par2, x))
         /\ Cardinality(Children(par2, x))
              = Cardinality(Children(par, x)) - IF x = par[o] THEN 1 ELSE 0
<1>1. x # None /\ Cardinality(Children(par, x)) \in Nat
  BY HandleTableAssumption, FS_CardinalityType, Zenon
<1>2. CASE x = par[o]
  <2>1. Children(par2, x) = Children(par, x) \ {o} /\ o \in Children(par, x)
    BY <1>1, <1>2, Zenon DEF Children, Moves
  <2>2. /\ IsFiniteSet(Children(par2, x))
        /\ Cardinality(Children(par2, x)) = Cardinality(Children(par, x)) - 1
    BY <2>1, FS_RemoveElement, Zenon
  <2> QED BY <2>2, <1>2, Zenon
<1>3. CASE x # par[o]
  <2>1. Children(par2, x) = Children(par, x)
    BY <1>1, <1>3, Zenon DEF Children, Moves
  <2> QED BY <2>1, <1>1, <1>3
<1> QED BY <1>2, <1>3, Zenon

\* The reference count of x and the terms it is the sum of.
Terms(x) ==
  /\ Cardinality(HandlesIn(tables, x)) \in Nat /\ pins[x] \in Nat
  /\ Cardinality(Children(parent, x)) \in Nat /\ Cardinality(Awaiting(todo, x)) \in Nat
  /\ refcount[x] \in Nat
  /\ refcount[x] = Cardinality(HandlesIn(tables, x)) + pins[x]
       + Cardinality(Children(parent, x)) + Cardinality(Awaiting(todo, x))
       + (IF x = Self THEN 1 ELSE 0)

LEMMA RefTerms ==
  ASSUME IInv, RefInv, NEW x \in Object
  PROVE  Terms(x) /\ (todo = <<>> => Cardinality(Awaiting(todo, x)) = 0)
<1>1. /\ Cardinality(HandlesIn(tables, x)) \in Nat
      /\ Cardinality(Children(parent, x)) \in Nat
  BY FS_CardinalityType, Zenon DEF RefInv
<1>2. pins[x] \in Nat
  BY HandleTableAssumption DEF IInv, TypeOK
<1>3. /\ Cardinality(Awaiting(todo, x)) \in Nat
      /\ todo = <<>> => Cardinality(Awaiting(todo, x)) = 0
  <2>1. CASE todo = <<>>
    BY <2>1, AwaitingNone
  <2>2. CASE todo # <<>>
    <3>1. PICK y \in Object : todo = <<y>> BY <2>2, Zenon DEF RefInv
    <3>2. Cardinality(Awaiting(<<y>>, x)) = IF y = x THEN 1 ELSE 0
      BY AwaitingOne, Zenon
    <3>3. Cardinality(Awaiting(todo, x)) = IF y = x THEN 1 ELSE 0
      BY <3>1, <3>2, Zenon
    <3> QED BY <3>3, <2>2
  <2> QED BY <2>1, <2>2, Zenon
<1>4. refcount[x] = Cardinality(HandlesIn(tables, x)) + pins[x]
        + Cardinality(Children(parent, x)) + Cardinality(Awaiting(todo, x))
        + IF x = Self THEN 1 ELSE 0
  BY Zenon DEF RefInv, References
<1> QED BY <1>1, <1>2, <1>3, <1>4 DEF Terms

\* What a handle denotes is alive.
LEMMA DenotedAlive ==
  ASSUME IInv, RefInv, NEW p \in Process, NEW h \in Handles, NEW o, Denotes(p, h, o)
  PROVE  o \in Object /\ refcount[o] > 0
<1>1. o \in Object
  BY DenotesObject, Zenon
<1>2. CASE o = Self
  BY <1>1, <1>2, RefTerms DEF Terms
<1>3. CASE o # Self
  <2>1. Valid(p, h) /\ o = EntryOf(p, h).ptr
    BY <1>3, Zenon DEF Denotes
  <2> DEFINE t == TableOf(p, h)
             i == HandleToIndex(h.value)
  <2>2. t \in Table /\ Good(tables[t]) /\ i \in 0 .. tables[t].last
    BY <2>1, ValidEntry, Zenon
  <2>3. i \in 0 .. MaxEntries - 1
    BY <2>2, SoundFacts DEF Good, Mid
  <2>4. i \in Used(tables[t], o)
    BY <2>1, <2>3, Zenon DEF Used, InUse, Valid, EntryOf
  <2> HIDE DEF t, i
  <2>5. <<t, i>> \in HandlesIn(tables, o)
    BY <2>2, <2>3, <2>4, Zenon DEF HandlesIn
  <2>6. IsFiniteSet(HandlesIn(tables, o))
    BY <1>1, Zenon DEF RefInv
  <2>7. Cardinality(HandlesIn(tables, o)) # 0
    BY <2>5, <2>6, FS_EmptySet, Zenon
  <2> QED BY <1>1, <2>7, RefTerms DEF Terms
<1> QED BY <1>1, <1>2, <1>3, Zenon

-----------------------------------------------------------------------------
(* The requests.                                                            *)

\* The number of references to x after a step.
Sum(x) ==
  Cardinality(HandlesIn(tables', x)) + pins'[x] + Cardinality(Children(parent', x))
  + Cardinality(Awaiting(todo', x)) + (IF x = Self THEN 1 ELSE 0)

\* Names that no step touches stay unique.
LEMMA NamesKept ==
  ASSUME IInv, RefInv, UNCHANGED nameVars,
         \A x \in Object : refcount[x] > 0 => refcount'[x] > 0
  PROVE  NamesUnique' /\ \A o \in Object : name'[o] = None => parent'[o] = None
BY Zenon DEF RefInv, NamesUnique, nameVars

\* A step of a request that leaves the names alone.
LEMMA SameNames ==
  ASSUME IInv, RefInv, UNCHANGED nameVars,
         \A x \in Object : refcount[x] > 0 => refcount'[x] > 0,
         \A x \in Object : IsFiniteSet(HandlesIn(tables', x)),
         \A x \in Object : refcount'[x] = Sum(x),
         todo' = <<>> \/ \E x \in Object : todo' = <<x>>,
         \A t \in Table : ~tables'[t].open =>
           tables'[t].last = -1 \/ (cont'.op = "destroy" /\ cont'.table = t)
  PROVE  RefInv'
<1>1. NamesUnique' /\ \A o \in Object : name'[o] = None => parent'[o] = None
  BY NamesKept, Zenon
<1>2. \A o \in Object : IsFiniteSet(Children(parent', o))
  BY Zenon DEF RefInv, nameVars
<1> QED BY <1>1, <1>2, Zenon DEF RefInv, References, Sum

LEMMA IdleClosed ==
  ASSUME RefInv, cont.op # "destroy"
  PROVE  ClosedEmpty(tables)
BY Zenon DEF RefInv, ClosedEmpty

LEMMA NoStep ==
  ASSUME tables' = tables
  PROVE  Kept /\ StableTables
BY SameStable, SMTT(30) DEF Kept, StableTables

LEMMA CreateRefs ==
  ASSUME IInv, RefInv, NEW p \in Process, NEW o \in Object, NEW d \in Dir \cup {None},
         NEW n \in Name \cup {None}, NEW inherit \in Inherit, Create(p, o, d, n, inherit)
  PROVE  RefInv' /\ StableTables
<1> DEFINE refs == [x \in Object |-> IF x = o THEN 1
                             ELSE IF x = d THEN refcount[x] + 1 ELSE refcount[x]]
<1>1. /\ Alloc(p, o, AttrAccess(inherit), refs) /\ todo' = <<o>> /\ pins' = pins /\ cont' = cont
      /\ refcount[o] = 0 /\ name' = [name EXCEPT ![o] = n] /\ parent' = [parent EXCEPT ![o] = d]
      /\ (n = None => d = None) /\ ~\E x \in Object : Found(d, n, x)
  BY Zenon DEF Create
<1>2. AttrAccess(inherit) \in SUBSET Flag /\ p \in Table
  BY Zenon DEF AttrAccess, Flag, Table
<1>3. cont.op = "none" /\ todo = <<>>
  BY Zenon DEF Request, Idle, NoCont, Create
<1>t. /\ refcount \in [Object -> Int] /\ parent \in [Object -> Dir \cup {None}]
      /\ name \in [Object -> Name \cup {None}] /\ None \notin Object /\ Dir \subseteq Object
  BY HandleTableAssumption, Zenon DEF IInv, TypeOK
<1>4. d # o
  <2>1. CASE d = None BY <2>1, <1>t, Zenon
  <2>2. CASE d # None
    <3>1. PICK h \in Handles : Denotes(p, h, d)
      BY <2>2, Zenon DEF Create, RootDir
    <3>2. refcount[d] > 0
      BY <3>1, DenotedAlive, Zenon
    <3> QED BY <3>2, <1>1
  <2> QED BY <2>1, <2>2, Zenon
<1>5. name[o] = None /\ parent[o] = None
  <2>1. name[o] = None
    BY <1>1 DEF RefInv, NamesUnique
  <2> QED BY <2>1, Zenon DEF RefInv
<1>6. \A x \in Object : refs[x] = IF x = o THEN 1 ELSE IF x = d THEN refcount[x] + 1 ELSE refcount[x]
  BY Zenon
<1>r. refs \in [Object -> Int]
  BY <1>t
<1> HIDE DEF refs
<1>7. /\ \/ Gained(o) /\ refcount' = [refs EXCEPT ![o] = @ + 1]
         \/ Kept /\ refcount' = refs
      /\ ClosedEmpty(tables') /\ StableTables
  BY <1>1, <1>2, <1>3, IdleClosed, AllocEffect, Zenon
<1>8. ASSUME NEW x \in Object
      PROVE  /\ IsFiniteSet(Children(parent', x))
             /\ Cardinality(Children(parent', x)) = Cardinality(Children(parent, x))
                                                    + IF x = d THEN 1 ELSE 0
  <2>1. IsFiniteSet(Children(parent, x)) BY Zenon DEF RefInv
  <2>2. Moves(parent, parent', o, d)
    BY <1>1, <1>t, Zenon DEF Moves
  <2> QED BY <2>1, <2>2, <1>5, ChildrenGain, Zenon
<1>9. ASSUME NEW x \in Object
      PROVE  Cardinality(Awaiting(todo', x)) = IF o = x THEN 1 ELSE 0
  <2>1. Cardinality(Awaiting(<<o>>, x)) = IF o = x THEN 1 ELSE 0
    BY AwaitingOne, Zenon
  <2> QED BY <2>1, <1>1, Zenon
<1>10. ASSUME NEW x \in Object
       PROVE  /\ IsFiniteSet(HandlesIn(tables', x)) /\ refcount'[x] = Sum(x)
              /\ refcount[x] > 0 => refcount'[x] > 0
              /\ refcount'[o] > 0
  <2>t. Terms(x) /\ Cardinality(Awaiting(todo, x)) = 0
    BY <1>3, RefTerms, Zenon
  <2>a. /\ Cardinality(Children(parent', x)) = Cardinality(Children(parent, x))
                                               + IF x = d THEN 1 ELSE 0
        /\ Cardinality(Awaiting(todo', x)) = IF o = x THEN 1 ELSE 0
        /\ pins'[x] = pins[x] /\ d # o /\ refcount[o] = 0
    BY <1>1, <1>4, <1>8, <1>9, Zenon
  <2>1. CASE Gained(o) /\ refcount' = [refs EXCEPT ![o] = @ + 1]
    <3>1. /\ IsFiniteSet(HandlesIn(tables', x))
          /\ Cardinality(HandlesIn(tables', x)) = Cardinality(HandlesIn(tables, x))
                                                  + IF x = o THEN 1 ELSE 0
      BY <2>1, Zenon DEF Gained
    <3>2. /\ refcount'[x] = IF x = o THEN 2 ELSE IF x = d THEN refcount[x] + 1 ELSE refcount[x]
          /\ refcount'[o] = 2
      BY <2>1, <1>6, <1>r, SMTT(30)
    <3> QED BY <3>1, <3>2, <2>t, <2>a, SMTT(30) DEF Sum, Terms
  <2>2. CASE Kept /\ refcount' = refs
    <3>1. /\ IsFiniteSet(HandlesIn(tables', x))
          /\ Cardinality(HandlesIn(tables', x)) = Cardinality(HandlesIn(tables, x))
      BY <2>2, Zenon DEF Kept, RefInv
    <3>2. /\ refcount'[x] = IF x = o THEN 1 ELSE IF x = d THEN refcount[x] + 1 ELSE refcount[x]
          /\ refcount'[o] = 1
      BY <2>2, <1>6, Zenon
    <3> QED BY <3>1, <3>2, <2>t, <2>a, SMTT(30) DEF Sum, Terms
  <2> QED BY <2>1, <2>2, <1>7, Zenon
<1>11. \A x \in Object : /\ name'[x] = IF x = o THEN n ELSE name[x]
                         /\ parent'[x] = IF x = o THEN d ELSE parent[x]
  BY <1>1, <1>t, Zenon
<1>12. NamesUnique'
  <2>1. ASSUME NEW x \in Object, name'[x] # None PROVE refcount'[x] > 0
    <3>1. CASE x = o BY <3>1, <1>10, Zenon
    <3>2. CASE x # o
      <4>1. refcount[x] > 0 BY <2>1, <3>2, <1>11, Zenon DEF RefInv, NamesUnique
      <4> QED BY <4>1, <1>10, Zenon
    <3> QED BY <3>1, <3>2, Zenon
  <2>2. ASSUME NEW x \in Object, x # o, n # None, name[x] = n, parent[x] = d PROVE FALSE
    <3>1. refcount[x] > 0 BY <2>2, Zenon DEF RefInv, NamesUnique
    <3> QED BY <3>1, <2>2, <1>1, Zenon DEF Found
  <2>3. ASSUME NEW x \in Object, NEW y \in Object, name'[x] # None, name'[x] = name'[y],
               parent'[x] = parent'[y]
        PROVE  x = y
    <3>1. CASE x = o BY <3>1, <2>2, <2>3, <1>11, Zenon
    <3>2. CASE y = o BY <3>2, <2>2, <2>3, <1>11, Zenon
    <3>3. CASE x # o /\ y # o
      BY <3>3, <2>3, <1>11 DEF RefInv, NamesUnique
    <3> QED BY <3>1, <3>2, <3>3, Zenon
  <2> QED BY <2>1, <2>3, Zenon DEF NamesUnique
<1>13. \A x \in Object : name'[x] = None => parent'[x] = None
  BY <1>1, <1>11 DEF RefInv
<1> QED BY <1>1, <1>7, <1>8, <1>10, <1>12, <1>13, Zenon DEF RefInv, References, Sum, ClosedEmpty

LEMMA OpenObjectRefs ==
  ASSUME IInv, RefInv, NEW p \in Process, NEW o \in Object, NEW d \in Dir \cup {None},
         NEW n \in Name, NEW inherit \in Inherit, NEW allowed \in BOOLEAN,
         OpenObject(p, o, d, n, inherit, allowed)
  PROVE  RefInv' /\ StableTables
<1> DEFINE refs == [refcount EXCEPT ![o] = @ + 1]
<1>1. /\ \/ Alloc(p, o, AttrAccess(inherit), refs)
         \/ refcount' = refs /\ UNCHANGED tables
      /\ todo' = <<o>> /\ pins' = pins /\ cont' = cont /\ UNCHANGED nameVars
  BY Zenon DEF OpenObject
<1>2. AttrAccess(inherit) \in SUBSET Flag /\ p \in Table
  BY Zenon DEF AttrAccess, Flag, Table
<1>3. cont.op = "none" /\ todo = <<>>
  BY Zenon DEF Request, Idle, NoCont, OpenObject
<1>4. refcount \in [Object -> Int]
  BY Zenon DEF IInv, TypeOK
<1>5. refs \in [Object -> Int] /\ \A x \in Object : refs[x] = IF x = o THEN refcount[x] + 1 ELSE refcount[x]
  BY <1>4
<1> HIDE DEF refs
<1>6. /\ \/ Gained(o) /\ refcount' = [refs EXCEPT ![o] = @ + 1]
         \/ Kept /\ refcount' = refs
      /\ ClosedEmpty(tables') /\ StableTables
  <2>1. CASE Alloc(p, o, AttrAccess(inherit), refs)
    BY <2>1, <1>2, <1>3, IdleClosed, AllocEffect, Zenon
  <2>2. CASE refcount' = refs /\ UNCHANGED tables
    BY <2>2, <1>3, IdleClosed, NoStep, Zenon
  <2> QED BY <2>1, <2>2, <1>1, Zenon
<1>7. ASSUME NEW x \in Object
      PROVE  Cardinality(Awaiting(todo', x)) = IF o = x THEN 1 ELSE 0
  <2>1. Cardinality(Awaiting(<<o>>, x)) = IF o = x THEN 1 ELSE 0
    BY AwaitingOne, Zenon
  <2> QED BY <2>1, <1>1, Zenon
<1>8. parent' = parent
  BY <1>1, Zenon DEF nameVars
<1>9. ASSUME NEW x \in Object
      PROVE  /\ IsFiniteSet(HandlesIn(tables', x)) /\ refcount'[x] = Sum(x)
             /\ refcount[x] > 0 => refcount'[x] > 0
  <2>t. Terms(x) /\ Cardinality(Awaiting(todo, x)) = 0
    BY <1>3, RefTerms, Zenon
  <2>a. /\ Cardinality(Children(parent', x)) = Cardinality(Children(parent, x))
        /\ Cardinality(Awaiting(todo', x)) = IF o = x THEN 1 ELSE 0
        /\ pins'[x] = pins[x]
    BY <1>1, <1>7, <1>8, Zenon
  <2>1. CASE Gained(o) /\ refcount' = [refs EXCEPT ![o] = @ + 1]
    <3>1. /\ IsFiniteSet(HandlesIn(tables', x))
          /\ Cardinality(HandlesIn(tables', x)) = Cardinality(HandlesIn(tables, x))
                                                  + IF x = o THEN 1 ELSE 0
      BY <2>1, Zenon DEF Gained
    <3>2. refcount'[x] = IF x = o THEN refcount[x] + 2 ELSE refcount[x]
      BY <2>1, <1>4, <1>5, SMTT(30)
    <3>3. CASE x = o
      BY <3>1, <3>2, <3>3, <2>t, <2>a, SMTT(60) DEF Sum, Terms
    <3>4. CASE x # o
      BY <3>1, <3>2, <3>4, <2>t, <2>a, SMTT(30) DEF Sum, Terms
    <3> QED BY <3>3, <3>4, Zenon
  <2>2. CASE Kept /\ refcount' = refs
    <3>1. /\ IsFiniteSet(HandlesIn(tables', x))
          /\ Cardinality(HandlesIn(tables', x)) = Cardinality(HandlesIn(tables, x))
      BY <2>2, Zenon DEF Kept, RefInv
    <3>2. refcount'[x] = IF x = o THEN refcount[x] + 1 ELSE refcount[x]
      BY <2>2, <1>5, SMTT(30)
    <3>3. CASE x = o
      BY <3>1, <3>2, <3>3, <2>t, <2>a, SMTT(30) DEF Sum, Terms
    <3>4. CASE x # o
      BY <3>1, <3>2, <3>4, <2>t, <2>a, SMTT(30) DEF Sum, Terms
    <3> QED BY <3>3, <3>4
  <2> QED BY <2>1, <2>2, <1>6, Zenon
<1>10. RefInv'
  BY <1>1, <1>6, <1>9, SameNames, Zenon DEF ClosedEmpty
<1> QED BY <1>6, <1>10, Zenon

\* A step that makes one reference of one kind into one of another: it takes
\* away a handle to o, o is now to be released.
LEMMA LostSum ==
  ASSUME IInv, RefInv, todo = <<>>, NEW o \in Object, Lost(o), todo' = <<o>>,
         UNCHANGED <<refcount, pins, nameVars>>, NEW x \in Object
  PROVE  IsFiniteSet(HandlesIn(tables', x)) /\ refcount'[x] = Sum(x)
<1>1. Terms(x) /\ Cardinality(Awaiting(todo, x)) = 0
  BY RefTerms, Zenon
<1>2. Cardinality(Awaiting(<<o>>, x)) = IF o = x THEN 1 ELSE 0
  BY AwaitingOne, Zenon
<1>3. Cardinality(Awaiting(todo', x)) = IF o = x THEN 1 ELSE 0
  BY <1>2, Zenon
<1>4. /\ IsFiniteSet(HandlesIn(tables', x))
      /\ Cardinality(HandlesIn(tables', x)) = Cardinality(HandlesIn(tables, x)) - IF x = o THEN 1 ELSE 0
  BY Zenon DEF Lost
<1>5. pins'[x] = pins[x] /\ Children(parent', x) = Children(parent, x) /\ refcount'[x] = refcount[x]
  BY Zenon DEF nameVars
<1> QED BY <1>1, <1>3, <1>4, <1>5 DEF Sum, Terms

\* A step that changes no reference.
LEMMA KeptSum ==
  ASSUME IInv, RefInv, Kept, UNCHANGED <<refcount, pins, nameVars, todo>>, NEW x \in Object
  PROVE  IsFiniteSet(HandlesIn(tables', x)) /\ refcount'[x] = Sum(x)
<1>1. HandlesIn(tables', x) = HandlesIn(tables, x) /\ IsFiniteSet(HandlesIn(tables, x))
  BY Zenon DEF Kept, RefInv
<1>2. refcount[x] = References(x)
  BY Zenon DEF RefInv
<1> QED BY <1>1, <1>2, Zenon DEF Sum, References, nameVars

LEMMA CloseHandleRefs ==
  ASSUME IInv, RefInv, NEW p \in Process, NEW h \in Handles, CloseHandle(p, h)
  PROVE  RefInv' /\ StableTables
<1>1. cont.op = "none" /\ todo = <<>> /\ Close(p, h) /\ UNCHANGED <<refcount, pins, nameVars, cont>>
  BY Zenon DEF Request, Idle, NoCont, CloseHandle
<1>2. PICK o \in Object : Lost(o) /\ todo' = <<o>> /\ ClosedEmpty(tables') /\ StableTables
  BY <1>1, IdleClosed, CloseEffect, Zenon
<1>3. \A x \in Object : IsFiniteSet(HandlesIn(tables', x)) /\ refcount'[x] = Sum(x)
  BY <1>1, <1>2, LostSum, Zenon
<1> QED BY <1>1, <1>2, <1>3, SameNames, Zenon DEF ClosedEmpty

LEMMA CloseSourceRefs ==
  ASSUME IInv, RefInv, CloseSource
  PROVE  RefInv' /\ StableTables
<1>1. /\ cont.op = "close" /\ todo = <<>> /\ UNCHANGED <<refcount, pins, nameVars>>
      /\ Close(cont.table, cont.handle) \/ UNCHANGED <<tables, todo>>
  BY Zenon DEF CloseSource
<1>2. cont.table \in Process /\ cont.handle \in Handles
  BY <1>1, Zenon DEF IInv, ContOK
<1>3. CASE Close(cont.table, cont.handle)
  <2>1. PICK o \in Object : Lost(o) /\ todo' = <<o>> /\ ClosedEmpty(tables') /\ StableTables
    BY <1>1, <1>2, <1>3, IdleClosed, CloseEffect, Zenon
  <2>2. \A x \in Object : IsFiniteSet(HandlesIn(tables', x)) /\ refcount'[x] = Sum(x)
    BY <1>1, <2>1, LostSum, Zenon
  <2> QED BY <1>1, <2>1, <2>2, SameNames, Zenon DEF ClosedEmpty
<1>4. CASE UNCHANGED <<tables, todo>>
  <2>1. Kept /\ StableTables /\ ClosedEmpty(tables')
    BY <1>1, <1>4, NoStep, IdleClosed, Zenon
  <2>2. \A x \in Object : IsFiniteSet(HandlesIn(tables', x)) /\ refcount'[x] = Sum(x)
    BY <1>1, <1>4, <2>1, KeptSum, Zenon
  <2> QED BY <1>1, <1>4, <2>1, <2>2, SameNames, Zenon DEF ClosedEmpty
<1> QED BY <1>1, <1>3, <1>4, Zenon

LEMMA SetHandleInfoRefs ==
  ASSUME IInv, RefInv, NEW p \in Process, NEW h \in Handles, NEW mask \in Flags,
         NEW flags \in Flags, SetHandleInfo(p, h, mask, flags)
  PROVE  RefInv' /\ StableTables
<1> DEFINE access == (EntryOf(p, h).access \ mask) \cup (flags \cap mask)
<1>1. /\ cont.op = "none" /\ todo = <<>> /\ Valid(p, h)
      /\ UNCHANGED <<refcount, pins, nameVars, todo, cont>>
  BY Zenon DEF Request, Idle, NoCont, SetHandleInfo
<1>2. access \in SUBSET Flag
  BY <1>1, ValidEntry, HandleTableAssumption, Zenon DEF Entry
<1>3. tables' = [tables EXCEPT ![TableOf(p, h)] = Flagged(@, HandleToIndex(h.value), access)]
  BY Zenon DEF SetHandleInfo
<1> HIDE DEF access
<1>4. Kept /\ ClosedEmpty(tables') /\ StableTables
  BY <1>1, <1>2, <1>3, IdleClosed, FlagEffect, Zenon
<1>5. \A x \in Object : IsFiniteSet(HandlesIn(tables', x)) /\ refcount'[x] = Sum(x)
  BY <1>1, <1>4, KeptSum, Zenon
<1> QED BY <1>1, <1>4, <1>5, SameNames, Zenon DEF ClosedEmpty

LEMMA DupHandleRefs ==
  ASSUME IInv, RefInv, NEW p \in Process, NEW src \in Process, NEW h \in Handles,
         NEW dst \in Process \cup {None}, NEW global \in BOOLEAN, NEW closeSource \in BOOLEAN,
         NEW rights, NEW inherit \in Inherit,
         DupHandle(p, src, h, dst, global, closeSource, rights, inherit)
  PROVE  RefInv' /\ StableTables
<1> DEFINE access == AttrAccess(inherit)
<1>1. access \in SUBSET Flag /\ {} \in SUBSET Flag
  BY SMTT(30) DEF AttrAccess, Flag
<1>2. PICK o \in Object :
        \/ UNCHANGED <<tables, refcount>>
        \/ /\ Valid(src, h)
           /\ tables' = [tables EXCEPT ![TableOf(src, h)] =
                           Flagged(@, HandleToIndex(h.value), access)]
           /\ UNCHANGED refcount
        \/ /\ dst # None \/ global
           /\ IF global THEN Alloc(Global, o, {}, refcount)
                        ELSE Alloc(dst, o, access, refcount)
  BY SMTT(30) DEF DupHandle
<1>3. UNCHANGED <<pins, nameVars, todo>> /\ cont.op = "none" /\ todo = <<>>
  BY Zenon DEF Request, Idle, NoCont, DupHandle
<1> HIDE DEF access
<1>4. ClosedEmpty(tables)
  BY <1>3, IdleClosed, Zenon
<1>t. refcount \in [Object -> Int]
  BY Zenon DEF IInv, TypeOK
<1>5. /\ \/ Gained(o) /\ refcount' = [refcount EXCEPT ![o] = @ + 1]
         \/ Kept /\ refcount' = refcount
      /\ ClosedEmpty(tables') /\ StableTables
  <2>1. CASE UNCHANGED <<tables, refcount>>
    BY <2>1, <1>4, NoStep, Zenon
  <2>2. CASE /\ Valid(src, h)
             /\ tables' = [tables EXCEPT ![TableOf(src, h)] =
                             Flagged(@, HandleToIndex(h.value), access)]
             /\ UNCHANGED refcount
    BY <2>2, <1>1, <1>4, FlagEffect, Zenon
  <2>3. CASE /\ dst # None \/ global
             /\ IF global THEN Alloc(Global, o, {}, refcount)
                          ELSE Alloc(dst, o, access, refcount)
    <3>1. CASE global
      BY <3>1, <2>3, <1>1, <1>4, AllocEffect, ZenonT(30) DEF Table
    <3>2. CASE ~global
      BY <3>2, <2>3, <1>1, <1>4, AllocEffect, Zenon DEF Table
    <3> QED BY <3>1, <3>2, Zenon
  <2> QED BY <2>1, <2>2, <2>3, <1>2, Zenon
<1>6. ASSUME NEW x \in Object
      PROVE  /\ IsFiniteSet(HandlesIn(tables', x)) /\ refcount'[x] = Sum(x)
             /\ refcount[x] > 0 => refcount'[x] > 0
  <2>1. CASE Gained(o) /\ refcount' = [refcount EXCEPT ![o] = @ + 1]
    <3>1. /\ IsFiniteSet(HandlesIn(tables', x))
          /\ Cardinality(HandlesIn(tables', x)) = Cardinality(HandlesIn(tables, x))
                                                  + IF x = o THEN 1 ELSE 0
      BY <2>1, Zenon DEF Gained
    <3>2. refcount'[x] = IF x = o THEN refcount[x] + 1 ELSE refcount[x]
      BY <2>1, <1>t, Zenon
    <3>3. Terms(x)
      BY RefTerms, Zenon
    <3>4. /\ pins'[x] = pins[x] /\ Children(parent', x) = Children(parent, x)
          /\ Awaiting(todo', x) = Awaiting(todo, x)
      BY <1>3, Zenon DEF nameVars
    <3> QED BY <3>1, <3>2, <3>3, <3>4, SMTT(30) DEF Sum, Terms
  <2>2. CASE Kept /\ refcount' = refcount
    BY <2>2, <1>3, KeptSum, Zenon
  <2> QED BY <2>1, <2>2, <1>5, Zenon
<1> QED BY <1>3, <1>5, <1>6, SameNames, Zenon DEF ClosedEmpty

\* add_queue takes a reference.
LEMMA AddQueueRefs ==
  ASSUME IInv, RefInv, NEW p \in Process, NEW h \in Handles, AddQueue(p, h)
  PROVE  RefInv' /\ StableTables
<1>1. cont.op = "none" /\ UNCHANGED <<tables, nameVars, todo, cont>>
  BY Zenon DEF Request, Idle, NoCont, AddQueue
<1>2. PICK o \in Object : /\ pins' = [pins EXCEPT ![o] = @ + 1]
                          /\ refcount' = [refcount EXCEPT ![o] = @ + 1]
  BY Zenon DEF AddQueue
<1>3. Kept /\ StableTables /\ ClosedEmpty(tables')
  BY <1>1, NoStep, IdleClosed, Zenon
<1>t. refcount \in [Object -> Int] /\ pins \in [Object -> Int]
  BY HandleTableAssumption DEF IInv, TypeOK
<1>4. ASSUME NEW x \in Object
      PROVE  /\ IsFiniteSet(HandlesIn(tables', x)) /\ refcount'[x] = Sum(x)
             /\ refcount[x] > 0 => refcount'[x] > 0
  <2>1. /\ refcount'[x] = IF x = o THEN refcount[x] + 1 ELSE refcount[x]
        /\ pins'[x] = IF x = o THEN pins[x] + 1 ELSE pins[x]
    BY <1>2, <1>t, Zenon
  <2>2. Terms(x)
    BY RefTerms, Zenon
  <2>3. /\ HandlesIn(tables', x) = HandlesIn(tables, x) /\ IsFiniteSet(HandlesIn(tables, x))
        /\ Children(parent', x) = Children(parent, x) /\ Awaiting(todo', x) = Awaiting(todo, x)
    BY <1>1, Zenon DEF nameVars, RefInv
  <2> QED BY <2>1, <2>2, <2>3 DEF Sum, Terms
<1>5. todo' = <<>> \/ \E x \in Object : todo' = <<x>>
  BY <1>1, Zenon DEF RefInv
<1> QED BY <1>1, <1>3, <1>4, <1>5, SameNames, Zenon DEF ClosedEmpty

\* remove_queue gives it back.
LEMMA RemoveQueueRefs ==
  ASSUME IInv, RefInv, NEW o \in Object, RemoveQueue(o)
  PROVE  RefInv' /\ StableTables
<1>1. /\ cont.op = "none" /\ todo = <<>> /\ UNCHANGED <<tables, refcount, nameVars, cont>>
      /\ todo' = <<o>> /\ pins' = [pins EXCEPT ![o] = @ - 1]
  BY Zenon DEF Idle, NoCont, RemoveQueue
<1>2. Kept /\ StableTables /\ ClosedEmpty(tables')
  BY <1>1, NoStep, IdleClosed, Zenon
<1>t. pins \in [Object -> Int]
  BY HandleTableAssumption DEF IInv, TypeOK
<1>3. ASSUME NEW x \in Object
      PROVE  IsFiniteSet(HandlesIn(tables', x)) /\ refcount'[x] = Sum(x)
  <2>1. /\ refcount'[x] = refcount[x]
        /\ pins'[x] = IF x = o THEN pins[x] - 1 ELSE pins[x]
    BY <1>1, <1>t, Zenon
  <2>2. Terms(x) /\ Cardinality(Awaiting(todo, x)) = 0
    BY <1>1, RefTerms, Zenon
  <2>3. /\ HandlesIn(tables', x) = HandlesIn(tables, x) /\ IsFiniteSet(HandlesIn(tables, x))
        /\ Children(parent', x) = Children(parent, x)
    BY <1>1, Zenon DEF nameVars, RefInv
  <2>4. Cardinality(Awaiting(<<o>>, x)) = IF o = x THEN 1 ELSE 0
    BY AwaitingOne, Zenon
  <2>5. Cardinality(Awaiting(todo', x)) = IF o = x THEN 1 ELSE 0
    BY <1>1, <2>4, Zenon
  <2> QED BY <2>1, <2>2, <2>3, <2>5, SMTT(30) DEF Sum, Terms
<1> QED BY <1>1, <1>2, <1>3, SameNames, Zenon DEF ClosedEmpty

\* Taking away the name of an object keeps the other names unique.
LEMMA NameLost ==
  ASSUME IInv, RefInv, NEW o \in Object, name' = [name EXCEPT ![o] = None],
         parent' = [parent EXCEPT ![o] = None],
         \A x \in Object : x # o /\ refcount[x] > 0 => refcount'[x] > 0
  PROVE  /\ NamesUnique' /\ \A x \in Object : name'[x] = None => parent'[x] = None
         /\ Moves(parent, parent', o, None)
<1>t. parent \in [Object -> Dir \cup {None}] /\ name \in [Object -> Name \cup {None}]
  BY Zenon DEF IInv, TypeOK
<1>1. \A x \in Object : /\ name'[x] = IF x = o THEN None ELSE name[x]
                        /\ parent'[x] = IF x = o THEN None ELSE parent[x]
  BY <1>t, Zenon
<1>2. Moves(parent, parent', o, None)
  BY <1>1, Zenon DEF Moves
<1>3. \A x \in Object : name'[x] = None => parent'[x] = None
  BY <1>1 DEF RefInv
<1>4. NamesUnique'
  <2>1. ASSUME NEW x \in Object, NEW y \in Object, name'[x] # None
        PROVE  /\ refcount'[x] > 0
               /\ name'[x] = name'[y] /\ parent'[x] = parent'[y] => x = y
    <3>1. x # o /\ name[x] # None /\ name'[x] = name[x] /\ parent'[x] = parent[x]
      BY <2>1, <1>1, Zenon
    <3>2. refcount[x] > 0 /\ (name[x] = name[y] /\ parent[x] = parent[y] => x = y)
      BY <3>1, Zenon DEF RefInv, NamesUnique
    <3>3. CASE y = o BY <3>1, <3>2, <3>3, <1>1, Zenon
    <3>4. CASE y # o BY <3>1, <3>2, <3>4, <1>1, SMTT(30)
    <3> QED BY <3>3, <3>4, Zenon
  <2> QED BY <2>1, Zenon DEF NamesUnique
<1> QED BY <1>2, <1>3, <1>4, Zenon

\* unlink_object: the directory loses a reference when the name goes.
LEMMA UnlinkObjectRefs ==
  ASSUME IInv, RefInv, NEW p \in Process, NEW h \in Handles, UnlinkObject(p, h)
  PROVE  RefInv' /\ StableTables
<1>1. /\ cont.op = "none" /\ todo = <<>> /\ UNCHANGED <<tables, refcount, pins, cont>>
  BY Zenon DEF Request, Idle, NoCont, UnlinkObject
<1>2. PICK o \in Object :
        /\ name' = [name EXCEPT ![o] = None]
        /\ parent' = [parent EXCEPT ![o] = None]
        /\ todo' = IF parent[o] = None THEN <<>> ELSE <<parent[o]>>
  BY Zenon DEF UnlinkObject
<1>3. Kept /\ StableTables /\ ClosedEmpty(tables')
  BY <1>1, NoStep, IdleClosed, Zenon
<1>4. /\ NamesUnique' /\ \A x \in Object : name'[x] = None => parent'[x] = None
      /\ Moves(parent, parent', o, None)
  BY <1>1, <1>2, NameLost, Zenon
<1>5. parent[o] \in Object \cup {None} /\ None \notin Object
  BY HandleTableAssumption, Zenon DEF IInv, TypeOK
<1>6. ASSUME NEW x \in Object
      PROVE  /\ IsFiniteSet(HandlesIn(tables', x)) /\ IsFiniteSet(Children(parent', x))
             /\ refcount'[x] = Sum(x)
  <2>1. Terms(x) /\ Cardinality(Awaiting(todo, x)) = 0
    BY <1>1, RefTerms, Zenon
  <2>2. /\ HandlesIn(tables', x) = HandlesIn(tables, x) /\ IsFiniteSet(HandlesIn(tables, x))
        /\ pins'[x] = pins[x] /\ refcount'[x] = refcount[x] /\ IsFiniteSet(Children(parent, x))
    BY <1>1, Zenon DEF RefInv
  <2>3. /\ IsFiniteSet(Children(parent', x))
        /\ Cardinality(Children(parent', x))
             = Cardinality(Children(parent, x)) - IF x = parent[o] THEN 1 ELSE 0
    BY <2>2, <1>4, ChildrenLose, Zenon
  <2>4. Cardinality(Awaiting(todo', x)) = IF x = parent[o] THEN 1 ELSE 0
    <3>1. Cardinality(Awaiting(<<parent[o]>>, x)) = IF parent[o] = x THEN 1 ELSE 0
      BY AwaitingOne, Zenon
    <3>2. CASE parent[o] = None
      <4>1. todo' = <<>> BY <3>2, <1>2, Zenon
      <4>2. Cardinality(Awaiting(todo', x)) = 0 BY <4>1, AwaitingNone, Zenon
      <4> QED BY <4>2, <3>2, <1>5, Zenon
    <3>3. CASE parent[o] # None
      <4>1. todo' = <<parent[o]>> BY <3>3, <1>2, Zenon
      <4>2. Cardinality(Awaiting(todo', x)) = IF parent[o] = x THEN 1 ELSE 0
        BY <4>1, <3>1, Zenon
      <4> QED BY <4>2, Zenon
    <3> QED BY <3>2, <3>3, Zenon
  <2> QED BY <2>1, <2>2, <2>3, <2>4, SMTT(30) DEF Sum, Terms
<1>7. todo' = <<>> \/ \E x \in Object : todo' = <<x>>
  BY <1>2, <1>5, Zenon
<1> QED BY <1>1, <1>3, <1>4, <1>6, <1>7, Zenon DEF RefInv, References, Sum, ClosedEmpty

\* release_object: one object less to release, one reference less; the last
\* reference takes the name with it, and the directory is released next.
LEMMA ReleaseRefs ==
  ASSUME IInv, RefInv, Release
  PROVE  RefInv' /\ StableTables
<1>1. PICK o \in Object : todo = <<o>>
  BY Zenon DEF RefInv, Release
<1>2. Head(todo) = o /\ Tail(todo) = <<>> /\ \A y : <<y>> \o <<>> = <<y>>
  BY <1>1
<1>3. /\ refcount' = [refcount EXCEPT ![o] = @ - 1]
      /\ UNCHANGED <<tables, pins, cont>>
      /\ \/ /\ refcount[o] = 1
            /\ name' = [name EXCEPT ![o] = None] /\ parent' = [parent EXCEPT ![o] = None]
            /\ todo' = IF parent[o] = None THEN <<>> ELSE <<parent[o]>>
         \/ refcount[o] # 1 /\ todo' = <<>> /\ UNCHANGED nameVars
  BY <1>2, Zenon DEF Release
<1>t. refcount \in [Object -> Int]
  BY Zenon DEF IInv, TypeOK
<1>4. \A x \in Object : refcount'[x] = IF x = o THEN refcount[x] - 1 ELSE refcount[x]
  BY <1>3, <1>t, Zenon
<1>5. parent[o] \in Object \cup {None} /\ None \notin Object
  BY HandleTableAssumption, Zenon DEF IInv, TypeOK
<1>6. ASSUME NEW x \in Object
      PROVE  Terms(x) /\ Cardinality(Awaiting(todo, x)) = IF x = o THEN 1 ELSE 0
  <2>1. Cardinality(Awaiting(<<o>>, x)) = IF o = x THEN 1 ELSE 0
    BY AwaitingOne, Zenon
  <2>2. Cardinality(Awaiting(todo, x)) = IF x = o THEN 1 ELSE 0
    BY <1>1, <2>1, Zenon
  <2> QED BY <2>2, RefTerms, Zenon
<1>7. ASSUME NEW x \in Object
      PROVE  /\ HandlesIn(tables', x) = HandlesIn(tables, x) /\ IsFiniteSet(HandlesIn(tables, x))
             /\ pins'[x] = pins[x] /\ IsFiniteSet(Children(parent, x))
  BY <1>3, Zenon DEF RefInv
<1>8. StableTables
  BY <1>3, NoStep, Zenon
<1>9. \A t \in Table : ~tables'[t].open =>
        tables'[t].last = -1 \/ (cont'.op = "destroy" /\ cont'.table = t)
  BY <1>3, SMTT(30) DEF RefInv
<1>10. CASE /\ refcount[o] = 1
            /\ name' = [name EXCEPT ![o] = None] /\ parent' = [parent EXCEPT ![o] = None]
            /\ todo' = IF parent[o] = None THEN <<>> ELSE <<parent[o]>>
  <2>1. /\ NamesUnique' /\ \A x \in Object : name'[x] = None => parent'[x] = None
        /\ Moves(parent, parent', o, None)
    BY <1>4, <1>10, NameLost, Zenon
  <2>2. ASSUME NEW x \in Object
        PROVE  IsFiniteSet(Children(parent', x)) /\ refcount'[x] = Sum(x)
    <3>1. /\ IsFiniteSet(Children(parent', x))
          /\ Cardinality(Children(parent', x))
               = Cardinality(Children(parent, x)) - IF x = parent[o] THEN 1 ELSE 0
      BY <1>7, <2>1, ChildrenLose
    <3>2. Cardinality(Awaiting(todo', x)) = IF x = parent[o] THEN 1 ELSE 0
      <4>1. Cardinality(Awaiting(<<parent[o]>>, x)) = IF parent[o] = x THEN 1 ELSE 0
        BY AwaitingOne, Zenon
      <4>2. CASE parent[o] = None
        <5>1. todo' = <<>> BY <4>2, <1>10, Zenon
        <5>2. Cardinality(Awaiting(todo', x)) = 0 BY <5>1, AwaitingNone, Zenon
        <5> QED BY <5>2, <4>2, <1>5, Zenon
      <4>3. CASE parent[o] # None
        <5>1. todo' = <<parent[o]>> BY <4>3, <1>10, Zenon
        <5>2. Cardinality(Awaiting(todo', x)) = IF parent[o] = x THEN 1 ELSE 0
          BY <5>1, <4>1, Zenon
        <5> QED BY <5>2, Zenon
      <4> QED BY <4>2, <4>3, Zenon
    <3>3. refcount'[x] = Sum(x)
      <4>1. Terms(x) /\ Cardinality(Awaiting(todo, x)) = IF x = o THEN 1 ELSE 0
        BY <1>6, Zenon
      <4>2. HandlesIn(tables', x) = HandlesIn(tables, x) /\ pins'[x] = pins[x]
        BY <1>7, Zenon
      <4>3. refcount'[x] = IF x = o THEN refcount[x] - 1 ELSE refcount[x]
        BY <1>4, Zenon
      <4> QED BY <4>1, <4>2, <4>3, <3>1, <3>2, SMTT(30) DEF Sum, Terms
    <3> QED BY <3>1, <3>3, Zenon
  <2>3. todo' = <<>> \/ \E x \in Object : todo' = <<x>>
    BY <1>10, <1>5, Zenon
  <2> QED BY <1>7, <1>8, <1>9, <2>1, <2>2, <2>3, SMTT(30) DEF RefInv, References, Sum
<1>11. CASE refcount[o] # 1 /\ todo' = <<>> /\ UNCHANGED nameVars
  <2>1. refcount[o] >= 1
    BY <1>6 DEF Terms
  <2>2. \A x \in Object : refcount[x] > 0 => refcount'[x] > 0
    BY <2>1, <1>4, <1>11, <1>t, SMTT(30)
  <2>3. ASSUME NEW x \in Object
        PROVE  IsFiniteSet(HandlesIn(tables', x)) /\ refcount'[x] = Sum(x)
    <3>1. Terms(x) /\ Cardinality(Awaiting(todo, x)) = IF x = o THEN 1 ELSE 0
      BY <1>6
    <3>2. /\ HandlesIn(tables', x) = HandlesIn(tables, x) /\ IsFiniteSet(HandlesIn(tables, x))
          /\ pins'[x] = pins[x] /\ Children(parent', x) = Children(parent, x)
      BY <1>7, <1>11, Zenon DEF nameVars
    <3>3. Cardinality(Awaiting(todo', x)) = 0
      BY <1>11, AwaitingNone, Zenon
    <3>4. refcount'[x] = IF x = o THEN refcount[x] - 1 ELSE refcount[x]
      BY <1>4
    <3> QED BY <3>1, <3>2, <3>3, <3>4, SMTT(30) DEF Sum, Terms
  <2> QED BY <1>8, <1>9, <1>11, <2>2, <2>3, SameNames, Zenon
<1> QED BY <1>3, <1>10, <1>11, Zenon

-----------------------------------------------------------------------------
(* Processes come and go.                                                   *)

LEMMA NewProcessRefs ==
  ASSUME IInv, RefInv, NEW p \in Process, NewProcess(p)
  PROVE  RefInv' /\ StableTables
<1>1. /\ cont.op = "none" /\ ~tables[p].open /\ tables' = [tables EXCEPT ![p] = NewTable(0)]
      /\ UNCHANGED <<refcount, pins, nameVars, todo, cont>>
  BY Zenon DEF Idle, NoCont, NewProcess
<1>2. ClosedEmpty(tables) /\ p \in Table
  BY <1>1, IdleClosed, Zenon DEF Table
<1>3. tables[p].last = -1 /\ NewTable(0).last = -1 /\ NewTable(0).open
  BY <1>1, <1>2, Zenon DEF ClosedEmpty, NewTable
<1>4. \A x \in Object : Used(NewTable(0), x) = Used(tables[p], x)
  BY <1>3, UnusedEmpty, Zenon
<1>5. Kept
  BY <1>1, <1>2, <1>4, KeptTable, Zenon
<1>6. StableTable(tables[p], NewTable(0))
  BY <1>1, Zenon DEF StableTable
<1>7. StableTables /\ ClosedEmpty(tables')
  BY <1>1, <1>2, <1>3, <1>6, StableStep, ClosedStep, Zenon
<1>8. \A x \in Object : IsFiniteSet(HandlesIn(tables', x)) /\ refcount'[x] = Sum(x)
  BY <1>1, <1>5, KeptSum, ZenonT(30)
<1>9. todo' = <<>> \/ \E x \in Object : todo' = <<x>>
  BY <1>1, Zenon DEF RefInv
<1> QED BY <1>1, <1>7, <1>8, <1>9, SameNames, Zenon DEF ClosedEmpty

\* copy_handle_table takes a reference for every entry it copies.
LEMMA NewProcessInheritRefs ==
  ASSUME IInv, RefInv, NEW p \in Process, NEW q \in Process, NewProcessInherit(p, q)
  PROVE  RefInv' /\ StableTables
<1> DEFINE tab == Copied(tables[q])
           copies(o) == {k \in 0 .. tab.last : tab.entries[k].ptr = o}
<1>1. /\ cont.op = "none" /\ ~tables[p].open /\ tables[q].open
      /\ UNCHANGED <<pins, nameVars, todo, cont>>
  BY Zenon DEF Request, Idle, NoCont, NewProcessInherit
<1>2. ClosedEmpty(tables) /\ p \in Table /\ q \in Table
  BY <1>1, IdleClosed, Zenon DEF Table
<1>3. Mid(tab) /\ tab.open
  BY <1>1, <1>2, CopiedMid, SMTT(30) DEF IInv
<1>4. PICK l \in -1 .. tab.last, c \in 0 .. MaxEntries :
        /\ IsLast(tab, l) /\ IsCount(tab, l, c)
        /\ tables' = [tables EXCEPT ![p] = Shrunk(tab, l, c)]
  BY Zenon DEF NewProcessInherit
<1>5. \A o \in Object : refcount'[o] = refcount[o] + Cardinality(copies(o))
  BY Zenon DEF NewProcessInherit
<1> HIDE DEF tab
<1>6. ASSUME NEW x \in Object PROVE copies(x) = Used(tab, x)
  <2>1. tab.last \in -1 .. MaxEntries - 1 /\ x # None /\ MaxEntries \in Nat
    BY <1>3, SoundFacts, HandleTableAssumption, SMTT(30) DEF Mid
  <2> QED BY <2>1 DEF Used, InUse
<1> HIDE DEF copies
<1> DEFINE new == Shrunk(tab, l, c)
<1>7. new.open /\ tables' = [tables EXCEPT ![p] = new]
  BY <1>3, <1>4, ShrunkGood, Zenon
<1>8. ASSUME NEW x \in Object PROVE Used(new, x) = copies(x)
  BY <1>3, <1>4, <1>6, UsedShrunk, Zenon
<1> HIDE DEF new
<1>9. tables'[p] = new /\ \A u \in Table \ {p} : tables'[u] = tables[u]
  BY <1>2, <1>7, OtherTables, ZenonT(30)
<1>10. ASSUME NEW x \in Object
       PROVE  /\ IsFiniteSet(HandlesIn(tables', x))
              /\ Cardinality(HandlesIn(tables', x))
                   = Cardinality(HandlesIn(tables, x)) + Cardinality(copies(x))
  <2>1. IsFiniteSet(HandlesIn(tables, x)) /\ tables[p].last = -1
    BY <1>1, <1>2, Zenon DEF RefInv, ClosedEmpty
  <2>2. Used(tables[p], x) = {}
    BY <2>1, UnusedEmpty, Zenon
  <2>3. \A u \in Table \ {p} : tables'[u] = tables[u]
    BY <1>9, Zenon
  <2>4. /\ IsFiniteSet(HandlesIn(tables', x))
        /\ Cardinality(HandlesIn(tables', x))
             = Cardinality(HandlesIn(tables, x)) + Cardinality(Used(tables'[p], x))
    BY <2>1, <2>2, <2>3, <1>2, HandlesCopy, SMTT(30)
  <2> QED BY <2>4, <1>8, <1>9, Zenon
<1>11. ASSUME NEW x \in Object
       PROVE  refcount'[x] = Sum(x) /\ (refcount[x] > 0 => refcount'[x] > 0)
  <2>1. Terms(x)
    BY RefTerms, Zenon
  <2>2. Cardinality(copies(x)) \in Nat
    <3>0. IsFiniteSet(0 .. MaxEntries - 1)
      BY FS_Interval, HandleTableAssumption
    <3>1. IsFiniteSet(0 .. MaxEntries - 1) /\ copies(x) \subseteq 0 .. MaxEntries - 1
      BY <3>0, <1>6, Zenon DEF Used
    <3>2. IsFiniteSet(copies(x))
      BY <3>1, FS_Subset, Zenon
    <3> QED BY <3>2, FS_CardinalityType, Zenon
  <2>3. /\ refcount'[x] = refcount[x] + Cardinality(copies(x))
        /\ Cardinality(HandlesIn(tables', x))
             = Cardinality(HandlesIn(tables, x)) + Cardinality(copies(x))
    BY <1>5, <1>10, Zenon
  <2>4. /\ pins'[x] = pins[x] /\ Children(parent', x) = Children(parent, x)
        /\ Awaiting(todo', x) = Awaiting(todo, x)
    BY <1>1, Zenon DEF nameVars
  <2> QED BY <2>1, <2>2, <2>3, <2>4, SMTT(30) DEF Sum, Terms
<1>12. StableTable(tables[p], new)
  BY <1>1, Zenon DEF StableTable
<1>13. StableTables /\ ClosedEmpty(tables')
  BY <1>2, <1>7, <1>12, StableStep, ClosedStep, Zenon
<1>14. todo' = <<>> \/ \E x \in Object : todo' = <<x>>
  BY <1>1, Zenon DEF RefInv
<1> QED BY <1>1, <1>10, <1>11, <1>13, <1>14, SameNames, Zenon DEF ClosedEmpty

LEMMA ExitProcessRefs ==
  ASSUME IInv, RefInv, NEW p \in Process, ExitProcess(p)
  PROVE  RefInv' /\ StableTables
<1> DEFINE old == tables[p]
           new == [open |-> FALSE, count |-> old.count, last |-> old.last,
                   free |-> old.free, entries |-> old.entries]
<1>1. /\ cont.op = "none" /\ tables' = [tables EXCEPT ![p] = new]
      /\ cont' = [op |-> "destroy", table |-> p, handle |-> None]
      /\ UNCHANGED <<refcount, pins, nameVars, todo>>
  BY Zenon DEF Request, Idle, NoCont, ExitProcess
<1>2. ClosedEmpty(tables) /\ p \in Table
  BY <1>1, IdleClosed, Zenon DEF Table
<1>3. ~new.open /\ new.last = old.last /\ new.entries = old.entries
  BY Zenon
<1> HIDE DEF new
<1>4. \A x \in Object : Used(new, x) = Used(tables[p], x)
  BY <1>3, Zenon DEF Used, InUse
<1>5. Kept
  BY <1>1, <1>2, <1>4, KeptTable, Zenon
<1>6. StableTable(tables[p], new)
  BY <1>3, Zenon DEF StableTable
<1>7. StableTables
  BY <1>1, <1>2, <1>6, StableStep, Zenon
<1>8. \A t \in Table : ~tables'[t].open =>
        tables'[t].last = -1 \/ (cont'.op = "destroy" /\ cont'.table = t)
  <2>1. \A u \in Table \ {p} : tables'[u] = tables[u]
    BY <1>1, <1>2, OtherTables, Zenon
  <2>2. cont'.op = "destroy" /\ cont'.table = p
    BY <1>1, Zenon
  <2> QED BY <2>1, <2>2, <1>2, Zenon DEF ClosedEmpty
<1>9. \A x \in Object : IsFiniteSet(HandlesIn(tables', x)) /\ refcount'[x] = Sum(x)
  BY <1>1, <1>5, KeptSum, Zenon
<1>10. todo' = <<>> \/ \E x \in Object : todo' = <<x>>
  BY <1>1, Zenon DEF RefInv
<1> QED BY <1>1, <1>7, <1>8, <1>9, <1>10, SameNames, Zenon

LEMMA DestroyRefs ==
  ASSUME IInv, RefInv, DestroyEntry \/ DestroyTable
  PROVE  RefInv' /\ StableTables
<1> DEFINE t == cont.table
           tab == tables[t]
<1>1. cont.op = "destroy" /\ todo = <<>>
  BY Zenon DEF DestroyEntry, DestroyTable
<1>2. t \in Table /\ ~tab.open /\ Sound(tab)
  BY <1>1, Zenon DEF IInv, ContOK, Table
<1>3. CASE DestroyEntry
  <2>1. PICK i \in 0 .. tab.last :
          /\ tab.entries[i].ptr # None
          /\ tables' = [tables EXCEPT ![t] = Emptied(tab, i, tab.free)]
          /\ todo' = <<tab.entries[i].ptr>>
    BY <1>3, Zenon DEF DestroyEntry
  <2>2. UNCHANGED <<refcount, pins, nameVars, cont>>
    BY <1>3, Zenon DEF DestroyEntry
  <2> DEFINE new == Emptied(tab, i, tab.free)
             o == tab.entries[i].ptr
  <2>3. \A x \in Object : Used(new, x) = Used(tab, x) \ {i}
    BY <1>2, UsedEmptied, Zenon
  <2>4. InUse(tab, i) /\ i \in 0 .. MaxEntries - 1
    BY <1>2, <2>1, SoundFacts DEF InUse
  <2>5. o \in Object
    BY <1>2, <2>4, InUseUsed, Zenon
  <2>6. tables' = [tables EXCEPT ![t] = new] /\ todo' = <<o>>
    BY <2>1, Zenon
  <2> HIDE DEF new
  <2>7. Lost(o)
    BY <1>2, <2>3, <2>4, <2>6, LostTable, Zenon
  <2> HIDE DEF o
  <2>8. \A x \in Object : IsFiniteSet(HandlesIn(tables', x)) /\ refcount'[x] = Sum(x)
    BY <1>1, <2>2, <2>5, <2>6, <2>7, LostSum, ZenonT(30)
  <2>9. \A u \in Table \ {t} : tables'[u] = tables[u]
    BY <1>2, <2>6, OtherTables, Zenon
  <2>10. \A u \in Table : ~tables'[u].open =>
           tables'[u].last = -1 \/ (cont'.op = "destroy" /\ cont'.table = u)
    BY <1>1, <2>2, <2>9, Zenon DEF RefInv
  <2>11. StableTable(tables[t], new)
    BY <1>2, Zenon DEF StableTable
  <2>12. StableTables
    BY <1>2, <2>6, <2>11, StableStep, Zenon
  <2> QED BY <2>2, <2>5, <2>6, <2>8, <2>10, <2>12, SameNames, Zenon
<1>4. CASE DestroyTable
  <2>1. /\ tables' = [tables EXCEPT ![t] = NoTable]
        /\ UNCHANGED <<refcount, pins, nameVars, todo>>
        /\ \A i \in 0 .. tab.last : tab.entries[i].ptr = None
    BY <1>4, Zenon DEF DestroyTable
  <2>2. NoTable.last = -1
    BY Zenon DEF NoTable
  <2>3. \A x \in Object : Used(tab, x) = {}
    BY <2>1 DEF Used, InUse
  <2>4. \A x \in Object : Used(NoTable, x) = Used(tab, x)
    BY <2>2, <2>3, UnusedEmpty, Zenon
  <2>5. Kept
    BY <1>2, <2>1, <2>4, KeptTable, Zenon
  <2>6. StableTable(tables[t], NoTable)
    BY <1>2, Zenon DEF StableTable
  <2>7. StableTables
    BY <1>2, <2>1, <2>6, StableStep, Zenon
  <2>8. \A x \in Object : IsFiniteSet(HandlesIn(tables', x)) /\ refcount'[x] = Sum(x)
    BY <2>1, <2>5, KeptSum, Zenon
  <2>9. tables'[t] = NoTable /\ \A u \in Table \ {t} : tables'[u] = tables[u]
    BY <1>2, <2>1, OtherTables, Zenon
  <2>10. \A u \in Table : ~tables'[u].open => tables'[u].last = -1
    BY <1>1, <2>2, <2>9, Zenon DEF RefInv
  <2> QED BY <1>1, <2>1, <2>7, <2>8, <2>10, SameNames, Zenon
<1> QED BY <1>3, <1>4, SMTT(30)

-----------------------------------------------------------------------------

LEMMA InitRefs == Init => RefInv
<1> SUFFICES ASSUME Init PROVE RefInv
  OBVIOUS
<1>1. /\ tables = [t \in Table |-> NoTable] /\ todo = <<>> /\ pins = [o \in Object |-> 0]
      /\ parent = [o \in Object |-> None] /\ name = [o \in Object |-> None]
      /\ refcount = [o \in Object |-> IF o = Self THEN 1 ELSE 0]
  BY Zenon DEF Init
<1>2. ASSUME NEW x \in Object
      PROVE  /\ HandlesIn(tables, x) = {} /\ Children(parent, x) = {}
             /\ Cardinality(Awaiting(todo, x)) = 0
  <2>1. \A t \in Table : Used(tables[t], x) = {}
    BY <1>1, UnusedEmpty, Zenon DEF NoTable
  <2>2. x # None
    BY HandleTableAssumption, Zenon
  <2>3. Cardinality(Awaiting(todo, x)) = 0
    BY <1>1, AwaitingNone, Zenon
  <2> QED BY <1>1, <2>1, <2>2, <2>3, Zenon DEF HandlesIn, Children
<1>3. IsFiniteSet({}) /\ Cardinality({}) = 0
  BY FS_EmptySet, Zenon
<1>4. ASSUME NEW x \in Object PROVE refcount[x] = References(x)
  <2>1. /\ Cardinality(HandlesIn(tables, x)) = 0 /\ Cardinality(Children(parent, x)) = 0
        /\ Cardinality(Awaiting(todo, x)) = 0
    BY <1>2, <1>3, Zenon
  <2>2. pins[x] = 0 /\ refcount[x] = IF x = Self THEN 1 ELSE 0
    BY <1>1, Zenon
  <2> QED BY <2>1, <2>2, SMTT(30) DEF References
<1>5. \A x \in Object : IsFiniteSet(HandlesIn(tables, x)) /\ IsFiniteSet(Children(parent, x))
  BY <1>2, <1>3, Zenon
<1>6. NamesUnique /\ \A x \in Object : name[x] = None => parent[x] = None
  BY <1>1, Zenon DEF NamesUnique
<1>7. \A t \in Table : tables[t].last = -1
  BY <1>1, Zenon DEF NoTable
<1> QED BY <1>1, <1>4, <1>5, <1>6, <1>7, Zenon DEF RefInv

LEMMA NextRefs == IInv /\ RefInv /\ [Next]_vars => RefInv' /\ StableTables
<1> SUFFICES ASSUME IInv, RefInv, [Next]_vars PROVE RefInv' /\ StableTables
  BY Zenon
<1>1. CASE Continue
  BY <1>1, ReleaseRefs, CloseSourceRefs, DestroyRefs, Zenon DEF Continue
<1>2. ASSUME NEW p \in Process, NewRequest(p) PROVE RefInv' /\ StableTables
  BY <1>2, CreateRefs, OpenObjectRefs, UnlinkObjectRefs, CloseHandleRefs, AddQueueRefs,
     SetHandleInfoRefs, DupHandleRefs, Zenon DEF NewRequest
<1>3. ASSUME NEW p \in Process, NewProcess(p) PROVE RefInv' /\ StableTables
  BY <1>3, NewProcessRefs, Zenon
<1>4. ASSUME NEW p \in Process, ExitProcess(p) PROVE RefInv' /\ StableTables
  BY <1>4, ExitProcessRefs, Zenon
<1>5. ASSUME NEW p \in Process, NEW q \in Process, NewProcessInherit(p, q)
      PROVE  RefInv' /\ StableTables
  BY <1>5, NewProcessInheritRefs, Zenon
<1>6. ASSUME NEW o \in Object, RemoveQueue(o) PROVE RefInv' /\ StableTables
  BY <1>6, RemoveQueueRefs
<1>7. CASE UNCHANGED vars
  <2>1. StableTables
    BY <1>7, NoStep, SMTT(30) DEF vars
  <2>2. RefInv'
    BY <1>7, Zenon DEF RefInv, References, NamesUnique, vars, nameVars
  <2> QED BY <2>1, <2>2, Zenon
<1> QED BY <1>1, <1>2, <1>3, <1>4, <1>5, <1>6, <1>7, Zenon DEF Next

LEMMA RefInvariant == Spec => [](IInv /\ RefInv)
<1>1. Init => IInv /\ RefInv
  BY InitIInv, InitRefs, Zenon
<1>2. (IInv /\ RefInv) /\ [Next]_vars => (IInv /\ RefInv)'
  BY NextIInv, NextRefs, Zenon
<1> QED BY <1>1, <1>2, PTL DEF Spec

\* The reference count of every object is the number of references to it, in
\* every state between two steps of any requests: alloc_handle, close_handle,
\* copy_handle_table, handle_table_destroy, add_queue, unlink_object and the
\* failing paths pair every grab_object with one release_object.
THEOREM RefcountsExact == Spec => []RefcountExact
<1>1. RefInv => RefcountExact
  BY HandlesToIn, ZenonT(30) DEF RefInv, References, RefcountExact, Children, Awaiting
<1> QED BY <1>1, RefInvariant, PTL

\* No two objects have one name in one directory, and only a live object has a
\* name: find_object never returns freed memory.
THEOREM NamesAreUnique == Spec => []NamesUnique
<1>1. RefInv => NamesUnique
  BY Zenon DEF RefInv
<1> QED BY <1>1, RefInvariant, PTL

\* A handle denotes one object until it is closed, and a protected handle is
\* not closed while its process lives, whatever alloc_entry, close_handle,
\* dup_handle and shrink_handle_table do to the table.
THEOREM HandlesStable == Spec => HandleStable
<1>1. IInv /\ RefInv /\ [Next]_vars =>
        [\A t \in Table : tables[t].open /\ tables'[t].open =>
          \A i \in 0 .. tables[t].last : InUse(tables[t], i) =>
            \/ InUse(tables'[t], i) /\ tables'[t].entries[i].ptr = tables[t].entries[i].ptr
            \/ ~InUse(tables'[t], i) /\ "protect" \notin tables[t].entries[i].access]_vars
  BY NextRefs, Zenon DEF StableTables, StableTable
<1> QED BY <1>1, RefInvariant, PTL DEF Spec, HandleStable

=============================================================================
