---------------------------- MODULE HandleTable ----------------------------
(***************************************************************************)
(* Objects, their reference counts and names, and the handle tables of the *)
(* processes (object.c, handle.c).                                         *)
(*                                                                         *)
(* Requests run under uk_lock.  A request that releases objects takes      *)
(* several steps: the action named after it puts the objects it has to     *)
(* release into "todo" and what it does afterwards into "cont"; Release    *)
(* takes the objects one by one, since the last release of an object       *)
(* releases its directory.  No other request starts in between.            *)
(***************************************************************************)
EXTENDS Integers, Sequences, FiniteSets

CONSTANTS Process, Object, Name,
          Dir,          \* the objects that are directories
          Self,         \* the object of the pseudo-handles, always alive
          Global,       \* the owner of global_table
          MinEntries,   \* MIN_HANDLE_ENTRIES
          MaxEntries,   \* MAX_HANDLE_ENTRIES
          Handles,      \* the handles passed to requests
          Inherit,      \* the values of attr & OBJ_INHERIT in requests
          Flags,        \* the sets of flags passed to set_handle_info
          MaxPins,      \* bound on the references held by waits
          None,
          Junk          \* what freshly allocated memory holds

Table == Process \cup {Global}

\* struct handle_entry.  Of the access rights only the reserved flags are
\* kept; the outcome of an access check is an input of the requests.
Flag == {"inherit", "protect"}
Entry == [ptr : Object \cup {None, Junk}, access : SUBSET Flag]
Fresh == [ptr |-> Junk, access |-> {}]
Empty == [ptr |-> None, access |-> {}]   \* the access is never read again

\* struct handle_table; NoTable is a NULL pointer to one
NoTable == [open |-> FALSE, count |-> 0, last |-> -1, free |-> 0,
            entries |-> [k \in 0 .. -1 |-> Fresh]]

ASSUME HandleTableAssumption ==
  /\ Dir \subseteq Object /\ Self \in Object \ Dir
  /\ None \notin Object \cup Table \cup Handles /\ Junk \notin Object /\ None # Junk
  /\ None \notin Name
  /\ Global \notin Process
  /\ MinEntries \in Nat \ {0} /\ MaxEntries \in Nat /\ MinEntries <= MaxEntries
  /\ Handles \subseteq [kind : {"local", "global", "pseudo"}, value : Nat]
  /\ Inherit \subseteq BOOLEAN /\ Flags \subseteq SUBSET Flag
  /\ MaxPins \in Nat

VARIABLES
  tables,    \* process->handles and global_table
  refcount,  \* obj->refcount; 0 for memory that is not an object
  pins,      \* references the waits hold
  name,      \* obj->name->name, or None
  parent,    \* obj->name->parent, or None for the root directory
  todo,      \* objects the request in progress still has to release
  cont       \* the rest of that request: a handle to close, a table to destroy

nameVars == <<name, parent>>
vars == <<tables, refcount, pins, nameVars, todo, cont>>

NoCont == [op |-> "none", table |-> None, handle |-> None]
Idle == todo = <<>> /\ cont = NoCont

TableType(c) ==
  [open : BOOLEAN, count : 0 .. MaxEntries, last : -1 .. MaxEntries - 1,
   free : 0 .. MaxEntries, entries : [0 .. c - 1 -> Entry]]

TypeOK ==
  /\ tables = [t \in Table |-> tables[t]]
  /\ \A t \in Table : tables[t] \in TableType(tables[t].count)
  /\ refcount \in [Object -> Int]
  /\ pins \in [Object -> 0 .. MaxPins]
  /\ name \in [Object -> Name \cup {None}]
  /\ parent \in [Object -> Dir \cup {None}]
  /\ todo \in Seq(Object)
  /\ cont \in [op : {"none", "close", "destroy"}, table : Table \cup {None},
               handle : Handles \cup {None}]

Init ==
  /\ tables = [t \in Table |-> NoTable]
  /\ refcount = [o \in Object |-> IF o = Self THEN 1 ELSE 0]
  /\ pins = [o \in Object |-> 0]
  /\ name = [o \in Object |-> None]
  /\ parent = [o \in Object |-> None]
  /\ todo = <<>>
  /\ cont = NoCont

-----------------------------------------------------------------------------
(* The table.                                                               *)

\* index_to_handle and handle_to_index; HANDLE_OBFUSCATOR, which makes a handle
\* a global one and back, is the kind of the handle
IndexToHandle(i) == 4 * (i + 1)
HandleToIndex(v) == v \div 4 - 1

\* alloc_handle_table with count entries asked for
NewTable(count) ==
  LET c == IF count < MinEntries THEN MinEntries ELSE count IN
  [open |-> TRUE, count |-> c, last |-> -1, free |-> 0,
   entries |-> [k \in 0 .. c - 1 |-> Fresh]]

\* the loop of alloc_entry stops at i
IsSlot(tab, i) ==
  /\ i >= tab.free
  /\ \A j \in tab.free .. i - 1 : j <= tab.last /\ tab.entries[j].ptr # None
  /\ i <= tab.last => tab.entries[i].ptr = None

\* grow_handle_table
Grown(tab) == IF 2 * tab.count < MaxEntries THEN 2 * tab.count ELSE MaxEntries

\* alloc_entry at i, when it does not fail
Filled(tab, i, o, access) ==
  LET c == IF i >= tab.count THEN Grown(tab) ELSE tab.count IN
  [open |-> tab.open, count |-> c,
   last |-> IF i > tab.last THEN i ELSE tab.last,
   free |-> i + 1,
   entries |-> [k \in 0 .. c - 1 |->
                  IF k = i THEN [ptr |-> o, access |-> access]
                  ELSE IF k < tab.count THEN tab.entries[k] ELSE Fresh]]

\* the loop of shrink_handle_table stops at l
IsLast(tab, l) ==
  /\ l <= tab.last
  /\ l >= 0 => tab.entries[l].ptr # None
  /\ \A k \in l + 1 .. tab.last : tab.entries[k].ptr = None

\* shrink_handle_table with the new last l; c is the new count, unchanged if
\* the table is too small or realloc fails
IsCount(tab, l, c) ==
  \/ c = tab.count
  \/ l < tab.count \div 4 /\ tab.count >= 2 * MinEntries /\ c = tab.count \div 2

Shrunk(tab, l, c) ==
  [open |-> tab.open, count |-> c, last |-> l, free |-> tab.free,
   entries |-> [k \in 0 .. c - 1 |-> tab.entries[k]]]

\* get_handle: the table and the index of a valid handle
TableOf(p, h) == IF h.kind = "global" THEN Global ELSE p

Valid(p, h) ==
  LET tab == tables[TableOf(p, h)]  i == HandleToIndex(h.value) IN
  /\ h.kind # "pseudo"
  /\ tab.open
  /\ i >= 0 /\ i <= tab.last
  /\ tab.entries[i].ptr # None

EntryOf(p, h) == tables[TableOf(p, h)].entries[HandleToIndex(h.value)]

\* get_handle_obj succeeds with object o
Denotes(p, h, o) ==
  \/ h.kind = "pseudo" /\ o = Self
  \/ Valid(p, h) /\ o = EntryOf(p, h).ptr

\* the entry i of tab set to NULL, and table->free to f
Emptied(tab, i, f) ==
  [open |-> tab.open, count |-> tab.count, last |-> tab.last, free |-> f,
   entries |-> [tab.entries EXCEPT ![i] = Empty]]

\* A version of close_handle that leaves table->free alone.
ClearedNoFree(tab, i) == Emptied(tab, i, tab.free)

\* close_handle makes the entry available to alloc_entry
Cleared(tab, i) == Emptied(tab, i, IF i < tab.free THEN i ELSE tab.free)

\* the entry i of tab with other flags
Flagged(tab, i, access) ==
  [open |-> tab.open, count |-> tab.count, last |-> tab.last, free |-> tab.free,
   entries |-> [tab.entries EXCEPT ![i] = [ptr |-> @.ptr, access |-> access]]]

\* close_handle from "entry->ptr = NULL" to shrink_handle_table
CloseEntry(t, i) ==
  LET tab == Cleared(tables[t], i) IN
  IF i # tab.last THEN tables' = [tables EXCEPT ![t] = tab]
  ELSE \E l \in -1 .. tab.last, c \in 0 .. MaxEntries :
         /\ IsLast(tab, l) /\ IsCount(tab, l, c)
         /\ tables' = [tables EXCEPT ![t] = Shrunk(tab, l, c)]

-----------------------------------------------------------------------------
(* The requests of a thread of process p.                                   *)

Request(p) == Idle /\ tables[p].open

\* A version of alloc_entry that forgets grab_object.
AllocNoGrab(t, o, access, refs) ==
  LET tab == IF t = Global /\ ~tables[t].open THEN NewTable(0) ELSE tables[t] IN
  /\ tab.open
  /\ \E i \in 0 .. MaxEntries :
       /\ IsSlot(tab, i)
       /\ i >= tab.count => tab.count < MaxEntries
       /\ tables' = [tables EXCEPT ![t] = Filled(tab, i, o, access)]
  /\ refcount' = refs

\* alloc_handle_entry or, for t = Global, alloc_global_handle_no_access_check:
\* refs are the reference counts reached so far.  It fails if the table is
\* full, or cannot grow, or is gone.
Alloc(t, o, access, refs) ==
  LET tab == IF t = Global /\ ~tables[t].open THEN NewTable(0) ELSE tables[t] IN
  \/ /\ tab.open
     /\ \E i \in 0 .. MaxEntries :
          /\ IsSlot(tab, i)
          /\ i >= tab.count => tab.count < MaxEntries
          /\ tables' = [tables EXCEPT ![t] = Filled(tab, i, o, access)]
     /\ refcount' = [refs EXCEPT ![o] = @ + 1]
  \/ /\ tab.open => IsSlot(tab, tab.count)
     /\ tables' = [tables EXCEPT ![t] = tab]
     /\ refcount' = refs

AttrAccess(inherit) == IF inherit THEN {"inherit"} ELSE {}

\* A version that only looks into the root directory.
FoundRoot(d, n, o) == refcount[o] > 0 /\ parent[o] = d /\ name[o] = n /\ n # None /\ d = None

\* find_object in directory d (None: the root directory)
Found(d, n, o) == refcount[o] > 0 /\ parent[o] = d /\ name[o] = n /\ n # None

\* req->rootdir: a handle to directory d, or 0
RootDir(p, d) == d = None \/ \E h \in Handles : Denotes(p, h, d) /\ d \in Dir

\* create_event and its like, no object has the name: create_object in
\* directory d, alloc_handle_no_access_check, release_object
Create(p, o, d, n, inherit) ==
  /\ Request(p)
  /\ RootDir(p, d) /\ (n = None => d = None)
  /\ ~\E x \in Object : Found(d, n, x)
  /\ refcount[o] = 0
  /\ name' = [name EXCEPT ![o] = n]
  /\ parent' = [parent EXCEPT ![o] = d]
  /\ Alloc(p, o, AttrAccess(inherit),
           [x \in Object |-> IF x = o THEN 1
                             ELSE IF x = d THEN refcount[x] + 1 ELSE refcount[x]])
  /\ todo' = <<o>>
  /\ UNCHANGED <<pins, cont>>

\* create_event with OBJ_OPENIF and open_event when object o has the name:
\* alloc_handle unless the access check fails, release_object
OpenObject(p, o, d, n, inherit, allowed) ==
  /\ Request(p)
  /\ RootDir(p, d)
  /\ Found(d, n, o)
  /\ LET refs == [refcount EXCEPT ![o] = @ + 1] IN
     IF allowed THEN Alloc(p, o, AttrAccess(inherit), refs)
                ELSE refcount' = refs /\ UNCHANGED tables
  /\ todo' = <<o>>
  /\ UNCHANGED <<pins, nameVars, cont>>

\* unlink_object
UnlinkObject(p, h) ==
  /\ Request(p)
  /\ \E o \in Object :
       /\ Denotes(p, h, o)
       /\ name[o] # None
       /\ name' = [name EXCEPT ![o] = None]
       /\ parent' = [parent EXCEPT ![o] = None]
       /\ todo' = IF parent[o] = None THEN <<>> ELSE <<parent[o]>>
  /\ UNCHANGED <<tables, refcount, pins, cont>>

\* A version of close_handle that does not look at RESERVED_CLOSE_PROTECT.
CloseUnprotected(p, h) ==
  /\ Valid(p, h)
  /\ CloseEntry(TableOf(p, h), HandleToIndex(h.value))
  /\ todo' = <<EntryOf(p, h).ptr>>

\* close_handle when it succeeds (the close_handle operation of the object may
\* refuse, which changes nothing)
Close(p, h) ==
  /\ Valid(p, h)
  /\ "protect" \notin EntryOf(p, h).access
  /\ CloseEntry(TableOf(p, h), HandleToIndex(h.value))
  /\ todo' = <<EntryOf(p, h).ptr>>

\* the close_handle request
CloseHandle(p, h) ==
  /\ Request(p)
  /\ Close(p, h)
  /\ UNCHANGED <<refcount, pins, nameVars, cont>>

\* set_handle_info
SetHandleInfo(p, h, mask, flags) ==
  /\ Request(p)
  /\ Valid(p, h)
  /\ tables' = [tables EXCEPT ![TableOf(p, h)] =
                  Flagged(@, HandleToIndex(h.value),
                          (EntryOf(p, h).access \ mask) \cup (flags \cap mask))]
  /\ UNCHANGED <<refcount, pins, nameVars, todo, cont>>

\* dup_handle from process src to dst (None if the handle to it is invalid) or
\* into the global table.  rights: no more rights are asked for than the source
\* has ("same"), or more, which the access check grants or refuses.
DupHandle(p, src, h, dst, global, closeSource, rights, inherit) ==
  LET access == AttrAccess(inherit)
      close == IF closeSource THEN [op |-> "close", table |-> src, handle |-> h] ELSE NoCont
  IN
  /\ Request(p)
  /\ \E o \in Object :
       /\ Denotes(src, h, o)
       /\ \/ /\ (dst = None /\ ~global) \/ rights = "refused"
             /\ cont' = close
             /\ UNCHANGED <<tables, refcount>>
          \/ /\ rights = "same" /\ ~global /\ closeSource /\ src = dst   \* the same handle
             /\ Valid(src, h) /\ "protect" \notin EntryOf(src, h).access
             /\ tables' = [tables EXCEPT ![TableOf(src, h)] =
                             Flagged(@, HandleToIndex(h.value), access)]
             /\ UNCHANGED <<refcount, cont>>
          \/ /\ dst # None \/ global
             /\ rights # "refused"
             /\ rights = "same" /\ ~global /\ closeSource /\ src = dst =>
                  (Valid(src, h) => "protect" \in EntryOf(src, h).access)
             /\ IF global THEN Alloc(Global, o, {}, refcount)
                          ELSE Alloc(dst, o, access, refcount)
             /\ cont' = close
  /\ UNCHANGED <<pins, nameVars, todo>>

\* "close the handle no matter what happened", if close_handle agrees
CloseSource ==
  /\ cont.op = "close" /\ todo = <<>>
  /\ Close(cont.table, cont.handle) \/ UNCHANGED <<tables, todo>>
  /\ cont' = NoCont
  /\ UNCHANGED <<refcount, pins, nameVars>>

\* a select request waits on an object (add_queue), and the wait ends
\* (remove_queue)
AddQueue(p, h) ==
  /\ Request(p)
  /\ \E o \in Object :
       /\ Denotes(p, h, o)
       /\ pins[o] < MaxPins
       /\ pins' = [pins EXCEPT ![o] = @ + 1]
       /\ refcount' = [refcount EXCEPT ![o] = @ + 1]
  /\ UNCHANGED <<tables, nameVars, todo, cont>>

RemoveQueue(o) ==
  /\ Idle
  /\ pins[o] > 0
  /\ pins' = [pins EXCEPT ![o] = @ - 1]
  /\ todo' = <<o>>
  /\ UNCHANGED <<tables, refcount, nameVars, cont>>

\* A version of release_object that forgets the directory.
ReleaseNoParent ==
  LET o == Head(todo) IN
  /\ todo # <<>>
  /\ refcount' = [refcount EXCEPT ![o] = @ - 1]
  /\ name' = [name EXCEPT ![o] = IF refcount[o] = 1 THEN None ELSE @]
  /\ parent' = [parent EXCEPT ![o] = IF refcount[o] = 1 THEN None ELSE @]
  /\ todo' = Tail(todo)
  /\ UNCHANGED <<tables, pins, cont>>

\* release_object, with free_name when it was the last reference
Release ==
  LET o == Head(todo) IN
  /\ todo # <<>>
  /\ refcount' = [refcount EXCEPT ![o] = @ - 1]
  /\ IF refcount[o] = 1
       THEN /\ name' = [name EXCEPT ![o] = None]
            /\ parent' = [parent EXCEPT ![o] = None]
            /\ todo' = IF parent[o] = None THEN Tail(todo) ELSE <<parent[o]>> \o Tail(todo)
       ELSE /\ todo' = Tail(todo)
            /\ UNCHANGED nameVars
  /\ UNCHANGED <<tables, pins, cont>>

-----------------------------------------------------------------------------
(* Processes come and go.                                                   *)

\* create_process without handles to inherit
NewProcess(p) ==
  /\ Idle /\ ~tables[p].open
  /\ tables' = [tables EXCEPT ![p] = NewTable(0)]
  /\ UNCHANGED <<refcount, pins, nameVars, todo, cont>>

\* copy_handle_table before it shrinks the copy
Copied(tab) ==
  LET new == NewTable(tab.count) IN
  [open |-> TRUE, count |-> new.count, last |-> tab.last, free |-> 0,
   entries |-> [k \in 0 .. new.count - 1 |->
                  IF k > tab.last THEN Fresh
                  ELSE IF "inherit" \in tab.entries[k].access THEN tab.entries[k]
                  ELSE Empty]]

\* create_process that inherits the handles of process q
NewProcessInherit(p, q) ==
  /\ Request(q) /\ ~tables[p].open
  /\ LET tab == Copied(tables[q]) IN
       /\ \E l \in -1 .. tab.last, c \in 0 .. MaxEntries :
            /\ IsLast(tab, l) /\ IsCount(tab, l, c)
            /\ tables' = [tables EXCEPT ![p] = Shrunk(tab, l, c)]
       /\ refcount' = [o \in Object |-> refcount[o] +
                         Cardinality({k \in 0 .. tab.last : tab.entries[k].ptr = o})]
  /\ UNCHANGED <<pins, nameVars, todo, cont>>

\* process_killed: close_process_handles, up to handle_table_destroy
ExitProcess(p) ==
  /\ Request(p)
  /\ tables' = [tables EXCEPT ![p] = [open |-> FALSE, count |-> @.count, last |-> @.last,
                                      free |-> @.free, entries |-> @.entries]]
  /\ cont' = [op |-> "destroy", table |-> p, handle |-> None]
  /\ UNCHANGED <<refcount, pins, nameVars, todo>>

\* the loop of handle_table_destroy reaches the next entry in use ...
DestroyEntry ==
  /\ cont.op = "destroy" /\ todo = <<>>
  /\ LET tab == tables[cont.table] IN
     \E i \in 0 .. tab.last :
       /\ tab.entries[i].ptr # None
       /\ \A j \in 0 .. i - 1 : tab.entries[j].ptr = None
       /\ tables' = [tables EXCEPT ![cont.table] = Emptied(tab, i, tab.free)]
       /\ todo' = <<tab.entries[i].ptr>>
  /\ UNCHANGED <<refcount, pins, nameVars, cont>>

\* ... and ends
DestroyTable ==
  /\ cont.op = "destroy" /\ todo = <<>>
  /\ LET tab == tables[cont.table] IN
     \A i \in 0 .. tab.last : tab.entries[i].ptr = None
  /\ tables' = [tables EXCEPT ![cont.table] = NoTable]
  /\ cont' = NoCont
  /\ UNCHANGED <<refcount, pins, nameVars, todo>>

-----------------------------------------------------------------------------
Continue == Release \/ CloseSource \/ DestroyEntry \/ DestroyTable

NewRequest(p) ==
  \/ \E o \in Object, d \in Dir \cup {None}, inherit \in Inherit :
       \/ \E n \in Name \cup {None} : Create(p, o, d, n, inherit)
       \/ \E n \in Name, allowed \in BOOLEAN : OpenObject(p, o, d, n, inherit, allowed)
  \/ \E h \in Handles :
       \/ UnlinkObject(p, h) \/ CloseHandle(p, h) \/ AddQueue(p, h)
       \/ \E mask, flags \in Flags : SetHandleInfo(p, h, mask, flags)
       \/ \E src \in Process, dst \in Process \cup {None}, inherit \in Inherit,
             global, closeSource \in BOOLEAN, rights \in {"same", "granted", "refused"} :
            DupHandle(p, src, h, dst, global, closeSource, rights, inherit)

Next ==
  \/ Continue
  \/ \E p \in Process : \/ NewRequest(p) \/ NewProcess(p) \/ ExitProcess(p)
                        \/ \E q \in Process : NewProcessInherit(p, q)
  \/ \E o \in Object : RemoveQueue(o)

Spec == Init /\ [][Next]_vars

-----------------------------------------------------------------------------
(* Properties.                                                              *)

\* The bookkeeping of every table: table->last is the last entry in use, every
\* entry below table->free is in use (so that alloc_entry may start there), and
\* no entry up to table->last is memory nobody has written: get_handle and
\* handle_table_destroy dereference only objects.
TableConsistent ==
  \A t \in Table : tables[t].open =>
    LET tab == tables[t] IN
    /\ tab.last < tab.count /\ tab.free <= tab.last + 1
    /\ tab.last >= 0 => tab.entries[tab.last].ptr # None
    /\ \A i \in 0 .. tab.last : tab.entries[i].ptr # Junk
    /\ \A i \in 0 .. tab.free - 1 : tab.entries[i].ptr # None

InUse(tab, i) == i <= tab.last /\ tab.entries[i].ptr # None

HandlesTo(o) == {h \in Table \X (0 .. MaxEntries - 1) :
                   InUse(tables[h[1]], h[2]) /\ tables[h[1]].entries[h[2]].ptr = o}

\* The reference count of an object is the number of references to it: handles
\* in all tables, waits, objects named in it, and what the request in progress
\* has yet to release.  So no handle outlives its object (grab_object and
\* release_object pair up on every path, the failing ones included).
RefcountExact ==
  \A o \in Object :
    refcount[o] = Cardinality(HandlesTo(o)) + pins[o]
                  + Cardinality({x \in Object : parent[x] = o})
                  + Cardinality({k \in DOMAIN todo : todo[k] = o})
                  + (IF o = Self THEN 1 ELSE 0)

\* find_object can find at most one object, and only one that exists: a name
\* goes with its object, and create_named_object_dir never makes a second one.
NamesUnique ==
  \A o, x \in Object : name[o] # None =>
    /\ refcount[o] > 0
    /\ name[o] = name[x] /\ parent[o] = parent[x] => o = x

\* While its process lives a handle denotes one object until it is closed, and
\* a handle protected from close stays: neither alloc_entry nor the two ways of
\* dup_handle to close the source take it away.
HandleStable ==
  [][\A t \in Table : tables[t].open /\ tables'[t].open =>
       \A i \in 0 .. tables[t].last : InUse(tables[t], i) =>
         \/ InUse(tables'[t], i) /\ tables'[t].entries[i].ptr = tables[t].entries[i].ptr
         \/ ~InUse(tables'[t], i) /\ "protect" \notin tables[t].entries[i].access]_vars

=============================================================================
