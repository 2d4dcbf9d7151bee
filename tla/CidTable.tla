------------------------------ MODULE CidTable ------------------------------
(***************************************************************************)
(* The driver's CID table (KSystemInformer/cid_table.c) and the tracking   *)
(* of contexts in it (cid_tracking.c).  The table grows from one to three  *)
(* levels under a spin lock while lookups go without one; its entries are  *)
(* atomic object references (KphObject).  For each CID the kernel reports  *)
(* one creation or exit at a time: a tracker is a CID.  Readers look       *)
(* contexts up and enumerate the table; the unloader empties and frees it  *)
(* once the notifications have stopped.                                    *)
(***************************************************************************)
EXTENDS KphObject

CONSTANTS Trackers, Readers, Enumerators, Unloader,
          Cids,               \* the CIDs that readers ask for
          L0Count, L1Count, L2Count,
          Types,              \* context types: processes and threads
          TrackedTypes,       \* the types the kernel creates in this instance
          MaxTables,          \* bound: tables that can be allocated
          MaxTracks, MaxReads \* bounds: calls per tracker and per reader

MaxId(level) == CASE level = 0 -> L0Count
                  [] level = 1 -> L1Count * L0Count
                  [] level = 2 -> L2Count * L1Count * L0Count

ASSUME CidTableAssumption ==
    /\ {L0Count, L1Count, L2Count, MaxTables} \subseteq Nat \ {0}
    /\ Trackers \cup Cids \subseteq 0..(MaxId(2) - 1)
    /\ Slots = 0..(MaxTables * L0Count - 1)
    /\ Actors = Trackers \cup Readers \cup Enumerators \cup {Unloader}

VARIABLES root,    \* Table: a level and an address
          links,   \* per level 1 or 2 table: the tables it points to
          used,    \* tables allocated so far, which are numbered from 0
          spin,    \* the actor that holds Lock
          mode,    \* per actor: the routine it is in, or was in last
          cid, asked, \* per actor: the CID and the type it asks for
          top,     \* per actor: the table word it captured
          tracked, \* per CID: the context, from the end of Track to Untrack
          expect,  \* per actor: contexts it must find, tracked since its call began
          calls, stopping

tableVars == <<root, links, used, spin>>
callVars == <<mode, cid, asked, top>>
control == <<tracked, expect, calls, stopping>>
vars == <<objectVars, tableVars, callVars, control>>

Table(level, address) == [level |-> level, address |-> address]
NoLinks == [i \in 0..(IF L1Count > L2Count THEN L1Count ELSE L2Count) - 1 |-> NULL]
Entry(address, id) == address * L0Count + (id % L0Count)

\* KphCidTableCreate
Init == /\ ObjectInit
        /\ root = Table(0, 0) /\ links = [t \in 0..MaxTables - 1 |-> NoLinks] /\ used = 1
        /\ spin = NULL
        /\ mode = [a \in Actors |-> "none"] /\ cid = [a \in Actors |-> 0]
        /\ asked = [a \in Actors |-> NULL] /\ top = [a \in Actors |-> Table(0, 0)]
        /\ tracked = [c \in Trackers |-> NULL] /\ expect = [a \in Actors |-> {}]
        /\ calls = [a \in Actors |-> 0] /\ stopping = FALSE
\* The variables of a call keep their values until it returns.
KeepCall(a) ==
    LET over == pc'[a] = "idle" IN
    /\ cid' = [cid EXCEPT ![a] = IF over THEN 0 ELSE @]
    /\ top' = [top EXCEPT ![a] = IF over THEN Table(0, 0) ELSE @]
    /\ asked' = [asked EXCEPT ![a] = IF over /\ a \notin Trackers THEN NULL ELSE @]
    /\ mode' = [mode EXCEPT ![a] = IF over /\ a \notin Trackers THEN "none" ELSE @]
-----------------------------------------------------------------------------
(* The calls *)

Begin(a, m, c, t, e) ==
    /\ pc[a] = "idle" /\ ~stopping
    /\ calls' = [calls EXCEPT ![a] = IF m = "untrack" THEN @ ELSE @ + 1]
    /\ mode' = [mode EXCEPT ![a] = m] /\ cid' = [cid EXCEPT ![a] = c]
    /\ asked' = [asked EXCEPT ![a] = t] /\ expect' = e
    /\ Goto(a, "capture")
    /\ UNCHANGED <<objects, ref, objectLocals, tableVars, top, stopping>>

\* KphpTrackContext: population and the notification of the creation may both
\* track what a CID names.
Track(a) == \E t \in TrackedTypes :
    /\ calls[a] < MaxTracks /\ (mode[a] = "track" => t = asked[a])
    /\ Begin(a, "track", a, t, expect) /\ UNCHANGED tracked

\* KphpUntrackContext, when it exits.
Untrack(a) ==
    /\ mode[a] = "track"
    /\ tracked' = [tracked EXCEPT ![a] = NULL]
    /\ Begin(a, "untrack", a, asked[a], [b \in Actors |-> expect[b] \ {tracked[a]}])

\* KphpLookupContext
Lookup(a) == \E c \in Cids, t \in Types :
    /\ calls[a] < MaxReads
    /\ Begin(a, "lookup", c, t, [expect EXCEPT ![a] =
             {tracked[k] : k \in {k \in Trackers : k = c /\ tracked[k] # NULL /\ type[tracked[k]] = t}}])
    /\ UNCHANGED tracked

\* KphCidEnumerate, the callback of which sees contexts of any type.
Enumerate(a) ==
    /\ calls[a] < MaxReads
    /\ Begin(a, "enumerate", 0, NULL, [expect EXCEPT ![a] = {tracked[k] : k \in Trackers} \ {NULL}])
    /\ UNCHANGED tracked

\* KphpDriverCleanup: the informers are stopped, which waits for their callbacks;
\* then KphCidCleanup.
CleanUp(a) ==
    /\ ~stopping /\ stopping' = TRUE /\ \A b \in Actors : pc[b] = "idle"
    /\ mode' = [mode EXCEPT ![a] = "rundown"]
    /\ tracked' = [c \in Trackers |-> NULL]
    /\ Goto(a, "capture")
    /\ UNCHANGED <<objects, ref, objectLocals, tableVars, cid, asked, top, expect, calls>>
-----------------------------------------------------------------------------
(* KphCidGetEntry, KphpCidLookupEntry *)

Walks(a) == mode[a] \in {"enumerate", "rundown"}

\* "Capture the volatile table pointer.  This is a lock-free lookup."
Capture(a) ==
    /\ pc[a] = "capture"
    /\ top' = [top EXCEPT ![a] = root]
    /\ Goto(a, IF Walks(a) THEN "visit" ELSE "resolve")
    /\ UNCHANGED <<objects, ref, objectLocals, tableVars, mode, cid, asked, control>>

\* The entry for id below a table, NULL if there is none.  A link never changes
\* once it is set: the reads of two levels count as one.
Resolve(table, id) ==
    LET via == IF table.level = 2 THEN links[table.address][id \div MaxId(1)] ELSE table.address
        leaf == IF table.level = 0 \/ via = NULL THEN via
                ELSE links[via][(id % MaxId(1)) \div L0Count] IN
    IF id >= MaxId(table.level) \/ leaf = NULL THEN NULL ELSE Entry(leaf, id)

LookupEntry(a) ==
    /\ pc[a] = "resolve"
    /\ slot' = [slot EXCEPT ![a] = Resolve(top[a], cid[a])]
    /\ Goto(a, IF slot'[a] = NULL THEN "lock" ELSE "shared")
    /\ UNCHANGED <<objects, ref, obj, old, tableVars, callVars, control>>

AcquireSpinLock(a) ==
    /\ pc[a] = "lock" /\ spin = NULL
    /\ spin' = a /\ Goto(a, "expand")
    /\ UNCHANGED <<objects, ref, objectLocals, root, links, used, callVars, control>>

\* "See if another thread beat us", or what the last step of Expand has made.
Expanded(a) ==
    /\ pc[a] = "expand" /\ Resolve(root, cid[a]) # NULL
    /\ slot' = [slot EXCEPT ![a] = Resolve(root, cid[a])]
    /\ spin' = NULL /\ Goto(a, "shared")
    /\ UNCHANGED <<objects, ref, obj, old, root, links, used, callVars, control>>

Forgotten(table) == NoLinks
\* The table that was the root is the first one below the new root.
Adopted(table) == [NoLinks EXCEPT ![0] = table.address]

\* KphpCidExpandTableFor, one new table at a time.
Expand(a) ==
    /\ pc[a] = "expand" /\ Resolve(root, cid[a]) = NULL /\ used < MaxTables
    /\ used' = used + 1
    /\ LET id == cid[a]
           upper == IF root.level = 2 THEN links[root.address][id \div MaxId(1)] ELSE root.address
       IN IF id >= MaxId(root.level)
          THEN root' = Table(root.level + 1, used) /\ links' = [links EXCEPT ![used] = Adopted(root)]
          ELSE /\ UNCHANGED root
               /\ links' = IF upper = NULL
                           THEN [links EXCEPT ![root.address][id \div MaxId(1)] = used]
                           ELSE [links EXCEPT ![upper][(id % MaxId(1)) \div L0Count] = used]
    /\ UNCHANGED <<objects, ref, pc, objectLocals, spin, callVars, control>>

\* A table cannot be allocated: no entry.  What was made so far stays.
ExpandFails(a) ==
    /\ pc[a] = "expand" /\ Resolve(root, cid[a]) = NULL
    /\ spin' = NULL /\ Goto(a, "idle")
    /\ KeepObjects(a) /\ KeepCall(a)
    /\ UNCHANGED <<objects, ref, root, links, used, control>>
-----------------------------------------------------------------------------
(* KphpCidEnumerate *)

\* Tables that are not there are passed over as a whole.
Skip(table, id) ==
    LET size == IF table.level = 2 /\ links[table.address][id \div MaxId(1)] = NULL
                THEN MaxId(1) ELSE L0Count IN (id \div size + 1) * size

Visit(a) ==
    /\ pc[a] = "visit" /\ cid[a] < MaxId(top[a].level)
    /\ LET entry == Resolve(top[a], cid[a]) IN
       IF entry = NULL
       THEN cid' = [cid EXCEPT ![a] = Skip(top[a], @)] /\ UNCHANGED <<pc, slot>>
       ELSE /\ cid' = [cid EXCEPT ![a] = @ + 1] /\ slot' = [slot EXCEPT ![a] = entry]
            /\ Goto(a, IF mode[a] = "rundown" THEN "exclusive" ELSE "shared")
    /\ UNCHANGED <<objects, ref, obj, old, tableVars, mode, asked, top, control>>

\* The walk ends; after a rundown KphCidTableDelete frees the tables.
VisitedAll(a) ==
    /\ pc[a] = "visit" /\ cid[a] >= MaxId(top[a].level)
    /\ Goto(a, "idle")
    /\ used' = IF mode[a] = "rundown" THEN 0 ELSE used
    /\ KeepObjects(a) /\ KeepCall(a)
    /\ UNCHANGED <<objects, ref, root, links, spin, control>>
-----------------------------------------------------------------------------
(* What the routines do with the object of the entry *)

AfterReference(a) ==
    LET found == obj[a] # NULL
        right == found /\ type[obj[a]] = asked[a] IN
    IF mode[a] = "enumerate" THEN IF found THEN "held" ELSE "visit"
    ELSE IF found /\ ~right THEN "drop"
    ELSE CASE mode[a] = "untrack" -> "exclusive"
           [] mode[a] # "untrack" /\ right -> "held"
           [] mode[a] = "track" /\ ~right -> "create"
           [] OTHER -> "idle"

\* The context a reader gets is one it had to find.
Referenced(a) ==
    /\ ReleaseShared(a, AfterReference(a))
    /\ expect' = IF AfterReference(a) = "held" THEN [expect EXCEPT ![a] = @ \ {obj[a]}] ELSE expect
    /\ KeepCall(a)
    /\ UNCHANGED <<tableVars, tracked, calls, stopping>>

Create(a) ==
    /\ pc[a] = "create"
    /\ \/ CreateObject(a, asked[a]) /\ Goto(a, "assign")
       \/ Goto(a, "idle") /\ KeepObjects(a) /\ UNCHANGED <<objects, ref>>
    /\ KeepCall(a) /\ UNCHANGED <<tableVars, control>>

\* Track stores the context, Untrack and the rundown store NULL.
StoreContext(a) ==
    /\ Store(a, IF mode[a] = "track" THEN obj[a] ELSE NULL)
    /\ UNCHANGED <<tableVars, callVars, control>>

After(a) == IF obj[a] # NULL THEN "held" ELSE IF Walks(a) THEN "visit" ELSE "idle"

Replaced(a) == old[a] # NULL

Stored(a) ==
    /\ ReleaseExclusive(a, IF Replaced(a) THEN "replaced" ELSE After(a))
    /\ KeepCall(a) /\ UNCHANGED <<tableVars, control>>

\* The reference that the entry had is given up.
GiveUpPrevious(a) ==
    /\ pc[a] = "replaced"
    /\ Dereference(a, old[a], After(a))
    /\ KeepCall(a) /\ UNCHANGED <<obj, tableVars, control>>

\* The caller is done with the context, or it has the wrong type; the callback
\* of an enumeration may end it.
GiveUp(a) ==
    /\ pc[a] \in {"held", "drop"}
    /\ obj' = [obj EXCEPT ![a] = NULL]
    /\ Dereference(a, obj[a], IF Walks(a) THEN "visit" ELSE "idle")
    /\ \/ KeepCall(a) /\ UNCHANGED expect
       \/ /\ mode[a] = "enumerate" /\ cid' = [cid EXCEPT ![a] = MaxId(2)]
          /\ expect' = [expect EXCEPT ![a] = {}] /\ UNCHANGED <<mode, asked, top>>
    /\ tracked' = IF pc[a] = "held" /\ mode[a] = "track" THEN [tracked EXCEPT ![a] = obj[a]]
                  ELSE tracked
    /\ UNCHANGED <<tableVars, calls, stopping>>

DeferDelete(a) == /\ Push(a, After(a)) \/ Queue(a, After(a))
                  /\ KeepCall(a) /\ UNCHANGED <<tableVars, control>>

Step(a) == \/ Capture(a) \/ LookupEntry(a) \/ AcquireSpinLock(a) \/ Expanded(a) \/ Expand(a)
           \/ ExpandFails(a) \/ Visit(a) \/ VisitedAll(a)
           \/ Referenced(a) \/ Create(a) \/ StoreContext(a) \/ Stored(a) \/ GiveUpPrevious(a)
           \/ GiveUp(a) \/ DeferDelete(a)
           \/ AtomicSteps(a) /\ UNCHANGED <<tableVars, callVars, control>>

WorkItem == Worker /\ UNCHANGED <<tableVars, callVars, control>>

Finished == used = 0 /\ item + started = 0 /\ flushed = {} /\ pc[Unloader] = "idle"

Next == \/ \E a \in Trackers : Track(a) \/ Untrack(a)
        \/ \E a \in Readers : Lookup(a)
        \/ \E a \in Enumerators : Enumerate(a)
        \/ \E a \in Actors : Step(a)
        \/ CleanUp(Unloader) \/ WorkItem
        \/ Finished /\ UNCHANGED vars

\* Threads run, the spinning ones too, and the kernel runs its work items.
Spec == /\ Init /\ [][Next]_vars
        /\ \A a \in Actors : WF_vars(Step(a))
        /\ WF_vars(WorkItem)
-----------------------------------------------------------------------------
\* The references to o: entries, what actors hold, what they are about to store
\* and what they have just replaced.
References(o) ==
         {<<"entry", s>> : s \in {s \in Slots : ref[s].object = o}}
    \cup {<<"held", a>> : a \in {a \in Actors : obj[a] = o /\ pc[a] # "reference"}}
    \cup {<<"stored", a>> : a \in {a \in Actors : /\ obj[a] = o /\ mode[a] = "track"
                                   /\ pc[a] \in {"exclusive", "drain", "previous", "store"}}}
    \cup {<<"replaced", a>> : a \in {a \in Actors : old[a] = o /\ pc[a] \in {"unlock", "replaced"}}}

\* kphobject.c, no use after free: an object's count is exactly the number of its
\* references, whoever stores and references at the same time, and nobody refers,
\* or is about to add a reference, to memory that is free or waits for deletion.
ReferencesExact ==
    /\ \A o \in Objects : Cardinality(References(o)) = IF count[o] = NULL THEN 0 ELSE count[o]
    /\ \A a \in Actors : pc[a] = "reference" => count[obj[a]] \notin {NULL, 0}

\* cid_table.c, lock-free lookups while the table grows: a lookup or an enumeration
\* finds every context that is tracked from its beginning to its end.
NothingMissed ==
    \A a \in Actors : pc[a] \in {"idle"} \cup (IF mode[a] = "lookup" THEN {"held", "drop"} ELSE {})
                       => expect[a] = {}

\* kphobject.c:70-74: the work item is queued when the list was empty and not again
\* before a worker took it, and objects that wait always have a worker to come.
DeferredCovered ==
    /\ item + started <= 1
    /\ deferred # <<>> => item + started = 1 \/ \E a \in Actors : pc[a] = "queue"

\* No context leaks: while objects wait to be deleted a worker is to come, and after the
\* driver's cleanup, once the work items have run, every context has been freed.
EverythingFreed == DeferredCovered /\ (Finished => \A o \in Objects : count[o] = NULL)
=============================================================================
