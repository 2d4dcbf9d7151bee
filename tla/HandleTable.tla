----------------------------- MODULE HandleTable -----------------------------
(***************************************************************************)
(* The handle table of phlib/handle.c.  Free entries are linked in two     *)
(* lock-free lists; a thread that pops from the main list holds one of a   *)
(* few locks, and whoever frees an entry while that lock is held uses the  *)
(* alternative list (the ABA problem).  An entry in use has a lock bit of  *)
(* its own and a wake event for the threads that want it, which is used by *)
(* what WakeEventSpec says of it.  A step is one access to shared memory.  *)
(***************************************************************************)
EXTENDS Integers, FiniteSets, WakeEventSpec

CONSTANTS NULL,
          LevelEntries,  \* PH_HANDLE_TABLE_LEVEL_ENTRIES
          Locks,         \* PH_HANDLE_TABLE_LOCKS
          FreeCount,     \* PH_HANDLE_TABLE_FREE_COUNT
          MaxOps         \* bound: calls made by all threads

ASSUME HandleTableAssumption ==
    /\ {LevelEntries, Locks} \subseteq Nat \ {0} /\ {FreeCount, MaxOps} \subseteq Nat
    /\ NULL \notin Int \cup Threads

VARIABLES freeValue, freeValueAlt, nextValue, strictFifo,
          tables,  \* TableValue: the number of level 0 tables linked from it
          entry,   \* per handle value
          popping, \* per lock: the threads that hold it shared
          owner,   \* the thread that holds Lock
          pc, mode,
          h, nx,   \* per thread: handle value at work, next or old list head
          tail,    \* per thread: last entry of the chain it pushes
          seen,    \* per thread: the object it read from an entry; list it pushes to
          count,   \* per thread: entries reversed so far
          cont,    \* per thread: where to go on after a push
          ops

lists == <<freeValue, freeValueAlt, nextValue, strictFifo, tables>>
locals == <<h, nx, tail, seen, count, cont>>
vars == <<lists, entry, popping, owner, wakeVars, pc, mode, locals, ops>>

INVALID == NULL
Value2 == -1  \* what a user keeps where NextFreeValue is: no handle
Handles == 0..(LevelEntries * LevelEntries * LevelEntries - 1)
LockIndex(v) == v % Locks

FreeEntry(next) == [inUse |-> FALSE, unlocked |-> FALSE, object |-> NULL, next |-> next]

\* PhpCreateHandleTableLevel0: the entries of a new table form a chain.
NewTable(e, base) == [v \in Handles |->
    CASE v \in base..(base + LevelEntries - 2) -> FreeEntry(v + 1)
      [] v = base + LevelEntries - 1 -> FreeEntry(INVALID)
      [] OTHER -> e[v]]

\* PhCreateHandleTable
Init == /\ freeValue = 0 /\ freeValueAlt = INVALID /\ nextValue = LevelEntries
        /\ strictFifo \in BOOLEAN /\ tables = 1
        /\ entry = NewTable([v \in Handles |-> FreeEntry(INVALID)], 0)
        /\ popping = [i \in 0..Locks - 1 |-> {}] /\ owner = NULL
        /\ WakeInit
        /\ pc = [t \in Threads |-> "idle"] /\ mode = [t \in Threads |-> "idle"]
        /\ h = [t \in Threads |-> 0] /\ nx = [t \in Threads |-> INVALID]
        /\ tail = [t \in Threads |-> 0] /\ seen = [t \in Threads |-> NULL]
        /\ count = [t \in Threads |-> 0]
        /\ cont = [t \in Threads |-> "idle"] /\ ops = 0

Goto(t, label) == pc' = [pc EXCEPT ![t] = label]
Call(t, m) == /\ pc[t] = "idle" /\ ops < MaxOps /\ ops' = ops + 1
              /\ mode' = [mode EXCEPT ![t] = m]
Set(f, t, v) == [f EXCEPT ![t] = v]
-----------------------------------------------------------------------------
(* PhCreateHandle, PhpAllocateHandleTableEntry *)

CreateHandle(t) ==
    /\ Call(t, "create") /\ Goto(t, "alloc")
    /\ UNCHANGED <<lists, entry, popping, owner, wakeVars, locals>>

\* Without a free handle, more of them are made under the table's lock.
AllocRead(t) ==
    /\ pc[t] = "alloc"
    /\ h' = Set(h, t, freeValue)
    /\ Goto(t, IF freeValue = INVALID THEN "grow" ELSE "allocLock")
    /\ UNCHANGED <<lists, entry, popping, owner, wakeVars, mode, nx, tail, seen, cont, ops, count>>

\* PhpLockHandleTableShared
AllocLock(t) ==
    /\ pc[t] = "allocLock"
    /\ popping' = [popping EXCEPT ![LockIndex(h[t])] = @ \cup {t}]
    /\ Goto(t, "allocCheck")
    /\ UNCHANGED <<lists, entry, owner, wakeVars, mode, locals, ops>>

\* The list must still begin with this handle.
AllocCheck(t) ==
    /\ pc[t] = "allocCheck"
    /\ Goto(t, IF freeValue = h[t] THEN "allocNext" ELSE "allocRetry")
    /\ UNCHANGED <<lists, entry, popping, owner, wakeVars, mode, locals, ops>>

AllocNext(t) ==
    /\ pc[t] = "allocNext"
    /\ nx' = Set(nx, t, entry[h[t]].next)
    /\ Goto(t, "allocCas")
    /\ UNCHANGED <<lists, entry, popping, owner, wakeVars, mode, h, tail, seen, cont, ops, count>>

AllocCas(t) ==
    /\ pc[t] = "allocCas"
    /\ IF freeValue = h[t] THEN freeValue' = nx[t] /\ Goto(t, "allocated")
                           ELSE Goto(t, "allocRetry") /\ UNCHANGED freeValue
    /\ UNCHANGED <<freeValueAlt, nextValue, strictFifo, tables, entry, popping, owner, wakeVars,
                   mode, locals, ops>>

\* PhpUnlockHandleTableShared
AllocUnlock(t) ==
    /\ pc[t] \in {"allocated", "allocRetry"}
    /\ popping' = [popping EXCEPT ![LockIndex(h[t])] = @ \ {t}]
    /\ Goto(t, IF pc[t] = "allocated" THEN "fill" ELSE "alloc")
    /\ UNCHANGED <<lists, entry, owner, wakeVars, mode, locals, ops>>

\* Type, Value and Value2, which is the same memory as NextFreeValue, are set
\* while the entry is locked.
Fill(t) ==
    /\ pc[t] = "fill"
    /\ entry' = [entry EXCEPT ![h[t]] = [inUse |-> TRUE, unlocked |-> FALSE,
                                         object |-> t, next |-> Value2]]
    /\ Goto(t, "unlock")
    /\ UNCHANGED <<lists, popping, owner, wakeVars, mode, locals, ops>>
-----------------------------------------------------------------------------
(* PhUnlockHandleTableEntry; PhSetWakeEvent *)

Unlock(t) ==
    /\ pc[t] = "unlock"
    /\ entry' = [entry EXCEPT ![h[t]].unlocked = TRUE]
    /\ Goto(t, "wake")
    /\ UNCHANGED <<lists, popping, owner, wakeVars, mode, locals, ops>>

\* The next step of PhEnumHandleTable, or the end of the call.
NextHandle(t) == IF mode[t] = "enum" /\ h[t] + 1 \in Handles
                 THEN h' = Set(h, t, h[t] + 1) /\ Goto(t, "find")
                 ELSE Goto(t, "idle") /\ UNCHANGED h

Wake(t) ==
    /\ pc[t] = "wake"
    /\ WakeEverybody
    /\ \/ mode[t] = "destroy" /\ Goto(t, "free") /\ UNCHANGED h
       \/ mode[t] # "destroy" /\ NextHandle(t)
       \/ mode[t] = "enum" /\ Goto(t, "idle") /\ UNCHANGED h  \* cont is FALSE
    /\ UNCHANGED <<lists, entry, popping, owner, mode, nx, tail, seen, cont, ops, count>>
-----------------------------------------------------------------------------
(* PhLookupHandleTableEntry, PhDestroyHandle, PhEnumHandleTable *)

LookupHandle(t) ==
    /\ \E m \in {"lookup", "destroy", "enum"}, v \in Handles :
          /\ Call(t, m) /\ (m = "enum" => v = 0)
          /\ h' = Set(h, t, v)
    /\ Goto(t, "find")
    /\ UNCHANGED <<lists, entry, popping, owner, wakeVars, nx, tail, seen, cont, count>>

\* PhpLookupHandleTableEntry: the value is checked against NextValue ...
Find(t) ==
    /\ pc[t] = "find"
    /\ Goto(t, IF h[t] >= nextValue THEN "idle" ELSE "table")
    /\ UNCHANGED <<lists, entry, popping, owner, wakeVars, mode, locals, ops>>

\* ... and then the tables that TableValue leads to are followed without a check.
FindTable(t) ==
    /\ pc[t] = "table" /\ h[t] < tables * LevelEntries
    /\ Goto(t, "lock")
    /\ UNCHANGED <<lists, entry, popping, owner, wakeVars, mode, locals, ops>>

\* PhLockHandleTableEntry: read the entry.
LockRead(t) ==
    /\ pc[t] = "lock"
    /\ seen' = Set(seen, t, entry[h[t]].object)
    /\ IF ~entry[h[t]].inUse
       THEN NextHandle(t)
       ELSE Goto(t, IF entry[h[t]].unlocked THEN "lockCas" ELSE "register") /\ UNCHANGED h
    /\ UNCHANGED <<lists, entry, popping, owner, wakeVars, mode, nx, tail, cont, ops, count>>

AnyEntry(t) == entry[h[t]].inUse
\* The CAS finds the word that was read: in use, not locked, the same object.
Unlocked(t) == entry[h[t]].inUse /\ entry[h[t]].unlocked /\ entry[h[t]].object = seen[t]

LockCas(t) ==
    /\ pc[t] = "lockCas"
    /\ IF Unlocked(t) THEN entry' = [entry EXCEPT ![h[t]].unlocked = FALSE] /\ Goto(t, "locked")
                      ELSE Goto(t, "register") /\ UNCHANGED entry
    /\ UNCHANGED <<lists, popping, owner, wakeVars, mode, locals, ops>>

\* PhpBlockOnLockedHandleTableEntry: PhQueueWakeEvent, then look again.
QueueWakeEvent(t) ==
    /\ pc[t] = "register"
    /\ Register(t)
    /\ Goto(t, "recheck")
    /\ UNCHANGED <<lists, entry, popping, owner, mode, locals, ops>>

SleepAnyway(t) == FALSE
\* "Entry is not in use or has been unlocked; cancel the wait."
CancelWait(t) == ~entry[h[t]].inUse \/ entry[h[t]].unlocked

Recheck(t) ==
    /\ pc[t] = "recheck"
    /\ IF CancelWait(t)
       THEN waiting' = {} /\ registered' = registered \ {t} /\ Goto(t, "lock")
       ELSE Goto(t, "sleep") /\ UNCHANGED wakeVars
    /\ UNCHANGED <<lists, entry, popping, owner, mode, locals, ops>>

\* PhWaitForWakeEvent returns.
WakeUp(t) ==
    /\ pc[t] = "sleep"
    /\ GoOn(t)
    /\ Goto(t, "lock")
    /\ UNCHANGED <<lists, entry, popping, owner, mode, locals, ops>>

\* The caller is done with the entry.
Use(t) ==
    /\ pc[t] = "locked"
    /\ Goto(t, IF mode[t] = "destroy" THEN "destroy" ELSE "unlock")
    /\ UNCHANGED <<lists, entry, popping, owner, wakeVars, mode, locals, ops>>

\* The exchange of Value with PH_HANDLE_TABLE_ENTRY_FREE.
Destroy(t) ==
    /\ pc[t] = "destroy"
    /\ entry' = [entry EXCEPT ![h[t]] = FreeEntry(@.next)]
    /\ Goto(t, "wake")
    /\ UNCHANGED <<lists, popping, owner, wakeVars, mode, locals, ops>>
-----------------------------------------------------------------------------
(* PhpFreeHandleTableEntry *)

AlwaysMain(t) == TRUE
\* Nobody is popping this handle from the main list, and order does not matter.
UseMainList(t) == ~strictFifo /\ popping[LockIndex(h[t])] = {}

\* A thread that moves the alternative list may just own this lock.
MoverOwns(t) == \E u \in Threads : pc[u] = "drain" /\ tail[u] = LockIndex(h[t])

Free(t) ==
    /\ pc[t] = "free"
    /\ \/ UseMainList(t) /\ seen' = Set(seen, t, "main")
       \/ (~UseMainList(t) \/ MoverOwns(t)) /\ seen' = Set(seen, t, "alt")
    /\ Goto(t, "push")
    /\ UNCHANGED <<lists, entry, popping, owner, wakeVars, mode, h, nx, tail, cont, ops, count>>

FreeList(t) == IF seen[t] = "main" THEN freeValue ELSE freeValueAlt

Push(t) ==
    /\ pc[t] = "push"
    /\ nx' = Set(nx, t, FreeList(t))
    /\ entry' = [entry EXCEPT ![h[t]].next = FreeList(t)]
    /\ Goto(t, "pushCas")
    /\ UNCHANGED <<lists, popping, owner, wakeVars, mode, h, tail, seen, cont, ops, count>>

PushCas(t) ==
    /\ pc[t] = "pushCas"
    /\ IF FreeList(t) = nx[t]
       THEN /\ freeValue' = IF seen[t] = "main" THEN h[t] ELSE freeValue
            /\ freeValueAlt' = IF seen[t] = "main" THEN freeValueAlt ELSE h[t]
            /\ Goto(t, "idle")
       ELSE Goto(t, "push") /\ UNCHANGED <<freeValue, freeValueAlt>>
    /\ UNCHANGED <<nextValue, strictFifo, tables, entry, popping, owner, wakeVars, mode, locals, ops>>
-----------------------------------------------------------------------------
(* The slow path of PhpAllocateHandleTableEntry, under Lock *)

Grow(t) ==
    /\ pc[t] = "grow" /\ owner = NULL
    /\ h' = Set(h, t, freeValue)
    /\ IF freeValue # INVALID THEN Goto(t, "allocLock") /\ UNCHANGED owner
                              ELSE Goto(t, "move") /\ owner' = t
    /\ UNCHANGED <<lists, entry, popping, wakeVars, mode, nx, tail, seen, cont, ops, count>>

\* PhpMoveFreeHandleTableEntries: take the alternative list ...
Move(t) ==
    /\ pc[t] = "move"
    /\ nx' = Set(nx, t, freeValueAlt)
    /\ tail' = Set(tail, t, 0)
    /\ freeValueAlt' = INVALID
    /\ Goto(t, IF freeValueAlt = INVALID THEN "more" ELSE "drain")
    /\ UNCHANGED <<freeValue, nextValue, strictFifo, tables, entry, popping, owner, wakeVars,
                   mode, h, seen, cont, ops, count>>

\* ... wait until each of the locks has been free once (tail[t] counts them) ...
Drain(t) ==
    /\ pc[t] = "drain" /\ popping[tail[t]] = {}
    /\ tail' = Set(tail, t, (tail[t] + 1) % Locks)
    /\ Goto(t, IF tail[t] + 1 = Locks THEN "moved" ELSE "drain")
    /\ UNCHANGED <<lists, entry, popping, owner, wakeVars, mode, h, nx, seen, cont, ops, count>>

\* ... and make it the main list if that is empty, ...
Shortcut(t) ==
    /\ pc[t] = "moved" /\ ~strictFifo /\ freeValue = INVALID
    /\ freeValue' = nx[t] /\ h' = Set(h, t, nx[t])
    /\ owner' = NULL /\ Goto(t, "allocLock")
    /\ UNCHANGED <<freeValueAlt, nextValue, strictFifo, tables, entry, popping, wakeVars,
                   mode, nx, tail, seen, cont, ops, count>>

\* ... or go through it from h[t] on, to reverse it (nx[t] is lastIndex) ...
StartReverse(t) ==
    /\ pc[t] = "moved" /\ (strictFifo \/ freeValue # INVALID)
    /\ h' = Set(h, t, nx[t]) /\ tail' = Set(tail, t, nx[t])
    /\ nx' = Set(nx, t, INVALID) /\ count' = Set(count, t, 0)
    /\ Goto(t, "reverse")
    /\ UNCHANGED <<lists, entry, popping, owner, wakeVars, mode, seen, cont, ops>>

\* ... and put it in front of the main list.
ReverseEntry(t) ==
    /\ pc[t] = "reverse"
    /\ count' = Set(count, t, count[t] + 1)
    /\ entry' = [entry EXCEPT ![h[t]].next = nx[t]]
    /\ IF entry[h[t]].next # INVALID
       THEN /\ h' = Set(h, t, entry[h[t]].next) /\ nx' = Set(nx, t, h[t])
            /\ UNCHANGED <<pc, cont>>
       ELSE /\ Goto(t, "splice") /\ UNCHANGED <<h, nx>>
            /\ cont' = Set(cont, t, IF strictFifo /\ count'[t] < FreeCount THEN "more" ELSE "allocLock")
    /\ UNCHANGED <<lists, popping, owner, wakeVars, mode, tail, seen, ops>>

\* A chain from h[t] to tail[t] is pushed onto the main list.
Splice(t) ==
    /\ pc[t] = "splice"
    /\ nx' = Set(nx, t, freeValue)
    /\ entry' = [entry EXCEPT ![tail[t]].next = freeValue]
    /\ Goto(t, "spliceCas")
    /\ UNCHANGED <<lists, popping, owner, wakeVars, mode, h, tail, seen, cont, ops, count>>

SpliceCas(t) ==
    /\ pc[t] = "spliceCas"
    /\ IF freeValue = nx[t]
       THEN /\ freeValue' = h[t] /\ Goto(t, cont[t])
            /\ owner' = IF cont[t] = "more" THEN owner ELSE NULL
       ELSE Goto(t, "splice") /\ UNCHANGED <<freeValue, owner>>
    /\ UNCHANGED <<freeValueAlt, nextValue, strictFifo, tables, entry, popping, wakeVars,
                   mode, locals, ops>>

\* PhpAllocateMoreHandleTableEntries: a table is linked before NextValue says so.
More(t) ==
    /\ pc[t] = "more" /\ tables < LevelEntries * LevelEntries
    /\ tables' = tables + 1
    /\ entry' = NewTable(entry, tables * LevelEntries)
    /\ Goto(t, "extend")
    /\ UNCHANGED <<freeValue, freeValueAlt, nextValue, strictFifo, popping, owner, wakeVars,
                   mode, locals, ops>>

Extend(t) ==
    /\ pc[t] = "extend"
    /\ nextValue' = nextValue + LevelEntries
    /\ h' = Set(h, t, nextValue) /\ tail' = Set(tail, t, nextValue + LevelEntries - 1)
    /\ cont' = Set(cont, t, "alloc")
    /\ Goto(t, "splice")
    /\ UNCHANGED <<freeValue, freeValueAlt, strictFifo, tables, entry, popping, owner, wakeVars,
                   mode, nx, seen, ops, count>>

\* No memory, or the maximum number of handles.
MoreFails(t) ==
    /\ pc[t] = "more"
    /\ owner' = NULL /\ Goto(t, "failed")
    /\ UNCHANGED <<lists, entry, popping, wakeVars, mode, locals, ops>>

Failed(t) ==
    /\ pc[t] = "failed"
    /\ h' = Set(h, t, freeValue)
    /\ Goto(t, IF freeValue = INVALID THEN "idle" ELSE "allocLock")
    /\ UNCHANGED <<lists, entry, popping, owner, wakeVars, mode, nx, tail, seen, cont, ops, count>>
-----------------------------------------------------------------------------
Allocating(t) == \/ AllocRead(t) \/ AllocLock(t) \/ AllocCheck(t) \/ AllocNext(t)
                 \/ AllocCas(t) \/ AllocUnlock(t) \/ Fill(t)
                 \/ Grow(t) \/ Move(t) \/ Drain(t) \/ Shortcut(t) \/ StartReverse(t) \/ ReverseEntry(t)
                 \/ Splice(t) \/ SpliceCas(t) \/ More(t) \/ Extend(t) \/ MoreFails(t) \/ Failed(t)
Using(t) == \/ Find(t) \/ FindTable(t) \/ LockRead(t) \/ LockCas(t) \/ QueueWakeEvent(t)
            \/ Recheck(t) \/ WakeUp(t) \/ Use(t) \/ Unlock(t) \/ Wake(t) \/ Destroy(t)
Freeing(t) == Free(t) \/ Push(t) \/ PushCas(t)

Next == \E t \in Threads : CreateHandle(t) \/ LookupHandle(t)
                           \/ Allocating(t) \/ Using(t) \/ Freeing(t)

\* Threads are scheduled, and whoever locked an entry unlocks it.
Spec == Init /\ [][Next]_vars
             /\ \A t \in Threads : WF_vars(Allocating(t) \/ Using(t) \/ Freeing(t))
-----------------------------------------------------------------------------
Entries == 0..(tables * LevelEntries - 1)
Words == Entries \cup {Value2}

\* The words that are linked from start, and not through stop: they are in every set
\* that has start and, with each entry but stop, what its NextFreeValue is.
Linked(start, stop) ==
    {v \in Words : \A S \in SUBSET Words :
        /\ start # INVALID => start \in S
        /\ \A u \in S \ {Value2, stop} : entry[u].next # INVALID => entry[u].next \in S
        => v \in S}
FreeMain == Linked(freeValue, INVALID)
FreeAlt == Linked(freeValueAlt, INVALID)
InUse == {v \in Handles : entry[v].inUse}

\* The handles that only thread t knows of.
Private(t) ==
    CASE pc[t] \in {"allocated", "fill"} -> {h[t]}
      [] pc[t] \in {"free", "push", "pushCas"} -> {h[t]}
      [] pc[t] = "wake" /\ mode[t] = "destroy" -> {h[t]}
      [] pc[t] \in {"drain", "moved"} -> Linked(nx[t], INVALID)
      [] pc[t] = "reverse" -> Linked(h[t], INVALID) \cup Linked(nx[t], INVALID)
      [] pc[t] = "extend" -> nextValue..(nextValue + LevelEntries - 1)
      [] pc[t] \in {"splice", "spliceCas"} -> Linked(h[t], tail[t])
      [] OTHER -> {}

\* handle.c:521-553, the ABA problem: every handle is in exactly one place, in one
\* of the free lists, in the hands of one thread or in use; none is handed out
\* twice and none is lost, and a lookup that passed its check finds the table.
HandlesApart ==
    LET private == [t \in Threads |-> Private(t)]
        shared == FreeMain \cup FreeAlt \cup InUse IN
    /\ shared \cup UNION {private[t] : t \in Threads} = Entries
    /\ FreeMain \cap FreeAlt = {} /\ (FreeMain \cup FreeAlt) \cap InUse = {}
    /\ \A t \in Threads : private[t] \cap shared = {}
    /\ \A s, t \in Threads : s # t => private[s] \cap private[t] = {}
    /\ \A t \in Threads : pc[t] = "table" => h[t] \in Entries

\* An entry that a caller has locked is in use until that caller unlocks or frees
\* it, and nobody else has it.
EntryIsMine ==
    \A t \in Threads : pc[t] \in {"locked", "unlock", "destroy"} =>
        /\ entry[h[t]].inUse /\ ~entry[h[t]].unlocked
        /\ \A s \in Threads \ {t} : pc[s] \in {"locked", "unlock", "destroy"} => h[s] # h[t]

\* Every call returns: no thread that blocks on a locked entry is forgotten when
\* the entry is unlocked, freed or used again, and none waits for a free handle.
CallsReturn == \A t \in Threads : pc[t] # "idle" ~> pc[t] = "idle"
=============================================================================
