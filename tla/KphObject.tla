----------------------------- MODULE KphObject -----------------------------
(***************************************************************************)
(* The driver's objects (KSystemInformer/kphobject.c): counted references, *)
(* atomic object references (a pointer whose low bits are a spinning       *)
(* reader-writer lock) and deletion deferred to a work item.  The actions  *)
(* are the steps of the routines; an actor enters a routine at its first   *)
(* label and leaves it for the label Return gives.  A compare-exchange     *)
(* loop is one step, the exchange that succeeds.                           *)
(***************************************************************************)
EXTENDS Integers, Sequences, FiniteSets

CONSTANTS NULL,
          Actors,    \* the threads that call into the driver
          Objects,   \* memory for objects, used again once it was freed
          Slots,     \* the atomic object references
          SharedMax  \* KPH_ATOMIC_OBJECT_REF_SHARED_MAX

ASSUME KphObjectAssumption ==
    /\ SharedMax \in Nat \ {0} /\ IsFiniteSet(Actors) /\ IsFiniteSet(Slots)
    /\ NULL \notin Objects \cup Slots /\ NULL \notin Nat

VARIABLES count,     \* PointerCount per object, NULL when the memory is free
          type,      \* TypeIndex per object
          ref,       \* per slot: the object and the lock bits
          deferred,  \* KphpDeferDeleteObjectList
          item,      \* KphpDeferDeleteObjectWorkItem: times it is queued
          started,   \* workers that run and have not flushed the list
          flushed,   \* objects that a worker took and will delete
          pc,
          slot,      \* per actor: the atomic reference at work
          obj,       \* per actor: the object it references or stores
          old        \* per actor: the object that a store replaced or that it gives up

objects == <<count, type, deferred, item, started, flushed>>
objectLocals == <<slot, obj, old>>
objectVars == <<objects, ref, pc, objectLocals>>

Empty == [object |-> NULL, shared |-> 0, exclusive |-> FALSE]

\* KphObjectInitialize
ObjectInit ==
    /\ count = [o \in Objects |-> NULL] /\ type = [o \in Objects |-> NULL]
    /\ ref = [s \in Slots |-> Empty]
    /\ deferred = <<>> /\ item = 0 /\ started = 0 /\ flushed = {}
    /\ pc = [a \in Actors |-> "idle"] /\ slot = [a \in Actors |-> NULL]
    /\ obj = [a \in Actors |-> NULL] /\ old = [a \in Actors |-> NULL]

Goto(a, label) == pc' = [pc EXCEPT ![a] = label]

\* Other variables of the actor keep their values until its call returns.
KeepObjects(a) ==
    LET Reset(f) == IF pc'[a] = "idle" THEN [f EXCEPT ![a] = NULL] ELSE f IN
    slot' = Reset(slot) /\ obj' = Reset(obj) /\ old' = Reset(old)
-----------------------------------------------------------------------------
(* KphReferenceObject, KphDereferenceObject *)

\* KphCreateObject; the memory or the initialization may fail.
CreateObject(a, t) ==
    \E o \in Objects :
       /\ count[o] = NULL
       /\ count' = [count EXCEPT ![o] = 1] /\ type' = [type EXCEPT ![o] = t]
       /\ obj' = [obj EXCEPT ![a] = o]
       /\ UNCHANGED <<deferred, item, started, flushed, ref, slot, old>>

Increment(o) == count' = [count EXCEPT ![o] = @ + 1]

\* The reference to o is given up; the last one starts the deletion.
Dereference(a, o, next) ==
    /\ count' = [count EXCEPT ![o] = @ - 1]
    /\ Goto(a, IF count[o] - 1 > 0 THEN next ELSE "push")
    /\ old' = [old EXCEPT ![a] = IF pc'[a] = "push" THEN o ELSE NULL]
    /\ slot' = [slot EXCEPT ![a] = NULL]
    /\ UNCHANGED <<type, deferred, item, started, flushed, ref>>

AnyPush(list) == TRUE
WasEmpty(list) == list = <<>>

\* KphpObjectDeferDelete: InterlockedPushEntrySList tells whether it was empty.
Push(a, next) ==
    /\ pc[a] = "push"
    /\ deferred' = <<old[a]>> \o deferred
    /\ Goto(a, IF WasEmpty(deferred) THEN "queue" ELSE next)
    /\ UNCHANGED <<count, type, item, started, flushed, ref>>
    /\ KeepObjects(a)

\* KsiQueueWorkItem
Queue(a, next) ==
    /\ pc[a] = "queue"
    /\ item' = item + 1 /\ Goto(a, next)
    /\ UNCHANGED <<count, type, deferred, started, flushed, ref>>
    /\ KeepObjects(a)

\* KphpDeferDeleteObjectWorker: the item is out of the work queue when it runs.
WorkerStarts ==
    /\ item > 0
    /\ item' = item - 1 /\ started' = started + 1
    /\ UNCHANGED <<count, type, deferred, flushed, ref, pc, objectLocals>>

WorkerFlushes ==
    /\ started > 0
    /\ started' = started - 1
    /\ flushed' = flushed \cup {deferred[i] : i \in DOMAIN deferred} /\ deferred' = <<>>
    /\ UNCHANGED <<count, type, item, ref, pc, objectLocals>>

\* KphpObjectDelete
WorkerDeletes ==
    /\ \E o \in flushed : /\ flushed' = flushed \ {o}
                          /\ count' = [count EXCEPT ![o] = NULL]
                          /\ type' = [type EXCEPT ![o] = NULL]
    /\ UNCHANGED <<deferred, item, started, ref, pc, objectLocals>>

Worker == WorkerStarts \/ WorkerFlushes \/ WorkerDeletes
-----------------------------------------------------------------------------
(* KphAtomicReferenceObject *)

LockBits(s) == ref[s].shared + IF ref[s].exclusive THEN SharedMax + 1 ELSE 0
MayShare(s) == LockBits(s) < SharedMax

\* KphpAtomicAcquireObjectLockShared
AcquireShared(a) ==
    /\ pc[a] = "shared" /\ MayShare(slot[a])
    /\ ref' = [ref EXCEPT ![slot[a]].shared = @ + 1]
    /\ Goto(a, "read")
    /\ UNCHANGED <<objects, objectLocals>>

ReadObject(a) ==
    /\ pc[a] = "read"
    /\ obj' = [obj EXCEPT ![a] = ref[slot[a]].object]
    /\ Goto(a, IF ref[slot[a]].object = NULL THEN "release" ELSE "reference")
    /\ UNCHANGED <<objects, ref, slot, old>>

ReferenceObject(a) ==
    /\ pc[a] = "reference"
    /\ Increment(obj[a]) /\ Goto(a, "release")
    /\ UNCHANGED <<type, deferred, item, started, flushed, ref, objectLocals>>

\* KphpAtomicReleaseObjectLockShared
ReleaseShared(a, next) ==
    /\ pc[a] = "release"
    /\ ref' = [ref EXCEPT ![slot[a]].shared = @ - 1]
    /\ Goto(a, next)
    /\ UNCHANGED <<objects>>
    /\ KeepObjects(a)
-----------------------------------------------------------------------------
(* KphAtomicAssignObjectReference, KphAtomicMoveObjectReference *)

\* Assigning takes a reference of its own to the object that is stored.
AssignReference(a) ==
    /\ pc[a] = "assign"
    /\ Increment(obj[a]) /\ Goto(a, "exclusive")
    /\ UNCHANGED <<type, deferred, item, started, flushed, ref, objectLocals>>

\* KphpAtomicAcquireObjectLockExclusive: take the bit ...
AcquireExclusive(a) ==
    /\ pc[a] = "exclusive" /\ ~ref[slot[a]].exclusive
    /\ ref' = [ref EXCEPT ![slot[a]].exclusive = TRUE]
    /\ Goto(a, "drain")
    /\ UNCHANGED <<objects, objectLocals>>

NeverDrain(s) == TRUE
Drained(s) == ref[s].shared = 0

\* ... and wait until the threads that share the lock are gone.
Drain(a) ==
    /\ pc[a] = "drain" /\ Drained(slot[a])
    /\ Goto(a, "previous")
    /\ UNCHANGED <<objects, ref, objectLocals>>

\* KphpAtomicStoreObjectReference
ReadPrevious(a) ==
    /\ pc[a] = "previous"
    /\ old' = [old EXCEPT ![a] = ref[slot[a]].object]
    /\ Goto(a, "store")
    /\ UNCHANGED <<objects, ref, slot, obj>>

\* The exchange writes the whole word, lock bits included.
Store(a, new) ==
    /\ pc[a] = "store"
    /\ ref' = [ref EXCEPT ![slot[a]] = [object |-> new, shared |-> 0, exclusive |-> TRUE]]
    /\ Goto(a, "unlock")
    /\ UNCHANGED <<objects, objectLocals>>

\* KphpAtomicReleaseObjectLockExclusive
ReleaseExclusive(a, next) ==
    /\ pc[a] = "unlock"
    /\ ref' = [ref EXCEPT ![slot[a]].exclusive = FALSE]
    /\ Goto(a, next)
    /\ UNCHANGED <<objects>>
    /\ KeepObjects(a)

AtomicSteps(a) == \/ AcquireShared(a) \/ ReadObject(a) \/ ReferenceObject(a)
                  \/ AssignReference(a) \/ AcquireExclusive(a) \/ Drain(a) \/ ReadPrevious(a)
=============================================================================
