------------------------------ MODULE RefObject ------------------------------
(***************************************************************************)
(* Reference-counted objects, phlib/ref.c and phlib/include/refp.h.        *)
(* Threads own references; a weak table, protected by a mutex, points at   *)
(* objects that may be dying (the use PhReferenceObjectSafe is made for);  *)
(* the delete procedure of the type takes its object out of the table.     *)
(* The storage of an object is freed by the thread that drops the last     *)
(* reference or, deferred, by a work item of the global work queue.        *)
(*                                                                         *)
(* RefCount shares its word with SavedTypeIndex and DeferDelete, its high  *)
(* bit: word[o].defer is that bit, word[o].low everything below it.        *)
(* DeferDeleteListEntry shares its word with TypeIndex: index[o].          *)
(***************************************************************************)
EXTENDS Integers, Sequences, FiniteSets

CONSTANTS Threads,    \* threads that create, share and drop references
          Routines,   \* worker threads that run PhpDeferDeleteObjectRoutine
          Objects, NULL,
          TypeIndex,  \* the type of every object here, not 0
          Link,       \* a list pointer in place of the type index
          MaxCreates  \* bound: calls of PhCreateObject

ASSUME RefAssumption ==
    /\ IsFiniteSet(Threads) /\ IsFiniteSet(Routines) /\ Threads \cap Routines = {}
    /\ NULL \notin Objects
    /\ TypeIndex \in Nat \ {0} /\ Link \notin Nat /\ MaxCreates \in Nat

VARIABLES storage,   \* per object: "free", "allocated"
          word, index,
          holders,   \* per object: the threads that own a reference
          table,     \* objects the weak table points at
          list,      \* PhObjectDeferDeleteListHead
          workItems, \* queued calls of PhpDeferDeleteObjectRoutine
          pc, target, \* per actor: control point, object it disposes of
          wasEmpty,  \* per thread: !oldFirstEntry
          todo,      \* per routine: the rest of the flushed list
          creates

vars == <<storage, word, index, holders, table, list, workItems, pc, target,
          wasEmpty, todo, creates>>
header == <<storage, word, index>>
sharing == <<holders, table, creates>>
deferring == <<list, workItems, wasEmpty, todo>>

Actors == Threads \cup Routines
Goto(a, label) == pc' = [pc EXCEPT ![a] = label]
Count(n) == [defer |-> FALSE, low |-> n]

Init == /\ storage = [o \in Objects |-> "free"]
        /\ word = [o \in Objects |-> Count(0)]
        /\ index = [o \in Objects |-> TypeIndex]
        /\ holders = [o \in Objects |-> {}]
        /\ table = {} /\ list = <<>> /\ workItems = 0
        /\ pc = [a \in Actors |-> "idle"]
        /\ target = [a \in Actors |-> NULL]
        /\ wasEmpty = [t \in Threads |-> FALSE]
        /\ todo = [r \in Routines |-> <<>>]
        /\ creates = 0
-----------------------------------------------------------------------------
\* PhCreateObject; the creator enters the object in the weak table.
Create(t) ==
    /\ pc[t] = "idle" /\ creates < MaxCreates
    /\ \E o \in Objects :
        /\ storage[o] = "free"
        /\ storage' = [storage EXCEPT ![o] = "allocated"]
        /\ word' = [word EXCEPT ![o] = Count(1)]
        /\ index' = [index EXCEPT ![o] = TypeIndex]
        /\ holders' = [holders EXCEPT ![o] = {t}]
        /\ table' = table \cup {o}
    /\ creates' = creates + 1
    /\ UNCHANGED <<deferring, pc, target>>

\* PhReferenceObject: t shares its object with u.
Reference(t) ==
    /\ pc[t] = "idle"
    /\ \E o \in Objects, u \in Threads :
        /\ t \in holders[o] /\ u \notin holders[o]
        /\ word' = [word EXCEPT ![o].low = @ + 1]
        /\ holders' = [holders EXCEPT ![o] = @ \cup {u}]
    /\ UNCHANGED <<storage, index, table, creates, deferring, pc, target>>

NotZero(w) == w.defer \/ w.low > 0
\* _InterlockedIncrementPositive
Positive(w) == ~w.defer /\ w.low > 0

\* PhReferenceObjectSafe on an object found in the table, its mutex held.
ReferenceSafe(t) ==
    /\ pc[t] = "idle"
    /\ \E o \in table :
        /\ t \notin holders[o] /\ Positive(word[o])
        /\ word' = [word EXCEPT ![o].low = @ + 1]
        /\ holders' = [holders EXCEPT ![o] = @ \cup {t}]
    /\ UNCHANGED <<storage, index, table, creates, deferring, pc, target>>

NoneLeft(n) == n - 1 = 0

\* PhDereferenceObject, PhDereferenceObjectEx
Dereference(t, deferDelete) ==
    /\ pc[t] = "idle"
    /\ \E o \in Objects :
        /\ t \in holders[o]
        /\ word' = [word EXCEPT ![o].low = @ - 1]
        /\ holders' = [holders EXCEPT ![o] = @ \ {t}]
        /\ IF NoneLeft(word[o].low)
           THEN /\ target' = [target EXCEPT ![t] = o]
                /\ Goto(t, IF deferDelete THEN "mark" ELSE "delete")
           ELSE UNCHANGED <<pc, target>>
    /\ UNCHANGED <<storage, index, table, creates, deferring>>
-----------------------------------------------------------------------------
(* PhpFreeObject, by a thread or by the deferred routine *)

\* DeleteProcedure takes the object out of the weak table, under its mutex.
Delete(a) ==
    /\ pc[a] = "delete"
    /\ table' = table \ {target[a]}
    /\ Goto(a, "release")
    /\ UNCHANGED <<header, holders, creates, deferring, target>>

\* PhFree or PhFreeToFreeList
Release(a) ==
    /\ pc[a] = "release"
    /\ storage' = [storage EXCEPT ![target[a]] = "free"]
    /\ target' = [target EXCEPT ![a] = NULL]
    /\ Goto(a, IF a \in Routines THEN "next" ELSE "idle")
    /\ UNCHANGED <<word, index, sharing, deferring>>
-----------------------------------------------------------------------------
(* PhpDeferDeleteObject *)

\* DeferDelete = 1: RefCount is negative from here on.
Marked(w) == [w EXCEPT !.defer = TRUE]

Mark(t) ==
    /\ pc[t] = "mark"
    /\ word' = [word EXCEPT ![target[t]] = Marked(@)]
    /\ Goto(t, "save")
    /\ UNCHANGED <<storage, index, sharing, deferring, target>>

Save(t) ==
    /\ pc[t] = "save"
    /\ word' = [word EXCEPT ![target[t]].low = index[target[t]]]
    /\ Goto(t, "first")
    /\ UNCHANGED <<storage, index, sharing, deferring, target>>

\* RtlFirstEntrySList
ReadFirst(t) ==
    /\ pc[t] = "first"
    /\ wasEmpty' = [wasEmpty EXCEPT ![t] = list = <<>>]
    /\ Goto(t, "push")
    /\ UNCHANGED <<header, sharing, list, workItems, todo, target>>

\* RtlInterlockedPushEntrySList
Push(t) ==
    /\ pc[t] = "push"
    /\ list' = <<target[t]>> \o list
    /\ index' = [index EXCEPT ![target[t]] = Link]
    /\ target' = [target EXCEPT ![t] = NULL]
    /\ Goto(t, IF wasEmpty[t] THEN "queueWork" ELSE "idle")
    /\ UNCHANGED <<storage, word, sharing, workItems, wasEmpty, todo>>

\* PhQueueItemWorkQueue(PhGetGlobalWorkQueue(), PhpDeferDeleteObjectRoutine)
QueueWork(t) ==
    /\ pc[t] = "queueWork"
    /\ workItems' = workItems + 1
    /\ Goto(t, "idle")
    /\ UNCHANGED <<header, sharing, list, wasEmpty, todo, target>>
-----------------------------------------------------------------------------
(* PhpDeferDeleteObjectRoutine *)

\* RtlInterlockedFlushSList
Flush(r) ==
    /\ pc[r] = "idle" /\ workItems > 0
    /\ workItems' = workItems - 1
    /\ todo' = [todo EXCEPT ![r] = list]
    /\ list' = <<>>
    /\ Goto(r, "next")
    /\ UNCHANGED <<header, sharing, wasEmpty, target>>

Restored(o) == word[o].low

\* Take the next object of the flushed list and restore TypeIndex.
Restore(r) ==
    /\ pc[r] = "next" /\ todo[r] # <<>>
    /\ LET o == Head(todo[r]) IN
       /\ index' = [index EXCEPT ![o] = Restored(o)]
       /\ target' = [target EXCEPT ![r] = o]
    /\ todo' = [todo EXCEPT ![r] = Tail(@)]
    /\ Goto(r, "delete")
    /\ UNCHANGED <<storage, word, sharing, list, workItems, wasEmpty>>

RoutineReturn(r) ==
    /\ pc[r] = "next" /\ todo[r] = <<>>
    /\ Goto(r, "idle")
    /\ UNCHANGED <<header, sharing, deferring, target>>
-----------------------------------------------------------------------------
Defer(t) == Mark(t) \/ Save(t) \/ ReadFirst(t) \/ Push(t) \/ QueueWork(t)
Routine(r) == Flush(r) \/ Restore(r) \/ RoutineReturn(r)
FreeObject(a) == Delete(a) \/ Release(a)

Next == \/ \E t \in Threads : \/ Create(t) \/ Reference(t) \/ ReferenceSafe(t)
                              \/ Dereference(t, FALSE) \/ Dereference(t, TRUE)
                              \/ Defer(t) \/ FreeObject(t)
        \/ \E r \in Routines : Routine(r) \/ FreeObject(r)

Spec == Init /\ [][Next]_vars
-----------------------------------------------------------------------------
Points == {"idle", "delete", "release", "mark", "save", "first", "push",
           "queueWork", "next"}

\* The type of the state.
TypeOK == /\ storage \in [Objects -> {"free", "allocated"}]
          /\ word \in [Objects -> [defer : BOOLEAN, low : Nat]]
          /\ index \in [Objects -> {TypeIndex, Link}]
          /\ holders \in [Objects -> SUBSET Threads]
          /\ table \subseteq Objects /\ list \in Seq(Objects) /\ workItems \in Nat
          /\ pc \in [Actors -> Points] /\ target \in [Actors -> Objects \cup {NULL}]
          /\ wasEmpty \in [Threads -> BOOLEAN] /\ todo \in [Routines -> Seq(Objects)]
          /\ creates \in Nat

Elements(s) == {s[k] : k \in DOMAIN s}
\* Objects whose last reference is gone and whose storage is not yet free.
Disposing == {target[a] : a \in Actors} \cup Elements(list)
             \cup UNION {Elements(todo[r]) : r \in Routines}

\* An object that somebody owns a reference to is allocated, nobody disposes of
\* it, and its count is exact: not even PhReferenceObjectSafe revives an object
\* whose count has been replaced by the saved type index.
OwnedIsAlive ==
    \A o \in Objects : holders[o] # {} =>
        /\ storage[o] = "allocated" /\ o \notin Disposing
        /\ word[o] = Count(Cardinality(holders[o]))

\* The weak table, read under its mutex, never points at freed storage.
TableIsSafe == \A o \in table : storage[o] = "allocated"

\* An object is disposed of once, however its last references are dropped: no
\* object is in two hands, and nobody's object is already free.
DisposedOnce ==
    /\ \A a, b \in Actors : a # b /\ target[a] # NULL => target[a] # target[b]
    /\ \A a \in Actors : target[a] \notin Elements(list)
    /\ \A o \in Disposing \ {NULL} : storage[o] = "allocated"

\* PhpFreeObject finds the object's own type, not a list pointer, in the header.
DeletedWithItsType == \A a \in Actors : pc[a] = "delete" => index[target[a]] = TypeIndex

\* No use after free, no double free and no deletion with the wrong type's procedure:
\* the four parts above, and the type of the state (no count goes below 0).
ObjectsSafe == TypeOK /\ OwnedIsAlive /\ TableIsSafe /\ DisposedOnce /\ DeletedWithItsType
=============================================================================
