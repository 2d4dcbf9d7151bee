------------------------------ MODULE QueuedLock ------------------------------
(***************************************************************************)
(* The queued lock of phlib/queuedlock.c with the inline operations of     *)
(* phlib/include/queuedlock.h.  QueuedLock->Value is either a count of     *)
(* shared owners or, once somebody waits, the head of a list of wait       *)
(* blocks that live on the stacks of the waiters: block[t] is the one of   *)
(* thread t.  A step is one access to Value or the visit of one block.     *)
(* A failing CAS returns the value it found, which becomes val[t].         *)
(***************************************************************************)
EXTENDS Integers, FiniteSets

CONSTANTS Threads, NULL,
          MaxOps  \* bound: acquisitions made by each thread

ASSUME QueuedLockAssumption == IsFiniteSet(Threads) /\ NULL \notin Threads /\ MaxOps \in Nat

VARIABLES value,       \* QueuedLock->Value
          block,       \* per thread: its wait block
          queued,      \* threads whose wait block is in use
          pc, val,     \* per thread: control point, local value
          found,       \* per thread: newValue, what its successful push replaced
          mode,        \* per thread: FALSE while in the slow path of a shared acquire
          at, first,   \* per thread: waitBlock, firstWaitBlock of a traversal
          caller,      \* per thread: where to go on after waking others
          ops

vars == <<value, block, queued, pc, val, found, mode, at, first, caller, ops>>

Counted(o, n) == [owned |-> o, waiters |-> FALSE, shared |-> n,
                  traversing |-> FALSE, multiple |-> FALSE, head |-> NULL]
Free == Counted(FALSE, 0)
Listed(b, multi) == [owned |-> TRUE, waiters |-> TRUE, shared |-> 0,
                     traversing |-> FALSE, multiple |-> multi, head |-> b]
NoBlock == [next |-> NULL, prev |-> NULL, last |-> NULL, sharedOwners |-> 0,
            exclusive |-> FALSE, spinning |-> FALSE]

Init == /\ value = Free
        /\ block = [t \in Threads |-> NoBlock] /\ queued = {}
        /\ pc = [t \in Threads |-> "idle"] /\ val = [t \in Threads |-> Free]
        /\ found = [t \in Threads |-> Free] /\ mode = [t \in Threads |-> TRUE]
        /\ at = [t \in Threads |-> NULL] /\ first = [t \in Threads |-> NULL]
        /\ caller = [t \in Threads |-> "idle"]
        /\ ops = [t \in Threads |-> 0]

Goto(t, label) == pc' = [pc EXCEPT ![t] = label]
Load(t, v) == val' = [val EXCEPT ![t] = v]

\* Control points that no longer need the local value: it is forgotten there.
Forgets == {"idle", "exclusive", "shared", "block"}

\* CAS of Value from val[t]: on success go to yes, otherwise reload and go to no.
Cas(t, new, yes, no) ==
    \/ /\ value = val[t] /\ value' = new
       /\ Goto(t, yes) /\ Load(t, IF yes \in Forgets THEN Free ELSE new)
    \/ /\ value # val[t] /\ UNCHANGED value
       /\ Goto(t, no) /\ Load(t, IF no \in Forgets THEN Free ELSE value)

traversal == <<at, first, caller>>
waitBlocks == <<block, queued, found>>
-----------------------------------------------------------------------------
(* Acquire *)

\* PhAcquireQueuedLockExclusive: bit test and set of OWNED, or the slow path.
AcquireExclusive(t) ==
    /\ pc[t] = "idle" /\ ops[t] < MaxOps
    /\ ops' = [ops EXCEPT ![t] = @ + 1]
    /\ value' = [value EXCEPT !.owned = TRUE]
    /\ Goto(t, IF value.owned THEN "read" ELSE "exclusive")
    /\ UNCHANGED <<waitBlocks, val, mode, traversal>>

\* PhAcquireQueuedLockShared: CAS from 0, or the slow path.
AcquireShared(t) ==
    /\ pc[t] = "idle" /\ ops[t] < MaxOps
    /\ ops' = [ops EXCEPT ![t] = @ + 1]
    /\ \/ /\ value = Free /\ value' = Counted(TRUE, 1)
          /\ Goto(t, "shared") /\ UNCHANGED mode
       \/ /\ value # Free /\ UNCHANGED value
          /\ Goto(t, "read") /\ mode' = [mode EXCEPT ![t] = FALSE]
    /\ UNCHANGED <<waitBlocks, val, traversal>>

\* PhTryAcquireQueuedLockExclusive
TryAcquireExclusive(t) ==
    /\ pc[t] = "idle" /\ ops[t] < MaxOps
    /\ ops' = [ops EXCEPT ![t] = @ + 1]
    /\ value' = [value EXCEPT !.owned = TRUE]
    /\ Goto(t, IF value.owned THEN "idle" ELSE "exclusive")
    /\ UNCHANGED <<waitBlocks, val, mode, traversal>>

\* PhfAcquireQueuedLockExclusive and PhfAcquireQueuedLockShared
SlowRead(t) ==
    /\ pc[t] = "read"
    /\ Load(t, value)
    /\ Goto(t, "acquire")
    /\ UNCHANGED <<value, waitBlocks, mode, traversal, ops>>

SharedBypass(v) == ~v.owned \/ v.shared > 0
MayShare(v) == ~v.waiters /\ (~v.owned \/ v.shared > 0)

SlowTakeExclusive(t) ==
    /\ pc[t] = "acquire" /\ mode[t] /\ ~val[t].owned
    /\ Cas(t, [val[t] EXCEPT !.owned = TRUE], "exclusive", "acquire")
    /\ UNCHANGED <<waitBlocks, mode, traversal, ops>>

SlowTakeShared(t) ==
    /\ pc[t] = "acquire" /\ ~mode[t] /\ MayShare(val[t])
    /\ Cas(t, [val[t] EXCEPT !.owned = TRUE, !.shared = @ + 1], "shared", "acquire")
    /\ mode' = [mode EXCEPT ![t] = (value = val[t])]
    /\ UNCHANGED <<waitBlocks, traversal, ops>>

\* PhpPushQueuedWaitBlock, second or later waiter.
PushedOn(t) ==
    [block |-> [NoBlock EXCEPT !.next = val[t].head, !.exclusive = mode[t], !.spinning = TRUE],
     value |-> [val[t] EXCEPT !.head = t, !.traversing = TRUE]]
\* PhpPushQueuedWaitBlock, first waiter: the count of shared owners moves here.
Saved(v) == v.shared
PushedFirst(t) ==
    [block |-> [NoBlock EXCEPT !.last = t, !.sharedOwners = IF mode[t] THEN Saved(val[t]) ELSE 0,
                               !.exclusive = mode[t], !.spinning = TRUE],
     value |-> Listed(t, mode[t] /\ val[t].shared > 1)]

\* Only the thread that sets the traversing bit optimizes the list.
MustOptimize(v) == v.waiters /\ ~v.traversing

Push(t) ==
    /\ pc[t] = "acquire"
    /\ IF mode[t] THEN val[t].owned ELSE ~MayShare(val[t])
    /\ LET pushed == IF val[t].waiters THEN PushedOn(t) ELSE PushedFirst(t) IN
       /\ Cas(t, pushed.value,
              IF MustOptimize(val[t]) THEN "optimize" ELSE "block",
              "acquire")
       /\ IF value = val[t]
          THEN /\ block' = [block EXCEPT ![t] = pushed.block]
               /\ queued' = queued \cup {t}
               /\ found' = [found EXCEPT ![t] = value]
          ELSE UNCHANGED waitBlocks
    /\ UNCHANGED <<mode, traversal, ops>>
-----------------------------------------------------------------------------
(* PhpBlockOnQueuedWaitBlock, PhpUnblockQueuedWaitBlock *)

\* The waiter goes round again with the value its push replaced; that it is stale
\* is found out by the next CAS.
Resume(t) == /\ queued' = queued \ {t}
             /\ block' = [block EXCEPT ![t] = NoBlock]
             /\ Load(t, found[t])
             /\ found' = [found EXCEPT ![t] = Free]
             /\ caller' = [caller EXCEPT ![t] = "idle"]

\* Spinning, or the bit test and reset, finds that the thread was woken already.
BlockOver(t) ==
    /\ pc[t] = "block" /\ ~block[t].spinning
    /\ Goto(t, "acquire") /\ Resume(t)
    /\ UNCHANGED <<value, mode, at, first, ops>>

\* The spinning bit is reset by the waiter: it waits for the keyed event.
BlockKeyed(t) ==
    /\ pc[t] = "block" /\ block[t].spinning
    /\ block' = [block EXCEPT ![t].spinning = FALSE]
    /\ Goto(t, "keyed")
    /\ UNCHANGED <<value, queued, found, val, mode, traversal, ops>>

\* The next waiter to wake, or back to the caller of PhpfWakeQueuedLock.
GoOnWaking(t, b) == /\ at' = [at EXCEPT ![t] = b] /\ first' = [first EXCEPT ![t] = NULL]
                    /\ Goto(t, IF b = NULL THEN caller[t] ELSE "unblock")

UnblockSpinning(t) ==
    /\ pc[t] = "unblock" /\ block[at[t]].spinning
    /\ block' = [block EXCEPT ![at[t]].spinning = FALSE]
    /\ GoOnWaking(t, block[at[t]].prev)
    /\ UNCHANGED <<value, queued, found, val, mode, caller, ops>>

\* previousWaitBlock is kept in first[t] while the thread is in NtReleaseKeyedEvent.
UnblockBlocked(t) ==
    /\ pc[t] = "unblock" /\ ~block[at[t]].spinning
    /\ first' = [first EXCEPT ![t] = block[at[t]].prev]
    /\ Goto(t, "rendezvous")
    /\ UNCHANGED <<value, waitBlocks, val, mode, at, caller, ops>>

\* NtReleaseKeyedEvent meets NtWaitForKeyedEvent on the same block.
Rendezvous(t, w) ==
    /\ pc[t] = "rendezvous" /\ at[t] = w /\ pc[w] = "keyed"
    /\ Resume(w)
    /\ at' = [at EXCEPT ![t] = first[t]] /\ first' = [first EXCEPT ![t] = NULL]
    /\ pc' = [pc EXCEPT ![w] = "acquire",
                        ![t] = IF first[t] = NULL THEN caller[t] ELSE "unblock"]
    /\ UNCHANGED <<value, mode, ops>>
-----------------------------------------------------------------------------
(* PhpOptimizeQueuedLockListEx: set Previous pointers and the first block's Last *)

\* waitBlock and firstWaitBlock are set again before they are used again.
Returned(t) == at' = [at EXCEPT ![t] = NULL] /\ first' = [first EXCEPT ![t] = NULL]

NeverRequested(v) == FALSE
\* "Someone has requested that we wake waiters."
WakeRequested(v) == ~v.owned

OptimizeTop(t) ==
    /\ pc[t] = "optimize"
    /\ at' = [at EXCEPT ![t] = val[t].head] /\ first' = [first EXCEPT ![t] = val[t].head]
    /\ caller' = [caller EXCEPT ![t] = "block"]
    /\ Goto(t, IF WakeRequested(val[t]) THEN "wake" ELSE "optimizeVisit")
    /\ UNCHANGED <<value, waitBlocks, val, mode, ops>>

\* Follow Next and set its Previous.
FollowNext(t) == LET n == block[at[t]].next IN
    /\ block[at[t]].last = NULL
    /\ block' = [block EXCEPT ![n].prev = at[t]]
    /\ at' = [at EXCEPT ![t] = n]

OptimizeVisit(t) ==
    /\ pc[t] = "optimizeVisit"
    /\ \/ FollowNext(t) /\ UNCHANGED pc
       \/ /\ block[at[t]].last # NULL
          /\ block' = [block EXCEPT ![first[t]].last = block[at[t]].last]
          /\ Goto(t, "optimizeDone") /\ UNCHANGED at
    /\ UNCHANGED <<value, queued, found, val, mode, first, caller, ops>>

OptimizeDone(t) ==
    /\ pc[t] = "optimizeDone"
    /\ Cas(t, [val[t] EXCEPT !.traversing = FALSE], "block", "optimize")
    /\ Returned(t)
    /\ UNCHANGED <<waitBlocks, mode, caller, ops>>
-----------------------------------------------------------------------------
(* PhpfWakeQueuedLock, PhpPrepareToWakeQueuedLock *)

\* "There's no point in waking a waiter if the lock is owned."
WakeNoPoint(t) ==
    /\ pc[t] = "wake" /\ val[t].owned
    /\ Cas(t, [val[t] EXCEPT !.traversing = FALSE], caller[t], "wake")
    /\ UNCHANGED <<waitBlocks, mode, traversal, ops>>

WakeTop(t) ==
    /\ pc[t] = "wake" /\ ~val[t].owned
    /\ at' = [at EXCEPT ![t] = val[t].head] /\ first' = [first EXCEPT ![t] = val[t].head]
    /\ Goto(t, "wakeVisit")
    /\ UNCHANGED <<value, waitBlocks, val, mode, caller, ops>>

\* Wake this exclusive waiter only: it is not the only one.
WakeOne(b) == b.exclusive /\ b.prev # NULL

WakeVisit(t) ==
    /\ pc[t] = "wakeVisit"
    /\ \/ FollowNext(t) /\ UNCHANGED pc
       \/ LET l == block[at[t]].last IN
          /\ l # NULL
          /\ at' = [at EXCEPT ![t] = l]
          /\ Goto(t, IF WakeOne(block[l]) THEN "unlink" ELSE "wakeAll")
          /\ UNCHANGED block
    /\ UNCHANGED <<value, queued, found, val, mode, first, caller, ops>>

PreviousKept(b) == b.prev
\* "Make sure we only wake this waiter."
PreviousCleared(b) == NULL

\* firstWaitBlock->Last = previousWaitBlock; waitBlock->Previous = NULL
Unlink(t) ==
    /\ pc[t] = "unlink"
    /\ LET w == at[t] IN
       block' = [b \in Threads |->
                   [block[b] EXCEPT !.last = IF b = first[t] THEN block[w].prev ELSE @,
                                    !.prev = IF b = w THEN PreviousCleared(block[b]) ELSE @]]
    /\ Goto(t, "unlinked")
    /\ UNCHANGED <<value, queued, found, val, mode, traversal, ops>>

\* _InterlockedExchangeAddPointer(&Value, -TRAVERSING)
Unlinked(t) ==
    /\ pc[t] = "unlinked"
    /\ value' = [value EXCEPT !.traversing = FALSE]
    /\ Goto(t, "unblock") /\ Load(t, Free)
    /\ UNCHANGED <<waitBlocks, mode, traversal, ops>>

\* The whole list is taken: CAS of Value to 0.
WakeAll(t) ==
    /\ pc[t] = "wakeAll"
    /\ Cas(t, Free, "unblock", "wake")
    /\ IF value = val[t] THEN UNCHANGED <<at, first>> ELSE Returned(t)
    /\ UNCHANGED <<waitBlocks, mode, caller, ops>>
-----------------------------------------------------------------------------
(* Release of the exclusive lock *)

ReturnTo(t, label) == caller' = [caller EXCEPT ![t] = label]

\* PhReleaseQueuedLockExclusive
ReleaseExclusive(t) ==
    /\ pc[t] = "exclusive"
    /\ value' = [value EXCEPT !.owned = FALSE]
    /\ IF value.waiters /\ ~value.traversing
       THEN Goto(t, "wakeForRelease") /\ Load(t, value')
       ELSE Goto(t, "idle") /\ UNCHANGED val
    /\ UNCHANGED <<waitBlocks, mode, traversal, ops>>

\* PhfWakeForReleaseQueuedLock
WakeForRelease(t) ==
    /\ pc[t] = "wakeForRelease"
    /\ Cas(t, [val[t] EXCEPT !.traversing = TRUE], "wake", "idle")
    /\ ReturnTo(t, "idle")
    /\ UNCHANGED <<waitBlocks, mode, at, first, ops>>

\* PhfReleaseQueuedLockExclusive, the function behind the inline one.
ReleaseExclusiveRead(t) ==
    /\ pc[t] = "exclusive"
    /\ Load(t, value)
    /\ Goto(t, "release")
    /\ UNCHANGED <<value, waitBlocks, mode, traversal, ops>>

ReleaseExclusiveCas(t) ==
    /\ pc[t] = "release"
    /\ \/ /\ ~val[t].waiters \/ val[t].traversing
          /\ Cas(t, [val[t] EXCEPT !.owned = FALSE], "idle", "release")
       \/ /\ val[t].waiters /\ ~val[t].traversing
          /\ Cas(t, [val[t] EXCEPT !.owned = FALSE, !.traversing = TRUE], "wake", "release")
    /\ ReturnTo(t, "idle")
    /\ UNCHANGED <<waitBlocks, mode, at, first, ops>>
-----------------------------------------------------------------------------
(* Release of the shared lock *)

\* PhReleaseQueuedLockShared: CAS from one shared owner to 0, or the slow path.
ReleaseShared(t) ==
    /\ pc[t] = "shared"
    /\ IF value = Counted(TRUE, 1)
       THEN value' = Free /\ Goto(t, "idle")
       ELSE Goto(t, "readShared") /\ UNCHANGED value
    /\ UNCHANGED <<waitBlocks, val, mode, traversal, ops>>

\* PhfReleaseQueuedLockShared
ReleaseSharedRead(t) ==
    /\ pc[t] = "readShared"
    /\ Load(t, value)
    /\ Goto(t, "releaseShared")
    /\ UNCHANGED <<value, waitBlocks, mode, traversal, ops>>

ReleaseSharedCas(t) ==
    /\ pc[t] = "releaseShared" /\ ~val[t].waiters
    /\ Cas(t, IF val[t].shared > 1 THEN [val[t] EXCEPT !.shared = @ - 1] ELSE Free,
           "idle", "releaseShared")
    /\ UNCHANGED <<waitBlocks, mode, traversal, ops>>

ReleaseSharedWaiters(t) ==
    /\ pc[t] = "releaseShared" /\ val[t].waiters
    /\ IF val[t].multiple THEN Goto(t, "findLast") /\ at' = [at EXCEPT ![t] = val[t].head]
                          ELSE Goto(t, "clearOwned") /\ UNCHANGED at
    /\ UNCHANGED <<value, waitBlocks, val, mode, first, caller, ops>>

\* PhpFindLastQueuedWaitBlock
FindLast(t) ==
    /\ pc[t] = "findLast"
    /\ LET b == block[at[t]] IN
       /\ at' = [at EXCEPT ![t] = IF b.last # NULL THEN b.last ELSE b.next]
       /\ Goto(t, IF b.last # NULL THEN "decrement" ELSE "findLast")
    /\ UNCHANGED <<value, waitBlocks, val, mode, first, caller, ops>>

LastShared(n) == n = 0

\* _InterlockedDecrement(&waitBlock->SharedOwners)
Decrement(t) ==
    /\ pc[t] = "decrement"
    /\ block' = [block EXCEPT ![at[t]].sharedOwners = @ - 1]
    /\ IF LastShared(block[at[t]].sharedOwners - 1)
       THEN Goto(t, "clearOwned") /\ UNCHANGED val
       ELSE Goto(t, "idle") /\ Load(t, Free)
    /\ Returned(t)
    /\ UNCHANGED <<value, queued, found, mode, caller, ops>>

Cleared(v) == [v EXCEPT !.owned = FALSE, !.multiple = FALSE, !.traversing = TRUE]

ClearOwned(t) ==
    /\ pc[t] = "clearOwned"
    /\ Cas(t, Cleared(val[t]),
           IF val[t].traversing THEN "idle" ELSE "wake", "clearOwned")
    /\ ReturnTo(t, "idle")
    /\ UNCHANGED <<waitBlocks, mode, at, first, ops>>
-----------------------------------------------------------------------------
Acquire(t) == AcquireExclusive(t) \/ AcquireShared(t) \/ TryAcquireExclusive(t)
SlowAcquire(t) == SlowRead(t) \/ SlowTakeExclusive(t) \/ SlowTakeShared(t) \/ Push(t)
Block(t) == BlockOver(t) \/ BlockKeyed(t)
Optimize(t) == OptimizeTop(t) \/ OptimizeVisit(t) \/ OptimizeDone(t)
Wake(t) == \/ WakeNoPoint(t) \/ WakeTop(t) \/ WakeVisit(t) \/ Unlink(t) \/ Unlinked(t)
           \/ WakeAll(t) \/ UnblockSpinning(t) \/ UnblockBlocked(t)
           \/ \E w \in Threads : Rendezvous(t, w)
Release(t) == \/ ReleaseExclusive(t) \/ WakeForRelease(t)
              \/ ReleaseExclusiveRead(t) \/ ReleaseExclusiveCas(t)
              \/ ReleaseShared(t) \/ ReleaseSharedRead(t)
              \/ ReleaseSharedCas(t) \/ ReleaseSharedWaiters(t)
              \/ FindLast(t) \/ Decrement(t) \/ ClearOwned(t)
Step(t) == Acquire(t) \/ SlowAcquire(t) \/ Block(t) \/ Optimize(t) \/ Wake(t) \/ Release(t)

Next == \E t \in Threads : Step(t)

\* Threads are scheduled and owners release the lock.
Spec == Init /\ [][Next]_vars
FairSpec == Spec /\ \A t \in Threads : WF_vars(Step(t))
-----------------------------------------------------------------------------
Waiting == {"optimize", "optimizeVisit", "optimizeDone", "block", "keyed"}
Waking == {"wake", "wakeVisit", "unlink", "unlinked", "wakeAll", "unblock", "rendezvous"}
Releasing == {"wakeForRelease", "release", "readShared", "releaseShared", "findLast", "decrement",
              "clearOwned"}
MaybeThread == Threads \cup {NULL}
Words == [owned : BOOLEAN, waiters : BOOLEAN, shared : Nat, traversing : BOOLEAN,
          multiple : BOOLEAN, head : MaybeThread]

\* The type of the state.
TypeOK ==
    /\ value \in Words /\ queued \subseteq Threads
    /\ block \in [Threads -> [next : MaybeThread, prev : MaybeThread, last : MaybeThread,
                              sharedOwners : Nat, exclusive : BOOLEAN, spinning : BOOLEAN]]
    /\ pc \in [Threads -> {"idle", "read", "acquire", "exclusive", "shared"}
                            \cup Waiting \cup Waking \cup Releasing]
    /\ val \in [Threads -> Words] /\ found \in [Threads -> Words]
    /\ mode \in [Threads -> BOOLEAN]
    /\ at \in [Threads -> MaybeThread] /\ first \in [Threads -> MaybeThread]
    /\ caller \in [Threads -> {"idle", "block"}] /\ ops \in [Threads -> Nat]

Exclusive == {t \in Threads : pc[t] \in {"exclusive", "release"}}
Shared == {t \in Threads : pc[t] = "shared"}

RW == INSTANCE RWLock WITH exclusive <- Exclusive, shared <- Shared

\* The queued lock implements the reader-writer lock: whatever path acquires it,
\* owners exclude each other as they should.
ImplementsRWLock == RW!Spec

Traversers == {t \in Threads : pc[t] \in {"optimize", "optimizeVisit", "optimizeDone", "wake",
                                          "wakeVisit", "unlink", "unlinked", "wakeAll"}}

\* queuedlock.c:36-40 and 44-47: the traversing bit is set exactly while one thread
\* optimizes the list or prepares to wake, and never two of them.
OneTraverser == /\ Cardinality(Traversers) <= 1
                /\ value.traversing <=> Traversers # {}

\* The assertions of PhpPrepareToWakeQueuedLock and PhpOptimizeQueuedLockListEx: no
\* waiter is woken while several shared owners may be walking the list.
WakeAssertions ==
    \A t \in Threads :
        /\ pc[t] \in {"wake", "optimize"} => val[t].traversing
        /\ pc[t] = "wake" => ~val[t].multiple
        /\ pc[t] \in {"unlink", "unlinked", "unblock", "rendezvous"}
             => \A s \in Threads : pc[s] \notin {"findLast", "decrement"} \/ at[s] # at[t]

\* A thread that follows a pointer to a wait block finds the block of a thread
\* that is still waiting: stack frames are not left while others use them.
BlocksLive ==
    \A t \in Threads :
        pc[t] \in {"optimizeVisit", "wakeVisit", "unlink", "wakeAll", "unblock",
                   "rendezvous", "findLast", "decrement"} => at[t] \in queued

\* The list of wait blocks is sound: the three parts above, and the type of the state.
ListSound == TypeOK /\ OneTraverser /\ WakeAssertions /\ BlocksLive

\* Every thread gets through its acquisitions: no waiter is forgotten, whoever
\* cleared OWNED while another thread was traversing.
EveryoneFinishes == <>(\A t \in Threads : pc[t] = "idle" /\ ops[t] = MaxOps)
=============================================================================
