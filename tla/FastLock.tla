------------------------------- MODULE FastLock -------------------------------
(***************************************************************************)
(* The fast resource lock of phlib/fastlock.c.  The five fields of Value   *)
(* are a record; every operation reads the whole word, decides what to do  *)
(* and installs the new word with one CAS.  Decide(k, v) is what operation *)
(* k does when it finds v: the new word and where the thread goes next.    *)
(* The wake events are semaphores; they are created before anyone can wait *)
(* or be counted, so only their counts are kept.  Spinning before a wait   *)
(* repeats the read and changes nothing.                                   *)
(***************************************************************************)
EXTENDS Integers, FiniteSets

CONSTANTS Threads,
          MaxOps   \* bound: acquisitions attempted by each thread

ASSUME FastLockAssumption == IsFiniteSet(Threads) /\ MaxOps \in Nat

VARIABLES value,          \* FastLock->Value
          exclusiveWake,  \* tokens of ExclusiveWakeEvent
          sharedWake,     \* tokens of SharedWakeEvent
          pc,             \* per thread: what it is doing
          op, seen,       \* the operation it is in, the word it read
          ops             \* acquisitions attempted so far

vars == <<value, exclusiveWake, sharedWake, pc, op, seen, ops>>
wakes == <<exclusiveWake, sharedWake>>

Unowned == [owned |-> FALSE, waking |-> FALSE, sharedOwners |-> 0,
            sharedWaiters |-> 0, exclusiveWaiters |-> 0]

Init == /\ value = Unowned
        /\ exclusiveWake = 0 /\ sharedWake = 0
        /\ pc = [t \in Threads |-> "idle"]
        /\ op = [t \in Threads |-> "none"]
        /\ seen = [t \in Threads |-> Unowned]
        /\ ops = [t \in Threads |-> 0]
-----------------------------------------------------------------------------
\* PH_LOCK_EXCLUSIVE_MASK
ExclusiveMask(v) == v.waking \/ v.exclusiveWaiters > 0

Becomes(v, next) == [word |-> v, next |-> next]

OwnedOnly(v) == ~v.owned
FreeToTake(v) == ~v.owned /\ ~v.waking

AcquireExclusive(v) ==
    IF FreeToTake(v)
    THEN Becomes([v EXCEPT !.owned = TRUE], "exclusive")
    ELSE Becomes([v EXCEPT !.exclusiveWaiters = @ + 1], "exclusiveWait")

\* Shared acquirers stand back when an exclusive one waits or is being woken.
StandBack(v) == ExclusiveMask(v)

AcquireShared(v) ==
    CASE ~v.owned /\ v.sharedOwners = 0 /\ ~StandBack(v) ->
            Becomes([v EXCEPT !.owned = TRUE, !.sharedOwners = @ + 1], "shared")
      [] v.owned /\ v.sharedOwners > 0 /\ ~StandBack(v) ->
            Becomes([v EXCEPT !.sharedOwners = @ + 1], "shared")
      [] OTHER ->
            Becomes([v EXCEPT !.sharedWaiters = @ + 1], "sharedWait")

\* The woken exclusive waiter turns EXCLUSIVE_WAKING into OWNED.
Woken(v) == Becomes([v EXCEPT !.owned = TRUE, !.waking = FALSE], "exclusive")

HasExclusiveWaiters(v) == v.exclusiveWaiters > 0

ReleaseExclusive(v) ==
    IF HasExclusiveWaiters(v)
    THEN Becomes([v EXCEPT !.owned = FALSE, !.waking = TRUE, !.exclusiveWaiters = @ - 1],
                 "wakeExclusive")
    ELSE Becomes([v EXCEPT !.owned = FALSE, !.sharedWaiters = 0],
                 IF v.sharedWaiters > 0 THEN "wakeShared" ELSE "idle")

ReleaseShared(v) ==
    CASE v.sharedOwners > 1 ->
            Becomes([v EXCEPT !.sharedOwners = @ - 1], "idle")
      [] v.sharedOwners <= 1 /\ v.exclusiveWaiters > 0 ->
            Becomes([v EXCEPT !.owned = FALSE, !.waking = TRUE, !.sharedOwners = @ - 1,
                              !.exclusiveWaiters = @ - 1], "wakeExclusive")
      [] v.sharedOwners <= 1 /\ v.exclusiveWaiters = 0 ->
            Becomes([v EXCEPT !.owned = FALSE, !.sharedOwners = @ - 1], "idle")

TryAcquireExclusive(v) ==
    IF v.owned \/ v.waking THEN Becomes(v, "idle") ELSE AcquireExclusive(v)

TryAcquireShared(v) ==
    IF ExclusiveMask(v) \/ (v.owned /\ v.sharedOwners = 0)
    THEN Becomes(v, "idle") ELSE AcquireShared(v)

Decide(k, v) == CASE k = "AcquireExclusive"    -> AcquireExclusive(v)
                  [] k = "AcquireShared"       -> AcquireShared(v)
                  [] k = "TryAcquireExclusive" -> TryAcquireExclusive(v)
                  [] k = "TryAcquireShared"    -> TryAcquireShared(v)
                  [] k = "ReleaseExclusive"    -> ReleaseExclusive(v)
                  [] k = "ReleaseShared"       -> ReleaseShared(v)
                  [] k = "Woken"               -> Woken(v)
Tries == {"TryAcquireExclusive", "TryAcquireShared"}
Acquires == {"AcquireExclusive", "AcquireShared"} \cup Tries
-----------------------------------------------------------------------------
\* Begin operation k: read the word.
Begin(t, k) ==
    /\ op' = [op EXCEPT ![t] = k]
    /\ seen' = [seen EXCEPT ![t] = value]
    /\ pc' = [pc EXCEPT ![t] = "cas"]
    /\ UNCHANGED <<value, wakes>>

Acquire(t) ==
    /\ pc[t] = "idle" /\ ops[t] < MaxOps
    /\ ops' = [ops EXCEPT ![t] = @ + 1]
    /\ \E k \in Acquires : Begin(t, k)

Release(t) ==
    /\ \/ pc[t] = "exclusive" /\ Begin(t, "ReleaseExclusive")
       \/ pc[t] = "shared" /\ Begin(t, "ReleaseShared")
    /\ UNCHANGED ops

Cas(t) ==
    /\ pc[t] = "cas" /\ value = seen[t]
    /\ value' = Decide(op[t], seen[t]).word
    /\ pc' = [pc EXCEPT ![t] = Decide(op[t], seen[t]).next]
    /\ UNCHANGED <<wakes, op, seen, ops>>

\* The word has changed: read it again; the Try functions give up.
CasFails(t) ==
    /\ pc[t] = "cas" /\ value # seen[t]
    /\ \/ op[t] \notin Tries /\ Begin(t, op[t])
       \/ op[t] \in Tries /\ pc' = [pc EXCEPT ![t] = "idle"]
                          /\ UNCHANGED <<value, wakes, op, seen>>
    /\ UNCHANGED ops

\* NtWaitForSingleObject(ExclusiveWakeEvent)
ExclusiveWoken(t) ==
    /\ pc[t] = "exclusiveWait" /\ exclusiveWake > 0
    /\ exclusiveWake' = exclusiveWake - 1
    /\ op' = [op EXCEPT ![t] = "Woken"]
    /\ seen' = [seen EXCEPT ![t] = value]
    /\ pc' = [pc EXCEPT ![t] = "cas"]
    /\ UNCHANGED <<value, sharedWake, ops>>

\* NtWaitForSingleObject(SharedWakeEvent), and the loop begins again.
SharedWoken(t) ==
    /\ pc[t] = "sharedWait" /\ sharedWake > 0
    /\ sharedWake' = sharedWake - 1
    /\ op' = [op EXCEPT ![t] = "AcquireShared"]
    /\ seen' = [seen EXCEPT ![t] = value]
    /\ pc' = [pc EXCEPT ![t] = "cas"]
    /\ UNCHANGED <<value, exclusiveWake, ops>>

OneSharedWaiter(v) == 1
\* The waiters a release of the exclusive lock has taken out of the word.
WakeAll(v) == v.sharedWaiters

\* NtReleaseSemaphore, after the CAS
Wake(t) ==
    /\ \/ /\ pc[t] = "wakeExclusive"
          /\ exclusiveWake' = exclusiveWake + 1 /\ UNCHANGED sharedWake
       \/ /\ pc[t] = "wakeShared"
          /\ sharedWake' = sharedWake + WakeAll(seen[t]) /\ UNCHANGED exclusiveWake
    /\ pc' = [pc EXCEPT ![t] = "idle"]
    /\ UNCHANGED <<value, op, seen, ops>>

Step(t) == \/ Acquire(t) \/ Release(t) \/ Cas(t) \/ CasFails(t)
           \/ ExclusiveWoken(t) \/ SharedWoken(t) \/ Wake(t)

Next == \E t \in Threads : Step(t)

\* Threads are scheduled and owners release the lock.
Spec == Init /\ [][Next]_vars
FairSpec == Spec /\ \A t \in Threads : WF_vars(Step(t))
-----------------------------------------------------------------------------
Words == [owned : BOOLEAN, waking : BOOLEAN, sharedOwners : Nat,
          sharedWaiters : Nat, exclusiveWaiters : Nat]

\* The type of the state.
TypeOK ==
    /\ value \in Words /\ exclusiveWake \in Nat /\ sharedWake \in Nat
    /\ pc \in [Threads -> {"idle", "cas", "exclusive", "shared", "exclusiveWait",
                           "sharedWait", "wakeExclusive", "wakeShared"}]
    /\ op \in [Threads -> Acquires \cup {"none", "ReleaseExclusive", "ReleaseShared", "Woken"}]
    /\ seen \in [Threads -> Words] /\ ops \in [Threads -> Nat]

Releasing(t, k) == pc[t] = "cas" /\ op[t] = k
ExclusiveOwners == {t \in Threads : pc[t] = "exclusive" \/ Releasing(t, "ReleaseExclusive")}
SharedOwners == {t \in Threads : pc[t] = "shared" \/ Releasing(t, "ReleaseShared")}
Waking == {t \in Threads : pc[t] = "wakeExclusive" \/ Releasing(t, "Woken")}

\* An exclusive owner is alone; and the word tells who owns the lock.
MutualExclusion ==
    /\ Cardinality(ExclusiveOwners) <= 1
    /\ ExclusiveOwners # {} => SharedOwners = {}
    /\ value.owned <=> ExclusiveOwners \cup SharedOwners # {}
    /\ value.sharedOwners = Cardinality(SharedOwners)

\* EXCLUSIVE_WAKING stands for exactly one hand-over: a release that has not yet
\* posted the semaphore, a token, or a woken thread; meanwhile nobody owns the lock.
OneHandOver ==
    /\ Cardinality(Waking) + exclusiveWake = IF value.waking THEN 1 ELSE 0
    /\ value.waking => ~value.owned

\* The tokens that thread t will post, and those of all threads about to post.
Post(t) == {t} \X (1..WakeAll(seen[t]))
Posts == UNION {Post(t) : t \in {t \in Threads : pc[t] = "wakeShared"}}

\* No wake-up is lost even when a late waiter takes an earlier waiter's token:
\* blocked threads are exactly covered by the counts in the word, the tokens and
\* the posts to come; and somebody is there to wake them.
NobodyForgotten ==
    /\ Cardinality({t \in Threads : pc[t] = "exclusiveWait"})
         = value.exclusiveWaiters + exclusiveWake
           + Cardinality({t \in Threads : pc[t] = "wakeExclusive"})
    /\ Cardinality({t \in Threads : pc[t] = "sharedWait"})
         = value.sharedWaiters + sharedWake + Cardinality(Posts)
    /\ value.exclusiveWaiters > 0 => value.owned \/ value.waking
    /\ value.sharedWaiters > 0 => ExclusiveMask(value) \/ ExclusiveOwners # {}

\* The hand-over and the wake-ups together.
WakeUpsExact == OneHandOver /\ NobodyForgotten

\* Every thread gets through all its acquisitions: nobody waits for ever.
EveryoneFinishes == <>(\A t \in Threads : pc[t] = "idle" /\ ops[t] = MaxOps)
=============================================================================
