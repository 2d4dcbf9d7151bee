----------------------- MODULE FastLockCallbackProofs -----------------------
(***************************************************************************)
(* Proofs about the fast lock for any finite set of threads and any number *)
(* of acquisitions, and about callbacks for any finite sets of clients and *)
(* invokers.  What the runs of the fast lock check is inductive once it is *)
(* joined with the type of the state: the word counts the threads that own *)
(* the lock, the ones that wait and the hand-over under way.               *)
(***************************************************************************)
EXTENDS FastLock, Callback, FiniteSetTheorems, SequenceTheorems, TLAPS

\* The other threads that the invariant counts.
ExclusiveWaiting == {t \in Threads : pc[t] = "exclusiveWait"}
SharedWaiting == {t \in Threads : pc[t] = "sharedWait"}
Handing == {t \in Threads : pc[t] = "wakeExclusive"}

\* A thread at its CAS is inside an operation.
InOperation == \A t \in Threads : pc[t] = "cas" => op[t] # "none"

IInv == TypeOK /\ InOperation /\ IsFiniteSet(Posts) /\ MutualExclusion /\ WakeUpsExact
-----------------------------------------------------------------------------
\* Where a thread in operation k at control point p is counted.
OwnsExclusive(p, k) == p = "exclusive" \/ (p = "cas" /\ k = "ReleaseExclusive")
OwnsShared(p, k) == p = "shared" \/ (p = "cas" /\ k = "ReleaseShared")
HandsOver(p, k) == p = "wakeExclusive" \/ (p = "cas" /\ k = "Woken")

\* How many threads there are in each group, and how many posts to come.
NExclusive == Cardinality(ExclusiveOwners)
NShared == Cardinality(SharedOwners)
NWaking == Cardinality(Waking)
NExclusiveWaiting == Cardinality(ExclusiveWaiting)
NSharedWaiting == Cardinality(SharedWaiting)
NHanding == Cardinality(Handing)
NPosts == Cardinality(Posts)

\* The invariants as relations between these numbers, the word and the semaphores.
OwnersBalance ==
    /\ NExclusive \in Nat /\ NShared \in Nat /\ NWaking \in Nat /\ exclusiveWake \in Nat
    /\ NExclusive <= 1 /\ (NExclusive = 1 => NShared = 0)
    /\ value.owned <=> NExclusive + NShared > 0
    /\ value.sharedOwners = NShared
    /\ value.waking => NWaking + exclusiveWake = 1
    /\ ~value.waking => NWaking + exclusiveWake = 0
    /\ value.waking => ~value.owned

WaitersBalance ==
    /\ value.exclusiveWaiters \in Nat /\ value.sharedWaiters \in Nat
    /\ NHanding \in Nat /\ NPosts \in Nat /\ sharedWake \in Nat
    /\ NExclusiveWaiting = value.exclusiveWaiters + exclusiveWake + NHanding
    /\ NSharedWaiting = value.sharedWaiters + sharedWake + NPosts
    /\ value.exclusiveWaiters > 0 => value.owned \/ value.waking
    /\ value.sharedWaiters > 0 => ExclusiveMask(value) \/ NExclusive = 1

Balance == OwnersBalance /\ WaitersBalance

\* The number n of threads in a group becomes m when one thread, which was in the group
\* or was not, is in it afterwards or is not.
Recount(n, m, before, after) ==
    /\ (before <=> after) => m = n
    /\ before /\ ~after => m = n - 1
    /\ ~before /\ after => m = n + 1
    /\ before => n > 0

\* What becomes of the numbers when t goes to p in operation k.
Moved(t, p, k) ==
    /\ Recount(NExclusive, NExclusive', OwnsExclusive(pc[t], op[t]), OwnsExclusive(p, k))
    /\ Recount(NShared, NShared', OwnsShared(pc[t], op[t]), OwnsShared(p, k))
    /\ Recount(NWaking, NWaking', HandsOver(pc[t], op[t]), HandsOver(p, k))
    /\ Recount(NExclusiveWaiting, NExclusiveWaiting', pc[t] = "exclusiveWait", p = "exclusiveWait")
    /\ Recount(NSharedWaiting, NSharedWaiting', pc[t] = "sharedWait", p = "sharedWait")
    /\ Recount(NHanding, NHanding', pc[t] = "wakeExclusive", p = "wakeExclusive")
    /\ pc[t] # "wakeShared" /\ p # "wakeShared" => NPosts' = NPosts
    /\ pc[t] # "wakeShared" /\ p = "wakeShared" => NPosts' = NPosts + seen'[t].sharedWaiters
    /\ pc[t] = "wakeShared" /\ p # "wakeShared" => NPosts' = NPosts - seen[t].sharedWaiters
-----------------------------------------------------------------------------
\* The number of elements of a set of threads tells whether it is empty, and whether
\* somebody else is in it.
LEMMA Counting ==
    ASSUME NEW A \in SUBSET Threads
    PROVE  /\ IsFiniteSet(A) /\ Cardinality(A) \in Nat
           /\ Cardinality(A) = 0 <=> A = {}
           /\ Cardinality(A) = 1 <=> \E t : A = {t}
  <1>1. IsFiniteSet(A)
    BY FastLockAssumption, FS_Subset
  <1> QED
    BY <1>1, FS_CardinalityType, FS_EmptySet, FS_Singleton

\* Only t may have entered or left a set of threads.
LEMMA Change ==
    ASSUME NEW A \in SUBSET Threads, NEW B \in SUBSET Threads, NEW t \in Threads, A \ {t} = B \ {t}
    PROVE  Recount(Cardinality(A), Cardinality(B), t \in A, t \in B)
  <1>1. IsFiniteSet(A) /\ IsFiniteSet(B) /\ Cardinality(A) \in Nat /\ Cardinality(B) \in Nat
    BY Counting
  <1>2. CASE t \in A <=> t \in B
    <2>1. A = B
      BY <1>2
    <2>2. t \in A => Cardinality(A) > 0
      BY <1>1, Counting
    <2> QED
      BY <1>2, <2>1, <2>2 DEF Recount
  <1>3. CASE t \in A /\ t \notin B
    <2>1. B = A \ {t}
      BY <1>3
    <2>2. Cardinality(B) = Cardinality(A) - 1
      BY <1>1, <1>3, <2>1, FS_RemoveElement
    <2> QED
      BY <1>1, <1>3, <2>2 DEF Recount
  <1>4. CASE t \notin A /\ t \in B
    <2>1. B = A \cup {t}
      BY <1>4
    <2>2. Cardinality(B) = Cardinality(A) + 1
      BY <1>1, <1>4, <2>1, FS_AddElement
    <2> QED
      BY <1>1, <1>4, <2>2 DEF Recount
  <1> QED
    BY <1>2, <1>3, <1>4

\* The tokens that thread u owes for the waiters in the word w.
Tokens(u, w) == {u} \X (1..w.sharedWaiters)

LEMMA TokensCounted ==
    ASSUME NEW u, NEW w \in Words
    PROVE  /\ IsFiniteSet(Tokens(u, w)) /\ w.sharedWaiters \in Nat
           /\ Cardinality(Tokens(u, w)) = w.sharedWaiters
  <1>1. w.sharedWaiters \in Nat
    BY DEF Words
  <1>2. IsFiniteSet(1..w.sharedWaiters) /\ Cardinality(1..w.sharedWaiters) = w.sharedWaiters
    BY <1>1, FS_Interval
  <1>3. IsFiniteSet({u}) /\ Cardinality({u}) = 1
    BY FS_Singleton
  <1>4. /\ IsFiniteSet({u} \X (1..w.sharedWaiters))
        /\ Cardinality({u} \X (1..w.sharedWaiters)) = 1 * w.sharedWaiters
    BY <1>2, <1>3, FS_Product
  <1> QED
    BY <1>1, <1>4 DEF Tokens

LEMMA TokensOfOne ==
    ASSUME NEW u, NEW w, NEW v, NEW x, NEW z, x \in Tokens(u, w), x \in Tokens(v, z)
    PROVE  u = v
  BY DEF Tokens

LEMMA PostsAre ==
    \A x : x \in Posts <=> \E u \in Threads : pc[u] = "wakeShared" /\ x \in Tokens(u, seen[u])
  BY DEF Posts, Post, WakeAll, Tokens

\* Thread t owes no tokens before or after the step, begins to owe them, or posts them.
LEMMA PostsMove ==
    ASSUME TypeOK, IsFiniteSet(Posts), NEW t \in Threads, NEW p,
           pc' = [pc EXCEPT ![t] = p], \A u \in Threads \ {t} : seen'[u] = seen[u],
           seen'[t] \in Words, pc[t] # "wakeShared" \/ p # "wakeShared"
    PROVE  /\ IsFiniteSet(Posts') /\ Cardinality(Posts) \in Nat
           /\ pc[t] # "wakeShared" /\ p # "wakeShared" => Cardinality(Posts') = Cardinality(Posts)
           /\ pc[t] # "wakeShared" /\ p = "wakeShared"
                => Cardinality(Posts') = Cardinality(Posts) + seen'[t].sharedWaiters
           /\ pc[t] = "wakeShared" /\ p # "wakeShared"
                => Cardinality(Posts') = Cardinality(Posts) - seen[t].sharedWaiters
  <1>1. \A x : x \in Posts <=> \E u \in Threads : pc[u] = "wakeShared" /\ x \in Tokens(u, seen[u])
    BY PostsAre
  <1>2. \A x : x \in Posts' <=> \E u \in Threads : pc'[u] = "wakeShared" /\ x \in Tokens(u, seen'[u])
    BY DEF Posts, Post, WakeAll, Tokens
  <1>3. \A u, v \in Threads : \A w, z, x : x \in Tokens(u, w) /\ x \in Tokens(v, z) => u = v
    BY TokensOfOne
  <1>4. /\ pc'[t] = p /\ \A u \in Threads \ {t} : pc'[u] = pc[u]
        /\ seen[t] \in Words
    BY DEF TypeOK
  <1>5. Cardinality(Posts) \in Nat
    BY FS_CardinalityType
  <1>6. CASE pc[t] # "wakeShared" /\ p # "wakeShared"
    <2>1. \A x : x \in Posts' <=> x \in Posts
      BY <1>1, <1>2, <1>4, <1>6
    <2>2. Posts' = Posts
      BY <2>1
    <2> QED
      BY <1>5, <1>6, <2>2
  <1>7. CASE pc[t] # "wakeShared" /\ p = "wakeShared"
    <2> DEFINE New == Tokens(t, seen'[t])
    <2>1. \A x : x \in Posts' <=> x \in Posts \/ x \in New
      BY <1>1, <1>2, <1>4, <1>7
    <2>2. \A x : ~(x \in Posts /\ x \in New)
      BY <1>1, <1>3, <1>7
    <2>3. IsFiniteSet(New) /\ Cardinality(New) = seen'[t].sharedWaiters /\ seen'[t].sharedWaiters \in Nat
      BY TokensCounted
    <2> HIDE DEF New
    <2>4. Posts' = Posts \cup New /\ Posts \cap New = {}
      BY <2>1, <2>2
    <2>5. Cardinality({}) = 0
      BY FS_EmptySet
    <2>6. /\ IsFiniteSet(Posts \cup New)
          /\ Cardinality(Posts \cup New)
               = Cardinality(Posts) + Cardinality(New) - Cardinality(Posts \cap New)
      BY <2>3, FS_Union
    <2>7. Cardinality(Posts \cap New) = 0
      BY <2>4, <2>5
    <2>8. Cardinality(Posts \cup New) = Cardinality(Posts) + seen'[t].sharedWaiters
      BY <1>5, <2>3, <2>6, <2>7
    <2>9. Posts' = Posts \cup New
      BY <2>4
    <2> QED
      BY <1>5, <1>7, <2>6, <2>8, <2>9
  <1>8. CASE pc[t] = "wakeShared" /\ p # "wakeShared"
    <2> DEFINE Old == Tokens(t, seen[t])
    <2>1. \A x : x \in Posts' <=> x \in Posts /\ x \notin Old
      BY <1>1, <1>2, <1>3, <1>4, <1>8
    <2>2. \A x : x \in Old => x \in Posts
      BY <1>1, <1>8
    <2>3. IsFiniteSet(Old) /\ Cardinality(Old) = seen[t].sharedWaiters /\ seen[t].sharedWaiters \in Nat
      BY <1>4, TokensCounted
    <2> HIDE DEF Old
    <2>4. Posts' = Posts \ Old /\ Posts \cap Old = Old
      BY <2>1, <2>2
    <2>5. /\ IsFiniteSet(Posts \ Old)
          /\ Cardinality(Posts \ Old) = Cardinality(Posts) - Cardinality(Posts \cap Old)
      BY FS_Difference
    <2> QED
      BY <1>5, <1>8, <2>3, <2>4, <2>5
  <1> QED
    BY <1>6, <1>7, <1>8
LEMMA BalanceIs ==
    IInv <=> TypeOK /\ InOperation /\ IsFiniteSet(Posts) /\ Balance
  <1> DEFINE eo == NExclusive
             so == NShared
  <1>1. /\ eo \in Nat /\ (eo = 0 <=> ExclusiveOwners = {})
        /\ so \in Nat /\ (so = 0 <=> SharedOwners = {})
        /\ NWaking \in Nat /\ NHanding \in Nat
    BY Counting DEF ExclusiveOwners, SharedOwners, Waking, Handing, NExclusive, NShared, NWaking, NHanding
  <1>2. ExclusiveOwners \cup SharedOwners # {} <=> eo + so > 0
    BY <1>1
  <1> HIDE DEF eo, so
  <1>3. MutualExclusion <=> /\ eo <= 1 /\ (eo = 1 => so = 0) /\ value.sharedOwners = so
                            /\ value.owned <=> eo + so > 0
    BY <1>1, <1>2 DEF MutualExclusion, NExclusive, NShared, eo, so
  <1>4. eo <= 1 => (ExclusiveOwners # {} <=> eo = 1)
    BY <1>1
  <1>5. TypeOK => /\ value.exclusiveWaiters \in Nat /\ value.sharedWaiters \in Nat
                  /\ exclusiveWake \in Nat /\ sharedWake \in Nat
    BY DEF TypeOK, Words
  <1>6. IsFiniteSet(Posts) => NPosts \in Nat
    BY FS_CardinalityType DEF NPosts
  <1> QED
    BY <1>1, <1>3, <1>4, <1>5, <1>6 DEF IInv, Balance, OwnersBalance, WaitersBalance, WakeUpsExact, OneHandOver, NobodyForgotten,
                             ExclusiveWaiting, SharedWaiting, Handing, eo, so,
        NExclusive, NShared, NWaking, NExclusiveWaiting, NSharedWaiting, NHanding, NPosts

\* A step of t that takes it to operation k and control point p keeps the invariant
\* when the word and the semaphores follow it.
LEMMA StepKeeps ==
    ASSUME IInv, NEW t \in Threads, NEW p, NEW k,
           pc' = [pc EXCEPT ![t] = p], op' = [op EXCEPT ![t] = k],
           \A u \in Threads \ {t} : seen'[u] = seen[u], seen'[t] \in Words,
           pc[t] # "wakeShared" \/ p # "wakeShared"
    PROVE  Balance /\ IsFiniteSet(Posts') /\ Moved(t, p, k)
  <1>1. TypeOK /\ IsFiniteSet(Posts) /\ Balance
    BY BalanceIs
  <1>2. /\ t \in ExclusiveOwners <=> OwnsExclusive(pc[t], op[t])
        /\ t \in SharedOwners <=> OwnsShared(pc[t], op[t])
        /\ t \in Waking <=> HandsOver(pc[t], op[t])
        /\ t \in ExclusiveWaiting <=> pc[t] = "exclusiveWait"
        /\ t \in SharedWaiting <=> pc[t] = "sharedWait"
        /\ t \in Handing <=> pc[t] = "wakeExclusive"
    BY DEF ExclusiveOwners, SharedOwners, Waking, ExclusiveWaiting, SharedWaiting, Handing,
           Releasing, OwnsExclusive, OwnsShared, HandsOver
  <1>3. /\ t \in ExclusiveOwners' <=> OwnsExclusive(p, k)
        /\ t \in SharedOwners' <=> OwnsShared(p, k)
        /\ t \in Waking' <=> HandsOver(p, k)
        /\ t \in ExclusiveWaiting' <=> p = "exclusiveWait"
        /\ t \in SharedWaiting' <=> p = "sharedWait"
        /\ t \in Handing' <=> p = "wakeExclusive"
    BY <1>1 DEF TypeOK, ExclusiveOwners, SharedOwners, Waking, ExclusiveWaiting, SharedWaiting,
                Handing, Releasing, OwnsExclusive, OwnsShared, HandsOver
  <1>4. \A u \in Threads \ {t} : pc'[u] = pc[u] /\ op'[u] = op[u]
    BY <1>1 DEF TypeOK
  <1>5. /\ ExclusiveOwners \ {t} = ExclusiveOwners' \ {t}
        /\ SharedOwners \ {t} = SharedOwners' \ {t}
        /\ Waking \ {t} = Waking' \ {t}
    BY <1>4 DEF ExclusiveOwners, SharedOwners, Waking, Releasing
  <1>6. /\ ExclusiveWaiting \ {t} = ExclusiveWaiting' \ {t}
        /\ SharedWaiting \ {t} = SharedWaiting' \ {t}
        /\ Handing \ {t} = Handing' \ {t}
    BY <1>4 DEF ExclusiveWaiting, SharedWaiting, Handing
  <1>7. Recount(NExclusive, NExclusive', OwnsExclusive(pc[t], op[t]), OwnsExclusive(p, k))
    <2>1. ExclusiveOwners \in SUBSET Threads /\ ExclusiveOwners' \in SUBSET Threads
      BY DEF ExclusiveOwners
    <2> QED
      BY <1>2, <1>3, <1>5, <2>1, Change DEF NExclusive, Recount
  <1>8. Recount(NShared, NShared', OwnsShared(pc[t], op[t]), OwnsShared(p, k))
    <2>1. SharedOwners \in SUBSET Threads /\ SharedOwners' \in SUBSET Threads
      BY DEF SharedOwners
    <2> QED
      BY <1>2, <1>3, <1>5, <2>1, Change DEF NShared, Recount
  <1>9. Recount(NWaking, NWaking', HandsOver(pc[t], op[t]), HandsOver(p, k))
    <2>1. Waking \in SUBSET Threads /\ Waking' \in SUBSET Threads
      BY DEF Waking
    <2> QED
      BY <1>2, <1>3, <1>5, <2>1, Change DEF NWaking, Recount
  <1>10. Recount(NExclusiveWaiting, NExclusiveWaiting', pc[t] = "exclusiveWait", p = "exclusiveWait")
    <2>1. ExclusiveWaiting \in SUBSET Threads /\ ExclusiveWaiting' \in SUBSET Threads
      BY DEF ExclusiveWaiting
    <2> QED
      BY <1>2, <1>3, <1>6, <2>1, Change DEF NExclusiveWaiting, Recount
  <1>11. Recount(NSharedWaiting, NSharedWaiting', pc[t] = "sharedWait", p = "sharedWait")
    <2>1. SharedWaiting \in SUBSET Threads /\ SharedWaiting' \in SUBSET Threads
      BY DEF SharedWaiting
    <2> QED
      BY <1>2, <1>3, <1>6, <2>1, Change DEF NSharedWaiting, Recount
  <1>12. Recount(NHanding, NHanding', pc[t] = "wakeExclusive", p = "wakeExclusive")
    <2>1. Handing \in SUBSET Threads /\ Handing' \in SUBSET Threads
      BY DEF Handing
    <2> QED
      BY <1>2, <1>3, <1>6, <2>1, Change DEF NHanding, Recount
  <1>13. /\ IsFiniteSet(Posts')
         /\ pc[t] # "wakeShared" /\ p # "wakeShared" => NPosts' = NPosts
         /\ pc[t] # "wakeShared" /\ p = "wakeShared" => NPosts' = NPosts + seen'[t].sharedWaiters
         /\ pc[t] = "wakeShared" /\ p # "wakeShared" => NPosts' = NPosts - seen[t].sharedWaiters
    BY <1>1, PostsMove DEF NPosts
  <1> QED
    BY <1>1, <1>7, <1>8, <1>9, <1>10, <1>11, <1>12, <1>13 DEF Moved

\* The numbers after the step.
Now(eo, so, wk, ew, sw, hd, ps) ==
    /\ NExclusive' = eo /\ NShared' = so /\ NWaking' = wk /\ NExclusiveWaiting' = ew
    /\ NSharedWaiting' = sw /\ NHanding' = hd /\ NPosts' = ps

LEMMA BalanceNext ==
    ASSUME TypeOK', InOperation', IsFiniteSet(Posts'), Balance'
    PROVE  IInv'
  <1>1. IInv' <=> TypeOK' /\ InOperation' /\ (IsFiniteSet(Posts))' /\ Balance'
    BY BalanceIs, PTL
  <1> QED
    BY <1>1

LEMMA Initially == Init => IInv
  <1> SUFFICES ASSUME Init PROVE IInv
    OBVIOUS
  <1>1. TypeOK /\ InOperation
    BY DEF Init, TypeOK, InOperation, Unowned, Words
  <1>2. /\ ExclusiveOwners = {} /\ SharedOwners = {} /\ Waking = {} /\ Handing = {}
        /\ ExclusiveWaiting = {} /\ SharedWaiting = {} /\ Posts = {}
    BY DEF Init, ExclusiveOwners, SharedOwners, Waking, Handing, ExclusiveWaiting,
           SharedWaiting, Posts, Releasing
  <1>3. IsFiniteSet(Posts) /\ Balance
    BY <1>2, FS_EmptySet DEF Init, Unowned, Balance, OwnersBalance, WaitersBalance, NExclusive, NShared, NWaking,
        NExclusiveWaiting, NSharedWaiting, NHanding, NPosts
  <1> QED
    BY <1>1, <1>3, BalanceIs

\* Reading the word for operation k moves no thread from one group to another.
LEMMA BeginKeeps ==
    ASSUME IInv, NEW t \in Threads, NEW k, Begin(t, k),
           \/ pc[t] = "idle" /\ k \in Acquires
           \/ pc[t] = "exclusive" /\ k = "ReleaseExclusive"
           \/ pc[t] = "shared" /\ k = "ReleaseShared"
           \/ pc[t] = "cas" /\ k = op[t],
           ops' \in [Threads -> Nat]
    PROVE  IInv'
  <1> USE DEF Begin, wakes
  <1>1. TypeOK' /\ InOperation'
    BY DEF IInv, TypeOK, InOperation, Acquires, Tries
  <1>2. seen'[t] \in Words /\ \A u \in Threads \ {t} : seen'[u] = seen[u]
    BY DEF IInv, TypeOK
  <1>3. Balance /\ IsFiniteSet(Posts') /\ Moved(t, "cas", k)
    BY <1>2, StepKeeps
  <1>4. /\ OwnsExclusive(pc[t], op[t]) <=> OwnsExclusive("cas", k)
        /\ OwnsShared(pc[t], op[t]) <=> OwnsShared("cas", k)
        /\ HandsOver(pc[t], op[t]) <=> HandsOver("cas", k)
        /\ pc[t] \notin {"exclusiveWait", "sharedWait", "wakeExclusive", "wakeShared"}
    BY DEF OwnsExclusive, OwnsShared, HandsOver, Acquires, Tries
  <1>5. Balance'
    <2>1. value' = value /\ exclusiveWake' = exclusiveWake /\ sharedWake' = sharedWake
      OBVIOUS
    <2>2. Now(NExclusive, NShared, NWaking, NExclusiveWaiting, NSharedWaiting, NHanding, NPosts)
      BY <1>3, <1>4 DEF Moved, Recount, Now
    <2> QED
      BY <1>3, <2>1, <2>2 DEF Balance, OwnersBalance, WaitersBalance, Now, ExclusiveMask
  <1> QED
    BY <1>1, <1>3, <1>5, BalanceNext

LEMMA AcquireStep == ASSUME IInv, NEW t \in Threads, Acquire(t) PROVE IInv'
  <1>1. PICK k \in Acquires : Begin(t, k)
    BY DEF Acquire
  <1>2. pc[t] = "idle" /\ ops' \in [Threads -> Nat]
    BY DEF Acquire, IInv, TypeOK
  <1> QED
    BY <1>1, <1>2, BeginKeeps

LEMMA ReleaseStep == ASSUME IInv, NEW t \in Threads, Release(t) PROVE IInv'
  <1>1. ops' \in [Threads -> Nat]
    BY DEF Release, IInv, TypeOK
  <1> QED
    BY <1>1, BeginKeeps DEF Release

\* A CAS of t that leaves the word, or finds it changed in a Try function.
LEMMA GivesUp ==
    ASSUME IInv, NEW t \in Threads, pc[t] = "cas", op[t] \in Tries,
           pc' = [pc EXCEPT ![t] = "idle"], UNCHANGED <<value, wakes, op, seen, ops>>
    PROVE  IInv'
  <1>1. TypeOK' /\ InOperation' /\ op' = [op EXCEPT ![t] = op[t]] /\ seen'[t] \in Words
    BY DEF IInv, TypeOK, InOperation, wakes
  <1>2. Balance /\ IsFiniteSet(Posts') /\ Moved(t, "idle", op[t])
    BY <1>1, StepKeeps
  <1>3. /\ ~OwnsExclusive("cas", op[t]) /\ ~OwnsShared("cas", op[t]) /\ ~HandsOver("cas", op[t])
        /\ ~OwnsExclusive("idle", op[t]) /\ ~OwnsShared("idle", op[t]) /\ ~HandsOver("idle", op[t])
    BY DEF Tries, OwnsExclusive, OwnsShared, HandsOver
  <1>4. Now(NExclusive, NShared, NWaking, NExclusiveWaiting, NSharedWaiting, NHanding, NPosts)
    BY <1>2, <1>3 DEF Moved, Recount, Now
  <1>5. Balance'
    BY <1>2, <1>4 DEF Balance, OwnersBalance, WaitersBalance, Now, ExclusiveMask, wakes
  <1> QED
    BY <1>1, <1>2, <1>5, BalanceNext

LEMMA CasFailsStep == ASSUME IInv, NEW t \in Threads, CasFails(t) PROVE IInv'
  <1>1. CASE op[t] \notin Tries /\ Begin(t, op[t])
    <2>1. ops' \in [Threads -> Nat] /\ pc[t] = "cas"
      BY DEF CasFails, IInv, TypeOK
    <2> QED
      BY <1>1, <2>1, BeginKeeps
  <1>2. CASE op[t] \in Tries /\ pc' = [pc EXCEPT ![t] = "idle"]
    BY <1>2, GivesUp DEF CasFails, Begin
  <1> QED
    BY <1>1, <1>2 DEF CasFails
-----------------------------------------------------------------------------
\* A CAS that installs w and goes to p.
LEMMA CasGoes ==
    ASSUME IInv, NEW t \in Threads, Cas(t), NEW w \in Words,
           NEW p \in {"idle", "exclusive", "shared", "exclusiveWait", "sharedWait",
                      "wakeExclusive", "wakeShared"},
           Decide(op[t], value) = Becomes(w, p)
    PROVE  /\ TypeOK' /\ InOperation' /\ value \in Words /\ value' = w
           /\ exclusiveWake' = exclusiveWake /\ sharedWake' = sharedWake
           /\ Balance /\ IsFiniteSet(Posts') /\ Moved(t, p, op[t])
           /\ pc[t] = "cas" /\ seen'[t] = value
  <1>1. value = seen[t] /\ value' = w /\ pc' = [pc EXCEPT ![t] = p]
    BY DEF Cas, Becomes
  <1>2. /\ exclusiveWake' = exclusiveWake /\ sharedWake' = sharedWake /\ pc[t] = "cas"
        /\ UNCHANGED <<op, seen, ops>>
    BY DEF Cas, wakes
  <1>3. TypeOK' /\ InOperation' /\ op' = [op EXCEPT ![t] = op[t]] /\ value \in Words
    BY <1>1, <1>2 DEF IInv, TypeOK, InOperation
  <1>4. Balance /\ IsFiniteSet(Posts') /\ Moved(t, p, op[t])
    BY <1>1, <1>2, <1>3, StepKeeps
  <1> QED
    BY <1>1, <1>2, <1>3, <1>4

\* Where a thread is counted, once it is past its CAS.
LEMMA Counted ==
    ASSUME NEW k
    PROVE  /\ \A p \in {"idle", "shared", "exclusiveWait", "sharedWait", "wakeExclusive", "wakeShared"} :
                  ~OwnsExclusive(p, k)
           /\ \A p \in {"idle", "exclusive", "exclusiveWait", "sharedWait", "wakeExclusive", "wakeShared"} :
                  ~OwnsShared(p, k)
           /\ \A p \in {"idle", "exclusive", "shared", "exclusiveWait", "sharedWait", "wakeShared"} :
                  ~HandsOver(p, k)
           /\ OwnsExclusive("exclusive", k) /\ OwnsShared("shared", k) /\ HandsOver("wakeExclusive", k)
           /\ k \in Acquires => ~OwnsExclusive("cas", k) /\ ~OwnsShared("cas", k) /\ ~HandsOver("cas", k)
           /\ OwnsExclusive("cas", k) <=> k = "ReleaseExclusive"
           /\ OwnsShared("cas", k) <=> k = "ReleaseShared"
           /\ HandsOver("cas", k) <=> k = "Woken"
  BY DEF OwnsExclusive, OwnsShared, HandsOver, Acquires, Tries

\* The word counts a shared owner that is releasing the lock.
LEMMA OwnerCounted ==
    ASSUME IInv, NEW t \in Threads, pc[t] = "cas", op[t] = "ReleaseShared"
    PROVE  value.sharedOwners > 0
  <1>1. t \in SharedOwners /\ SharedOwners \in SUBSET Threads
    BY DEF SharedOwners, Releasing
  <1>2. Cardinality(SharedOwners) \in Nat /\ Cardinality(SharedOwners) # 0
    BY <1>1, Counting
  <1> QED
    BY <1>2 DEF IInv, MutualExclusion

\* The lock is taken only when nobody owns it and no hand-over is under way.
LEMMA CasAcquireExclusive ==
    ASSUME IInv, NEW t \in Threads, Cas(t), op[t] \in Acquires,
           Decide(op[t], value) = AcquireExclusive(value)
    PROVE  IInv'
  <1>1. value \in Words
    BY DEF IInv, TypeOK
  <1>2. /\ value.sharedOwners \in Nat /\ value.sharedWaiters \in Nat /\ value.exclusiveWaiters \in Nat
    BY <1>1 DEF Words
  <1>3. CASE FreeToTake(value)
    <2> DEFINE w == [value EXCEPT !.owned = TRUE]
    <2>1. Decide(op[t], value) = Becomes(w, "exclusive")
      BY <1>2, <1>3 DEF AcquireExclusive, FreeToTake
    <2>2. w \in Words
      BY <1>1 DEF Words
    <2>3. w \in Words /\ Decide(op[t], value) = Becomes(w, "exclusive")
      BY <2>2, <2>1
    <2>4. /\ w.owned /\ (w.waking <=> value.waking) /\ w.sharedOwners = value.sharedOwners
          /\ w.sharedWaiters = value.sharedWaiters /\ w.exclusiveWaiters = value.exclusiveWaiters
          /\ ~value.owned /\ ~value.waking
      BY <1>1, <1>3 DEF Words, FreeToTake
    <2> HIDE DEF w
    <2>5. TypeOK' /\ InOperation' /\ IsFiniteSet(Posts') /\ Moved(t, "exclusive", op[t]) /\ pc[t] = "cas"
      BY <2>3, CasGoes
    <2>6. /\ value' = w /\ exclusiveWake' = exclusiveWake /\ sharedWake' = sharedWake /\ Balance
      BY <2>3, CasGoes
    <2>7. seen'[t] = value
      BY <2>3, CasGoes
    <2>8. /\ ~OwnsExclusive("cas", op[t]) /\ ~OwnsShared("cas", op[t]) /\ ~HandsOver("cas", op[t])
          /\ OwnsExclusive("exclusive", op[t]) /\ ~OwnsShared("exclusive", op[t]) /\ ~HandsOver("exclusive", op[t])
      BY Counted
    <2>9. Now(NExclusive + 1, NShared, NWaking, NExclusiveWaiting, NSharedWaiting, NHanding, NPosts)
      BY <2>5, <2>7, <2>8 DEF Moved, Recount, Now
    <2>10. OwnersBalance'
      BY <2>4, <2>6, <2>9 DEF Balance, OwnersBalance, WaitersBalance, Now
    <2>11. WaitersBalance'
      BY <2>4, <2>6, <2>9 DEF Balance, OwnersBalance, WaitersBalance, Now, ExclusiveMask
    <2> QED
      BY <2>5, <2>10, <2>11, BalanceNext DEF Balance
  <1>4. CASE ~FreeToTake(value)
    <2> DEFINE w == [value EXCEPT !.exclusiveWaiters = @ + 1]
    <2>1. value.exclusiveWaiters + 1 \in Nat
      BY <1>2, <1>4
    <2>2. Decide(op[t], value) = Becomes(w, "exclusiveWait")
      BY <1>2, <1>4 DEF AcquireExclusive, FreeToTake
    <2>3. w \in Words
      BY <1>1, <2>1 DEF Words
    <2>4. w \in Words /\ Decide(op[t], value) = Becomes(w, "exclusiveWait")
      BY <2>3, <2>2
    <2>5. /\ (w.owned <=> value.owned) /\ (w.waking <=> value.waking) /\ w.sharedOwners = value.sharedOwners
          /\ w.sharedWaiters = value.sharedWaiters /\ w.exclusiveWaiters = value.exclusiveWaiters + 1
          /\ value.owned \/ value.waking
      BY <1>1, <1>4 DEF Words, FreeToTake
    <2> HIDE DEF w
    <2>6. TypeOK' /\ InOperation' /\ IsFiniteSet(Posts') /\ Moved(t, "exclusiveWait", op[t]) /\ pc[t] = "cas"
      BY <2>4, CasGoes
    <2>7. /\ value' = w /\ exclusiveWake' = exclusiveWake /\ sharedWake' = sharedWake /\ Balance
      BY <2>4, CasGoes
    <2>8. seen'[t] = value
      BY <2>4, CasGoes
    <2>9. /\ ~OwnsExclusive("cas", op[t]) /\ ~OwnsShared("cas", op[t]) /\ ~HandsOver("cas", op[t])
          /\ ~OwnsExclusive("exclusiveWait", op[t]) /\ ~OwnsShared("exclusiveWait", op[t]) /\ ~HandsOver("exclusiveWait", op[t])
      BY Counted
    <2>10. Now(NExclusive, NShared, NWaking, NExclusiveWaiting + 1, NSharedWaiting, NHanding, NPosts)
      BY <2>6, <2>8, <2>9 DEF Moved, Recount, Now
    <2>11. OwnersBalance'
      BY <2>5, <2>7, <2>10 DEF Balance, OwnersBalance, WaitersBalance, Now
    <2>12. WaitersBalance'
      BY <2>5, <2>7, <2>10 DEF Balance, OwnersBalance, WaitersBalance, Now, ExclusiveMask
    <2> QED
      BY <2>6, <2>11, <2>12, BalanceNext DEF Balance
  <1> QED
    BY <1>3, <1>4

\* A shared acquirer that has to wait leaves somebody to wake it.
LEMMA CasAcquireShared ==
    ASSUME IInv, NEW t \in Threads, Cas(t), op[t] \in Acquires,
           Decide(op[t], value) = AcquireShared(value)
    PROVE  IInv'
  <1>1. value \in Words
    BY DEF IInv, TypeOK
  <1>2. /\ value.sharedOwners \in Nat /\ value.sharedWaiters \in Nat /\ value.exclusiveWaiters \in Nat
    BY <1>1 DEF Words
  <1>3. CASE ~value.owned /\ value.sharedOwners = 0 /\ ~StandBack(value)
    <2> DEFINE w == [value EXCEPT !.owned = TRUE, !.sharedOwners = @ + 1]
    <2>1. value.sharedOwners + 1 \in Nat
      BY <1>2, <1>3
    <2>2. Decide(op[t], value) = Becomes(w, "shared")
      BY <1>2, <1>3 DEF AcquireShared, StandBack, ExclusiveMask
    <2>3. w \in Words
      BY <1>1, <2>1 DEF Words
    <2>4. w \in Words /\ Decide(op[t], value) = Becomes(w, "shared")
      BY <2>3, <2>2
    <2>5. /\ w.owned /\ (w.waking <=> value.waking) /\ w.sharedOwners = value.sharedOwners + 1
          /\ w.sharedWaiters = value.sharedWaiters /\ w.exclusiveWaiters = value.exclusiveWaiters
          /\ ~value.owned /\ ~value.waking /\ ~(value.exclusiveWaiters > 0)
      BY <1>1, <1>3 DEF Words, StandBack, ExclusiveMask
    <2> HIDE DEF w
    <2>6. TypeOK' /\ InOperation' /\ IsFiniteSet(Posts') /\ Moved(t, "shared", op[t]) /\ pc[t] = "cas"
      BY <2>4, CasGoes
    <2>7. /\ value' = w /\ exclusiveWake' = exclusiveWake /\ sharedWake' = sharedWake /\ Balance
      BY <2>4, CasGoes
    <2>8. seen'[t] = value
      BY <2>4, CasGoes
    <2>9. /\ ~OwnsExclusive("cas", op[t]) /\ ~OwnsShared("cas", op[t]) /\ ~HandsOver("cas", op[t])
          /\ ~OwnsExclusive("shared", op[t]) /\ OwnsShared("shared", op[t]) /\ ~HandsOver("shared", op[t])
      BY Counted
    <2>10. Now(NExclusive, NShared + 1, NWaking, NExclusiveWaiting, NSharedWaiting, NHanding, NPosts)
      BY <2>6, <2>8, <2>9 DEF Moved, Recount, Now
    <2>11. OwnersBalance'
      BY <2>5, <2>7, <2>10 DEF Balance, OwnersBalance, WaitersBalance, Now
    <2>12. WaitersBalance'
      BY <2>5, <2>7, <2>10 DEF Balance, OwnersBalance, WaitersBalance, Now, ExclusiveMask
    <2> QED
      BY <2>6, <2>11, <2>12, BalanceNext DEF Balance
  <1>4. CASE value.owned /\ value.sharedOwners > 0 /\ ~StandBack(value)
    <2> DEFINE w == [value EXCEPT !.sharedOwners = @ + 1]
    <2>1. value.sharedOwners + 1 \in Nat
      BY <1>2, <1>4
    <2>2. Decide(op[t], value) = Becomes(w, "shared")
      BY <1>2, <1>4 DEF AcquireShared, StandBack, ExclusiveMask
    <2>3. w \in Words
      BY <1>1, <2>1 DEF Words
    <2>4. w \in Words /\ Decide(op[t], value) = Becomes(w, "shared")
      BY <2>3, <2>2
    <2>5. /\ (w.owned <=> value.owned) /\ (w.waking <=> value.waking) /\ w.sharedOwners = value.sharedOwners + 1
          /\ w.sharedWaiters = value.sharedWaiters /\ w.exclusiveWaiters = value.exclusiveWaiters
          /\ value.owned /\ value.sharedOwners > 0
      BY <1>1, <1>4 DEF Words
    <2> HIDE DEF w
    <2>6. TypeOK' /\ InOperation' /\ IsFiniteSet(Posts') /\ Moved(t, "shared", op[t]) /\ pc[t] = "cas"
      BY <2>4, CasGoes
    <2>7. /\ value' = w /\ exclusiveWake' = exclusiveWake /\ sharedWake' = sharedWake /\ Balance
      BY <2>4, CasGoes
    <2>8. seen'[t] = value
      BY <2>4, CasGoes
    <2>9. /\ ~OwnsExclusive("cas", op[t]) /\ ~OwnsShared("cas", op[t]) /\ ~HandsOver("cas", op[t])
          /\ ~OwnsExclusive("shared", op[t]) /\ OwnsShared("shared", op[t]) /\ ~HandsOver("shared", op[t])
      BY Counted
    <2>10. Now(NExclusive, NShared + 1, NWaking, NExclusiveWaiting, NSharedWaiting, NHanding, NPosts)
      BY <2>6, <2>8, <2>9 DEF Moved, Recount, Now
    <2>11. OwnersBalance'
      BY <2>5, <2>7, <2>10 DEF Balance, OwnersBalance, WaitersBalance, Now
    <2>12. WaitersBalance'
      BY <2>5, <2>7, <2>10 DEF Balance, OwnersBalance, WaitersBalance, Now, ExclusiveMask
    <2> QED
      BY <2>6, <2>11, <2>12, BalanceNext DEF Balance
  <1>5. CASE 
               /\ ~(~value.owned /\ value.sharedOwners = 0 /\ ~StandBack(value))
               /\ ~(value.owned /\ value.sharedOwners > 0 /\ ~StandBack(value))
    <2> DEFINE w == [value EXCEPT !.sharedWaiters = @ + 1]
    <2>1. value.sharedWaiters + 1 \in Nat
      BY <1>2, <1>5
    <2>2. Decide(op[t], value) = Becomes(w, "sharedWait")
      BY <1>2, <1>5 DEF AcquireShared, StandBack, ExclusiveMask
    <2>3. w \in Words
      BY <1>1, <2>1 DEF Words
    <2>4. w \in Words /\ Decide(op[t], value) = Becomes(w, "sharedWait")
      BY <2>3, <2>2
    <2>5. /\ (w.owned <=> value.owned) /\ (w.waking <=> value.waking) /\ w.sharedOwners = value.sharedOwners
          /\ w.sharedWaiters = value.sharedWaiters + 1 /\ w.exclusiveWaiters = value.exclusiveWaiters
          /\ \/ value.waking \/ value.exclusiveWaiters > 0
             \/ ~value.owned /\ value.sharedOwners # 0
             \/ value.owned /\ ~(value.sharedOwners > 0)
      BY <1>1, <1>5 DEF Words, StandBack, ExclusiveMask
    <2> HIDE DEF w
    <2>6. TypeOK' /\ InOperation' /\ IsFiniteSet(Posts') /\ Moved(t, "sharedWait", op[t]) /\ pc[t] = "cas"
      BY <2>4, CasGoes
    <2>7. /\ value' = w /\ exclusiveWake' = exclusiveWake /\ sharedWake' = sharedWake /\ Balance
      BY <2>4, CasGoes
    <2>8. seen'[t] = value
      BY <2>4, CasGoes
    <2>9. /\ ~OwnsExclusive("cas", op[t]) /\ ~OwnsShared("cas", op[t]) /\ ~HandsOver("cas", op[t])
          /\ ~OwnsExclusive("sharedWait", op[t]) /\ ~OwnsShared("sharedWait", op[t]) /\ ~HandsOver("sharedWait", op[t])
      BY Counted
    <2>10. Now(NExclusive, NShared, NWaking, NExclusiveWaiting, NSharedWaiting + 1, NHanding, NPosts)
      BY <2>6, <2>8, <2>9 DEF Moved, Recount, Now
    <2>11. OwnersBalance'
      BY <2>5, <2>7, <2>10 DEF Balance, OwnersBalance, WaitersBalance, Now
    <2>12. WaitersBalance'
      BY <2>5, <2>7, <2>10 DEF Balance, OwnersBalance, WaitersBalance, Now, ExclusiveMask
    <2> QED
      BY <2>6, <2>11, <2>12, BalanceNext DEF Balance
  <1> QED
    BY <1>3, <1>4, <1>5

\* Releasing hands over to an exclusive waiter or takes all shared waiters out of the word.
LEMMA CasReleaseExclusive ==
    ASSUME IInv, NEW t \in Threads, Cas(t), op[t] = "ReleaseExclusive"
    PROVE  IInv'
  <1>1. value \in Words
    BY DEF IInv, TypeOK
  <1>2. /\ value.sharedOwners \in Nat /\ value.sharedWaiters \in Nat /\ value.exclusiveWaiters \in Nat
    BY <1>1 DEF Words
  <1>3. CASE value.exclusiveWaiters > 0
    <2> DEFINE w == [value EXCEPT !.owned = FALSE, !.waking = TRUE, !.exclusiveWaiters = @ - 1]
    <2>1. value.exclusiveWaiters - 1 \in Nat
      BY <1>2, <1>3
    <2>2. Decide(op[t], value) = Becomes(w, "wakeExclusive")
      BY <1>2, <1>3 DEF ReleaseExclusive, HasExclusiveWaiters, Decide
    <2>3. w \in Words
      BY <1>1, <2>1 DEF Words
    <2>4. w \in Words /\ Decide(op[t], value) = Becomes(w, "wakeExclusive")
      BY <2>3, <2>2
    <2>5. /\ ~w.owned /\ w.waking /\ w.sharedOwners = value.sharedOwners
          /\ w.sharedWaiters = value.sharedWaiters /\ w.exclusiveWaiters = value.exclusiveWaiters - 1
          /\ value.exclusiveWaiters > 0
      BY <1>1, <1>3 DEF Words
    <2> HIDE DEF w
    <2>6. TypeOK' /\ InOperation' /\ IsFiniteSet(Posts') /\ Moved(t, "wakeExclusive", op[t]) /\ pc[t] = "cas"
      BY <2>4, CasGoes
    <2>7. /\ value' = w /\ exclusiveWake' = exclusiveWake /\ sharedWake' = sharedWake /\ Balance
      BY <2>4, CasGoes
    <2>8. seen'[t] = value
      BY <2>4, CasGoes
    <2>9. /\ OwnsExclusive("cas", op[t]) /\ ~OwnsShared("cas", op[t]) /\ ~HandsOver("cas", op[t])
          /\ ~OwnsExclusive("wakeExclusive", op[t]) /\ ~OwnsShared("wakeExclusive", op[t]) /\ HandsOver("wakeExclusive", op[t])
      BY Counted
    <2>10. Now(NExclusive - 1, NShared, NWaking + 1, NExclusiveWaiting, NSharedWaiting, NHanding + 1, NPosts) /\ NExclusive > 0
      BY <2>6, <2>8, <2>9 DEF Moved, Recount, Now
    <2>11. OwnersBalance'
      BY <2>5, <2>7, <2>10 DEF Balance, OwnersBalance, WaitersBalance, Now
    <2>12. WaitersBalance'
      BY <2>5, <2>7, <2>10 DEF Balance, OwnersBalance, WaitersBalance, Now, ExclusiveMask
    <2> QED
      BY <2>6, <2>11, <2>12, BalanceNext DEF Balance
  <1>4. CASE ~(value.exclusiveWaiters > 0) /\ value.sharedWaiters > 0
    <2> DEFINE w == [value EXCEPT !.owned = FALSE, !.sharedWaiters = 0]
    <2>1. Decide(op[t], value) = Becomes(w, "wakeShared")
      BY <1>2, <1>4 DEF ReleaseExclusive, HasExclusiveWaiters, Decide
    <2>2. w \in Words
      BY <1>1 DEF Words
    <2>3. w \in Words /\ Decide(op[t], value) = Becomes(w, "wakeShared")
      BY <2>2, <2>1
    <2>4. /\ ~w.owned /\ (w.waking <=> value.waking) /\ w.sharedOwners = value.sharedOwners
          /\ w.sharedWaiters = 0 /\ w.exclusiveWaiters = value.exclusiveWaiters
          /\ ~(value.exclusiveWaiters > 0)
      BY <1>1, <1>4 DEF Words
    <2> HIDE DEF w
    <2>5. TypeOK' /\ InOperation' /\ IsFiniteSet(Posts') /\ Moved(t, "wakeShared", op[t]) /\ pc[t] = "cas"
      BY <2>3, CasGoes
    <2>6. /\ value' = w /\ exclusiveWake' = exclusiveWake /\ sharedWake' = sharedWake /\ Balance
      BY <2>3, CasGoes
    <2>7. seen'[t] = value
      BY <2>3, CasGoes
    <2>8. /\ OwnsExclusive("cas", op[t]) /\ ~OwnsShared("cas", op[t]) /\ ~HandsOver("cas", op[t])
          /\ ~OwnsExclusive("wakeShared", op[t]) /\ ~OwnsShared("wakeShared", op[t]) /\ ~HandsOver("wakeShared", op[t])
      BY Counted
    <2>9. Now(NExclusive - 1, NShared, NWaking, NExclusiveWaiting, NSharedWaiting, NHanding, NPosts + value.sharedWaiters) /\ NExclusive > 0
      BY <2>5, <2>7, <2>8 DEF Moved, Recount, Now
    <2>10. OwnersBalance'
      BY <2>4, <2>6, <2>9 DEF Balance, OwnersBalance, WaitersBalance, Now
    <2>11. WaitersBalance'
      BY <2>4, <2>6, <2>9 DEF Balance, OwnersBalance, WaitersBalance, Now, ExclusiveMask
    <2> QED
      BY <2>5, <2>10, <2>11, BalanceNext DEF Balance
  <1>5. CASE ~(value.exclusiveWaiters > 0) /\ ~(value.sharedWaiters > 0)
    <2> DEFINE w == [value EXCEPT !.owned = FALSE, !.sharedWaiters = 0]
    <2>1. Decide(op[t], value) = Becomes(w, "idle")
      BY <1>2, <1>5 DEF ReleaseExclusive, HasExclusiveWaiters, Decide
    <2>2. w \in Words
      BY <1>1 DEF Words
    <2>3. w \in Words /\ Decide(op[t], value) = Becomes(w, "idle")
      BY <2>2, <2>1
    <2>4. /\ ~w.owned /\ (w.waking <=> value.waking) /\ w.sharedOwners = value.sharedOwners
          /\ w.sharedWaiters = 0 /\ w.exclusiveWaiters = value.exclusiveWaiters
          /\ ~(value.exclusiveWaiters > 0) /\ value.sharedWaiters = 0
      BY <1>1, <1>5 DEF Words
    <2> HIDE DEF w
    <2>5. TypeOK' /\ InOperation' /\ IsFiniteSet(Posts') /\ Moved(t, "idle", op[t]) /\ pc[t] = "cas"
      BY <2>3, CasGoes
    <2>6. /\ value' = w /\ exclusiveWake' = exclusiveWake /\ sharedWake' = sharedWake /\ Balance
      BY <2>3, CasGoes
    <2>7. seen'[t] = value
      BY <2>3, CasGoes
    <2>8. /\ OwnsExclusive("cas", op[t]) /\ ~OwnsShared("cas", op[t]) /\ ~HandsOver("cas", op[t])
          /\ ~OwnsExclusive("idle", op[t]) /\ ~OwnsShared("idle", op[t]) /\ ~HandsOver("idle", op[t])
      BY Counted
    <2>9. Now(NExclusive - 1, NShared, NWaking, NExclusiveWaiting, NSharedWaiting, NHanding, NPosts) /\ NExclusive > 0
      BY <2>5, <2>7, <2>8 DEF Moved, Recount, Now
    <2>10. OwnersBalance'
      BY <2>4, <2>6, <2>9 DEF Balance, OwnersBalance, WaitersBalance, Now
    <2>11. WaitersBalance'
      BY <2>4, <2>6, <2>9 DEF Balance, OwnersBalance, WaitersBalance, Now, ExclusiveMask
    <2> QED
      BY <2>5, <2>10, <2>11, BalanceNext DEF Balance
  <1> QED
    BY <1>3, <1>4, <1>5

\* The last shared owner need not wake shared waiters: there are none.
LEMMA CasReleaseShared ==
    ASSUME IInv, NEW t \in Threads, Cas(t), op[t] = "ReleaseShared"
    PROVE  IInv'
  <1>1. value \in Words
    BY DEF IInv, TypeOK
  <1>2. /\ value.sharedOwners \in Nat /\ value.sharedWaiters \in Nat /\ value.exclusiveWaiters \in Nat
        /\ value.sharedOwners > 0
    BY <1>1, OwnerCounted DEF Words, Cas
  <1>3. CASE value.sharedOwners > 1
    <2> DEFINE w == [value EXCEPT !.sharedOwners = @ - 1]
    <2>1. value.sharedOwners - 1 \in Nat
      BY <1>2, <1>3
    <2>2. Decide(op[t], value) = Becomes(w, "idle")
      BY <1>2, <1>3 DEF ReleaseShared, Decide
    <2>3. w \in Words
      BY <1>1, <2>1 DEF Words
    <2>4. w \in Words /\ Decide(op[t], value) = Becomes(w, "idle")
      BY <2>3, <2>2
    <2>5. /\ (w.owned <=> value.owned) /\ (w.waking <=> value.waking) /\ w.sharedOwners = value.sharedOwners - 1
          /\ w.sharedWaiters = value.sharedWaiters /\ w.exclusiveWaiters = value.exclusiveWaiters
          /\ value.sharedOwners > 1
      BY <1>1, <1>3 DEF Words
    <2> HIDE DEF w
    <2>6. TypeOK' /\ InOperation' /\ IsFiniteSet(Posts') /\ Moved(t, "idle", op[t]) /\ pc[t] = "cas"
      BY <2>4, CasGoes
    <2>7. /\ value' = w /\ exclusiveWake' = exclusiveWake /\ sharedWake' = sharedWake /\ Balance
      BY <2>4, CasGoes
    <2>8. seen'[t] = value
      BY <2>4, CasGoes
    <2>9. /\ ~OwnsExclusive("cas", op[t]) /\ OwnsShared("cas", op[t]) /\ ~HandsOver("cas", op[t])
          /\ ~OwnsExclusive("idle", op[t]) /\ ~OwnsShared("idle", op[t]) /\ ~HandsOver("idle", op[t])
      BY Counted
    <2>10. Now(NExclusive, NShared - 1, NWaking, NExclusiveWaiting, NSharedWaiting, NHanding, NPosts) /\ NShared > 0
      BY <2>6, <2>8, <2>9 DEF Moved, Recount, Now
    <2>11. OwnersBalance'
      BY <2>5, <2>7, <2>10 DEF Balance, OwnersBalance, WaitersBalance, Now
    <2>12. WaitersBalance'
      BY <2>5, <2>7, <2>10 DEF Balance, OwnersBalance, WaitersBalance, Now, ExclusiveMask
    <2> QED
      BY <2>6, <2>11, <2>12, BalanceNext DEF Balance
  <1>4. CASE ~(value.sharedOwners > 1) /\ value.exclusiveWaiters > 0
    <2> DEFINE w == [value EXCEPT !.owned = FALSE, !.waking = TRUE, !.sharedOwners = @ - 1, !.exclusiveWaiters = @ - 1]
    <2>1. value.sharedOwners - 1 \in Nat /\ value.exclusiveWaiters - 1 \in Nat
      BY <1>2, <1>4
    <2>2. Decide(op[t], value) = Becomes(w, "wakeExclusive")
      BY <1>2, <1>4 DEF ReleaseShared, Decide
    <2>3. w \in Words
      BY <1>1, <2>1 DEF Words
    <2>4. w \in Words /\ Decide(op[t], value) = Becomes(w, "wakeExclusive")
      BY <2>3, <2>2
    <2>5. /\ ~w.owned /\ w.waking /\ w.sharedOwners = value.sharedOwners - 1
          /\ w.sharedWaiters = value.sharedWaiters /\ w.exclusiveWaiters = value.exclusiveWaiters - 1
          /\ ~(value.sharedOwners > 1) /\ value.exclusiveWaiters > 0
      BY <1>1, <1>4 DEF Words
    <2> HIDE DEF w
    <2>6. TypeOK' /\ InOperation' /\ IsFiniteSet(Posts') /\ Moved(t, "wakeExclusive", op[t]) /\ pc[t] = "cas"
      BY <2>4, CasGoes
    <2>7. /\ value' = w /\ exclusiveWake' = exclusiveWake /\ sharedWake' = sharedWake /\ Balance
      BY <2>4, CasGoes
    <2>8. seen'[t] = value
      BY <2>4, CasGoes
    <2>9. /\ ~OwnsExclusive("cas", op[t]) /\ OwnsShared("cas", op[t]) /\ ~HandsOver("cas", op[t])
          /\ ~OwnsExclusive("wakeExclusive", op[t]) /\ ~OwnsShared("wakeExclusive", op[t]) /\ HandsOver("wakeExclusive", op[t])
      BY Counted
    <2>10. Now(NExclusive, NShared - 1, NWaking + 1, NExclusiveWaiting, NSharedWaiting, NHanding + 1, NPosts) /\ NShared > 0
      BY <2>6, <2>8, <2>9 DEF Moved, Recount, Now
    <2>11. OwnersBalance'
      BY <2>5, <2>7, <2>10 DEF Balance, OwnersBalance, WaitersBalance, Now
    <2>12. WaitersBalance'
      BY <2>5, <2>7, <2>10 DEF Balance, OwnersBalance, WaitersBalance, Now, ExclusiveMask
    <2> QED
      BY <2>6, <2>11, <2>12, BalanceNext DEF Balance
  <1>5. CASE ~(value.sharedOwners > 1) /\ ~(value.exclusiveWaiters > 0)
    <2> DEFINE w == [value EXCEPT !.owned = FALSE, !.sharedOwners = @ - 1]
    <2>1. value.sharedOwners - 1 \in Nat
      BY <1>2, <1>5
    <2>2. Decide(op[t], value) = Becomes(w, "idle")
      BY <1>2, <1>5 DEF ReleaseShared, Decide
    <2>3. w \in Words
      BY <1>1, <2>1 DEF Words
    <2>4. w \in Words /\ Decide(op[t], value) = Becomes(w, "idle")
      BY <2>3, <2>2
    <2>5. /\ ~w.owned /\ (w.waking <=> value.waking) /\ w.sharedOwners = value.sharedOwners - 1
          /\ w.sharedWaiters = value.sharedWaiters /\ w.exclusiveWaiters = value.exclusiveWaiters
          /\ ~(value.sharedOwners > 1) /\ ~(value.exclusiveWaiters > 0)
      BY <1>1, <1>5 DEF Words
    <2> HIDE DEF w
    <2>6. TypeOK' /\ InOperation' /\ IsFiniteSet(Posts') /\ Moved(t, "idle", op[t]) /\ pc[t] = "cas"
      BY <2>4, CasGoes
    <2>7. /\ value' = w /\ exclusiveWake' = exclusiveWake /\ sharedWake' = sharedWake /\ Balance
      BY <2>4, CasGoes
    <2>8. seen'[t] = value
      BY <2>4, CasGoes
    <2>9. /\ ~OwnsExclusive("cas", op[t]) /\ OwnsShared("cas", op[t]) /\ ~HandsOver("cas", op[t])
          /\ ~OwnsExclusive("idle", op[t]) /\ ~OwnsShared("idle", op[t]) /\ ~HandsOver("idle", op[t])
      BY Counted
    <2>10. Now(NExclusive, NShared - 1, NWaking, NExclusiveWaiting, NSharedWaiting, NHanding, NPosts) /\ NShared > 0
      BY <2>6, <2>8, <2>9 DEF Moved, Recount, Now
    <2>11. OwnersBalance'
      BY <2>5, <2>7, <2>10 DEF Balance, OwnersBalance, WaitersBalance, Now
    <2>12. WaitersBalance'
      BY <2>5, <2>7, <2>10 DEF Balance, OwnersBalance, WaitersBalance, Now, ExclusiveMask
    <2> QED
      BY <2>6, <2>11, <2>12, BalanceNext DEF Balance
  <1> QED
    BY <1>3, <1>4, <1>5

\* The woken thread is the one the hand-over was for.
LEMMA CasWoken ==
    ASSUME IInv, NEW t \in Threads, Cas(t), op[t] = "Woken"
    PROVE  IInv'
  <1>1. value \in Words
    BY DEF IInv, TypeOK
  <1>2. /\ value.sharedOwners \in Nat /\ value.sharedWaiters \in Nat /\ value.exclusiveWaiters \in Nat
    BY <1>1 DEF Words
  <1>3. CASE TRUE
    <2> DEFINE w == [value EXCEPT !.owned = TRUE, !.waking = FALSE]
    <2>1. Decide(op[t], value) = Becomes(w, "exclusive")
      BY <1>2, <1>3 DEF Woken, Decide
    <2>2. w \in Words
      BY <1>1 DEF Words
    <2>3. w \in Words /\ Decide(op[t], value) = Becomes(w, "exclusive")
      BY <2>2, <2>1
    <2>4. /\ w.owned /\ ~w.waking /\ w.sharedOwners = value.sharedOwners
          /\ w.sharedWaiters = value.sharedWaiters /\ w.exclusiveWaiters = value.exclusiveWaiters
      BY <1>1, <1>3 DEF Words
    <2> HIDE DEF w
    <2>5. TypeOK' /\ InOperation' /\ IsFiniteSet(Posts') /\ Moved(t, "exclusive", op[t]) /\ pc[t] = "cas"
      BY <2>3, CasGoes
    <2>6. /\ value' = w /\ exclusiveWake' = exclusiveWake /\ sharedWake' = sharedWake /\ Balance
      BY <2>3, CasGoes
    <2>7. seen'[t] = value
      BY <2>3, CasGoes
    <2>8. /\ ~OwnsExclusive("cas", op[t]) /\ ~OwnsShared("cas", op[t]) /\ HandsOver("cas", op[t])
          /\ OwnsExclusive("exclusive", op[t]) /\ ~OwnsShared("exclusive", op[t]) /\ ~HandsOver("exclusive", op[t])
      BY Counted
    <2>9. Now(NExclusive + 1, NShared, NWaking - 1, NExclusiveWaiting, NSharedWaiting, NHanding, NPosts) /\ NWaking > 0
      BY <2>5, <2>7, <2>8 DEF Moved, Recount, Now
    <2>10. OwnersBalance'
      BY <2>4, <2>6, <2>9 DEF Balance, OwnersBalance, WaitersBalance, Now
    <2>11. WaitersBalance'
      BY <2>4, <2>6, <2>9 DEF Balance, OwnersBalance, WaitersBalance, Now, ExclusiveMask
    <2> QED
      BY <2>5, <2>10, <2>11, BalanceNext DEF Balance
  <1> QED
    BY <1>3
LEMMA CasStep == ASSUME IInv, NEW t \in Threads, Cas(t) PROVE IInv'
  <1>1. CASE op[t] = "AcquireExclusive"
    <2>1. op[t] \in Acquires /\ Decide(op[t], value) = AcquireExclusive(value)
      BY <1>1 DEF Acquires, Decide
    <2> QED
      BY <2>1, CasAcquireExclusive
  <1>2. CASE op[t] = "AcquireShared"
    <2>1. op[t] \in Acquires /\ Decide(op[t], value) = AcquireShared(value)
      BY <1>2 DEF Acquires, Decide
    <2> QED
      BY <2>1, CasAcquireShared
  <1>3. CASE op[t] \in Tries
    <2>1. op[t] \in Acquires /\ pc[t] = "cas"
      BY <1>3 DEF Acquires, Cas
    <2>2. \/ Decide(op[t], value) = Becomes(value, "idle")
          \/ Decide(op[t], value) = AcquireExclusive(value)
          \/ Decide(op[t], value) = AcquireShared(value)
      BY <1>3 DEF Tries, Decide, TryAcquireExclusive, TryAcquireShared
    <2>3. CASE Decide(op[t], value) = Becomes(value, "idle")
      <3>1. pc' = [pc EXCEPT ![t] = "idle"] /\ UNCHANGED <<value, wakes, op, seen, ops>>
        BY <2>3 DEF Cas, Becomes
      <3> QED
        BY <1>3, <2>1, <3>1, GivesUp
    <2> QED
      BY <2>1, <2>2, <2>3, CasAcquireExclusive, CasAcquireShared
  <1>4. CASE op[t] \in {"ReleaseExclusive", "ReleaseShared", "Woken"}
    BY <1>4, CasReleaseExclusive, CasReleaseShared, CasWoken
  <1>5. op[t] \in Acquires \cup {"ReleaseExclusive", "ReleaseShared", "Woken"}
    BY DEF IInv, TypeOK, InOperation, Cas
  <1> QED
    BY <1>1, <1>2, <1>3, <1>4, <1>5 DEF Acquires

\* A thread that takes a token is one that was waiting for it.
LEMMA ExclusiveWokenStep == ASSUME IInv, NEW t \in Threads, ExclusiveWoken(t) PROVE IInv'
  <1>1. /\ pc[t] = "exclusiveWait" /\ exclusiveWake > 0 /\ exclusiveWake' = exclusiveWake - 1
        /\ value' = value /\ sharedWake' = sharedWake
        /\ pc' = [pc EXCEPT ![t] = "cas"] /\ op' = [op EXCEPT ![t] = "Woken"]
    BY DEF ExclusiveWoken
  <1>2. TypeOK' /\ InOperation'
    BY DEF ExclusiveWoken, IInv, TypeOK, InOperation
  <1>3. seen'[t] \in Words /\ \A u \in Threads \ {t} : seen'[u] = seen[u]
    BY DEF ExclusiveWoken, IInv, TypeOK
  <1>4. Balance /\ IsFiniteSet(Posts') /\ Moved(t, "cas", "Woken")
    BY <1>1, <1>3, StepKeeps
  <1>5. /\ ~OwnsExclusive("exclusiveWait", op[t]) /\ ~OwnsShared("exclusiveWait", op[t])
        /\ ~HandsOver("exclusiveWait", op[t]) /\ HandsOver("cas", "Woken")
        /\ ~OwnsExclusive("cas", "Woken") /\ ~OwnsShared("cas", "Woken")
    BY DEF OwnsExclusive, OwnsShared, HandsOver
  <1>6. Now(NExclusive, NShared, NWaking + 1, NExclusiveWaiting - 1, NSharedWaiting, NHanding, NPosts)
    BY <1>1, <1>4, <1>5 DEF Moved, Recount, Now
  <1>7. OwnersBalance'
    BY <1>1, <1>4, <1>6 DEF Balance, OwnersBalance, Now
  <1>8. WaitersBalance'
    BY <1>1, <1>4, <1>6 DEF Balance, OwnersBalance, WaitersBalance, Now, ExclusiveMask
  <1> QED
    BY <1>2, <1>4, <1>7, <1>8, BalanceNext DEF Balance

LEMMA SharedWokenStep == ASSUME IInv, NEW t \in Threads, SharedWoken(t) PROVE IInv'
  <1>1. /\ pc[t] = "sharedWait" /\ sharedWake > 0 /\ sharedWake' = sharedWake - 1
        /\ value' = value /\ exclusiveWake' = exclusiveWake
        /\ pc' = [pc EXCEPT ![t] = "cas"] /\ op' = [op EXCEPT ![t] = "AcquireShared"]
    BY DEF SharedWoken
  <1>2. TypeOK' /\ InOperation'
    BY DEF SharedWoken, IInv, TypeOK, InOperation, Acquires
  <1>3. seen'[t] \in Words /\ \A u \in Threads \ {t} : seen'[u] = seen[u]
    BY DEF SharedWoken, IInv, TypeOK
  <1>4. Balance /\ IsFiniteSet(Posts') /\ Moved(t, "cas", "AcquireShared")
    BY <1>1, <1>3, StepKeeps
  <1>5. /\ ~OwnsExclusive("sharedWait", op[t]) /\ ~OwnsShared("sharedWait", op[t])
        /\ ~HandsOver("sharedWait", op[t]) /\ ~HandsOver("cas", "AcquireShared")
        /\ ~OwnsExclusive("cas", "AcquireShared") /\ ~OwnsShared("cas", "AcquireShared")
    BY DEF OwnsExclusive, OwnsShared, HandsOver
  <1>6. Now(NExclusive, NShared, NWaking, NExclusiveWaiting, NSharedWaiting - 1, NHanding, NPosts)
    BY <1>1, <1>4, <1>5 DEF Moved, Recount, Now
  <1>7. OwnersBalance'
    BY <1>1, <1>4, <1>6 DEF Balance, OwnersBalance, Now
  <1>8. WaitersBalance'
    BY <1>1, <1>4, <1>6 DEF Balance, OwnersBalance, WaitersBalance, Now, ExclusiveMask
  <1> QED
    BY <1>2, <1>4, <1>7, <1>8, BalanceNext DEF Balance

\* Posting a semaphore turns the tokens that were owed into tokens.
LEMMA WakeStep == ASSUME IInv, NEW t \in Threads, Wake(t) PROVE IInv'
  <1>1. /\ value' = value /\ pc' = [pc EXCEPT ![t] = "idle"] /\ UNCHANGED <<op, seen, ops>>
        /\ op' = [op EXCEPT ![t] = op[t]] /\ seen[t] \in Words /\ seen[t].sharedWaiters \in Nat
    BY DEF Wake, IInv, TypeOK, Words
  <1>2. TypeOK' /\ InOperation'
    BY <1>1 DEF Wake, IInv, TypeOK, InOperation, WakeAll
  <1>3. Balance /\ IsFiniteSet(Posts') /\ Moved(t, "idle", op[t])
    BY <1>1, StepKeeps
  <1>4. ~OwnsExclusive("idle", op[t]) /\ ~OwnsShared("idle", op[t]) /\ ~HandsOver("idle", op[t])
    BY Counted
  <1>5. CASE pc[t] = "wakeExclusive"
    <2>1. exclusiveWake' = exclusiveWake + 1 /\ sharedWake' = sharedWake
      BY <1>5 DEF Wake
    <2>2. /\ ~OwnsExclusive("wakeExclusive", op[t]) /\ ~OwnsShared("wakeExclusive", op[t])
          /\ HandsOver("wakeExclusive", op[t])
      BY Counted
    <2>3. /\ Now(NExclusive, NShared, NWaking - 1, NExclusiveWaiting, NSharedWaiting, NHanding - 1, NPosts)
          /\ NWaking > 0 /\ NHanding > 0
      BY <1>3, <1>4, <1>5, <2>2 DEF Moved, Recount, Now
    <2>4. OwnersBalance'
      BY <1>1, <1>3, <2>1, <2>3 DEF Balance, OwnersBalance, Now
    <2>5. WaitersBalance'
      BY <1>1, <1>3, <2>1, <2>3 DEF Balance, OwnersBalance, WaitersBalance, Now, ExclusiveMask
    <2> QED
      BY <1>2, <1>3, <2>4, <2>5, BalanceNext DEF Balance
  <1>6. CASE pc[t] = "wakeShared"
    <2>1. exclusiveWake' = exclusiveWake /\ sharedWake' = sharedWake + seen[t].sharedWaiters
      BY <1>6 DEF Wake, WakeAll
    <2>2. /\ ~OwnsExclusive("wakeShared", op[t]) /\ ~OwnsShared("wakeShared", op[t])
          /\ ~HandsOver("wakeShared", op[t])
      BY Counted
    <2>3. Now(NExclusive, NShared, NWaking, NExclusiveWaiting, NSharedWaiting, NHanding,
              NPosts - seen[t].sharedWaiters)
      BY <1>3, <1>4, <1>6, <2>2 DEF Moved, Recount, Now
    <2>4. OwnersBalance'
      BY <1>1, <1>3, <2>1, <2>3 DEF Balance, OwnersBalance, Now
    <2>5. NPosts' \in Nat
      BY <1>3, FS_CardinalityType DEF NPosts
    <2>6. NSharedWaiting' = value'.sharedWaiters + sharedWake' + NPosts' /\ sharedWake' \in Nat
      BY <1>1, <1>3, <2>1, <2>3 DEF Balance, WaitersBalance, Now
    <2>7. NExclusiveWaiting' = NExclusiveWaiting /\ NExclusive' = NExclusive /\ NHanding' = NHanding
      BY <2>3 DEF Now
    <2>8. WaitersBalance'
      BY <1>1, <1>3, <2>1, <2>5, <2>6, <2>7 DEF Balance, WaitersBalance, ExclusiveMask
    <2> QED
      BY <1>2, <1>3, <2>4, <2>8, BalanceNext DEF Balance
  <1> QED
    BY <1>5, <1>6 DEF Wake

LEMMA NextStep == IInv /\ [Next]_vars => IInv'
  <1> SUFFICES ASSUME IInv, [Next]_vars PROVE IInv'
    OBVIOUS
  <1>1. ASSUME NEW t \in Threads, Step(t) PROVE IInv'
    BY <1>1, AcquireStep, ReleaseStep, CasStep, CasFailsStep, ExclusiveWokenStep,
       SharedWokenStep, WakeStep DEF Step
  <1>2. CASE UNCHANGED vars
    BY <1>2 DEF vars, IInv, TypeOK, InOperation, MutualExclusion, WakeUpsExact, OneHandOver,
       NobodyForgotten, ExclusiveOwners, SharedOwners, Waking, Releasing, Posts, Post, ExclusiveMask
  <1> QED
    BY <1>1, <1>2 DEF Next
-----------------------------------------------------------------------------
\* The counts in the word, the tokens and the threads agree in every reachable state.
THEOREM Invariance == Spec => []IInv
  BY Initially, NextStep, PTL DEF Spec

\* An exclusive owner of the fast lock is alone, and OWNED and SharedOwners of the word
\* tell exactly who owns it, whatever the interleaving of the CAS loops.
THEOREM ExclusiveOwnersAreAlone == Spec => []MutualExclusion
  <1>1. IInv => MutualExclusion
    BY DEF IInv
  <1> QED
    BY <1>1, Invariance, PTL

\* EXCLUSIVE_WAKING is exactly one hand-over, and every blocked thread is covered by a
\* waiter count, a token or a post to come, with somebody there to wake it.
THEOREM NoWakeUpIsLost == Spec => []WakeUpsExact
  <1>1. IInv => WakeUpsExact
    BY DEF IInv
  <1> QED
    BY <1>1, Invariance, PTL
-----------------------------------------------------------------------------
(***************************************************************************)
(* Callbacks.  The invariant says where a registration is for every control*)
(* point of its client and of the invokers: in the list, counted busy,     *)
(* asleep or being woken, and still to be called.                          *)
(***************************************************************************)
\* Control points of a client whose registration is in the list, and of an invoker with
\* the list lock.
Members == {"registered", "lock", "asleep"}
ClientPoints == {"idle", "insert"} \cup Members
Holding == {"next", "entry", "enter", "returned", "last", "pulse", "prepare", "unblock", "end"}
InvokerPoints == {"idle", "function"} \cup Holding

CallbackTypeOK ==
    /\ list \in Seq(Clients) /\ busy \in [Clients -> Nat] /\ unregistering \in SUBSET Clients
    /\ readers \in SUBSET Invokers /\ sleepers \in Seq(Clients)
    /\ point \in [Clients \cup Invokers -> ClientPoints \cup InvokerPoints]
    /\ \A c \in Clients : point[c] \in ClientPoints
    /\ \A i \in Invokers : point[i] \in InvokerPoints
    /\ at \in [Invokers -> Clients \cup {NULL}]
    /\ waking \in [Invokers -> Seq(Clients)] /\ due \in [Invokers -> SUBSET Clients]

Once(s) == \A k, m \in DOMAIN s : s[k] = s[m] => k = m

\* The list holds the registrations that were inserted and not yet removed, each once.
ListInv ==
    /\ Once(list)
    /\ \A c \in Clients : c \in ToSet(list) <=> point[c] \in Members
    /\ \A c \in Clients : point[c] \in {"insert", "registered"} => c \notin unregistering
    /\ \A c \in Clients : point[c] \in {"lock", "asleep"} => c \in unregistering

\* An invoker holds the lock except in the function; what it points to is in the list.
WalkOf(i) ==
    /\ i \in readers <=> point[i] \in Holding
    /\ at[i] # NULL => point[at[i]] \in Members
    /\ InUse(i) => at[i] # NULL
    /\ point[i] \in {"idle", "end"} => at[i] = NULL
WalkInv == \A i \in Invokers : WalkOf(i)

\* Busy counts the invokers that are in the function, or about to decrement.
Users(c) == {i \in Invokers : point[i] \in {"function", "returned"} /\ at[i] = c}
BusyInv == \A c \in Clients : busy[c] = Cardinality(Users(c))

\* A sleeping client is in the condition's list or with one invoker that wakes it.
SleepInv ==
    /\ Once(sleepers) /\ \A c \in ToSet(sleepers) : point[c] = "asleep"
    /\ \A i \in Invokers :
        /\ Once(waking[i]) /\ \A c \in ToSet(waking[i]) : point[c] = "asleep" /\ c \notin ToSet(sleepers)
        /\ \A j \in Invokers : i # j => ToSet(waking[i]) \cap ToSet(waking[j]) = {}
        /\ point[i] # "unblock" => waking[i] = <<>>

\* What an invoker has still to call is in the list, behind the entry it is at.
DueOf(i) ==
    /\ point[i] \in {"idle", "end"} => due[i] = {}
    /\ \A c \in due[i] : point[c] = "registered"
    /\ \A k, m \in DOMAIN list : list[k] \in due[i] /\ list[m] = at[i] =>
            m < k \/ (m = k /\ point[i] \in {"entry", "enter"})
DueInv == \A i \in Invokers : DueOf(i)

CallbackInv == CallbackTypeOK /\ ListInv /\ WalkInv /\ BusyInv /\ SleepInv /\ DueInv
-----------------------------------------------------------------------------
(* Sequences *)

LEMMA Appended ==
    ASSUME NEW s \in Seq(Clients), NEW c \in Clients, Once(s), c \notin ToSet(s)
    PROVE  /\ Append(s, c) \in Seq(Clients) /\ Once(Append(s, c)) /\ ToSet(Append(s, c)) = ToSet(s) \cup {c}
           /\ \A k \in DOMAIN Append(s, c) : \/ k \in DOMAIN s /\ Append(s, c)[k] = s[k]
                                             \/ Append(s, c)[k] = c /\ \A m \in DOMAIN s : m < k
  <1> DEFINE r == Append(s, c)
  <1>1. /\ r \in Seq(Clients) /\ Len(r) = Len(s) + 1 /\ r[Len(s) + 1] = c /\ Len(s) \in Nat
        /\ \A i \in 1..Len(s) : r[i] = s[i]
    OBVIOUS
  <1>2. DOMAIN r = 1..(Len(s) + 1) /\ DOMAIN s = 1..Len(s)
    BY <1>1
  <1> HIDE DEF r
  <1>3. \A i \in DOMAIN r : (i \in DOMAIN s /\ r[i] = s[i]) \/ (i = Len(s) + 1 /\ r[i] = c)
    BY <1>1, <1>2
  <1>4. \A i \in DOMAIN s : s[i] # c /\ s[i] \in ToSet(s) /\ i \in DOMAIN r /\ r[i] = s[i] /\ i < Len(s) + 1
    BY <1>1, <1>2 DEF ToSet
  <1>5. Once(r)
    BY <1>3, <1>4 DEF Once
  <1>6. ToSet(r) = ToSet(s) \cup {c}
    <2>1. Len(s) + 1 \in DOMAIN r
      BY <1>1, <1>2
    <2>2. ToSet(r) \subseteq ToSet(s) \cup {c}
      BY <1>3, <1>4 DEF ToSet
    <2>3. ToSet(s) \subseteq ToSet(r) /\ c \in ToSet(r)
      BY <1>1, <1>4, <2>1 DEF ToSet
    <2> QED
      BY <2>2, <2>3
  <1> QED
    BY <1>1, <1>3, <1>4, <1>5, <1>6 DEF r

LEMMA TailOnce ==
    ASSUME NEW s \in Seq(Clients), Once(s), s # <<>>
    PROVE  /\ Tail(s) \in Seq(Clients) /\ Head(s) \in Clients /\ Once(Tail(s))
           /\ ToSet(Tail(s)) = ToSet(s) \ {Head(s)} /\ Head(s) \in ToSet(s)
           /\ Len(s) = 1 <=> Tail(s) = <<>>
  <1> DEFINE r == Tail(s)
  <1>1. /\ r \in Seq(Clients) /\ Len(r) = Len(s) - 1 /\ Len(s) \in Nat /\ Head(s) \in Clients /\ Len(s) >= 1
        /\ \A i \in 1..(Len(s) - 1) : r[i] = s[i + 1]
        /\ Head(s) = s[1]
    OBVIOUS
  <1>2. DOMAIN r = 1..(Len(s) - 1) /\ DOMAIN s = 1..Len(s)
    BY <1>1
  <1>3. Len(s) = 1 <=> r = <<>>
    <2>1. Len(r) = 0 <=> r = <<>>
      <3> HIDE DEF r
      <3> QED
        BY <1>1, EmptySeq
    <2> QED
      BY <1>1, <2>1
  <1> HIDE DEF r
  <1>4. \A i \in DOMAIN r : i + 1 \in DOMAIN s /\ r[i] = s[i + 1] /\ i + 1 # 1 /\ i \in Nat
    BY <1>1, <1>2
  <1>5. 1 \in DOMAIN s
    BY <1>1, <1>2
  <1>6. \A j \in DOMAIN s : j # 1 => j - 1 \in DOMAIN r /\ r[j - 1] = s[j]
    BY <1>1, <1>2
  <1>7. Once(r)
    <2> SUFFICES ASSUME NEW k \in DOMAIN r, NEW m \in DOMAIN r, r[k] = r[m] PROVE k = m
      BY DEF Once
    <2>1. k + 1 = m + 1
      BY <1>4 DEF Once
    <2> QED
      BY <1>4, <2>1
  <1>8. ToSet(r) = ToSet(s) \ {Head(s)}
    <2>1. ToSet(r) \subseteq ToSet(s) \ {Head(s)}
      BY <1>1, <1>4, <1>5 DEF ToSet, Once
    <2>2. ToSet(s) \ {Head(s)} \subseteq ToSet(r)
      BY <1>1, <1>6 DEF ToSet
    <2> QED
      BY <2>1, <2>2
  <1> QED
    BY <1>1, <1>3, <1>5, <1>7, <1>8 DEF r, ToSet

LEMMA Removed ==
    ASSUME NEW s \in Seq(Clients), NEW k \in DOMAIN s, Once(s)
    PROVE  /\ RemoveAt(s, k) \in Seq(Clients) /\ Once(RemoveAt(s, k))
           /\ ToSet(RemoveAt(s, k)) = ToSet(s) \ {s[k]}
           /\ \E f \in [DOMAIN RemoveAt(s, k) -> DOMAIN s] :
                /\ \A i \in DOMAIN RemoveAt(s, k) : RemoveAt(s, k)[i] = s[f[i]]
                /\ \A i, j \in DOMAIN RemoveAt(s, k) : (i < j <=> f[i] < f[j]) /\ (i = j <=> f[i] = f[j])
  <1> DEFINE r == RemoveAt(s, k)
  <1>1. Len(s) \in Nat /\ k \in 1..Len(s) /\ DOMAIN s = 1..Len(s)
    OBVIOUS
  <1>2. /\ SubSeq(s, 1, k - 1) \in Seq(Clients) /\ Len(SubSeq(s, 1, k - 1)) = k - 1
        /\ \A i \in 1..(k - 1) : SubSeq(s, 1, k - 1)[i] = s[i]
    BY <1>1
  <1>3. /\ SubSeq(s, k + 1, Len(s)) \in Seq(Clients) /\ Len(SubSeq(s, k + 1, Len(s))) = Len(s) - k
        /\ \A i \in 1..(Len(s) - k) : SubSeq(s, k + 1, Len(s))[i] = s[i + k]
    BY <1>1
  <1>4. /\ r \in Seq(Clients) /\ Len(r) = Len(s) - 1 /\ DOMAIN r = 1..(Len(s) - 1)
        /\ \A i \in 1..(Len(s) - 1) : r[i] = IF i < k THEN s[i] ELSE s[i + 1]
    <2> DEFINE p == SubSeq(s, 1, k - 1)
               q == SubSeq(s, k + 1, Len(s))
    <2>1. r = p \o q /\ p \in Seq(Clients) /\ q \in Seq(Clients) /\ Len(p) = k - 1 /\ Len(q) = Len(s) - k
      BY <1>2, <1>3 DEF RemoveAt
    <2>2. \A i \in 1..(k - 1) : p[i] = s[i]
      BY <1>2
    <2>3. \A i \in 1..(Len(s) - k) : q[i] = s[i + k]
      BY <1>3
    <2> HIDE DEF p, q, r
    <2>4. /\ r \in Seq(Clients) /\ Len(r) = Len(p) + Len(q)
          /\ \A i \in 1..(Len(p) + Len(q)) : r[i] = IF i <= Len(p) THEN p[i] ELSE q[i - Len(p)]
      BY <2>1, ConcatProperties
    <2>5. Len(p) + Len(q) = Len(s) - 1 /\ DOMAIN r = 1..(Len(s) - 1)
      <3>1. ASSUME NEW x, NEW y, x = k - 1, y = Len(s) - k PROVE x + y = Len(s) - 1
        BY <1>1, <3>1
      <3>2. Len(p) + Len(q) = Len(s) - 1
        BY <2>1, <3>1
      <3>3. DOMAIN r = 1..Len(r)
        BY <2>4
      <3> QED
        BY <2>4, <3>2, <3>3
    <2>6. ASSUME NEW i \in 1..(Len(s) - 1) PROVE r[i] = IF i < k THEN s[i] ELSE s[i + 1]
      <3>1. CASE i < k
        <4>1. i \in 1..(k - 1) /\ i <= k - 1
          BY <1>1, <3>1
        <4>2. r[i] = p[i]
          BY <2>1, <2>4, <2>5, <4>1
        <4> QED
          BY <2>2, <3>1, <4>1, <4>2
      <3>2. CASE ~(i < k)
        <4>1. i - Len(p) \in 1..(Len(s) - k) /\ (i - Len(p)) + k = i + 1 /\ ~(i <= Len(p))
          BY <1>1, <2>1, <3>2
        <4> QED
          BY <2>3, <2>4, <2>5, <3>2, <4>1
      <3> QED
        BY <3>1, <3>2
    <2> QED
      BY <2>4, <2>5, <2>6
  <1> HIDE DEF r
  <1> DEFINE f(i) == IF i < k THEN i ELSE i + 1
  <1>5. \A i \in DOMAIN r : f(i) \in DOMAIN s /\ f(i) # k /\ r[i] = s[f(i)] /\ i \in Nat
    BY <1>1, <1>4
  <1>6. \A i, j \in Nat : f(i) = f(j) => i = j
    BY <1>1
  <1>7. ASSUME NEW j \in DOMAIN s, j # k PROVE \E i \in DOMAIN r : f(i) = j
    <2>1. CASE j < k
      BY <1>1, <1>4, <2>1
    <2>2. CASE j > k
      <3>1. j - 1 \in DOMAIN r /\ f(j - 1) = j
        BY <1>1, <1>4, <2>2
      <3> QED
        BY <3>1
    <2> QED
      BY <1>1, <1>7, <2>1, <2>2
  <1> HIDE DEF f
  <1>8. Once(r)
    BY <1>5, <1>6 DEF Once
  <1>9. ToSet(r) = ToSet(s) \ {s[k]}
    <2>1. ToSet(r) \subseteq ToSet(s) \ {s[k]}
      BY <1>5 DEF ToSet, Once
    <2>2. ToSet(s) \ {s[k]} \subseteq ToSet(r)
      BY <1>5, <1>7 DEF ToSet
    <2> QED
      BY <2>1, <2>2
  <1>10. \E g \in [DOMAIN r -> DOMAIN s] :
            /\ \A i \in DOMAIN r : r[i] = s[g[i]]
            /\ \A i, j \in DOMAIN r : (i < j <=> g[i] < g[j]) /\ (i = j <=> g[i] = g[j])
    <2> DEFINE g == [i \in DOMAIN r |-> f(i)]
    <2>1. g \in [DOMAIN r -> DOMAIN s] /\ \A i \in DOMAIN r : g[i] = f(i) /\ r[i] = s[g[i]]
      BY <1>5
    <2>2. \A i, j \in DOMAIN r : (i < j <=> f(i) < f(j)) /\ (i = j <=> f(i) = f(j))
      BY <1>1, <1>4 DEF f
    <2> HIDE DEF g
    <2> QED
      BY <2>1, <2>2
  <1> QED
    BY <1>4, <1>8, <1>9, <1>10 DEF r

LEMMA Empty == Once(<<>>) /\ ToSet(<<>>) = {} /\ <<>> \in Seq(Clients)
  BY DEF Once, ToSet

LEMMA SeqElements ==
    ASSUME NEW s \in Seq(Clients)
    PROVE  /\ ToSet(s) \subseteq Clients /\ DOMAIN s = 1..Len(s)
           /\ \A k \in DOMAIN s : s[k] \in ToSet(s)
           /\ \A c \in ToSet(s) : \E k \in DOMAIN s : s[k] = c
  BY DEF ToSet
-----------------------------------------------------------------------------
(* Steps of one thread *)

LEMMA Kinds == /\ \A c \in Clients : c \notin Invokers /\ c # NULL /\ c \in Clients \cup Invokers
               /\ \A i \in Invokers : i \notin Clients /\ i # NULL /\ i \in Clients \cup Invokers
  BY CallbackAssumption

LEMMA UsersFinite == ASSUME NEW c PROVE IsFiniteSet(Users(c))
  <1>1. Users(c) \subseteq Invokers
    BY DEF Users
  <1> QED
    BY <1>1, FS_Subset, CallbackAssumption

\* A step that neither enters nor leaves a callback function.
LEMMA BusySame ==
    ASSUME BusyInv, UNCHANGED busy,
           \A i \in Invokers : /\ (point[i] \in {"function", "returned"})' <=> point[i] \in {"function", "returned"}
                               /\ point[i] \in {"function", "returned"} => at'[i] = at[i]
    PROVE  BusyInv'
  <1> SUFFICES ASSUME NEW c \in Clients PROVE busy'[c] = Cardinality(Users(c)')
    BY DEF BusyInv
  <1>1. Users(c)' = Users(c)
    BY DEF Users
  <1> QED
    BY <1>1 DEF BusyInv

LEMMA RegisterStep == ASSUME CallbackInv, NEW c \in Clients, Register(c) PROVE CallbackInv'
  <1> USE Kinds DEF Register, Goto, condition
  <1>1. /\ point' = [point EXCEPT ![c] = "insert"] /\ point[c] = "idle" /\ busy' = [busy EXCEPT ![c] = 0]
        /\ unregistering' = unregistering \ {c}
        /\ UNCHANGED <<list, readers, sleepers, val, waking, at, due>>
    OBVIOUS
  <1>2. /\ \A d \in Clients : point'[d] = IF d = c THEN "insert" ELSE point[d]
        /\ \A i \in Invokers : point'[i] = point[i]
    BY <1>1 DEF CallbackInv, CallbackTypeOK
  <1>3. CallbackTypeOK'
    BY <1>1, <1>2 DEF CallbackInv, CallbackTypeOK, ClientPoints
  <1>4. ListInv'
    BY <1>1, <1>2 DEF CallbackInv, ListInv, Members
  <1>5. WalkInv'
    BY <1>1, <1>2 DEF CallbackInv, CallbackTypeOK, WalkInv, WalkOf, InUse, Members
  <1>6. BusyInv'
    <2> SUFFICES ASSUME NEW d \in Clients PROVE busy'[d] = Cardinality(Users(d)')
      BY DEF BusyInv
    <2>1. Users(d)' = Users(d)
      BY <1>1, <1>2 DEF Users
    <2>2. Users(c) = {}
      BY <1>1 DEF Users, CallbackInv, WalkInv, WalkOf, Members
    <2> QED
      BY <1>1, <2>1, <2>2, FS_EmptySet DEF CallbackInv, BusyInv, CallbackTypeOK
  <1>7. SleepInv'
    BY <1>1, <1>2, SeqElements DEF CallbackInv, CallbackTypeOK, SleepInv
  <1>8. DueInv'
    BY <1>1, <1>2 DEF CallbackInv, CallbackTypeOK, DueInv, DueOf
  <1> QED
    BY <1>3, <1>4, <1>5, <1>6, <1>7, <1>8 DEF CallbackInv

LEMMA InsertStep == ASSUME CallbackInv, NEW c \in Clients, Insert(c) PROVE CallbackInv'
  <1> USE Kinds DEF Insert, Goto, condition, LockFree
  <1>1. /\ point' = [point EXCEPT ![c] = "registered"] /\ point[c] = "insert" /\ list' = Append(list, c) /\ readers = {}
        /\ UNCHANGED <<busy, unregistering, readers, sleepers, val, waking, at, due>>
    OBVIOUS
  <1>2. /\ \A d \in Clients : point'[d] = IF d = c THEN "registered" ELSE point[d]
        /\ \A i \in Invokers : point'[i] = point[i]
    BY <1>1 DEF CallbackInv, CallbackTypeOK
  <1>a. c \notin ToSet(list)
    BY <1>1 DEF CallbackInv, ListInv, Members
  <1>b. /\ list' \in Seq(Clients) /\ Once(list') /\ ToSet(list') = ToSet(list) \cup {c}
        /\ \A k \in DOMAIN list' : \/ k \in DOMAIN list /\ list'[k] = list[k]
                                   \/ list'[k] = c /\ \A m \in DOMAIN list : m < k
    BY <1>1, <1>a, Appended DEF CallbackInv, ListInv, CallbackTypeOK
  <1>3. CallbackTypeOK'
    BY <1>1, <1>2, <1>b DEF CallbackInv, CallbackTypeOK, ClientPoints, Members
  <1>4. ListInv'
    <2>1. Once(list') /\ \A d \in Clients : d \in ToSet(list') <=> point'[d] \in Members
      BY <1>2, <1>b DEF CallbackInv, ListInv, Members
    <2>2. ToSet(list') = ToSet(list)'
      OBVIOUS
    <2> QED
      BY <1>1, <1>2, <2>1, <2>2 DEF CallbackInv, ListInv, Once
  <1>5. WalkInv'
    BY <1>1, <1>2 DEF CallbackInv, CallbackTypeOK, WalkInv, WalkOf, InUse, Members
  <1>6. BusyInv'
    BY <1>1, <1>2, BusySame DEF CallbackInv
  <1>7. SleepInv'
    BY <1>1, <1>2, SeqElements DEF CallbackInv, CallbackTypeOK, SleepInv
  <1>8. DueInv'
    <2> SUFFICES ASSUME NEW i \in Invokers PROVE DueOf(i)'
      BY DEF DueInv
    <2>1. (point[i] \in {"idle", "end"} => due[i] = {})' /\ (\A d \in due[i] : point[d] = "registered")'
      BY <1>1, <1>2 DEF CallbackInv, CallbackTypeOK, DueInv, DueOf
    <2>2. c \notin due[i] /\ at[i] # c
      <3>1. c \notin due[i]
        BY <1>1 DEF CallbackInv, DueInv, DueOf
      <3>2. at[i] # c
        BY <1>1 DEF CallbackInv, WalkInv, WalkOf, Members
      <3> QED
        BY <3>1, <3>2
    <2>3. ASSUME NEW k \in DOMAIN list', NEW m \in DOMAIN list', list'[k] \in due[i], list'[m] = at[i]
          PROVE  m < k \/ (m = k /\ point[i] \in {"entry", "enter"})
      <3>1. k \in DOMAIN list /\ list'[k] = list[k] /\ m \in DOMAIN list /\ list'[m] = list[m]
        BY <1>b, <2>2, <2>3
      <3> QED
        BY <2>3, <3>1 DEF CallbackInv, DueInv, DueOf
    <2> QED
      BY <1>1, <1>2, <2>1, <2>3 DEF DueOf
  <1> QED
    BY <1>3, <1>4, <1>5, <1>6, <1>7, <1>8 DEF CallbackInv

LEMMA UnregisterStep == ASSUME CallbackInv, NEW c \in Clients, Unregister(c) PROVE CallbackInv'
  <1> USE Kinds DEF Unregister, Goto, condition
  <1>1. /\ point' = [point EXCEPT ![c] = "lock"] /\ point[c] = "registered"
        /\ unregistering' = unregistering \cup {c} /\ due' = [i \in Invokers |-> due[i] \ {c}]
        /\ UNCHANGED <<list, busy, readers, sleepers, val, waking, at>>
    OBVIOUS
  <1>2. /\ \A d \in Clients : point'[d] = IF d = c THEN "lock" ELSE point[d]
        /\ \A i \in Invokers : point'[i] = point[i]
    BY <1>1 DEF CallbackInv, CallbackTypeOK
  <1>3. CallbackTypeOK'
    BY <1>1, <1>2 DEF CallbackInv, CallbackTypeOK, ClientPoints, Members
  <1>4. ListInv'
    BY <1>1, <1>2 DEF CallbackInv, ListInv, Members
  <1>5. WalkInv'
    BY <1>1, <1>2 DEF CallbackInv, CallbackTypeOK, WalkInv, WalkOf, InUse, Members
  <1>6. BusyInv'
    BY <1>1, <1>2, BusySame DEF CallbackInv
  <1>7. SleepInv'
    BY <1>1, <1>2, SeqElements DEF CallbackInv, CallbackTypeOK, SleepInv
  <1>8. DueInv'
    BY <1>1, <1>2 DEF CallbackInv, CallbackTypeOK, DueInv, DueOf
  <1> QED
    BY <1>3, <1>4, <1>5, <1>6, <1>7, <1>8 DEF CallbackInv

LEMMA SleepStep == ASSUME CallbackInv, NEW c \in Clients, Sleep(c) PROVE CallbackInv'
  <1> USE Kinds DEF Sleep, Goto, condition
  <1>1. /\ point' = [point EXCEPT ![c] = "asleep"] /\ point[c] = "lock" /\ sleepers' = Append(sleepers, c)
        /\ UNCHANGED <<list, busy, unregistering, readers, val, waking, at, due>>
    OBVIOUS
  <1>2. /\ \A d \in Clients : point'[d] = IF d = c THEN "asleep" ELSE point[d]
        /\ \A i \in Invokers : point'[i] = point[i]
    BY <1>1 DEF CallbackInv, CallbackTypeOK
  <1>a. c \notin ToSet(sleepers)
    BY <1>1 DEF CallbackInv, SleepInv
  <1>b. sleepers' \in Seq(Clients) /\ Once(sleepers') /\ ToSet(sleepers') = ToSet(sleepers) \cup {c}
    BY <1>1, <1>a, Appended DEF CallbackInv, SleepInv, CallbackTypeOK
  <1>3. CallbackTypeOK'
    BY <1>1, <1>2, <1>b DEF CallbackInv, CallbackTypeOK, ClientPoints, Members
  <1>4. ListInv'
    BY <1>1, <1>2 DEF CallbackInv, ListInv, Members
  <1>5. WalkInv'
    BY <1>1, <1>2 DEF CallbackInv, CallbackTypeOK, WalkInv, WalkOf, InUse, Members
  <1>6. BusyInv'
    BY <1>1, <1>2, BusySame DEF CallbackInv
  <1>7. SleepInv'
    <2>1. \A d \in ToSet(sleepers') : point'[d] = "asleep"
      BY <1>2, <1>b, SeqElements DEF CallbackInv, SleepInv, CallbackTypeOK
    <2>2. ASSUME NEW i \in Invokers, NEW d \in ToSet(waking[i])
          PROVE  point'[d] = "asleep" /\ d \notin ToSet(sleepers')
      <3>1. d \in Clients /\ point[d] = "asleep" /\ d \notin ToSet(sleepers)
        BY SeqElements DEF CallbackInv, SleepInv, CallbackTypeOK
      <3> QED
        BY <1>1, <1>2, <1>b, <3>1
    <2> QED
      BY <1>1, <1>2, <1>b, <2>1, <2>2 DEF CallbackInv, SleepInv, Once
  <1>8. DueInv'
    BY <1>1, <1>2 DEF CallbackInv, CallbackTypeOK, DueInv, DueOf
  <1> QED
    BY <1>3, <1>4, <1>5, <1>6, <1>7, <1>8 DEF CallbackInv

LEMMA RemoveEntryStep == ASSUME CallbackInv, NEW c \in Clients, RemoveEntry(c) PROVE CallbackInv'
  <1> USE Kinds DEF RemoveEntry, Goto, condition, LockFree, MustWait
  <1>1. /\ point' = [point EXCEPT ![c] = "idle"] /\ point[c] = "lock" /\ busy[c] = 0 /\ readers = {}
        /\ \E k \in DOMAIN list : list[k] = c /\ list' = RemoveAt(list, k)
        /\ UNCHANGED <<busy, unregistering, readers, sleepers, val, waking, at, due>>
    OBVIOUS
  <1>2. /\ \A d \in Clients : point'[d] = IF d = c THEN "idle" ELSE point[d]
        /\ \A i \in Invokers : point'[i] = point[i]
    BY <1>1 DEF CallbackInv, CallbackTypeOK
  <1>a. PICK k \in DOMAIN list : list[k] = c /\ list' = RemoveAt(list, k)
    BY <1>1
  <1>b. /\ list' \in Seq(Clients) /\ Once(list') /\ ToSet(list') = ToSet(list) \ {c}
        /\ \E f \in [DOMAIN list' -> DOMAIN list] :
                /\ \A i \in DOMAIN list' : list'[i] = list[f[i]]
                /\ \A i, j \in DOMAIN list' : (i < j <=> f[i] < f[j]) /\ (i = j <=> f[i] = f[j])
    <2> DEFINE r == RemoveAt(list, k)
    <2>1. list \in Seq(Clients) /\ Once(list)
      BY DEF CallbackInv, ListInv, CallbackTypeOK
    <2>2. /\ r \in Seq(Clients) /\ Once(r) /\ ToSet(r) = ToSet(list) \ {list[k]}
          /\ \E f \in [DOMAIN r -> DOMAIN list] :
                /\ \A i \in DOMAIN r : r[i] = list[f[i]]
                /\ \A i, j \in DOMAIN r : (i < j <=> f[i] < f[j]) /\ (i = j <=> f[i] = f[j])
      BY <1>a, <2>1, Removed, ZenonT(60)
    <2>3. list' = r /\ list[k] = c
      BY <1>a
    <2> HIDE DEF r
    <2> QED
      BY <2>2, <2>3
  \* Nobody is at c: the lock is free and c is not busy.
  <1>c. ASSUME NEW i \in Invokers PROVE at[i] # c
    <2> SUFFICES ASSUME at[i] = c PROVE FALSE
      OBVIOUS
    <2>1. point[i] = "function"
      BY <1>1 DEF CallbackInv, CallbackTypeOK, WalkInv, WalkOf, InvokerPoints
    <2>2. i \in Users(c)
      BY <2>1 DEF Users
    <2>3. Cardinality(Users(c)) = 0
      BY <1>1 DEF CallbackInv, BusyInv
    <2> QED
      BY <2>2, <2>3, UsersFinite, FS_EmptySet
  <1>3. CallbackTypeOK'
    BY <1>1, <1>2, <1>b DEF CallbackInv, CallbackTypeOK, ClientPoints, Members
  <1>4. ListInv'
    <2>1. Once(list') /\ \A d \in Clients : d \in ToSet(list') <=> point'[d] \in Members
      BY <1>2, <1>b DEF CallbackInv, ListInv, Members
    <2> QED
      BY <1>1, <1>2, <2>1 DEF CallbackInv, ListInv, Once
  <1>5. WalkInv'
    BY <1>1, <1>2, <1>c DEF CallbackInv, CallbackTypeOK, WalkInv, WalkOf, InUse, Members
  <1>6. BusyInv'
    BY <1>1, <1>2, BusySame DEF CallbackInv
  <1>7. SleepInv'
    BY <1>1, <1>2, SeqElements DEF CallbackInv, CallbackTypeOK, SleepInv
  <1>8. DueInv'
    <2> SUFFICES ASSUME NEW i \in Invokers PROVE DueOf(i)'
      BY DEF DueInv
    <2>1. (point[i] \in {"idle", "end"} => due[i] = {})' /\ (\A d \in due[i] : point[d] = "registered")'
      BY <1>1, <1>2 DEF CallbackInv, CallbackTypeOK, DueInv, DueOf
    <2>3. ASSUME NEW n \in DOMAIN list', NEW m \in DOMAIN list', list'[n] \in due[i], list'[m] = at[i]
          PROVE  m < n \/ (m = n /\ point[i] \in {"entry", "enter"})
      BY <1>b, <2>3 DEF CallbackInv, DueInv, DueOf
    <2> QED
      BY <1>1, <1>2, <2>1, <2>3 DEF DueOf
  <1> QED
    BY <1>3, <1>4, <1>5, <1>6, <1>7, <1>8 DEF CallbackInv

\* A step of invoker i that moves it from one point to another and changes neither the
\* list nor who sleeps.
LEMMA InvokerMove ==
    ASSUME CallbackTypeOK, NEW i \in Invokers, NEW label \in InvokerPoints, point' = [point EXCEPT ![i] = label]
    PROVE  /\ point' \in [Clients \cup Invokers -> ClientPoints \cup InvokerPoints]
           /\ \A c \in Clients : point'[c] = point[c]
           /\ \A j \in Invokers : point'[j] = IF j = i THEN label ELSE point[j]
           /\ \A c \in Clients : point'[c] \in ClientPoints
           /\ \A j \in Invokers : point'[j] \in InvokerPoints
  BY Kinds DEF CallbackTypeOK

LEMMA Registrations ==
    ASSUME CallbackInv, UNCHANGED <<list, unregistering>>, \A c \in Clients : point'[c] = point[c]
    PROVE  ListInv'
  BY DEF CallbackInv, ListInv

LEMMA SleepSame ==
    ASSUME CallbackInv, UNCHANGED <<sleepers, waking>>, \A c \in Clients : point'[c] = point[c],
           \A i \in Invokers : point'[i] = point[i] \/ point[i] # "unblock"
    PROVE  SleepInv'
  BY SeqElements DEF CallbackInv, CallbackTypeOK, SleepInv

LEMMA WalkMove ==
    ASSUME CallbackInv, NEW i \in Invokers, \A c \in Clients : point'[c] = point[c],
           \A j \in Invokers : j # i => point'[j] = point[j] /\ at'[j] = at[j] /\ (j \in readers' <=> j \in readers),
           i \in readers' <=> point'[i] \in Holding,
           at'[i] \in Clients \cup {NULL},
           at'[i] # NULL => point[at'[i]] \in Members,
           InUse(i)' => at'[i] # NULL,
           point'[i] \in {"idle", "end"} => at'[i] = NULL
    PROVE  WalkInv'
  <1> SUFFICES ASSUME NEW j \in Invokers PROVE WalkOf(j)'
    BY DEF WalkInv
  <1>1. CASE j = i
    BY <1>1 DEF WalkOf, InUse
  <1>2. CASE j # i
    BY <1>2 DEF WalkOf, InUse, CallbackInv, CallbackTypeOK, WalkInv
  <1> QED
    BY <1>1, <1>2

LEMMA DueMove ==
    ASSUME CallbackInv, NEW i \in Invokers, \A c \in Clients : point'[c] = point[c], UNCHANGED list,
           \A j \in Invokers : j # i => point'[j] = point[j] /\ at'[j] = at[j] /\ due'[j] = due[j],
           DueOf(i)'
    PROVE  DueInv'
  <1> SUFFICES ASSUME NEW j \in Invokers, j # i PROVE DueOf(j)'
    BY DEF DueInv
  <1> QED
    BY DEF DueOf, CallbackInv, CallbackTypeOK, DueInv

LEMMA InvokeStep == ASSUME CallbackInv, NEW i \in Invokers, Invoke(i) PROVE CallbackInv'
  <1>1. /\ point' = [point EXCEPT ![i] = "next"] /\ point[i] = "idle" /\ readers' = readers \cup {i}
        /\ due' = [due EXCEPT ![i] = ToSet(list) \ unregistering]
        /\ UNCHANGED <<list, busy, unregistering, sleepers, val, waking, at>>
    BY DEF Invoke, Goto, condition
  <1>2. /\ point' \in [Clients \cup Invokers -> ClientPoints \cup InvokerPoints]
        /\ \A c \in Clients : point'[c] = point[c] /\ point'[c] \in ClientPoints
        /\ \A j \in Invokers : point'[j] = (IF j = i THEN "next" ELSE point[j]) /\ point'[j] \in InvokerPoints
    BY <1>1, InvokerMove DEF CallbackInv, InvokerPoints, Holding
  <1>3. CallbackTypeOK'
    BY <1>1, <1>2, SeqElements DEF CallbackInv, CallbackTypeOK
  <1>4. ListInv'
    BY <1>1, <1>2, Registrations
  <1>5. WalkInv'
    BY <1>1, <1>2, WalkMove DEF CallbackInv, CallbackTypeOK, WalkInv, WalkOf, InUse, Holding
  <1>6. BusyInv'
    BY <1>1, <1>2, BusySame DEF CallbackInv
  <1>7. SleepInv'
    BY <1>1, <1>2, SleepSame
  <1>8. DueInv'
    <2>1. at'[i] = NULL /\ due'[i] = ToSet(list) \ unregistering
      BY <1>1 DEF CallbackInv, CallbackTypeOK, WalkInv, WalkOf
    <2>2. \A c \in due'[i] : point'[c] = "registered"
      BY <1>2, <2>1, SeqElements DEF CallbackInv, CallbackTypeOK, ListInv, Members
    <2>3. \A m \in DOMAIN list : list[m] # NULL
      BY Kinds, SeqElements DEF CallbackInv, CallbackTypeOK
    <2>4. DueOf(i)'
      BY <1>1, <1>2, <2>1, <2>2, <2>3 DEF DueOf
    <2> QED
      BY <1>1, <1>2, <2>4, DueMove DEF CallbackInv, CallbackTypeOK
  <1> QED
    BY <1>3, <1>4, <1>5, <1>6, <1>7, <1>8 DEF CallbackInv

LEMMA FollowingIs ==
    ASSUME CallbackInv, NEW i \in Invokers
    PROVE  \/ /\ Following(at[i]) = NULL
              /\ \A k \in DOMAIN list : list[k] \in due[i] => at[i] # NULL /\ \E m \in DOMAIN list : list[m] = at[i] /\ k <= m
           \/ \E n \in DOMAIN list :
                /\ Following(at[i]) = list[n]
                /\ \A m \in DOMAIN list : list[m] = at[i] => n = m + 1
                /\ at[i] = NULL => n = 1
                /\ at[i] # NULL => \E m \in DOMAIN list : list[m] = at[i]
  <1> DEFINE r == at[i]
             n == IF r = NULL THEN 0 ELSE CHOOSE k \in DOMAIN list : list[k] = r
  <1>1. list \in Seq(Clients) /\ Len(list) \in Nat /\ DOMAIN list = 1..Len(list) /\ Once(list)
    BY DEF CallbackInv, CallbackTypeOK, ListInv
  <1>2. r # NULL => \E k \in DOMAIN list : list[k] = r
    <2> SUFFICES ASSUME r # NULL PROVE \E k \in DOMAIN list : list[k] = r
      OBVIOUS
    <2>1. r \in ToSet(list)
      BY DEF CallbackInv, CallbackTypeOK, WalkInv, WalkOf, ListInv
    <2> QED
      BY <2>1 DEF ToSet
  <1>3. r # NULL => n \in DOMAIN list /\ list[n] = r /\ \A m \in DOMAIN list : list[m] = r => m = n
    BY <1>1, <1>2 DEF Once
  <1>4. r = NULL => n = 0 /\ \A m \in DOMAIN list : list[m] # r
    BY <1>1, Kinds, SeqElements
  <1>5. Following(r) = IF n < Len(list) THEN list[n + 1] ELSE NULL
    BY DEF Following
  <1> HIDE DEF n
  <1>6. n \in 0..Len(list)
    BY <1>1, <1>3, <1>4
  <1>7. CASE n < Len(list)
    <2>1. n + 1 \in DOMAIN list /\ Following(r) = list[n + 1]
      BY <1>1, <1>5, <1>6, <1>7
    <2> QED
      BY <1>3, <1>4, <2>1
  <1>8. CASE ~(n < Len(list))
    <2>1. Following(r) = NULL /\ n = Len(list)
      <3>1. ASSUME NEW x \in Nat, NEW y \in 0..x, ~(y < x) PROVE y = x
        BY <3>1
      <3>2. n = Len(list)
        BY <1>1, <1>6, <1>8, <3>1
      <3>3. Following(r) = NULL
        BY <1>5, <1>8
      <3> QED
        BY <3>2, <3>3
    <2>2. ASSUME NEW k \in DOMAIN list PROVE r # NULL /\ k <= n
      BY <1>1, <1>4, <2>1
    <2> QED
      BY <1>3, <2>1, <2>2
  <1> QED
    BY <1>7, <1>8

LEMMA NextEntryStep == ASSUME CallbackInv, NEW i \in Invokers, NextEntry(i) PROVE CallbackInv'
  <1> DEFINE f == Following(at[i])
  <1>1. /\ point' = [point EXCEPT ![i] = IF f = NULL THEN "end" ELSE "entry"] /\ point[i] = "next"
        /\ at' = [at EXCEPT ![i] = f]
        /\ UNCHANGED <<list, busy, unregistering, readers, sleepers, val, waking, due>>
    BY DEF NextEntry, Goto, condition
  <1>2. /\ point' \in [Clients \cup Invokers -> ClientPoints \cup InvokerPoints]
        /\ \A c \in Clients : point'[c] = point[c] /\ point'[c] \in ClientPoints
        /\ \A j \in Invokers : /\ point'[j] = (IF j = i THEN IF f = NULL THEN "end" ELSE "entry" ELSE point[j])
                               /\ point'[j] \in InvokerPoints
    BY <1>1, InvokerMove DEF CallbackInv, InvokerPoints, Holding
  <1>a. \/ /\ f = NULL
           /\ \A k \in DOMAIN list : list[k] \in due[i] => at[i] # NULL /\ \E m \in DOMAIN list : list[m] = at[i] /\ k <= m
        \/ \E n \in DOMAIN list :
             /\ f = list[n]
             /\ \A m \in DOMAIN list : list[m] = at[i] => n = m + 1
             /\ at[i] = NULL => n = 1
             /\ at[i] # NULL => \E m \in DOMAIN list : list[m] = at[i]
    BY FollowingIs
  <1> HIDE DEF f
  <1>b. list \in Seq(Clients) /\ Once(list)
    BY DEF CallbackInv, CallbackTypeOK, ListInv
  <1>c. f # NULL => f \in Clients /\ point[f] \in Members
    BY <1>a, <1>b, SeqElements DEF CallbackInv, ListInv
  <1>d. at'[i] = f /\ at' \in [Invokers -> Clients \cup {NULL}] /\ \A j \in Invokers : j # i => at'[j] = at[j]
    BY <1>1, <1>c DEF CallbackInv, CallbackTypeOK
  <1>3. CallbackTypeOK'
    BY <1>1, <1>2, <1>d DEF CallbackInv, CallbackTypeOK
  <1>4. ListInv'
    BY <1>1, <1>2, Registrations
  <1>5. WalkInv'
    <2>1. i \in readers' <=> point'[i] \in Holding
      BY <1>1, <1>2 DEF CallbackInv, WalkInv, WalkOf, Holding
    <2>2. InUse(i)' => at'[i] # NULL
      BY <1>2, <1>d DEF InUse
    <2> QED
      BY <1>1, <1>2, <1>c, <1>d, <2>1, <2>2, WalkMove
  <1>6. BusyInv'
    BY <1>1, <1>2, <1>d, BusySame DEF CallbackInv
  <1>7. SleepInv'
    BY <1>1, <1>2, SleepSame
  <1>8. DueInv'
    <2>a. /\ due[i] \subseteq Clients
          /\ \A c \in due[i] : point[c] = "registered"
          /\ \A k, m \in DOMAIN list : list[k] \in due[i] /\ list[m] = at[i] => m < k
      BY <1>1 DEF CallbackInv, CallbackTypeOK, DueInv, DueOf
    <2>b. DOMAIN list = 1..Len(list) /\ Len(list) \in Nat
      BY <1>b
    <2>1. CASE f = NULL
      <3>1. \A k \in DOMAIN list : list[k] \notin due[i]
        <4> SUFFICES ASSUME NEW k \in DOMAIN list, list[k] \in due[i] PROVE FALSE
          OBVIOUS
        <4>1. PICK m \in DOMAIN list : list[m] = at[i] /\ k <= m
          <5>1. \A n \in DOMAIN list : list[n] # NULL
            BY <1>b, SeqElements, Kinds
          <5> QED
            BY <1>a, <2>1, <5>1
        <4>2. m < k
          BY <2>a, <4>1
        <4> QED
          BY <2>b, <4>1, <4>2
      <3>2. due[i] = {}
        <4> SUFFICES ASSUME NEW c \in due[i] PROVE FALSE
          OBVIOUS
        <4>1. c \in ToSet(list)
          BY <2>a DEF CallbackInv, ListInv, Members
        <4> QED
          BY <3>1, <4>1 DEF ToSet
      <3>3. DueOf(i)'
        BY <1>1, <3>2 DEF DueOf
      <3> QED
        BY <1>1, <1>2, <1>d, <3>3, DueMove
    <2>2. CASE f # NULL
      <3>1. PICK n \in DOMAIN list : /\ f = list[n]
                                     /\ \A m \in DOMAIN list : list[m] = at[i] => n = m + 1
                                     /\ at[i] = NULL => n = 1
                                     /\ at[i] # NULL => \E m \in DOMAIN list : list[m] = at[i]
        BY <1>a, <2>2
      <3>2. ASSUME NEW k \in DOMAIN list, NEW m \in DOMAIN list, list[k] \in due[i], list[m] = f
            PROVE  m < k \/ m = k
        <4>1. m = n
          BY <1>b, <3>1, <3>2 DEF Once
        <4>2. CASE at[i] = NULL
          BY <2>b, <3>1, <4>1, <4>2
        <4>3. CASE at[i] # NULL
          <5>1. PICK l \in DOMAIN list : list[l] = at[i]
            BY <3>1, <4>3
          <5>2. l < k /\ n = l + 1
            BY <2>a, <3>1, <3>2, <5>1
          <5> QED
            BY <2>b, <4>1, <5>2
        <4> QED
          BY <4>2, <4>3
      <3>3. point'[i] = "entry"
        BY <1>2, <2>2
      <3>4. \A c \in due'[i] : point'[c] = "registered"
        BY <1>1, <1>2, <2>a
      <3>5. DueOf(i)'
        BY <1>1, <1>d, <3>2, <3>3, <3>4 DEF DueOf
      <3> QED
        BY <1>1, <1>2, <1>d, <3>5, DueMove
    <2> QED
      BY <2>1, <2>2
  <1> QED
    BY <1>3, <1>4, <1>5, <1>6, <1>7, <1>8 DEF CallbackInv

\* The steps that only move the invoker.
LEMMA PointStep ==
    ASSUME CallbackInv, NEW i \in Invokers, Skip(i) \/ Test(i) \/ Pulse(i) \/ PulseRead(i) PROVE CallbackInv'
  <1>1. PICK q \in {"next", "enter", "pulse", "prepare"} : point' = [point EXCEPT ![i] = q]
    BY DEF Skip, Test, Pulse, PulseRead, Goto, AfterSkip
  <1>a. /\ UNCHANGED <<list, busy, unregistering, readers, sleepers, waking, at, due>>
        /\ point[i] \in {"entry", "last", "pulse"}
        /\ point[i] = "entry" /\ q # "enter" => at[i] \in unregistering
    <2> USE <1>1 DEF condition, Goto, AfterSkip
    <2>1. CASE Skip(i)
      BY <2>1 DEF Skip
    <2>2. CASE Test(i)
      <3>1. point'[i] = "enter"
        BY <2>2, Kinds DEF Test, CallbackInv, CallbackTypeOK
      <3>2. point'[i] = q
        BY Kinds DEF CallbackInv, CallbackTypeOK
      <3> QED
        BY <2>2, <3>1, <3>2 DEF Test
    <2>3. CASE Pulse(i)
      BY <2>3 DEF Pulse
    <2>4. CASE PulseRead(i)
      BY <2>4 DEF PulseRead
    <2> QED
      BY <2>1, <2>2, <2>3, <2>4
  <1>2. /\ point' \in [Clients \cup Invokers -> ClientPoints \cup InvokerPoints]
        /\ \A c \in Clients : point'[c] = point[c] /\ point'[c] \in ClientPoints
        /\ \A j \in Invokers : point'[j] = (IF j = i THEN q ELSE point[j]) /\ point'[j] \in InvokerPoints
    BY <1>1, InvokerMove DEF CallbackInv, InvokerPoints, Holding
  <1>3. CallbackTypeOK'
    BY <1>a, <1>2 DEF CallbackInv, CallbackTypeOK
  <1>4. ListInv'
    BY <1>a, <1>2, Registrations
  <1>5. WalkInv'
    <2>1. (i \in readers' <=> point'[i] \in Holding) /\ at[i] # NULL /\ point[at[i]] \in Members
      BY <1>a, <1>1, <1>2 DEF CallbackInv, WalkInv, WalkOf, Holding, InUse
    <2>2. point'[i] \notin {"idle", "end"}
      BY <1>1, <1>2
    <2> QED
      BY <1>a, <1>2, <2>1, <2>2, WalkMove DEF CallbackInv, CallbackTypeOK
  <1>6. BusyInv'
    BY <1>a, <1>1, <1>2, BusySame DEF CallbackInv
  <1>7. SleepInv'
    BY <1>a, <1>2, SleepSame
  <1>8. DueInv'
    <2>1. point'[i] = q /\ at[i] \in Clients /\ \A c \in due[i] : c \in Clients /\ point[c] = "registered"
      BY <1>a, <1>2 DEF CallbackInv, CallbackTypeOK, DueInv, DueOf, WalkInv, WalkOf, InUse
    <2>2. at[i] \in unregistering => at[i] \notin due[i]
      BY <2>1 DEF CallbackInv, ListInv
    <2>3. \A k, m \in DOMAIN list : list[k] \in due[i] /\ list[m] = at[i]
                => m < k \/ (m = k /\ q = "enter")
      BY <1>a, <2>2 DEF CallbackInv, DueInv, DueOf
    <2>4. DueOf(i)'
      BY <1>a, <1>1, <1>2, <2>1, <2>3 DEF DueOf
    <2> QED
      BY <1>a, <1>2, <2>4, DueMove
  <1> QED
    BY <1>3, <1>4, <1>5, <1>6, <1>7, <1>8 DEF CallbackInv

LEMMA EnterStep == ASSUME CallbackInv, NEW i \in Invokers, Enter(i) PROVE CallbackInv'
  <1>1. /\ point' = [point EXCEPT ![i] = "function"] /\ point[i] = "enter" /\ readers' = readers \ {i}
        /\ busy' = [busy EXCEPT ![at[i]] = @ + 1] /\ due' = [due EXCEPT ![i] = @ \ {at[i]}]
        /\ UNCHANGED <<list, unregistering, sleepers, val, waking, at>>
    BY DEF Enter, Goto, condition
  <1>2. /\ point' \in [Clients \cup Invokers -> ClientPoints \cup InvokerPoints]
        /\ \A c \in Clients : point'[c] = point[c] /\ point'[c] \in ClientPoints
        /\ \A j \in Invokers : point'[j] = (IF j = i THEN "function" ELSE point[j]) /\ point'[j] \in InvokerPoints
    BY <1>1, InvokerMove DEF CallbackInv, InvokerPoints, Holding
  <1>a. at[i] \in Clients /\ point[at[i]] \in Members /\ due'[i] = due[i] \ {at[i]}
    BY <1>1 DEF CallbackInv, CallbackTypeOK, WalkInv, WalkOf, InUse
  <1>3. CallbackTypeOK'
    BY <1>1, <1>2, <1>a DEF CallbackInv, CallbackTypeOK
  <1>4. ListInv'
    BY <1>1, <1>2, Registrations
  <1>5. WalkInv'
    BY <1>1, <1>2, <1>a, WalkMove, Kinds DEF CallbackInv, CallbackTypeOK, Holding
  <1>6. BusyInv'
    <2> SUFFICES ASSUME NEW d \in Clients PROVE busy'[d] = Cardinality(Users(d)')
      BY DEF BusyInv
    <2>1. CASE d = at[i]
      <3>1. Users(d)' = Users(d) \cup {i} /\ i \notin Users(d)
        BY <1>1, <1>2, <2>1 DEF Users
      <3>2. Cardinality(Users(d) \cup {i}) = Cardinality(Users(d)) + 1
        BY <3>1, UsersFinite, FS_AddElement
      <3> QED
        BY <1>1, <2>1, <3>1, <3>2 DEF CallbackInv, BusyInv, CallbackTypeOK
    <2>2. CASE d # at[i]
      <3>1. Users(d)' = Users(d)
        BY <1>1, <1>2, <2>2 DEF Users
      <3> QED
        BY <1>1, <2>2, <3>1 DEF CallbackInv, BusyInv, CallbackTypeOK
    <2> QED
      BY <2>1, <2>2
  <1>7. SleepInv'
    BY <1>1, <1>2, SleepSame
  <1>8. DueInv'
    <2>1. \A c \in due'[i] : c \in Clients /\ point[c] = "registered" /\ c # at[i]
      BY <1>a DEF CallbackInv, CallbackTypeOK, DueInv, DueOf
    <2>2. \A k, m \in DOMAIN list : list[k] \in due'[i] /\ list[m] = at[i] => m < k
      BY <1>a, <2>1 DEF CallbackInv, DueInv, DueOf
    <2>3. DueOf(i)'
      BY <1>1, <1>2, <2>1, <2>2 DEF DueOf
    <2> QED
      BY <1>1, <1>2, <2>3, DueMove DEF CallbackInv, CallbackTypeOK
  <1> QED
    BY <1>3, <1>4, <1>5, <1>6, <1>7, <1>8 DEF CallbackInv

LEMMA FunctionReturnsStep == ASSUME CallbackInv, NEW i \in Invokers, FunctionReturns(i) PROVE CallbackInv'
  <1>1. /\ point' = [point EXCEPT ![i] = "returned"] /\ point[i] = "function" /\ readers' = readers \cup {i}
        /\ UNCHANGED <<list, busy, unregistering, sleepers, val, waking, at, due>>
    BY DEF FunctionReturns, Goto, condition
  <1>2. /\ point' \in [Clients \cup Invokers -> ClientPoints \cup InvokerPoints]
        /\ \A c \in Clients : point'[c] = point[c] /\ point'[c] \in ClientPoints
        /\ \A j \in Invokers : point'[j] = (IF j = i THEN "returned" ELSE point[j]) /\ point'[j] \in InvokerPoints
    BY <1>1, InvokerMove DEF CallbackInv, InvokerPoints, Holding
  <1>a. at[i] \in Clients /\ point[at[i]] \in Members
    BY <1>1 DEF CallbackInv, CallbackTypeOK, WalkInv, WalkOf, InUse
  <1>3. CallbackTypeOK'
    BY <1>1, <1>2 DEF CallbackInv, CallbackTypeOK
  <1>4. ListInv'
    BY <1>1, <1>2, Registrations
  <1>5. WalkInv'
    BY <1>1, <1>2, <1>a, WalkMove, Kinds DEF CallbackInv, CallbackTypeOK, Holding
  <1>6. BusyInv'
    BY <1>1, <1>2, BusySame DEF CallbackInv
  <1>7. SleepInv'
    BY <1>1, <1>2, SleepSame
  <1>8. DueInv'
    <2>1. DueOf(i)'
      BY <1>1, <1>2 DEF CallbackInv, CallbackTypeOK, DueInv, DueOf
    <2> QED
      BY <1>1, <1>2, <2>1, DueMove
  <1> QED
    BY <1>3, <1>4, <1>5, <1>6, <1>7, <1>8 DEF CallbackInv

LEMMA DecrementStep == ASSUME CallbackInv, NEW i \in Invokers, Decrement(i) PROVE CallbackInv'
  <1>1. PICK q \in {"last", "next"} : point' = [point EXCEPT ![i] = q]
    BY DEF Decrement, Goto
  <1>a. /\ point[i] = "returned" /\ busy' = [busy EXCEPT ![at[i]] = @ - 1]
        /\ UNCHANGED <<list, unregistering, readers, sleepers, val, waking, at, due>>
    BY DEF Decrement, condition
  <1>2. /\ point' \in [Clients \cup Invokers -> ClientPoints \cup InvokerPoints]
        /\ \A c \in Clients : point'[c] = point[c] /\ point'[c] \in ClientPoints
        /\ \A j \in Invokers : point'[j] = (IF j = i THEN q ELSE point[j]) /\ point'[j] \in InvokerPoints
    BY <1>1, InvokerMove DEF CallbackInv, InvokerPoints, Holding
  <1>b. at[i] \in Clients /\ point[at[i]] \in Members
    BY <1>a DEF CallbackInv, CallbackTypeOK, WalkInv, WalkOf, InUse
  <1>6. ASSUME NEW d \in Clients PROVE busy'[d] = Cardinality(Users(d)') /\ busy'[d] \in Nat
    <2>1. CASE d = at[i]
      <3>1. Users(d)' = Users(d) \ {i} /\ i \in Users(d)
        BY <1>1, <1>a, <1>2, <2>1 DEF Users
      <3>2. Cardinality(Users(d) \ {i}) = Cardinality(Users(d)) - 1 /\ IsFiniteSet(Users(d) \ {i})
        BY <3>1, UsersFinite, FS_RemoveElement
      <3>3. Cardinality(Users(d) \ {i}) \in Nat
        BY <3>2, FS_CardinalityType
      <3> QED
        BY <1>a, <2>1, <3>1, <3>2, <3>3 DEF CallbackInv, BusyInv, CallbackTypeOK
    <2>2. CASE d # at[i]
      <3>1. Users(d)' = Users(d)
        BY <1>1, <1>a, <1>2, <2>2 DEF Users
      <3> QED
        BY <1>a, <2>2, <3>1 DEF CallbackInv, BusyInv, CallbackTypeOK
    <2> QED
      BY <2>1, <2>2
  <1>3. CallbackTypeOK'
    BY <1>a, <1>2, <1>6, <1>b DEF CallbackInv, CallbackTypeOK
  <1>4. ListInv'
    BY <1>a, <1>2, Registrations
  <1>5. WalkInv'
    <2>1. (i \in readers' <=> point'[i] \in Holding) /\ at[i] # NULL /\ point[at[i]] \in Members
      BY <1>a, <1>1, <1>2 DEF CallbackInv, WalkInv, WalkOf, Holding, InUse
    <2>2. point'[i] \notin {"idle", "end"}
      BY <1>1, <1>2
    <2> QED
      BY <1>a, <1>2, <2>1, <2>2, WalkMove DEF CallbackInv, CallbackTypeOK
  <1>7. SleepInv'
    BY <1>a, <1>2, SleepSame
  <1>8. DueInv'
    <2>1. DueOf(i)'
      BY <1>a, <1>1, <1>2 DEF CallbackInv, CallbackTypeOK, DueInv, DueOf
    <2> QED
      BY <1>a, <1>2, <2>1, DueMove
  <1> QED
    BY <1>3, <1>4, <1>5, <1>6, <1>7, <1>8 DEF CallbackInv, BusyInv

LEMMA EndInvokeStep == ASSUME CallbackInv, NEW i \in Invokers, EndInvoke(i) PROVE CallbackInv'
  <1>1. /\ point' = [point EXCEPT ![i] = "idle"] /\ point[i] = "end" /\ readers' = readers \ {i}
        /\ at' = [at EXCEPT ![i] = NULL]
        /\ UNCHANGED <<list, busy, unregistering, sleepers, val, waking, due>>
    BY DEF EndInvoke, Goto, condition
  <1>2. /\ point' \in [Clients \cup Invokers -> ClientPoints \cup InvokerPoints]
        /\ \A c \in Clients : point'[c] = point[c] /\ point'[c] \in ClientPoints
        /\ \A j \in Invokers : point'[j] = (IF j = i THEN "idle" ELSE point[j]) /\ point'[j] \in InvokerPoints
    BY <1>1, InvokerMove DEF CallbackInv, InvokerPoints, Holding
  <1>a. at' \in [Invokers -> Clients \cup {NULL}] /\ at'[i] = NULL /\ \A j \in Invokers : j # i => at'[j] = at[j]
    BY <1>1 DEF CallbackInv, CallbackTypeOK
  <1>3. CallbackTypeOK'
    BY <1>1, <1>2, <1>a DEF CallbackInv, CallbackTypeOK
  <1>4. ListInv'
    BY <1>1, <1>2, Registrations
  <1>5. WalkInv'
    BY <1>1, <1>2, <1>a, WalkMove DEF Holding, InUse
  <1>6. BusyInv'
    BY <1>1, <1>2, <1>a, BusySame DEF CallbackInv
  <1>7. SleepInv'
    BY <1>1, <1>2, SleepSame
  <1>8. DueInv'
    <2>1. DueOf(i)'
      BY <1>1 DEF CallbackInv, DueInv, DueOf
    <2> QED
      BY <1>1, <1>2, <1>a, <2>1, DueMove
  <1> QED
    BY <1>3, <1>4, <1>5, <1>6, <1>7, <1>8 DEF CallbackInv

LEMMA PrepareStep == ASSUME CallbackInv, NEW i \in Invokers, Prepare(i) PROVE CallbackInv'
  <1>1. CASE sleepers # val[i]
    <2>1. UNCHANGED <<list, busy, unregistering, readers, sleepers, waking, at, due, point>>
      BY <1>1 DEF Prepare
    <2>2. CallbackTypeOK' /\ ListInv' /\ WalkInv' /\ SleepInv' /\ DueInv'
      BY <2>1 DEF CallbackInv, CallbackTypeOK, ListInv, WalkInv, WalkOf, InUse, SleepInv, DueInv, DueOf
    <2>3. BusyInv'
      BY <2>1, BusySame DEF CallbackInv
    <2> QED
      BY <2>2, <2>3 DEF CallbackInv
  <1>2. CASE sleepers = val[i]
    <2>1. /\ point' = [point EXCEPT ![i] = "unblock"] /\ point[i] = "prepare"
          /\ sleepers' = SubSeq(sleepers, Len(sleepers) + 1, Len(sleepers))
          /\ waking' = [waking EXCEPT ![i] = sleepers]
          /\ UNCHANGED <<list, busy, unregistering, readers, at, due>>
      BY <1>2 DEF Prepare, TakeAll, Goto
    <2>2. /\ point' \in [Clients \cup Invokers -> ClientPoints \cup InvokerPoints]
          /\ \A c \in Clients : point'[c] = point[c] /\ point'[c] \in ClientPoints
          /\ \A j \in Invokers : point'[j] = (IF j = i THEN "unblock" ELSE point[j]) /\ point'[j] \in InvokerPoints
      BY <2>1, InvokerMove DEF CallbackInv, InvokerPoints, Holding
    <2>3. sleepers' = <<>>
      <3>1. sleepers \in Seq(Clients) /\ Len(sleepers) \in Nat
        BY DEF CallbackInv, CallbackTypeOK
      <3>2. sleepers' \in Seq(Clients) /\ Len(sleepers') = 0
        BY <2>1, <3>1
      <3> QED
        BY <3>2, EmptySeq
    <2>4. CallbackTypeOK'
      BY <2>1, <2>2, <2>3, Empty DEF CallbackInv, CallbackTypeOK
    <2>5. ListInv'
      BY <2>1, <2>2, Registrations
    <2>6. WalkInv'
      <3>1. at[i] # NULL /\ point[at[i]] \in Members /\ (i \in readers' <=> point'[i] \in Holding)
        BY <2>1, <2>2 DEF CallbackInv, WalkInv, WalkOf, InUse, Holding
      <3> QED
        BY <2>1, <2>2, <3>1, WalkMove DEF CallbackInv, CallbackTypeOK
    <2>7. BusyInv'
      BY <2>1, <2>2, BusySame DEF CallbackInv
    <2>8. SleepInv'
      <3>1. waking'[i] = sleepers /\ waking[i] = <<>> /\ \A j \in Invokers : j # i => waking'[j] = waking[j]
        BY <2>1 DEF CallbackInv, CallbackTypeOK, SleepInv
      <3>2. Once(sleepers') /\ ToSet(sleepers') = {}
        BY <2>3, Empty
      <3>3. \A j \in Invokers : \A c \in ToSet(waking[j]) \cup ToSet(sleepers) : c \in Clients
        BY SeqElements DEF CallbackInv, CallbackTypeOK
      <3>4. ASSUME NEW j \in Invokers
            PROVE  /\ Once(waking'[j]) /\ \A c \in ToSet(waking'[j]) : point'[c] = "asleep" /\ c \notin ToSet(sleepers')
                   /\ \A k \in Invokers : j # k => ToSet(waking'[j]) \cap ToSet(waking'[k]) = {}
                   /\ point'[j] # "unblock" => waking'[j] = <<>>
        <4>1. CASE j = i
          BY <2>2, <3>1, <3>2, <3>3, <4>1 DEF CallbackInv, SleepInv
        <4>2. CASE j # i
          BY <2>2, <3>1, <3>2, <3>3, <4>2 DEF CallbackInv, SleepInv
        <4> QED
          BY <4>1, <4>2
      <3> QED
        BY <3>2, <3>4 DEF SleepInv, Once
    <2>9. DueInv'
      <3>1. DueOf(i)'
        BY <2>1, <2>2 DEF CallbackInv, CallbackTypeOK, DueInv, DueOf
      <3> QED
        BY <2>1, <2>2, <3>1, DueMove
    <2> QED
      BY <2>4, <2>5, <2>6, <2>7, <2>8, <2>9 DEF CallbackInv
  <1> QED
    BY <1>1, <1>2

LEMMA UnblockStep == ASSUME CallbackInv, NEW i \in Invokers, Unblock(i) PROVE CallbackInv'
  <1> DEFINE s == waking[i]
             c == Head(s)
             q == IF Len(s) = 1 THEN "next" ELSE "unblock"
  <1>1. /\ point' = [point EXCEPT ![i] = q, ![c] = "lock"] /\ point[i] = "unblock" /\ s # <<>>
        /\ waking' = [waking EXCEPT ![i] = Tail(s)]
        /\ UNCHANGED <<list, busy, unregistering, readers, sleepers, at, due>>
    BY DEF Unblock, Goto
  <1>a. s \in Seq(Clients) /\ Once(s)
    BY DEF CallbackInv, CallbackTypeOK, SleepInv
  <1>b. /\ Tail(s) \in Seq(Clients) /\ c \in Clients /\ Once(Tail(s))
        /\ ToSet(Tail(s)) = ToSet(s) \ {c} /\ c \in ToSet(s)
        /\ Len(s) = 1 <=> Tail(s) = <<>>
    BY <1>1, <1>a, TailOnce
  <1>c. point[c] = "asleep" /\ q \in {"next", "unblock"} /\ (q # "unblock" => Tail(s) = <<>>)
    BY <1>b DEF CallbackInv, SleepInv
  <1> HIDE DEF s, c, q
  <1>2. /\ point' \in [Clients \cup Invokers -> ClientPoints \cup InvokerPoints]
        /\ \A d \in Clients : point'[d] = (IF d = c THEN "lock" ELSE point[d]) /\ point'[d] \in ClientPoints
        /\ \A j \in Invokers : point'[j] = (IF j = i THEN q ELSE point[j]) /\ point'[j] \in InvokerPoints
    BY <1>1, <1>b, <1>c, Kinds DEF CallbackInv, CallbackTypeOK, ClientPoints, Members, InvokerPoints, Holding
  <1>3. CallbackTypeOK'
    BY <1>1, <1>2, <1>b DEF CallbackInv, CallbackTypeOK
  <1>4. ListInv'
    BY <1>1, <1>2, <1>c DEF CallbackInv, ListInv, Members
  <1>5. WalkInv'
    <2> SUFFICES ASSUME NEW j \in Invokers PROVE WalkOf(j)'
      BY DEF WalkInv
    <2>1. at'[j] = at[j] /\ at[j] \in Clients \cup {NULL} /\ (j \in readers' <=> j \in readers) /\ WalkOf(j)
      BY <1>1 DEF CallbackInv, CallbackTypeOK, WalkInv
    <2>2. at[j] # NULL => point'[at[j]] \in Members
      BY <1>2, <2>1 DEF WalkOf, Members
    <2>3. point'[j] = point[j] \/ (point[j] = "unblock" /\ point'[j] = "next")
      BY <1>1, <1>2, <1>c
    <2> QED
      BY <2>1, <2>2, <2>3 DEF WalkOf, InUse, Holding
  <1>6. BusyInv'
    BY <1>1, <1>2, <1>c, BusySame DEF CallbackInv
  <1>7. SleepInv'
    <2>1. waking'[i] = Tail(s) /\ \A j \in Invokers : j # i => waking'[j] = waking[j]
      BY <1>1 DEF CallbackInv, CallbackTypeOK
    <2>2. \A j \in Invokers : \A d \in ToSet(waking[j]) \cup ToSet(sleepers) : d \in Clients
      BY SeqElements DEF CallbackInv, CallbackTypeOK
    <2>3. \A j \in Invokers : j # i => c \notin ToSet(waking[j])
      BY <1>b DEF CallbackInv, SleepInv, s
    <2>4. c \notin ToSet(sleepers)
      BY <1>b DEF CallbackInv, SleepInv, s
    <2>5. ASSUME NEW j \in Invokers
          PROVE  /\ Once(waking'[j]) /\ \A d \in ToSet(waking'[j]) : point'[d] = "asleep" /\ d \notin ToSet(sleepers)
                 /\ \A k \in Invokers : j # k => ToSet(waking'[j]) \cap ToSet(waking'[k]) = {}
                 /\ point'[j] # "unblock" => waking'[j] = <<>>
      <3>1. CASE j = i
        <4>1. \A d \in ToSet(waking'[j]) : d \in ToSet(s) /\ d # c /\ d \in Clients
          BY <1>b, <2>1, <2>2, <3>1 DEF s
        <4>2. \A d \in ToSet(s) : point[d] = "asleep" /\ d \notin ToSet(sleepers)
          BY DEF CallbackInv, SleepInv, s
        <4>3. \A k \in Invokers : j # k => ToSet(waking'[j]) \cap ToSet(waking'[k]) = {}
          <5> SUFFICES ASSUME NEW k \in Invokers, j # k PROVE ToSet(waking'[j]) \cap ToSet(waking'[k]) = {}
            OBVIOUS
          <5>1. ToSet(s) \cap ToSet(waking[k]) = {}
            BY <3>1 DEF CallbackInv, SleepInv, s
          <5>2. waking'[k] = waking[k]
            BY <2>1, <3>1
          <5> QED
            BY <4>1, <5>1, <5>2
        <4> QED
          BY <1>2, <1>b, <1>c, <2>1, <3>1, <4>1, <4>2, <4>3
      <3>2. CASE j # i
        <4>1. waking'[j] = waking[j] /\ point'[j] = point[j] /\ Once(waking[j]) /\ (point[j] # "unblock" => waking[j] = <<>>)
          BY <1>2, <2>1, <3>2 DEF CallbackInv, SleepInv
        <4>2. \A d \in ToSet(waking[j]) : d \in Clients /\ d # c /\ point[d] = "asleep" /\ d \notin ToSet(sleepers)
          BY <2>2, <2>3, <3>2 DEF CallbackInv, SleepInv
        <4>3. \A k \in Invokers : j # k => ToSet(waking[j]) \cap ToSet(waking'[k]) = {}
          <5> SUFFICES ASSUME NEW k \in Invokers, j # k PROVE ToSet(waking[j]) \cap ToSet(waking'[k]) = {}
            OBVIOUS
          <5>1. ToSet(waking[j]) \cap ToSet(waking[k]) = {}
            BY DEF CallbackInv, SleepInv
          <5>2. ToSet(waking'[k]) \subseteq ToSet(waking[k])
            BY <1>b, <2>1 DEF s
          <5> QED
            BY <5>1, <5>2
        <4> QED
          BY <1>2, <4>1, <4>2, <4>3
      <3> QED
        BY <3>1, <3>2
    <2>6. \A d \in ToSet(sleepers) : point'[d] = "asleep"
      BY <1>2, <2>2, <2>4 DEF CallbackInv, SleepInv
    <2> QED
      BY <1>1, <2>5, <2>6 DEF CallbackInv, SleepInv, Once
  <1>8. DueInv'
    <2> SUFFICES ASSUME NEW j \in Invokers PROVE DueOf(j)'
      BY DEF DueInv
    <2>1. UNCHANGED <<at, due, list>> /\ DueOf(j) /\ due[j] \subseteq Clients
      BY <1>1 DEF CallbackInv, CallbackTypeOK, DueInv
    <2>2. \A d \in due[j] : point'[d] = "registered"
      BY <1>2, <1>c, <2>1 DEF DueOf
    <2>3. point'[j] = point[j] \/ (point[j] = "unblock" /\ point'[j] = "next")
      BY <1>1, <1>2, <1>c
    <2> QED
      BY <2>1, <2>2, <2>3 DEF DueOf
  <1> QED
    BY <1>3, <1>4, <1>5, <1>6, <1>7, <1>8 DEF CallbackInv

LEMMA InitStep == ASSUME CallbackInit PROVE CallbackInv
  <1> USE Kinds, Empty DEF CallbackInit
  <1>1. CallbackTypeOK
    BY DEF CallbackTypeOK, ClientPoints, InvokerPoints
  <1>2. ListInv
    BY DEF ListInv, Members
  <1>3. WalkInv
    BY DEF WalkInv, WalkOf, InUse, Holding
  <1>4. BusyInv
    <2> SUFFICES ASSUME NEW c \in Clients PROVE busy[c] = Cardinality(Users(c))
      BY DEF BusyInv
    <2>1. Users(c) = {}
      BY DEF Users
    <2> QED
      BY <2>1, FS_EmptySet
  <1>5. SleepInv
    BY DEF SleepInv
  <1>6. DueInv
    BY DEF DueInv, DueOf
  <1> QED
    BY <1>1, <1>2, <1>3, <1>4, <1>5, <1>6 DEF CallbackInv

LEMMA Unchanged == ASSUME CallbackInv, UNCHANGED callbackVars PROVE CallbackInv'
  <1> USE DEF callbackVars
  <1>1. CallbackTypeOK' /\ ListInv' /\ WalkInv' /\ SleepInv' /\ DueInv'
    BY DEF CallbackInv, CallbackTypeOK, ListInv, WalkInv, WalkOf, InUse, SleepInv, DueInv, DueOf
  <1>2. BusyInv'
    BY BusySame DEF CallbackInv
  <1> QED
    BY <1>1, <1>2 DEF CallbackInv

\* The list, the busy counts, the walks, the sleepers and what is still due agree with
\* where every client and every invoker is, throughout.
THEOREM CallbackInvariance == CallbackSpec => []CallbackInv
  <1>1. CallbackInit => CallbackInv
    BY InitStep
  <1>2. CallbackInv /\ [CallbackNext]_callbackVars => CallbackInv'
    <2> SUFFICES ASSUME CallbackInv, [CallbackNext]_callbackVars PROVE CallbackInv'
      OBVIOUS
    <2>1. CASE UNCHANGED callbackVars
      BY <2>1, Unchanged
    <2>2. ASSUME NEW c \in Clients, Register(c) \/ Unregister(c) \/ ClientStep(c) PROVE CallbackInv'
      BY <2>2, RegisterStep, UnregisterStep, InsertStep, SleepStep, RemoveEntryStep DEF ClientStep
    <2>3. ASSUME NEW i \in Invokers, Invoke(i) \/ InvokerStep(i) PROVE CallbackInv'
      BY <2>3, InvokeStep, NextEntryStep, PointStep, EnterStep, FunctionReturnsStep, DecrementStep,
         EndInvokeStep, PrepareStep, UnblockStep DEF InvokerStep
    <2> QED
      BY <2>1, <2>2, <2>3 DEF CallbackNext
  <1> QED
    BY <1>1, <1>2, PTL DEF CallbackSpec

\* PhUnregisterCallback returns only once no PhInvokeCallback is in the function or still
\* has a pointer to the registration, whichever way the lock was dropped in between.
THEOREM RegistrationsAreKept == CallbackSpec => []NotInUseOnceUnregistered
  <1>1. CallbackInv => NotInUseOnceUnregistered
    BY Kinds DEF CallbackInv, NotInUseOnceUnregistered, WalkInv, WalkOf, Members
  <1> QED
    BY <1>1, CallbackInvariance, PTL

\* PhInvokeCallback calls every function registered when it began that nobody has started
\* to unregister, although it drops the lock around every call and the list changes.
THEOREM EveryoneNotified == CallbackSpec => []EveryoneIsNotified
  <1>1. CallbackInv => EveryoneIsNotified
    BY DEF CallbackInv, EveryoneIsNotified, DueInv, DueOf
  <1> QED
    BY <1>1, CallbackInvariance, PTL
=============================================================================
