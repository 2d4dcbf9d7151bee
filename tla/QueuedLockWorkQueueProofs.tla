--------------------- MODULE QueuedLockWorkQueueProofs ----------------------
(***************************************************************************)
(* Proofs about the queued lock for any finite set of threads and any      *)
(* number of acquisitions, and about the work queue for any number of      *)
(* clients, workers, items and failures.  The queued lock part numbers the *)
(* wait blocks in the order in which they were pushed and follows the one  *)
(* thread that may traverse the list, the blocks that were taken off it to *)
(* be woken, and the shared owners that still look for the oldest block.   *)
(***************************************************************************)
EXTENDS QueuedLock, WorkQueue, FiniteSetTheorems, TLAPS

BlockType == [next : MaybeThread, prev : MaybeThread, last : MaybeThread,
              sharedOwners : Nat, exclusive : BOOLEAN, spinning : BOOLEAN]
Points == {"idle", "read", "acquire", "exclusive", "shared"} \cup Waiting \cup Waking \cup Releasing

\* The owners: exclusive, shared, and the last shared owner on its way to clear OWNED.
Sharers == {t \in Threads : pc[t] \in {"shared", "readShared", "releaseShared", "findLast", "decrement"}}
Clearers == {t \in Threads : pc[t] = "clearOwned"}
Single == Exclusive \cup Clearers

\* A word that some thread has read: what its fields say fits together.
WordOK(v) ==
    /\ v.waiters => v.head \in Threads /\ v.shared = 0
    /\ ~v.waiters => v.head = NULL /\ ~v.multiple /\ ~v.traversing /\ (v.shared > 0 => v.owned)
    /\ v.multiple => v.owned

ControlOf(t) ==
    /\ t \in queued <=> pc[t] \in Waiting \/ (pc[t] \in Waking /\ caller[t] = "block")
    /\ pc[t] = "keyed" => ~block[t].spinning
    /\ WordOK(val[t]) /\ WordOK(found[t])
    /\ pc[t] = "wakeForRelease" => val[t].waiters /\ ~val[t].traversing /\ ~val[t].owned
Control == WordOK(value) /\ \A t \in Threads : ControlOf(t)

\* Who owns the lock, and how the word says it.
OwnInv ==
    /\ \A s, t \in Single : s = t
    /\ Single # {} => Sharers = {}
    /\ value.owned <=> Single \cup Sharers # {}
    /\ ~value.waiters => Clearers = {} /\ value.shared = Cardinality(Sharers)
    /\ value.multiple => Exclusive = {}
    /\ value.waiters /\ ~value.multiple => Cardinality(Sharers) <= 1

\* Somebody traverses the list; once the lock was seen free, no shared owner is left.
Preparing == {"wake", "wakeVisit", "unlink", "unlinked", "wakeAll"}
Optimizing == {"optimize", "optimizeVisit", "optimizeDone"}
TravOne ==
    /\ \A s, t \in Traversers : s = t
    /\ value.traversing <=> Traversers # {}
    /\ value.traversing => value.waiters
TravOf(t) ==
    /\ pc[t] \in Preparing \/ (pc[t] \in Optimizing /\ ~val[t].owned) => Sharers \cup Clearers = {}
    /\ pc[t] \in {"wakeVisit", "unlink", "wakeAll"} => ~val[t].owned
    /\ pc[t] = "wake" => ~val[t].multiple
TravInv == TravOne /\ \A t \in Threads : TravOf(t)
-----------------------------------------------------------------------------
(* The list.  A rank n orders the blocks, the newest having the highest; s is  *)
(* the newest block with a Last pointer, which leads to e, the oldest one.     *)

Ranked(S, n) == \A b, c \in S : n[b] = n[c] => b = c

\* Previous leads from b to the next newer block in S.
Linked(S, B, n, b) == B[b].prev \in S /\ n[B[b].prev] = n[b] + 1

ListOK(S, h, B, n, s, e) ==
    /\ h \in S /\ s \in S /\ e \in S /\ Ranked(S, n)
    /\ B[h].prev = NULL /\ B[s].last = e
    /\ \A b \in S : /\ n[b] <= n[h] /\ n[e] <= n[b]
                    /\ n[b] > n[s] => B[b].last = NULL
                    /\ n[b] < n[s] => Linked(S, B, n, b)
                    /\ b # e => B[b].next \in S /\ n[B[b].next] = n[b] - 1

\* The blocks that a thread at a unblocks, one after the other.
ChainOK(S, a, B, n) ==
    /\ a \in S /\ Ranked(S, n)
    /\ \A b \in S : /\ n[a] <= n[b]
                    /\ \/ B[b].prev = NULL /\ \A c \in S : n[c] <= n[b]
                       \/ Linked(S, B, n, b)

\* Blocks that nobody has unblocked: those in the list, and those that t unblocks.
Pending == {b \in queued : block[b].spinning \/ pc[b] = "keyed"}
InList(w) == {b \in Pending : w[b] = NULL}
Chain(w, t) == {b \in Pending : w[b] = t}

WakerPoints == {"unlinked", "unblock", "rendezvous"}
ChainOf(t, n, w) ==
    /\ pc[t] \in WakerPoints => ChainOK(Chain(w, t), at[t], block, n)
    /\ pc[t] \notin WakerPoints => Chain(w, t) = {}
    /\ pc[t] = "rendezvous" => ~block[at[t]].spinning /\ first[t] = block[at[t]].prev

\* A traversal that began at f has completed the links of the blocks from lo on.
Completed(S, B, n, f, lo) == \A b \in S : lo <= n[b] /\ n[b] < n[f] => Linked(S, B, n, b)

WalkOf(t, n, w, s, e) ==
    LET L == InList(w) IN
    /\ pc[t] \in Optimizing \cup (Preparing \ {"unlinked"}) =>
         /\ val[t].waiters /\ val[t].traversing /\ val[t].head \in L
         /\ block[val[t].head].prev = NULL /\ n[s] <= n[val[t].head]
    /\ pc[t] \in {"optimizeVisit", "wakeVisit"} =>
         /\ first[t] = val[t].head /\ at[t] \in L /\ n[s] <= n[at[t]] /\ n[at[t]] <= n[first[t]]
         /\ Completed(L, block, n, first[t], n[at[t]])
    /\ pc[t] \in {"unlink", "wakeAll"} =>
         /\ first[t] = val[t].head /\ at[t] = e
         /\ Completed(L, block, n, first[t], n[e])
    /\ pc[t] = "unlink" => block[e].prev # NULL

\* A shared owner that releases the lock finds the oldest block.
ReleaseOf(t, w, e) ==
    /\ pc[t] = "releaseShared" /\ val[t].waiters =>
         value.waiters /\ val[t].head \in InList(w) /\ (val[t].multiple <=> value.multiple)
    /\ pc[t] \in {"findLast", "decrement"} => value.waiters /\ value.multiple /\ at[t] \in InList(w)
    /\ pc[t] = "decrement" => at[t] = e

\* As long as there are shared owners, all Last pointers lead to the block that counts them.
CountOK(w, e) ==
    /\ value.waiters /\ Sharers \cup Clearers # {} =>
         block[e].last = e /\ \A b \in InList(w) : block[b].last # NULL => block[b].last = e
    /\ value.multiple => block[e].sharedOwners = Cardinality(Sharers)

Whole(n, w, s, e) ==
    /\ value.waiters => ListOK(InList(w), value.head, block, n, s, e)
    /\ ~value.waiters => InList(w) = {}
    /\ CountOK(w, e)
Shape(n, w, s, e) ==
    /\ Whole(n, w, s, e)
    /\ \A t \in Threads : ChainOf(t, n, w) /\ WalkOf(t, n, w, s, e) /\ ReleaseOf(t, w, e)

Ranks == [Threads -> Int]
Wakers == [Threads -> MaybeThread]
ShapeInv == \E n \in Ranks, w \in Wakers, s, e \in MaybeThread : Shape(n, w, s, e)

IInv == TypeOK /\ Control /\ OwnInv /\ TravInv /\ ShapeInv
-----------------------------------------------------------------------------
(* What the changes of the code do to a list and to a chain of blocks. *)

BlockMaps == [Threads -> BlockType]
SameLinks(S, B, C) == \A b \in S : C[b].next = B[b].next /\ C[b].prev = B[b].prev /\ C[b].last = B[b].last

\* A list depends on the links of its blocks only.
LEMMA ListSame ==
    ASSUME NEW S, NEW h, NEW B, NEW C, NEW n, NEW s, NEW e,
           ListOK(S, h, B, n, s, e), SameLinks(S, B, C)
    PROVE ListOK(S, h, C, n, s, e)
BY DEF ListOK, SameLinks, Linked

\* And so does a chain, which needs Previous only.
LEMMA ChainSame ==
    ASSUME NEW S, NEW a, NEW B, NEW C, NEW n, ChainOK(S, a, B, n), \A b \in S : C[b].prev = B[b].prev
    PROVE ChainOK(S, a, C, n)
BY DEF ChainOK, Linked

LEMMA CompletedSame ==
    ASSUME NEW S, NEW f, NEW lo, NEW B, NEW C, NEW n, Completed(S, B, n, f, lo),
           \A b \in S : C[b].prev = B[b].prev
    PROVE Completed(S, C, n, f, lo)
BY DEF Completed, Linked

\* PhpPushQueuedWaitBlock, first waiter.
LEMMA ListFirst ==
    ASSUME NEW t \in Threads, NEW B, B[t].last = t, B[t].prev = NULL, NEW n \in Ranks
    PROVE ListOK({t}, t, B, n, t, t)
BY DEF ListOK, Ranked, Ranks

\* PhpPushQueuedWaitBlock, second or later waiter.
LEMMA ListPush ==
    ASSUME NEW S \in SUBSET Threads, NEW h, NEW B, NEW n \in Ranks, NEW s, NEW e, ListOK(S, h, B, n, s, e),
           NEW t \in Threads, t \notin S, NEW C, SameLinks(S, B, C),
           C[t].next = h, C[t].prev = NULL, C[t].last = NULL,
           NEW m, m[t] = n[h] + 1, \A b \in Threads \ {t} : m[b] = n[b]
    PROVE ListOK(S \cup {t}, t, C, m, s, e)
<1>1. /\ \A b \in S : b # t /\ m[b] = n[b] /\ n[b] \in Int
      /\ m[t] = n[h] + 1 /\ h \in S /\ h \in Threads
  BY DEF Ranks, ListOK
<1>2. /\ s \in S /\ e \in S /\ \A b \in S : n[b] <= n[h] /\ n[e] <= n[b]
  BY DEF ListOK
<1>3. Ranked(S \cup {t}, m)
  BY <1>1, <1>2 DEF ListOK, Ranked
<1>4. \A b \in S \cup {t} : m[b] <= m[t] /\ m[e] <= m[b]
  BY <1>1, <1>2
<1>5. \A b \in S \cup {t} : m[b] > m[s] => C[b].last = NULL
  BY <1>1, <1>2 DEF ListOK, SameLinks
<1>6. \A b \in S \cup {t} : m[b] < m[s] => Linked(S \cup {t}, C, m, b)
  <2> SUFFICES ASSUME NEW b \in S, m[b] < m[s] PROVE Linked(S \cup {t}, C, m, b)
    BY <1>1, <1>2
  <2>1. Linked(S, B, n, b)
    BY <1>1, <1>2 DEF ListOK
  <2> QED BY <2>1, <1>1 DEF Linked, SameLinks
<1>7. \A b \in S \cup {t} : b # e => C[b].next \in S \cup {t} /\ m[C[b].next] = m[b] - 1
  BY <1>1, <1>2 DEF ListOK, SameLinks
<1>8. C[s].last = e
  BY DEF ListOK, SameLinks
<1> QED BY <1>1, <1>2, <1>3, <1>4, <1>5, <1>6, <1>7, <1>8 DEF ListOK

\* A traversal that has not come to a Last pointer goes on to an older block ...
LEMMA GoesOn ==
    ASSUME NEW S \in SUBSET Threads, NEW h, NEW B, NEW n \in Ranks, NEW s, NEW e, ListOK(S, h, B, n, s, e),
           NEW a \in S, n[s] <= n[a], B[a].last = NULL
    PROVE /\ a # e /\ B[a].next \in S /\ n[B[a].next] = n[a] - 1
          /\ n[s] <= n[B[a].next] /\ B[a].next # h
<1>1. a # s /\ n[a] \in Int /\ n[s] \in Int /\ n[e] \in Int /\ n[h] \in Int
  <2>1. a = s => B[a].last = e /\ e \in S
    BY DEF ListOK
  <2>2. NULL \notin Threads
    BY QueuedLockAssumption
  <2> QED BY <2>1, <2>2 DEF ListOK, Ranks
<1>2. n[a] # n[s] /\ n[e] <= n[s]
  BY <1>1 DEF ListOK, Ranked
<1>3. a # e
  BY <1>1, <1>2
<1>4. B[a].next \in S /\ n[B[a].next] = n[a] - 1
  BY <1>3 DEF ListOK
<1>5. n[B[a].next] < n[h]
  BY <1>4, <1>1 DEF ListOK
<1> QED BY <1>1, <1>2, <1>3, <1>4, <1>5

\* ... and sets its Previous pointer.
LEMMA ListVisit ==
    ASSUME NEW S \in SUBSET Threads, NEW h, NEW B, NEW n \in Ranks, NEW s, NEW e, ListOK(S, h, B, n, s, e),
           NEW a \in S, NEW x \in S, x # h, n[x] = n[a] - 1, NEW C,
           \A b \in S : /\ C[b].next = B[b].next /\ C[b].last = B[b].last
                        /\ C[b].prev = IF b = x THEN a ELSE B[b].prev
    PROVE ListOK(S, h, C, n, s, e)
<1>1. \A b \in S : Linked(S, B, n, b) => Linked(S, C, n, b)
  <2> SUFFICES ASSUME NEW b \in S, Linked(S, B, n, b) PROVE Linked(S, C, n, b)
    OBVIOUS
  <2>1. CASE b # x
    BY <2>1 DEF Linked
  <2>2. CASE b = x
    BY <2>2 DEF Linked, Ranks
  <2> QED BY <2>1, <2>2
<1> QED BY <1>1 DEF ListOK
LEMMA CompletedVisit ==
    ASSUME NEW S \in SUBSET Threads, NEW B, NEW n \in Ranks, NEW f \in S, NEW a \in S, Ranked(S, n),
           Completed(S, B, n, f, n[a]), NEW x \in S, n[x] = n[a] - 1, NEW C,
           \A b \in S : C[b].prev = IF b = x THEN a ELSE B[b].prev
    PROVE Completed(S, C, n, f, n[x])
<1> SUFFICES ASSUME NEW b \in S, n[x] <= n[b], n[b] < n[f] PROVE Linked(S, C, n, b)
  BY DEF Completed
<1>1. CASE b = x
  BY <1>1 DEF Linked, Ranks
<1>2. CASE b # x
  <2>1. n[b] # n[x] /\ n[a] \in Int /\ n[b] \in Int /\ n[x] \in Int
    BY <1>2 DEF Ranked, Ranks
  <2>2. n[a] <= n[b]
    BY <2>1
  <2>3. Linked(S, B, n, b)
    BY <2>2 DEF Completed
  <2> QED BY <2>3, <1>2 DEF Linked
<1> QED BY <1>1, <1>2

\* At the first Last pointer the links are complete from the oldest block on.
LEMMA CompletedDown ==
    ASSUME NEW S \in SUBSET Threads, NEW h, NEW B, NEW n \in Ranks, NEW s, NEW e, ListOK(S, h, B, n, s, e),
           NEW a \in S, n[s] <= n[a], B[a].last # NULL, NEW f \in S, Completed(S, B, n, f, n[a])
    PROVE a = s /\ B[a].last = e /\ Completed(S, B, n, f, n[e])
<1>1. n[a] \in Int /\ n[s] \in Int /\ s \in S
  BY DEF ListOK, Ranks
<1>2. a = s
  <2>1. ~(n[a] > n[s])
    BY DEF ListOK
  <2> QED BY <2>1, <1>1 DEF ListOK, Ranked
<1>3. B[a].last = e
  BY <1>2 DEF ListOK
<1>4. ASSUME NEW b \in S, n[e] <= n[b], n[b] < n[f] PROVE Linked(S, B, n, b)
  <2>1. CASE n[b] < n[s]
    BY <2>1 DEF ListOK
  <2>2. CASE ~(n[b] < n[s])
    BY <2>2, <1>1, <1>2, <1>4 DEF Completed, Ranks
  <2> QED BY <2>1, <2>2
<1> QED BY <1>2, <1>3, <1>4 DEF Completed

\* "Shortcut to the last block": the first block gets a Last pointer.
LEMMA ListOptimized ==
    ASSUME NEW S \in SUBSET Threads, NEW h, NEW B, NEW n \in Ranks, NEW s, NEW e, ListOK(S, h, B, n, s, e),
           NEW f \in S, n[s] <= n[f], Completed(S, B, n, f, n[e]), NEW C,
           \A b \in S : /\ C[b].next = B[b].next /\ C[b].prev = B[b].prev
                        /\ C[b].last = IF b = f THEN e ELSE B[b].last
    PROVE ListOK(S, h, C, n, f, e)
<1>1. \A b \in S : n[b] < n[f] => Linked(S, C, n, b)
  BY DEF Completed, ListOK, Linked
<1>2. \A b \in S : n[b] > n[f] => C[b].last = NULL
  BY DEF ListOK, Ranks
<1> QED BY <1>1, <1>2 DEF ListOK

\* PhpPrepareToWakeQueuedLock takes the oldest block out of the list.
Unlinks(S, B, C, f, e) ==
    \A b \in S : /\ C[b].next = B[b].next
                 /\ b # e => C[b].prev = B[b].prev
                 /\ C[b].last = IF b = f THEN B[e].prev ELSE B[b].last
LEMMA ListUnlink ==
    ASSUME NEW S \in SUBSET Threads, NEW h, NEW B, NEW n \in Ranks, NEW s, NEW e, ListOK(S, h, B, n, s, e),
           NEW f \in S, n[s] <= n[f], Completed(S, B, n, f, n[e]), B[f].prev = NULL, B[e].prev # NULL, NEW C,
           Unlinks(S, B, C, f, e)
    PROVE /\ f # e /\ h # e /\ B[e].prev \in S \ {e}
          /\ ListOK(S \ {e}, h, C, n, f, B[e].prev)
<1> USE DEF Unlinks
<1> DEFINE x == B[e].prev
           T == S \ {e}
<1>1. f # e
  OBVIOUS
<1>2. n[e] < n[f] /\ e \in S /\ h \in S /\ s \in S /\ n[f] <= n[h] /\ n[e] <= n[s]
  BY <1>1 DEF ListOK, Ranked, Ranks
<1>3. Linked(S, B, n, e)
  BY <1>2 DEF Completed, Ranks
<1>4. x \in S /\ n[x] = n[e] + 1 /\ x # e /\ h # e
  BY <1>3, <1>2 DEF Linked, Ranks
<1>5. \A b \in T : n[e] < n[b]
  BY <1>2 DEF ListOK, Ranked, Ranks
<1>6. \A b \in T : n[x] <= n[b]
  BY <1>2, <1>4, <1>5 DEF Ranks
<1>7. Ranked(T, n)
  BY DEF ListOK, Ranked
<1>8. C[f].last = x /\ C[h].prev = NULL
  BY <1>4 DEF ListOK
<1>9. \A b \in T : n[b] > n[f] => C[b].last = NULL
  BY DEF ListOK, Ranks
<1>10. \A b \in T : n[b] < n[f] => Linked(T, C, n, b)
  <2> SUFFICES ASSUME NEW b \in T, n[b] < n[f] PROVE Linked(T, C, n, b)
    OBVIOUS
  <2>1. Linked(S, B, n, b)
    BY <1>2, <1>5 DEF Completed, Ranks
  <2>2. B[b].prev # e
    BY <2>1, <1>5 DEF Linked, Ranks
  <2> QED BY <2>1, <2>2 DEF Linked
<1>11. \A b \in T : b # x => C[b].next \in T /\ n[C[b].next] = n[b] - 1
  <2> SUFFICES ASSUME NEW b \in T, b # x PROVE C[b].next \in T /\ n[C[b].next] = n[b] - 1
    OBVIOUS
  <2>1. B[b].next \in S /\ n[B[b].next] = n[b] - 1
    BY DEF ListOK
  <2>2. n[b] # n[x]
    BY <1>4 DEF ListOK, Ranked
  <2>3. B[b].next # e
    BY <2>1, <2>2, <1>4 DEF Ranks
  <2> QED BY <2>1, <2>3
<1>12. \A b \in T : n[b] <= n[h]
  BY DEF ListOK
<1> QED BY <1>1, <1>2, <1>4, <1>6, <1>7, <1>8, <1>9, <1>10, <1>11, <1>12 DEF ListOK

\* The chain of a thread that wakes one waiter, ...
LEMMA ChainOne ==
    ASSUME NEW a, NEW B, B[a].prev = NULL, NEW n, n[a] \in Int
    PROVE ChainOK({a}, a, B, n)
BY DEF ChainOK, Ranked

\* ... of one that wakes everybody, ...
LEMMA ChainEverybody ==
    ASSUME NEW S \in SUBSET Threads, NEW h, NEW B, NEW n \in Ranks, NEW s, NEW e, ListOK(S, h, B, n, s, e),
           Completed(S, B, n, h, n[e])
    PROVE ChainOK(S, e, B, n)
<1> SUFFICES ASSUME NEW b \in S PROVE (B[b].prev = NULL /\ \A c \in S : n[c] <= n[b]) \/ Linked(S, B, n, b)
  BY DEF ChainOK, ListOK
<1>1. CASE b = h
  BY <1>1 DEF ListOK
<1>2. CASE b # h
  <2>1. n[b] < n[h] /\ n[e] <= n[b]
    BY <1>2 DEF ListOK, Ranked, Ranks
  <2> QED BY <2>1 DEF Completed
<1> QED BY <1>1, <1>2

\* ... and what is left of it when the next block is unblocked.
LEMMA ChainNext ==
    ASSUME NEW S \in SUBSET Threads, NEW a, NEW B, NEW n \in Ranks, ChainOK(S, a, B, n)
    PROVE /\ B[a].prev = NULL => S = {a}
          /\ B[a].prev # NULL => ChainOK(S \ {a}, B[a].prev, B, n)
<1>1. a \in S /\ \A b \in S : n[a] <= n[b]
  BY DEF ChainOK
<1>2. ASSUME B[a].prev = NULL PROVE S = {a}
  <2>1. ~Linked(S, B, n, a)
    BY <1>2, QueuedLockAssumption DEF Linked
  <2>2. \A c \in S : n[c] = n[a]
    BY <2>1, <1>1 DEF ChainOK, Ranks
  <2> QED BY <2>2, <1>1 DEF ChainOK, Ranked
<1>3. ASSUME B[a].prev # NULL PROVE ChainOK(S \ {a}, B[a].prev, B, n)
  <2>1. Linked(S, B, n, a)
    BY <1>3, <1>1 DEF ChainOK
  <2>2. B[a].prev \in S \ {a} /\ n[B[a].prev] = n[a] + 1
    BY <2>1, <1>1 DEF Linked, Ranks
  <2>3. \A b \in S \ {a} : n[a] < n[b]
    BY <1>1 DEF ChainOK, Ranked, Ranks
  <2>4. \A b \in S \ {a} : n[B[a].prev] <= n[b]
    BY <1>1, <2>2, <2>3 DEF Ranks
  <2>5. ASSUME NEW b \in S \ {a}, Linked(S, B, n, b) PROVE Linked(S \ {a}, B, n, b)
    BY <2>5, <2>3 DEF Linked, Ranks
  <2>6. Ranked(S \ {a}, n)
    BY DEF ChainOK, Ranked
  <2> QED BY <2>2, <2>4, <2>5, <2>6 DEF ChainOK
<1> QED BY <1>2, <1>3
-----------------------------------------------------------------------------
(* Every step keeps the type of the state; for the count of shared owners see  *)
(* DecrementStep.                                                              *)

LEMMA NoThread == NULL \notin Threads /\ IsFiniteSet(Threads)
BY QueuedLockAssumption

LEMMA FreeIsWord == Free \in Words /\ WordOK(Free) /\ NoBlock \in BlockType
BY DEF Free, Counted, Words, WordOK, NoBlock, BlockType, MaybeThread

LEMMA CountedIsWord == \A n \in Nat : Counted(TRUE, n) \in Words /\ WordOK(Counted(TRUE, n))
BY DEF Counted, Words, WordOK, MaybeThread

\* TypeOK with its sets named.
Typed ==
    /\ value \in Words /\ queued \subseteq Threads /\ block \in BlockMaps
    /\ pc \in [Threads -> Points] /\ val \in [Threads -> Words] /\ found \in [Threads -> Words]
    /\ mode \in [Threads -> BOOLEAN]
    /\ at \in [Threads -> MaybeThread] /\ first \in [Threads -> MaybeThread]
    /\ caller \in [Threads -> {"idle", "block"}] /\ ops \in [Threads -> Nat]

LEMMA TypeIs == (TypeOK <=> Typed) /\ (TypeOK' <=> Typed')
BY DEF TypeOK, Typed, BlockMaps, BlockType, Points

LEMMA WordUpdates ==
    ASSUME NEW v \in Words, NEW b \in BOOLEAN, NEW c \in BOOLEAN
    PROVE /\ [v EXCEPT !.owned = b] \in Words /\ [v EXCEPT !.traversing = b] \in Words
          /\ [v EXCEPT !.owned = b, !.traversing = c] \in Words
          /\ Cleared(v) \in Words
          /\ [v EXCEPT !.owned = b, !.shared = @ + 1] \in Words
          /\ v.shared > 0 => [v EXCEPT !.shared = @ - 1] \in Words
          /\ v.head \in MaybeThread /\ v.shared \in Nat
          /\ v.owned \in BOOLEAN /\ v.waiters \in BOOLEAN /\ v.traversing \in BOOLEAN /\ v.multiple \in BOOLEAN
<1>1. /\ [v EXCEPT !.owned = b] \in Words /\ [v EXCEPT !.traversing = b] \in Words
      /\ [v EXCEPT !.owned = b, !.traversing = c] \in Words
  BY DEF Words
<1>2. Cleared(v) \in Words
  BY DEF Words, Cleared
<1>3. /\ v.head \in MaybeThread /\ v.shared \in Nat
      /\ v.owned \in BOOLEAN /\ v.waiters \in BOOLEAN /\ v.traversing \in BOOLEAN /\ v.multiple \in BOOLEAN
  BY DEF Words
<1>4. v.shared + 1 \in Nat /\ (v.shared > 0 => v.shared - 1 \in Nat)
  BY <1>3
<1>5. \A k \in Nat : [v EXCEPT !.owned = b, !.shared = k] \in Words /\ [v EXCEPT !.shared = k] \in Words
  BY DEF Words
<1>6. [v EXCEPT !.owned = b, !.shared = @ + 1] = [v EXCEPT !.owned = b, !.shared = v.shared + 1]
  BY DEF Words
<1>7. [v EXCEPT !.shared = @ - 1] = [v EXCEPT !.shared = v.shared - 1]
  BY DEF Words
<1> QED BY <1>1, <1>2, <1>3, <1>4, <1>5, <1>6, <1>7

LEMMA BlockUpdates ==
    ASSUME NEW B \in BlockMaps, NEW b \in Threads, NEW x \in MaybeThread, NEW k \in Nat
    PROVE /\ [B EXCEPT ![b].prev = x] \in BlockMaps /\ [B EXCEPT ![b].last = x] \in BlockMaps
          /\ [B EXCEPT ![b].sharedOwners = k] \in BlockMaps /\ [B EXCEPT ![b].spinning = FALSE] \in BlockMaps
          /\ B[b].next \in MaybeThread /\ B[b].prev \in MaybeThread /\ B[b].last \in MaybeThread
          /\ B[b].sharedOwners \in Nat
<1>1. B[b] \in BlockType
  BY DEF BlockMaps
<1>2. /\ [B[b] EXCEPT !.prev = x] \in BlockType /\ [B[b] EXCEPT !.last = x] \in BlockType
      /\ [B[b] EXCEPT !.sharedOwners = k] \in BlockType /\ [B[b] EXCEPT !.spinning = FALSE] \in BlockType
      /\ B[b].next \in MaybeThread /\ B[b].prev \in MaybeThread /\ B[b].last \in MaybeThread
      /\ B[b].sharedOwners \in Nat
  BY <1>1 DEF BlockType
<1> QED BY <1>2 DEF BlockMaps

LEMMA CasType ==
    ASSUME Typed, NEW t \in Threads, NEW new \in Words, NEW yes \in Points, NEW no \in Points, Cas(t, new, yes, no)
    PROVE value' \in Words /\ pc' \in [Threads -> Points] /\ val' \in [Threads -> Words]
BY FreeIsWord DEF Typed, Cas, Goto, Load, Points

LEMMA PointsAre ==
    /\ \A p \in {"idle", "read", "acquire", "exclusive", "shared", "optimize", "optimizeVisit", "optimizeDone",
                 "block", "keyed", "wake", "wakeVisit", "unlink", "unlinked", "wakeAll", "unblock", "rendezvous",
                 "wakeForRelease", "release", "readShared", "releaseShared", "findLast", "decrement",
                 "clearOwned"} : p \in Points
    /\ {"idle", "block"} \subseteq Points
BY DEF Points, Waiting, Waking, Releasing

LEMMA AcquireType == ASSUME Typed, NEW t \in Threads, Acquire(t) PROVE Typed'
<1>0. [value EXCEPT !.owned = TRUE] \in Words
  BY WordUpdates DEF Typed
<1>1. CASE AcquireExclusive(t)
  BY <1>0, <1>1, PointsAre DEF Typed, AcquireExclusive, Goto, waitBlocks, traversal
<1>2. CASE TryAcquireExclusive(t)
  BY <1>0, <1>2, PointsAre DEF Typed, TryAcquireExclusive, Goto, waitBlocks, traversal
<1>3. CASE AcquireShared(t)
  <2>1. Counted(TRUE, 1) \in Words
    BY CountedIsWord
  <2>2. value' \in Words /\ mode' \in [Threads -> BOOLEAN] /\ pc' \in [Threads -> Points]
    BY <1>3, <2>1, PointsAre DEF Typed, AcquireShared, Goto
  <2>3. ops' \in [Threads -> Nat] /\ UNCHANGED <<block, queued, found, val, at, first, caller>>
    BY <1>3 DEF Typed, AcquireShared, waitBlocks, traversal
  <2> QED BY <2>2, <2>3 DEF Typed
<1> QED BY <1>1, <1>2, <1>3 DEF Acquire

\* The block and the word that a push writes.
Pushed(t) == IF val[t].waiters THEN PushedOn(t) ELSE PushedFirst(t)
LEMMA PushedType == ASSUME Typed, NEW t \in Threads PROVE Pushed(t).value \in Words /\ Pushed(t).block \in BlockType
<1>1. /\ val[t] \in Words /\ val[t].shared \in Nat /\ val[t].head \in MaybeThread /\ mode[t] \in BOOLEAN
  BY WordUpdates DEF Typed
<1>2. PushedOn(t).value \in Words /\ PushedFirst(t).value \in Words
  BY <1>1 DEF PushedOn, PushedFirst, Listed, Words, MaybeThread
<1>3. PushedOn(t).block \in BlockType /\ PushedFirst(t).block \in BlockType
  BY <1>1 DEF PushedOn, PushedFirst, NoBlock, Saved, BlockType, MaybeThread
<1> QED BY <1>2, <1>3 DEF Pushed

LEMMA SlowAcquireType == ASSUME Typed, NEW t \in Threads, SlowAcquire(t) PROVE Typed'
<1>0. val[t] \in Words
  BY DEF Typed
<1>1. CASE SlowRead(t)
  BY <1>1, PointsAre DEF Typed, SlowRead, Goto, Load, waitBlocks, traversal
<1>2. CASE SlowTakeExclusive(t)
  <2>1. value' \in Words /\ pc' \in [Threads -> Points] /\ val' \in [Threads -> Words]
    BY <1>2, <1>0, WordUpdates, CasType, PointsAre DEF SlowTakeExclusive
  <2> QED BY <1>2, <2>1 DEF Typed, SlowTakeExclusive, waitBlocks, traversal
<1>3. CASE SlowTakeShared(t)
  <2>1. value' \in Words /\ pc' \in [Threads -> Points] /\ val' \in [Threads -> Words]
    BY <1>3, <1>0, WordUpdates, CasType, PointsAre DEF SlowTakeShared
  <2> QED BY <1>3, <2>1 DEF Typed, SlowTakeShared, waitBlocks, traversal
<1>4. CASE Push(t)
  <2>1. /\ Cas(t, Pushed(t).value, IF MustOptimize(val[t]) THEN "optimize" ELSE "block", "acquire")
        /\ \/ /\ block' = [block EXCEPT ![t] = Pushed(t).block]
              /\ queued' = queued \cup {t}
              /\ found' = [found EXCEPT ![t] = value]
           \/ UNCHANGED waitBlocks
        /\ UNCHANGED <<mode, traversal, ops>>
    BY <1>4 DEF Push, Pushed
  <2>2. value' \in Words /\ pc' \in [Threads -> Points] /\ val' \in [Threads -> Words]
    BY <2>1, PushedType, CasType, PointsAre
  <2>3. block' \in BlockMaps /\ queued' \subseteq Threads /\ found' \in [Threads -> Words]
    BY <2>1, PushedType DEF Typed, waitBlocks, BlockMaps
  <2> QED BY <2>1, <2>2, <2>3 DEF Typed, traversal
<1> QED BY <1>1, <1>2, <1>3, <1>4 DEF SlowAcquire

LEMMA ResumeType ==
    ASSUME Typed, NEW t \in Threads, Resume(t)
    PROVE /\ block' \in BlockMaps /\ queued' \subseteq Threads /\ found' \in [Threads -> Words]
          /\ val' \in [Threads -> Words] /\ caller' \in [Threads -> {"idle", "block"}]
BY FreeIsWord DEF Typed, Resume, Load, BlockMaps

LEMMA BlockStepType == ASSUME Typed, NEW t \in Threads, Block(t) PROVE Typed'
<1>1. CASE BlockOver(t)
  BY <1>1, ResumeType, PointsAre DEF Typed, BlockOver, Goto
<1>2. CASE BlockKeyed(t)
  <2>1. block' \in BlockMaps
    BY <1>2, BlockUpdates DEF Typed, BlockKeyed
  <2> QED BY <1>2, <2>1, PointsAre DEF Typed, BlockKeyed, Goto, traversal
<1> QED BY <1>1, <1>2 DEF Block

\* The steps of a traversal that follow no pointer.
PlainWalk(t) == \/ OptimizeTop(t) \/ OptimizeDone(t) \/ WakeNoPoint(t) \/ WakeTop(t) \/ Unlinked(t)
                \/ WakeAll(t) \/ \E u \in Threads : Rendezvous(t, u)
LEMMA WalkType == ASSUME Typed, NEW t \in Threads, PlainWalk(t) PROVE Typed'
<1>0. val[t] \in Words /\ value \in Words /\ val[t].head \in MaybeThread /\ NULL \in MaybeThread
  BY WordUpdates DEF Typed, MaybeThread
<1>1. CASE OptimizeTop(t)
  BY <1>1, <1>0, PointsAre DEF Typed, OptimizeTop, Goto, waitBlocks
<1>2. CASE OptimizeDone(t)
  <2>1. value' \in Words /\ pc' \in [Threads -> Points] /\ val' \in [Threads -> Words]
    BY <1>2, <1>0, WordUpdates, CasType, PointsAre DEF OptimizeDone
  <2> QED BY <1>2, <1>0, <2>1 DEF Typed, OptimizeDone, waitBlocks, Returned
<1>3. CASE WakeNoPoint(t)
  <2>1. caller[t] \in Points
    BY PointsAre DEF Typed
  <2>2. value' \in Words /\ pc' \in [Threads -> Points] /\ val' \in [Threads -> Words]
    BY <1>3, <1>0, <2>1, WordUpdates, CasType, PointsAre DEF WakeNoPoint
  <2> QED BY <1>3, <2>2 DEF Typed, WakeNoPoint, waitBlocks, traversal
<1>4. CASE WakeTop(t)
  BY <1>4, <1>0, PointsAre DEF Typed, WakeTop, Goto, waitBlocks
<1>5. CASE Unlinked(t)
  BY <1>5, <1>0, WordUpdates, FreeIsWord, PointsAre DEF Typed, Unlinked, Goto, Load, waitBlocks, traversal
<1>6. CASE WakeAll(t)
  <2>1. value' \in Words /\ pc' \in [Threads -> Points] /\ val' \in [Threads -> Words]
    BY <1>6, FreeIsWord, CasType, PointsAre DEF WakeAll
  <2> QED BY <1>6, <1>0, <2>1 DEF Typed, WakeAll, waitBlocks, Returned
<1>7. ASSUME NEW u \in Threads, Rendezvous(t, u) PROVE Typed'
  <2>1. /\ block' \in BlockMaps /\ queued' \subseteq Threads /\ found' \in [Threads -> Words]
        /\ val' \in [Threads -> Words] /\ caller' \in [Threads -> {"idle", "block"}]
    BY <1>7, ResumeType DEF Rendezvous
  <2>2. pc' \in [Threads -> Points] /\ at' \in [Threads -> MaybeThread] /\ first' \in [Threads -> MaybeThread]
    BY <1>7, <1>0, PointsAre DEF Typed, Rendezvous
  <2> QED BY <1>7, <2>1, <2>2 DEF Typed, Rendezvous
<1> QED BY <1>1, <1>2, <1>3, <1>4, <1>5, <1>6, <1>7 DEF PlainWalk

\* The steps of a release that follow no pointer.
PlainRelease(t) == \/ ReleaseExclusive(t) \/ WakeForRelease(t)
                   \/ ReleaseExclusiveRead(t) \/ ReleaseExclusiveCas(t)
                   \/ ReleaseShared(t) \/ ReleaseSharedRead(t)
                   \/ ReleaseSharedCas(t) \/ ReleaseSharedWaiters(t) \/ ClearOwned(t)

LEMMA ReleaseType == ASSUME Typed, NEW t \in Threads, PlainRelease(t) PROVE Typed'
<1>0. val[t] \in Words /\ value \in Words /\ val[t].head \in MaybeThread
  BY WordUpdates DEF Typed
<1> DEFINE CasTyped == value' \in Words /\ pc' \in [Threads -> Points] /\ val' \in [Threads -> Words]
<1>1. CASE ReleaseExclusive(t)
  <2>1. value' \in Words
    BY <1>0, <1>1, WordUpdates DEF ReleaseExclusive
  <2>2. val' \in [Threads -> Words]
    BY <1>1, <2>1 DEF Typed, ReleaseExclusive, Load
  <2>3. pc' \in [Threads -> Points]
    BY <1>1, PointsAre DEF Typed, ReleaseExclusive, Goto
  <2> QED BY <1>1, <2>1, <2>2, <2>3 DEF Typed, ReleaseExclusive, waitBlocks, traversal
<1>2. CASE WakeForRelease(t)
  <2>1. CasTyped
    BY <1>0, <1>2, WordUpdates, CasType, PointsAre DEF WakeForRelease
  <2> QED BY <1>2, <2>1 DEF Typed, WakeForRelease, ReturnTo, waitBlocks
<1>3. CASE ReleaseExclusiveRead(t)
  BY <1>3, <1>0, PointsAre DEF Typed, ReleaseExclusiveRead, Goto, Load, waitBlocks, traversal
<1>4. CASE ReleaseExclusiveCas(t)
  <2>1. CasTyped
    BY <1>0, <1>4, WordUpdates, CasType, PointsAre DEF ReleaseExclusiveCas
  <2> QED BY <1>4, <2>1 DEF Typed, ReleaseExclusiveCas, ReturnTo, waitBlocks
<1>5. CASE ReleaseShared(t)
  BY <1>5, FreeIsWord, PointsAre DEF Typed, ReleaseShared, Goto, waitBlocks, traversal
<1>6. CASE ReleaseSharedRead(t)
  BY <1>6, <1>0, PointsAre DEF Typed, ReleaseSharedRead, Goto, Load, waitBlocks, traversal
<1>7. CASE ReleaseSharedCas(t)
  <2>1. (IF val[t].shared > 1 THEN [val[t] EXCEPT !.shared = @ - 1] ELSE Free) \in Words
    <3>1. val[t].shared \in Nat /\ (val[t].shared > 0 => [val[t] EXCEPT !.shared = @ - 1] \in Words)
      BY <1>0, WordUpdates
    <3> QED BY <3>1, FreeIsWord
  <2>2. CasTyped
    BY <1>7, <2>1, CasType, PointsAre DEF ReleaseSharedCas
  <2> QED BY <1>7, <2>2 DEF Typed, ReleaseSharedCas, waitBlocks, traversal
<1>8. CASE ReleaseSharedWaiters(t)
  BY <1>8, <1>0, PointsAre DEF Typed, ReleaseSharedWaiters, Goto, waitBlocks
<1>9. CASE ClearOwned(t)
  <2>1. CasTyped
    BY <1>0, <1>9, WordUpdates, CasType, PointsAre DEF ClearOwned
  <2> QED BY <1>9, <2>1 DEF Typed, ClearOwned, ReturnTo, waitBlocks
<1> QED BY <1>1, <1>2, <1>3, <1>4, <1>5, <1>6, <1>7, <1>8, <1>9 DEF PlainRelease
-----------------------------------------------------------------------------
(* Who moves from where to where. *)

SharerPoints == {"shared", "readShared", "releaseShared", "findLast", "decrement"}
Special == Optimizing \cup Preparing \cup WakerPoints \cup {"releaseShared", "findLast", "decrement"}
Good == Typed /\ Control /\ OwnInv /\ TravInv

With(S, t, in) == IF in THEN S \cup {t} ELSE S \ {t}

LEMMA Moves ==
    ASSUME Typed, NEW t \in Threads, NEW q, pc' = [pc EXCEPT ![t] = q]
    PROVE /\ Sharers' = With(Sharers, t, q \in SharerPoints)
          /\ Clearers' = With(Clearers, t, q = "clearOwned")
          /\ Exclusive' = With(Exclusive, t, q \in {"exclusive", "release"})
          /\ Traversers' = With(Traversers, t, q \in Optimizing \cup Preparing)
          /\ pc'[t] = q /\ \A u \in Threads : u # t => pc'[u] = pc[u]
<1>1. pc'[t] = q /\ \A u \in Threads : u # t => pc'[u] = pc[u]
  BY DEF Typed
<1>2. Sharers' = With(Sharers, t, q \in SharerPoints)
  BY <1>1 DEF Sharers, With, SharerPoints
<1>3. Clearers' = With(Clearers, t, q = "clearOwned")
  BY <1>1 DEF Clearers, With
<1>4. Exclusive' = With(Exclusive, t, q \in {"exclusive", "release"})
  BY <1>1 DEF Exclusive, With
<1>5. Traversers' = With(Traversers, t, q \in Optimizing \cup Preparing)
  BY <1>1 DEF Traversers, With, Optimizing, Preparing
<1> QED BY <1>1, <1>2, <1>3, <1>4, <1>5

LEMMA Members ==
    ASSUME NEW t \in Threads
    PROVE /\ t \in Sharers <=> pc[t] \in SharerPoints
          /\ t \in Clearers <=> pc[t] = "clearOwned"
          /\ t \in Exclusive <=> pc[t] \in {"exclusive", "release"}
          /\ t \in Traversers <=> pc[t] \in Optimizing \cup Preparing
BY DEF Sharers, SharerPoints, Clearers, Exclusive, Traversers, Optimizing, Preparing

\* A thread that moves within a group, or outside of it, does not change the group.
LEMMA Stays ==
    ASSUME Typed, NEW t \in Threads, NEW q, pc' = [pc EXCEPT ![t] = q]
    PROVE /\ (pc[t] \in SharerPoints <=> q \in SharerPoints) => Sharers' = Sharers
          /\ (pc[t] = "clearOwned" <=> q = "clearOwned") => Clearers' = Clearers
          /\ (pc[t] \in {"exclusive", "release"} <=> q \in {"exclusive", "release"}) => Exclusive' = Exclusive
          /\ (pc[t] \in Optimizing \cup Preparing <=> q \in Optimizing \cup Preparing) => Traversers' = Traversers
          /\ pc'[t] = q /\ \A u \in Threads : u # t => pc'[u] = pc[u]
<1>1. pc'[t] = q /\ \A u \in Threads : u # t => pc'[u] = pc[u]
  BY DEF Typed
<1>2. ASSUME pc[t] \in SharerPoints <=> q \in SharerPoints PROVE Sharers' = Sharers
  BY <1>1, <1>2 DEF Sharers, SharerPoints
<1>3. ASSUME pc[t] = "clearOwned" <=> q = "clearOwned" PROVE Clearers' = Clearers
  BY <1>1, <1>3 DEF Clearers
<1>4. ASSUME pc[t] \in {"exclusive", "release"} <=> q \in {"exclusive", "release"} PROVE Exclusive' = Exclusive
  BY <1>1, <1>4 DEF Exclusive
<1>5. ASSUME pc[t] \in Optimizing \cup Preparing <=> q \in Optimizing \cup Preparing PROVE Traversers' = Traversers
  BY <1>1, <1>5 DEF Traversers, Optimizing, Preparing
<1> QED BY <1>1, <1>2, <1>3, <1>4, <1>5

LEMMA SharersFinite ==
    /\ IsFiniteSet(Sharers) /\ Cardinality(Sharers) \in Nat
    /\ Cardinality(Sharers) = 0 <=> Sharers = {}
    /\ \A t \in Threads : /\ t \notin Sharers => Cardinality(Sharers \cup {t}) = Cardinality(Sharers) + 1
                          /\ t \in Sharers => Cardinality(Sharers \ {t}) = Cardinality(Sharers) - 1
                          /\ t \in Sharers /\ Cardinality(Sharers) <= 1 => Sharers = {t}
<1>1. Sharers \subseteq Threads
  BY DEF Sharers
<1>2. IsFiniteSet(Sharers)
  BY <1>1, NoThread, FS_Subset
<1>3. Cardinality(Sharers) \in Nat /\ (Cardinality(Sharers) = 0 <=> Sharers = {})
  BY <1>2, FS_CardinalityType, FS_EmptySet
<1>4. ASSUME NEW t \in Threads, t \notin Sharers PROVE Cardinality(Sharers \cup {t}) = Cardinality(Sharers) + 1
  BY <1>2, <1>4, FS_AddElement
<1>5. ASSUME NEW t \in Threads, t \in Sharers PROVE Cardinality(Sharers \ {t}) = Cardinality(Sharers) - 1
  BY <1>2, <1>5, FS_RemoveElement
<1>6. ASSUME NEW t \in Threads, t \in Sharers, Cardinality(Sharers) <= 1 PROVE Sharers = {t}
  <2>1. Cardinality(Sharers \ {t}) = 0 /\ IsFiniteSet(Sharers \ {t})
    <3>1. IsFiniteSet(Sharers \ {t})
      BY <1>2, FS_RemoveElement
    <3>2. Cardinality(Sharers \ {t}) \in Nat
      BY <3>1, FS_CardinalityType
    <3> QED BY <3>1, <3>2, <1>3, <1>5, <1>6
  <2>2. Sharers \ {t} = {}
    BY <2>1, FS_EmptySet
  <2> QED BY <2>2, <1>6
<1> QED BY <1>2, <1>3, <1>4, <1>5, <1>6
-----------------------------------------------------------------------------
(* What a step leaves alone. *)

Same(u) == pc'[u] = pc[u] /\ val'[u] = val[u] /\ at'[u] = at[u] /\ first'[u] = first[u]
Apart(u) == pc[u] \notin Special /\ pc'[u] \notin Special

LEMMA ChainFrame ==
    ASSUME NEW n, NEW w, NEW u \in Threads, ChainOf(u, n, w), Same(u) \/ Apart(u), Chain(w, u)' = Chain(w, u),
           \A b \in Chain(w, u) : block'[b].prev = block[b].prev /\ (block'[b].spinning => block[b].spinning)
    PROVE ChainOf(u, n, w)'
<1>1. CASE Same(u)
  <2>1. CASE pc[u] \in WakerPoints
    <3>1. ChainOK(Chain(w, u), at[u], block', n)
      BY <2>1, ChainSame DEF ChainOf
    <3>2. at[u] \in Chain(w, u)
      BY <2>1 DEF ChainOf, ChainOK
    <3> QED BY <1>1, <2>1, <3>1, <3>2 DEF ChainOf, Same, WakerPoints
  <2>2. CASE pc[u] \notin WakerPoints
    BY <1>1, <2>2 DEF ChainOf, Same, WakerPoints
  <2> QED BY <2>1, <2>2
<1>2. CASE Apart(u)
  BY <1>2 DEF ChainOf, Apart, Special, WakerPoints
<1> QED BY <1>1, <1>2

LEMMA WalkFrame ==
    ASSUME NEW n, NEW w, NEW s, NEW e, NEW u \in Threads, WalkOf(u, n, w, s, e), Same(u) \/ Apart(u),
           InList(w)' = InList(w), u \in Traversers => e \in InList(w),
           \A b \in InList(w) : block'[b].prev = block[b].prev
    PROVE WalkOf(u, n, w, s, e)'
<1>1. CASE Same(u)
  <2>1. CASE pc[u] \in Optimizing \cup Preparing
    <3> DEFINE L == InList(w)
    <3>1. e \in L
      BY <2>1, Members
    <3>2. \A f, lo : Completed(L, block, n, f, lo) => Completed(L, block', n, f, lo)
      BY CompletedSame
    <3> HIDE DEF L
    <3> QED BY <1>1, <2>1, <3>1, <3>2 DEF WalkOf, Same, L, Optimizing, Preparing
  <2>2. CASE pc[u] \notin Optimizing \cup Preparing
    BY <1>1, <2>2 DEF WalkOf, Same, Optimizing, Preparing
  <2> QED BY <2>1, <2>2
<1>2. CASE Apart(u)
  BY <1>2 DEF WalkOf, Apart, Special, Optimizing, Preparing
<1> QED BY <1>1, <1>2

LEMMA ReleaseFrame ==
    ASSUME NEW w, NEW e, NEW u \in Threads, ReleaseOf(u, w, e), Same(u) \/ Apart(u),
           InList(w) \subseteq InList(w)', value'.waiters = value.waiters,
           value'.multiple = value.multiple \/ Sharers' = {}
    PROVE ReleaseOf(u, w, e)'
<1>1. CASE Same(u)
  <2>1. CASE pc[u] \in {"releaseShared", "findLast", "decrement"}
    <3>1. u \in Sharers'
      BY <1>1, <2>1 DEF Same, Sharers
    <3> QED BY <1>1, <2>1, <3>1 DEF ReleaseOf, Same
  <2>2. CASE pc[u] \notin {"releaseShared", "findLast", "decrement"}
    BY <1>1, <2>2 DEF ReleaseOf, Same
  <2> QED BY <2>1, <2>2
<1>2. CASE Apart(u)
  BY <1>2 DEF ReleaseOf, Apart, Special
<1> QED BY <1>1, <1>2

\* A step of t that changes neither the list nor the chains of the others.
LEMMA ShapeFrame ==
    ASSUME Good, NEW n, NEW w, NEW s, NEW e, Shape(n, w, s, e), NEW t \in Threads,
           InList(w)' = InList(w),
           \A u \in Threads \ {t} : Chain(w, u)' = Chain(w, u) /\ (Same(u) \/ Apart(u)),
           SameLinks(Pending', block, block'), \A b \in Pending' : block'[b].spinning => block[b].spinning,
           value'.waiters = value.waiters, value'.head = value.head,
           value'.multiple = value.multiple \/ Sharers' = {},
           value.waiters => (Sharers \cup Clearers)' \subseteq Sharers \cup Clearers,
           value'.multiple => block'[e].sharedOwners = Cardinality(Sharers'),
           ChainOf(t, n, w)', WalkOf(t, n, w, s, e)', ReleaseOf(t, w, e)'
    PROVE Shape(n, w, s, e)'
<1>0. /\ Whole(n, w, s, e)
      /\ \A u \in Threads : ChainOf(u, n, w) /\ WalkOf(u, n, w, s, e) /\ ReleaseOf(u, w, e)
  BY DEF Shape
<1>1. /\ InList(w)' \subseteq Pending' /\ \A u : Chain(w, u)' \subseteq Pending'
  BY DEF InList, Chain
<1>2. value.waiters => e \in InList(w) /\ ListOK(InList(w), value.head, block, n, s, e)
  BY <1>0 DEF Whole, ListOK
<1>3. \A u \in Traversers : e \in InList(w)
  BY <1>2 DEF Good, TravInv, TravOne
<1>4. Whole(n, w, s, e)'
  <2>1. SameLinks(InList(w), block, block')
    BY <1>1 DEF SameLinks
  <2>2. value.waiters => ListOK(InList(w), value.head, block', n, s, e)
    BY <1>2, <2>1, ListSame
  <2>3. CountOK(w, e)'
    <3>1. value'.waiters /\ (Sharers \cup Clearers)' # {} =>
             block'[e].last = e /\ \A b \in InList(w) : block'[b].last # NULL => block'[b].last = e
      BY <1>0, <1>2, <2>1 DEF Whole, CountOK, SameLinks
    <3> QED BY <3>1 DEF CountOK
  <2> QED BY <1>0, <2>2, <2>3 DEF Whole
<1>5. ASSUME NEW u \in Threads \ {t} PROVE ChainOf(u, n, w)' /\ WalkOf(u, n, w, s, e)' /\ ReleaseOf(u, w, e)'
  <2>1. \A b \in Chain(w, u) : block'[b].prev = block[b].prev /\ (block'[b].spinning => block[b].spinning)
    BY <1>1, <1>5 DEF SameLinks
  <2>2. \A b \in InList(w) : block'[b].prev = block[b].prev
    BY <1>1 DEF SameLinks
  <2>3. ChainOf(u, n, w)'
    BY <1>0, <2>1, ChainFrame
  <2>4. WalkOf(u, n, w, s, e)'
    BY <1>0, <1>3, <2>2, WalkFrame
  <2>5. ReleaseOf(u, w, e)'
    BY <1>0, ReleaseFrame
  <2> QED BY <2>3, <2>4, <2>5
<1> QED BY <1>4, <1>5 DEF Shape

\* The blocks are left alone, but for a spinning bit that is reset or a block without waiter.
BlocksSame == /\ SameLinks(Pending, block, block')
              /\ \A b \in Pending : /\ block'[b].sharedOwners = block[b].sharedOwners
                                    /\ block'[b].spinning => block[b].spinning
LEMMA QuietStep ==
    ASSUME Good, NEW n, NEW w, NEW s, NEW e, Shape(n, w, s, e), NEW t \in Threads,
           Pending' = Pending, BlocksSame, \A u \in Threads \ {t} : Same(u),
           value'.waiters = value.waiters, value'.head = value.head,
           value'.multiple = value.multiple \/ Sharers' = {},
           value'.multiple => value.multiple /\ Sharers' = Sharers,
           value.waiters => (Sharers \cup Clearers)' \subseteq Sharers \cup Clearers,
           pc[t] \notin WakerPoints, pc'[t] \notin WakerPoints,
           WalkOf(t, n, w, s, e)', ReleaseOf(t, w, e)'
    PROVE Shape(n, w, s, e)'
<1>1. InList(w)' = InList(w) /\ \A u : Chain(w, u)' = Chain(w, u)
  BY DEF InList, Chain
<1>2. value'.multiple => block'[e].sharedOwners = Cardinality(Sharers')
  <2> SUFFICES ASSUME value'.multiple PROVE block'[e].sharedOwners = Cardinality(Sharers')
    OBVIOUS
  <2>1. value.multiple /\ value.waiters
    BY DEF Good, Control, WordOK
  <2>2. e \in Pending /\ block[e].sharedOwners = Cardinality(Sharers)
    BY <2>1 DEF Shape, Whole, ListOK, InList, CountOK
  <2> QED BY <2>1, <2>2 DEF BlocksSame
<1>3. ChainOf(t, n, w)'
  BY <1>1 DEF Shape, ChainOf, WakerPoints
<1>4. /\ SameLinks(Pending', block, block') /\ \A b \in Pending' : block'[b].spinning => block[b].spinning
  BY DEF BlocksSame
<1> QED BY <1>1, <1>2, <1>3, <1>4, ShapeFrame

\* And t moves to a point of which the list says nothing.
LEMMA PlainStep ==
    ASSUME Good, NEW n, NEW w, NEW s, NEW e, Shape(n, w, s, e), NEW t \in Threads,
           Pending' = Pending, BlocksSame, \A u \in Threads \ {t} : Same(u),
           value'.waiters = value.waiters, value'.head = value.head,
           value'.multiple = value.multiple \/ Sharers' = {},
           value'.multiple => value.multiple /\ Sharers' = Sharers,
           value.waiters => (Sharers \cup Clearers)' \subseteq Sharers \cup Clearers,
           pc[t] \notin WakerPoints, pc'[t] \notin Special
    PROVE Shape(n, w, s, e)'
<1>1. WalkOf(t, n, w, s, e)' /\ ReleaseOf(t, w, e)' /\ pc'[t] \notin WakerPoints
  BY DEF WalkOf, ReleaseOf, Special, Optimizing, Preparing, WakerPoints
<1> QED BY <1>1, QuietStep

LEMMA PendingSame ==
    ASSUME UNCHANGED <<queued, block>>, NEW t \in Threads, \A u \in Threads \ {t} : pc'[u] = pc[u],
           pc[t] # "keyed", pc'[t] # "keyed", queued \subseteq Threads
    PROVE Pending' = Pending /\ BlocksSame
<1>1. Pending' = Pending
  BY DEF Pending
<1>2. BlocksSame
  BY DEF BlocksSame, SameLinks
<1> QED BY <1>1, <1>2

\* What the invariant of a thread needs of the others.
LEMMA ControlFrame ==
    ASSUME Control, WordOK(value'), NEW t \in Threads, ControlOf(t)',
           \A u \in Threads \ {t} :
              /\ pc'[u] = pc[u] /\ caller'[u] = caller[u] /\ val'[u] = val[u] /\ found'[u] = found[u]
              /\ u \in queued' <=> u \in queued
              /\ block'[u].spinning => block[u].spinning
    PROVE Control'
<1> SUFFICES ASSUME NEW u \in Threads \ {t} PROVE ControlOf(u)'
  BY DEF Control
<1> QED BY DEF Control, ControlOf

LEMMA TravFrame ==
    ASSUME TravInv, NEW t \in Threads, TravOf(t)', \A u \in Threads \ {t} : pc'[u] = pc[u] /\ val'[u] = val[u],
           Traversers' = Traversers, value'.traversing = value.traversing, value.traversing => value'.waiters,
           value.waiters => (Sharers \cup Clearers)' \subseteq Sharers \cup Clearers
    PROVE TravInv'
<1>1. TravOne'
  BY DEF TravInv, TravOne
<1>2. ASSUME NEW u \in Threads \ {t} PROVE TravOf(u)'
  <2>1. CASE u \in Traversers
    <3>1. value.waiters
      BY <2>1 DEF TravInv, TravOne
    <3> QED BY <3>1 DEF TravInv, TravOf, Optimizing, Preparing
  <2>2. CASE u \notin Traversers
    BY <2>2, Members DEF TravOf, Optimizing, Preparing
  <2> QED BY <2>1, <2>2
<1> QED BY <1>1, <1>2 DEF TravInv

LEMMA Untravelled == ASSUME NEW t \in Threads, pc'[t] \notin Optimizing \cup Preparing PROVE TravOf(t)'
BY DEF TravOf, Optimizing, Preparing

LEMMA OwnFrame ==
    ASSUME OwnInv, Sharers' = Sharers, Clearers' = Clearers, Exclusive' = Exclusive,
           value'.owned = value.owned, value'.waiters = value.waiters,
           value'.shared = value.shared, value'.multiple = value.multiple
    PROVE OwnInv'
BY DEF OwnInv, Single

\* The fields of an updated word.
LEMMA Fields ==
    ASSUME NEW v \in Words, NEW b, NEW c
    PROVE /\ LET x == [v EXCEPT !.owned = b] IN
               /\ x.owned = b /\ x.waiters = v.waiters /\ x.shared = v.shared /\ x.traversing = v.traversing
               /\ x.multiple = v.multiple /\ x.head = v.head
          /\ LET x == [v EXCEPT !.traversing = b] IN
               /\ x.owned = v.owned /\ x.waiters = v.waiters /\ x.shared = v.shared /\ x.traversing = b
               /\ x.multiple = v.multiple /\ x.head = v.head
          /\ LET x == [v EXCEPT !.owned = b, !.traversing = c] IN
               /\ x.owned = b /\ x.waiters = v.waiters /\ x.shared = v.shared /\ x.traversing = c
               /\ x.multiple = v.multiple /\ x.head = v.head
          /\ LET x == Cleared(v) IN
               /\ x.owned = FALSE /\ x.waiters = v.waiters /\ x.shared = v.shared /\ x.traversing = TRUE
               /\ x.multiple = FALSE /\ x.head = v.head
          /\ LET x == [v EXCEPT !.owned = b, !.shared = @ + 1] IN
               /\ x.owned = b /\ x.waiters = v.waiters /\ x.shared = v.shared + 1 /\ x.traversing = v.traversing
               /\ x.multiple = v.multiple /\ x.head = v.head
          /\ LET x == [v EXCEPT !.shared = @ - 1] IN
               /\ x.owned = v.owned /\ x.waiters = v.waiters /\ x.shared = v.shared - 1
               /\ x.traversing = v.traversing /\ x.multiple = v.multiple /\ x.head = v.head
BY DEF Words, Cleared

LEMMA FreeFields ==
    /\ Free.owned = FALSE /\ Free.waiters = FALSE /\ Free.shared = 0 /\ Free.traversing = FALSE
    /\ Free.multiple = FALSE /\ Free.head = NULL
    /\ \A k : /\ Counted(TRUE, k).owned = TRUE /\ Counted(TRUE, k).waiters = FALSE /\ Counted(TRUE, k).shared = k
              /\ Counted(TRUE, k).traversing = FALSE /\ Counted(TRUE, k).multiple = FALSE
              /\ Counted(TRUE, k).head = NULL
BY DEF Free, Counted

-----------------------------------------------------------------------------
(* The steps, one after the other. *)

LEMMA AcquireExclusiveStep ==
    ASSUME Good, NEW n, NEW w, NEW s, NEW e, Shape(n, w, s, e), NEW t \in Threads,
           AcquireExclusive(t) \/ TryAcquireExclusive(t)
    PROVE Good' /\ Shape(n, w, s, e)'
<1> DEFINE q == IF ~value.owned THEN "exclusive" ELSE IF AcquireExclusive(t) THEN "read" ELSE "idle"
<1>0. Typed /\ Control /\ OwnInv /\ TravInv
  BY DEF Good
<1>1. /\ pc[t] = "idle" /\ value' = [value EXCEPT !.owned = TRUE] /\ pc' = [pc EXCEPT ![t] = q]
      /\ UNCHANGED <<block, queued, found, val, mode, at, first, caller>>
  BY DEF AcquireExclusive, TryAcquireExclusive, Goto, waitBlocks, traversal
<1>2. Typed'
  BY <1>0, AcquireType DEF Acquire
<1>3. q \in {"exclusive", "read", "idle"} /\ (q = "exclusive" <=> ~value.owned)
  OBVIOUS
<1> HIDE DEF q
<1>4. value \in Words /\ value' \in Words /\ queued \subseteq Threads
  BY <1>0, <1>2 DEF Typed
<1>5. /\ value'.owned = TRUE /\ value'.waiters = value.waiters /\ value'.shared = value.shared
      /\ value'.traversing = value.traversing /\ value'.multiple = value.multiple /\ value'.head = value.head
  BY <1>1, <1>4, Fields
<1>6. /\ pc'[t] = q /\ \A u \in Threads : u # t => pc'[u] = pc[u]
      /\ Sharers' = Sharers /\ Clearers' = Clearers /\ Traversers' = Traversers
      /\ Exclusive' = IF ~value.owned THEN Exclusive \cup {t} ELSE Exclusive
  <2>1. /\ pc[t] \notin SharerPoints /\ q \notin SharerPoints /\ pc[t] # "clearOwned" /\ q # "clearOwned"
        /\ pc[t] \notin Optimizing \cup Preparing /\ q \notin Optimizing \cup Preparing
    BY <1>1, <1>3 DEF SharerPoints, Optimizing, Preparing
  <2>2. Exclusive' = With(Exclusive, t, q \in {"exclusive", "release"})
    BY <1>0, <1>1, Moves
  <2>3. /\ Sharers' = Sharers /\ Clearers' = Clearers /\ Traversers' = Traversers
        /\ pc'[t] = q /\ \A u \in Threads : u # t => pc'[u] = pc[u]
    BY <1>0, <1>1, <2>1, Stays
  <2> QED BY <1>1, <1>3, <2>2, <2>3, Members DEF With
<1>7. Control'
  <2>1. WordOK(value')
    BY <1>0, <1>4, <1>5 DEF Control, WordOK
  <2>2. ControlOf(t)'
    BY <1>0, <1>1, <1>3, <1>6 DEF Control, ControlOf, Waiting, Waking
  <2> QED BY <1>0, <1>1, <1>6, <2>1, <2>2, ControlFrame
<1>8. OwnInv'
  <2>1. CASE value.owned
    BY <1>0, <1>4, <1>5, <1>6, <2>1, OwnFrame DEF Words
  <2>2. CASE ~value.owned
    <3>1. Single = {} /\ Sharers = {} /\ ~value.multiple /\ Exclusive = {} /\ Clearers = {}
      BY <1>0, <2>2 DEF OwnInv, Control, WordOK, Single
    <3> QED BY <1>0, <1>5, <1>6, <2>2, <3>1, SharersFinite DEF OwnInv, Single
  <2> QED BY <2>1, <2>2
<1>9. TravInv'
  BY <1>0, <1>1, <1>3, <1>5, <1>6, TravFrame, Untravelled DEF Optimizing, Preparing, TravInv, TravOne
<1>10. Pending' = Pending /\ BlocksSame
  BY <1>1, <1>3, <1>4, <1>6, PendingSame
<1>11. Shape(n, w, s, e)'
  <2>1. pc[t] \notin WakerPoints /\ pc'[t] \notin Special
    BY <1>1, <1>3, <1>6 DEF WakerPoints, Special, Optimizing, Preparing
  <2>2. \A u \in Threads \ {t} : Same(u)
    BY <1>1, <1>6 DEF Same
  <2> QED BY <1>5, <1>6, <1>10, <2>1, <2>2, PlainStep
<1> QED BY <1>2, <1>7, <1>8, <1>9, <1>11 DEF Good

\* The groups of threads that the invariant knows.
Group(p) == IF p \in SharerPoints THEN "sharer" ELSE IF p = "clearOwned" THEN "clearer"
            ELSE IF p \in {"exclusive", "release"} THEN "exclusive"
            ELSE IF p \in Optimizing \cup Preparing THEN "traverser" ELSE "other"

LEMMA GroupsAre ==
    /\ \A p \in {"shared", "readShared", "releaseShared", "findLast", "decrement"} : Group(p) = "sharer"
    /\ Group("clearOwned") = "clearer" /\ Group("exclusive") = "exclusive" /\ Group("release") = "exclusive"
    /\ \A p \in {"optimize", "optimizeVisit", "optimizeDone", "wake", "wakeVisit", "unlink", "unlinked",
                 "wakeAll"} : Group(p) = "traverser"
    /\ \A p \in {"idle", "read", "acquire", "block", "keyed", "unblock", "rendezvous",
                 "wakeForRelease"} : Group(p) = "other"
BY DEF Group, SharerPoints, Optimizing, Preparing

LEMMA GroupSame ==
    ASSUME Typed, NEW t \in Threads, NEW q, pc' = [pc EXCEPT ![t] = q], Group(q) = Group(pc[t])
    PROVE /\ Sharers' = Sharers /\ Clearers' = Clearers /\ Exclusive' = Exclusive /\ Traversers' = Traversers
          /\ pc'[t] = q /\ \A u \in Threads : u # t => pc'[u] = pc[u]
<1>1. /\ pc[t] \in SharerPoints <=> q \in SharerPoints
      /\ pc[t] = "clearOwned" <=> q = "clearOwned"
      /\ pc[t] \in {"exclusive", "release"} <=> q \in {"exclusive", "release"}
      /\ pc[t] \in Optimizing \cup Preparing <=> q \in Optimizing \cup Preparing
  BY DEF Group, SharerPoints, Optimizing, Preparing
<1> QED BY <1>1, Stays

\* A step of t that changes nothing but what t alone looks at.
LEMMA LocalStep ==
    ASSUME Good, NEW n, NEW w, NEW s, NEW e, Shape(n, w, s, e), NEW t \in Threads, NEW q, Typed',
           pc' = [pc EXCEPT ![t] = q], Group(q) = Group(pc[t]), pc[t] # "keyed", q # "keyed",
           UNCHANGED <<value, block, queued, found>>,
           \A u \in Threads \ {t} : /\ val'[u] = val[u] /\ at'[u] = at[u]
                                    /\ first'[u] = first[u] /\ caller'[u] = caller[u],
           ControlOf(t)', TravOf(t)', ChainOf(t, n, w)', WalkOf(t, n, w, s, e)', ReleaseOf(t, w, e)'
    PROVE Good' /\ Shape(n, w, s, e)'
<1>0. Typed /\ Control /\ OwnInv /\ TravInv /\ queued \subseteq Threads
  BY DEF Good, Typed
<1>1. /\ Sharers' = Sharers /\ Clearers' = Clearers /\ Exclusive' = Exclusive /\ Traversers' = Traversers
      /\ pc'[t] = q /\ \A u \in Threads : u # t => pc'[u] = pc[u]
  BY <1>0, GroupSame
<1>2. Control'
  BY <1>0, <1>1, ControlFrame DEF Control
<1>3. OwnInv'
  BY <1>0, <1>1, OwnFrame
<1>4. TravInv'
  BY <1>0, <1>1, TravFrame DEF TravInv, TravOne
<1>5. Pending' = Pending /\ BlocksSame
  BY <1>0, <1>1, PendingSame
<1>6. InList(w)' = InList(w) /\ \A u : Chain(w, u)' = Chain(w, u)
  BY <1>5 DEF InList, Chain
<1>7. \A u \in Threads \ {t} : Same(u)
  BY <1>1 DEF Same
<1>8. value'.multiple => block'[e].sharedOwners = Cardinality(Sharers')
  BY <1>1 DEF Shape, Whole, CountOK
<1>9. /\ SameLinks(Pending', block, block') /\ \A b \in Pending' : block'[b].spinning => block[b].spinning
  BY DEF SameLinks
<1>10. Shape(n, w, s, e)'
  BY <1>1, <1>6, <1>7, <1>8, <1>9, ShapeFrame
<1> QED BY <1>2, <1>3, <1>4, <1>10 DEF Good

\* And of which the list says nothing.
LEMMA OwnStep ==
    ASSUME Good, NEW n, NEW w, NEW s, NEW e, Shape(n, w, s, e), NEW t \in Threads, NEW q, Typed',
           pc' = [pc EXCEPT ![t] = q], Group(q) = Group(pc[t]), pc[t] # "keyed", q # "keyed",
           UNCHANGED <<value, block, queued, found>>,
           \A u \in Threads \ {t} : /\ val'[u] = val[u] /\ at'[u] = at[u]
                                    /\ first'[u] = first[u] /\ caller'[u] = caller[u],
           pc[t] \notin WakerPoints, q \notin Special, ControlOf(t)'
    PROVE Good' /\ Shape(n, w, s, e)'
<1>0. pc'[t] = q /\ \A u \in Threads : u # t => pc'[u] = pc[u]
  BY Stays DEF Good
<1>1. TravOf(t)' /\ WalkOf(t, n, w, s, e)' /\ ReleaseOf(t, w, e)' /\ pc'[t] \notin WakerPoints
  BY <1>0 DEF TravOf, WalkOf, ReleaseOf, Special, Optimizing, Preparing, WakerPoints
<1>2. Pending' = Pending
  BY <1>0, PendingSame DEF Good, Typed
<1>3. ChainOf(t, n, w)'
  BY <1>1, <1>2 DEF Shape, ChainOf, Chain, WakerPoints
<1> QED BY <1>1, <1>3, LocalStep

LEMMA SlowReadStep ==
    ASSUME Good, NEW n, NEW w, NEW s, NEW e, Shape(n, w, s, e), NEW t \in Threads, SlowRead(t)
    PROVE Good' /\ Shape(n, w, s, e)'
<1>1. Typed'
  BY SlowAcquireType DEF Good, SlowAcquire
<1>2. /\ pc[t] = "read" /\ pc' = [pc EXCEPT ![t] = "acquire"] /\ val' = [val EXCEPT ![t] = value]
      /\ UNCHANGED <<value, block, queued, found, mode, at, first, caller>>
  BY DEF SlowRead, Goto, Load, waitBlocks, traversal
<1>3. /\ pc'[t] = "acquire" /\ val'[t] = value /\ \A u \in Threads \ {t} : val'[u] = val[u]
  BY <1>2 DEF Good, Typed
<1>4. ControlOf(t)'
  BY <1>2, <1>3 DEF Good, Control, ControlOf, Waiting, Waking
<1>5. Group("acquire") = Group(pc[t]) /\ pc[t] \notin WakerPoints /\ "acquire" \notin Special
  BY <1>2, GroupsAre DEF WakerPoints, Special, Optimizing, Preparing
<1> QED BY <1>1, <1>2, <1>3, <1>4, <1>5, OwnStep

LEMMA PlainPoints ==
    \A p \in {"idle", "read", "acquire", "exclusive", "shared", "block", "keyed", "wakeForRelease", "release",
              "readShared", "clearOwned"} : p \notin Special /\ p \notin WakerPoints
BY DEF Special, WakerPoints, Optimizing, Preparing

\* The two outcomes of a CAS.
CasDone(t, new, yes) == /\ value = val[t] /\ value' = new /\ pc' = [pc EXCEPT ![t] = yes]
                        /\ val'[t] = (IF yes \in Forgets THEN Free ELSE new)
                        /\ \A u \in Threads \ {t} : val'[u] = val[u]
CasFailed(t, no) == /\ value # val[t] /\ value' = value /\ pc' = [pc EXCEPT ![t] = no]
                    /\ val'[t] = (IF no \in Forgets THEN Free ELSE value)
                    /\ \A u \in Threads \ {t} : val'[u] = val[u]
LEMMA CasCases ==
    ASSUME Typed, NEW t \in Threads, NEW new, NEW yes, NEW no, Cas(t, new, yes, no)
    PROVE CasDone(t, new, yes) \/ CasFailed(t, no)
<1>1. ASSUME NEW x, val' = [val EXCEPT ![t] = x] PROVE val'[t] = x /\ \A u \in Threads \ {t} : val'[u] = val[u]
  BY <1>1 DEF Typed
<1>2. CASE value = val[t]
  BY <1>1, <1>2 DEF Cas, CasDone, Goto, Load
<1>3. CASE value # val[t]
  BY <1>1, <1>3 DEF Cas, CasFailed, Goto, Load
<1> QED BY <1>2, <1>3

\* A slow acquire whose CAS has failed goes round again.
LEMMA AcquireFails ==
    ASSUME Good, NEW n, NEW w, NEW s, NEW e, Shape(n, w, s, e), NEW t \in Threads, Typed',
           pc[t] = "acquire", CasFailed(t, "acquire"), UNCHANGED <<block, queued, found, at, first, caller>>
    PROVE Good' /\ Shape(n, w, s, e)'
<1>1. /\ pc' = [pc EXCEPT ![t] = "acquire"] /\ value' = value /\ val'[t] = value
      /\ \A u \in Threads \ {t} : val'[u] = val[u]
  BY DEF CasFailed, Forgets
<1>2. pc'[t] = "acquire"
  BY <1>1 DEF Good, Typed
<1>3. ControlOf(t)'
  BY <1>1, <1>2 DEF Good, Control, ControlOf, Waiting, Waking
<1>4. Group("acquire") = Group(pc[t]) /\ pc[t] \notin WakerPoints /\ "acquire" \notin Special
  BY PlainPoints
<1> QED BY <1>1, <1>3, <1>4, OwnStep

\* A thread becomes an owner.
LEMMA SlowTakeExclusiveStep ==
    ASSUME Good, NEW n, NEW w, NEW s, NEW e, Shape(n, w, s, e), NEW t \in Threads, SlowTakeExclusive(t)
    PROVE Good' /\ Shape(n, w, s, e)'
<1> DEFINE new == [val[t] EXCEPT !.owned = TRUE]
<1>0. Typed /\ Control /\ OwnInv /\ TravInv
  BY DEF Good
<1>1. /\ pc[t] = "acquire" /\ ~val[t].owned /\ Cas(t, new, "exclusive", "acquire")
      /\ UNCHANGED <<block, queued, found, at, first, caller>>
  BY DEF SlowTakeExclusive, waitBlocks, traversal
<1>2. Typed'
  BY <1>0, SlowAcquireType DEF SlowAcquire
<1>3. CasDone(t, new, "exclusive") \/ CasFailed(t, "acquire")
  BY <1>0, <1>1, CasCases
<1>4. CASE CasFailed(t, "acquire")
  BY <1>1, <1>2, <1>4, AcquireFails
<1>5. CASE CasDone(t, new, "exclusive")
  <2>1. /\ value = val[t] /\ value' = [value EXCEPT !.owned = TRUE] /\ pc' = [pc EXCEPT ![t] = "exclusive"]
        /\ val'[t] = Free /\ \A u \in Threads \ {t} : val'[u] = val[u]
    BY <1>5 DEF CasDone, Forgets
  <2>2. value \in Words /\ value' \in Words /\ queued \subseteq Threads
    BY <1>0, <1>2 DEF Typed
  <2>3. /\ value'.owned = TRUE /\ value'.waiters = value.waiters /\ value'.shared = value.shared
        /\ value'.traversing = value.traversing /\ value'.multiple = value.multiple /\ value'.head = value.head
    BY <2>1, <2>2, Fields
  <2>4. /\ pc'[t] = "exclusive" /\ \A u \in Threads : u # t => pc'[u] = pc[u]
        /\ Sharers' = Sharers /\ Clearers' = Clearers /\ Traversers' = Traversers
    BY <1>0, <1>1, <2>1, Stays DEF SharerPoints, Optimizing, Preparing
  <2>5. Exclusive' = Exclusive \cup {t}
    BY <1>0, <2>1, Moves DEF With
  <2>6. Control'
    <3>1. WordOK(value')
      BY <1>0, <2>2, <2>3 DEF Control, WordOK
    <3>2. ControlOf(t)'
      BY <1>0, <1>1, <2>1, <2>4, FreeIsWord DEF Control, ControlOf, Waiting, Waking
    <3> QED BY <1>0, <1>1, <2>1, <2>4, <3>1, <3>2, ControlFrame
  <2>7. OwnInv'
    <3>1. Single = {} /\ Sharers = {} /\ ~value.multiple /\ Exclusive = {} /\ Clearers = {}
      BY <1>0, <1>1, <2>1 DEF OwnInv, Control, WordOK, Single
    <3> QED BY <1>0, <2>3, <2>4, <2>5, <3>1, SharersFinite DEF OwnInv, Single
  <2>8. TravInv'
    BY <1>0, <2>1, <2>3, <2>4, TravFrame, Untravelled DEF Optimizing, Preparing, TravInv, TravOne
  <2>9. Pending' = Pending /\ BlocksSame
    BY <1>1, <2>2, <2>4, PendingSame
  <2>10. Shape(n, w, s, e)'
    <3>1. pc[t] \notin WakerPoints /\ pc'[t] \notin Special
      BY <1>1, <2>4, PlainPoints
    <3>2. \A u \in Threads \ {t} : Same(u)
      BY <1>1, <2>1, <2>4 DEF Same
    <3> QED BY <2>3, <2>4, <2>9, <3>1, <3>2, PlainStep
  <2> QED BY <1>2, <2>6, <2>7, <2>8, <2>10 DEF Good
<1> QED BY <1>3, <1>4, <1>5

\* A thread shares the lock, which nobody waits for; k is the count of shared owners.
LEMMA ShareStep ==
    ASSUME Good, NEW n, NEW w, NEW s, NEW e, Shape(n, w, s, e), NEW t \in Threads, Typed',
           pc[t] \in {"idle", "acquire"}, pc' = [pc EXCEPT ![t] = "shared"],
           value.waiters = FALSE, ~value.owned \/ value.shared > 0,
           value'.owned = TRUE, value'.waiters = FALSE, value'.shared = value.shared + 1,
           value'.traversing = value.traversing, value'.multiple = value.multiple, value'.head = value.head,
           UNCHANGED <<block, queued, found, at, first, caller>>,
           val'[t] \in {val[t], Free}, \A u \in Threads \ {t} : val'[u] = val[u]
    PROVE Good' /\ Shape(n, w, s, e)'
<1>0. /\ Typed /\ Control /\ OwnInv /\ TravInv
      /\ value \in Words /\ value' \in Words /\ queued \subseteq Threads /\ value.shared \in Nat
  BY DEF Good, Typed, Words
<1>1. /\ pc'[t] = "shared" /\ \A u \in Threads : u # t => pc'[u] = pc[u]
      /\ Clearers' = Clearers /\ Exclusive' = Exclusive /\ Traversers' = Traversers
  <2>1. /\ pc[t] # "clearOwned" /\ pc[t] \notin {"exclusive", "release"}
        /\ pc[t] \notin Optimizing \cup Preparing /\ "shared" \notin Optimizing \cup Preparing
    BY DEF Optimizing, Preparing
  <2> QED BY <1>0, <2>1, Stays
<1>2. Sharers' = Sharers \cup {t} /\ t \notin Sharers
  <2>1. Sharers' = With(Sharers, t, "shared" \in SharerPoints)
    BY <1>0, Moves
  <2>2. pc[t] \notin SharerPoints
    BY DEF SharerPoints
  <2> QED BY <2>1, <2>2, Members DEF With, SharerPoints
<1>3. Control'
  <2>1. WordOK(value')
    BY <1>0 DEF Control, WordOK
  <2>2. ControlOf(t)'
    BY <1>0, <1>1, FreeIsWord DEF Control, ControlOf, Waiting, Waking
  <2> QED BY <1>0, <1>1, <2>1, <2>2, ControlFrame
<1>4. OwnInv'
  <2>1. Single = {} /\ Clearers = {} /\ Exclusive = {} /\ value.shared = Cardinality(Sharers) /\ ~value.multiple
    BY <1>0, SharersFinite DEF OwnInv, Control, WordOK, Single
  <2>2. Cardinality(Sharers') = value'.shared
    BY <1>0, <1>2, <2>1, SharersFinite
  <2> QED BY <1>1, <1>2, <2>1, <2>2 DEF OwnInv, Single
<1>5. TravInv'
  BY <1>0, <1>1, TravFrame, Untravelled DEF Optimizing, Preparing, TravInv, TravOne
<1>6. Pending' = Pending /\ BlocksSame
  BY <1>0, <1>1, PendingSame
<1>7. ~value.multiple
  BY <1>0 DEF Control, WordOK
<1>8. Shape(n, w, s, e)'
  <2>1. pc[t] \notin WakerPoints /\ pc'[t] \notin Special
    BY <1>1, PlainPoints
  <2>2. \A u \in Threads \ {t} : Same(u)
    BY <1>1 DEF Same
  <2> QED BY <1>1, <1>6, <1>7, <2>1, <2>2, PlainStep
<1> QED BY <1>3, <1>4, <1>5, <1>8 DEF Good

LEMMA SlowTakeSharedStep ==
    ASSUME Good, NEW n, NEW w, NEW s, NEW e, Shape(n, w, s, e), NEW t \in Threads, SlowTakeShared(t)
    PROVE Good' /\ Shape(n, w, s, e)'
<1> DEFINE new == [val[t] EXCEPT !.owned = TRUE, !.shared = @ + 1]
<1>0. Typed
  BY DEF Good
<1>1. /\ pc[t] = "acquire" /\ MayShare(val[t]) /\ Cas(t, new, "shared", "acquire")
      /\ UNCHANGED <<block, queued, found, at, first, caller>>
  BY DEF SlowTakeShared, waitBlocks, traversal
<1>2. Typed'
  BY <1>0, SlowAcquireType DEF SlowAcquire
<1>3. CasDone(t, new, "shared") \/ CasFailed(t, "acquire")
  BY <1>0, <1>1, CasCases
<1>4. CASE CasFailed(t, "acquire")
  BY <1>1, <1>2, <1>4, AcquireFails
<1>5. CASE CasDone(t, new, "shared")
  <2>1. /\ value = val[t] /\ value' = new /\ pc' = [pc EXCEPT ![t] = "shared"]
        /\ val'[t] = Free /\ \A u \in Threads \ {t} : val'[u] = val[u]
    BY <1>5 DEF CasDone, Forgets
  <2>2. value \in Words
    BY <1>0 DEF Typed
  <2>3. /\ value'.owned = TRUE /\ value'.waiters = value.waiters /\ value'.shared = value.shared + 1
        /\ value'.traversing = value.traversing /\ value'.multiple = value.multiple /\ value'.head = value.head
    BY <2>1, <2>2, Fields
  <2>4. value.waiters = FALSE /\ (~value.owned \/ value.shared > 0)
    BY <1>1, <2>1, <2>2 DEF MayShare, Words
  <2> QED BY <1>1, <1>2, <2>1, <2>3, <2>4, ShareStep
<1> QED BY <1>3, <1>4, <1>5

LEMMA AcquireSharedStep ==
    ASSUME Good, NEW n, NEW w, NEW s, NEW e, Shape(n, w, s, e), NEW t \in Threads, AcquireShared(t)
    PROVE Good' /\ Shape(n, w, s, e)'
<1>0. Typed
  BY DEF Good
<1>1. Typed'
  BY <1>0, AcquireType DEF Acquire
<1>2. pc[t] = "idle" /\ UNCHANGED <<block, queued, found, val, at, first, caller>>
  BY DEF AcquireShared, waitBlocks, traversal
<1>3. CASE value = Free
  <2>1. value' = Counted(TRUE, 1) /\ pc' = [pc EXCEPT ![t] = "shared"]
    BY <1>3 DEF AcquireShared, Goto
  <2>2. /\ value.waiters = FALSE /\ ~value.owned /\ value'.owned = TRUE /\ value'.waiters = FALSE
        /\ value'.shared = value.shared + 1 /\ value'.traversing = value.traversing
        /\ value'.multiple = value.multiple /\ value'.head = value.head
    BY <1>3, <2>1 DEF Free, Counted
  <2> QED BY <1>1, <1>2, <2>1, <2>2, ShareStep
<1>4. CASE value # Free
  <2>1. value' = value /\ pc' = [pc EXCEPT ![t] = "read"]
    BY <1>4 DEF AcquireShared, Goto
  <2>2. pc'[t] = "read"
    BY <1>0, <2>1 DEF Typed
  <2>3. ControlOf(t)'
    BY <1>2, <2>2 DEF Good, Control, ControlOf, Waiting, Waking
  <2>4. Group("read") = Group(pc[t]) /\ pc[t] \notin WakerPoints /\ "read" \notin Special
    BY <1>2, GroupsAre, PlainPoints
  <2> QED BY <1>1, <1>2, <2>1, <2>3, <2>4, OwnStep
<1> QED BY <1>3, <1>4
-----------------------------------------------------------------------------
(* PhpPushQueuedWaitBlock *)

LEMMA PushFields ==
    ASSUME Typed, NEW t \in Threads
    PROVE /\ PushedFirst(t).value.owned = TRUE /\ PushedFirst(t).value.waiters = TRUE
          /\ PushedFirst(t).value.shared = 0 /\ PushedFirst(t).value.traversing = FALSE
          /\ PushedFirst(t).value.multiple = (mode[t] /\ val[t].shared > 1) /\ PushedFirst(t).value.head = t
          /\ PushedFirst(t).block.prev = NULL /\ PushedFirst(t).block.last = t
          /\ mode[t] => PushedFirst(t).block.sharedOwners = val[t].shared
          /\ PushedFirst(t).block.spinning = TRUE
          /\ PushedOn(t).value.owned = val[t].owned /\ PushedOn(t).value.waiters = val[t].waiters
          /\ PushedOn(t).value.shared = val[t].shared /\ PushedOn(t).value.traversing = TRUE
          /\ PushedOn(t).value.multiple = val[t].multiple /\ PushedOn(t).value.head = t
          /\ PushedOn(t).block.next = val[t].head /\ PushedOn(t).block.prev = NULL
          /\ PushedOn(t).block.last = NULL /\ PushedOn(t).block.spinning = TRUE
<1>1. val[t] \in Words
  BY DEF Typed
<1>2. /\ PushedFirst(t).value.owned = TRUE /\ PushedFirst(t).value.waiters = TRUE
      /\ PushedFirst(t).value.shared = 0 /\ PushedFirst(t).value.traversing = FALSE
      /\ PushedFirst(t).value.multiple = (mode[t] /\ val[t].shared > 1) /\ PushedFirst(t).value.head = t
  BY DEF PushedFirst, Listed
<1>3. /\ PushedFirst(t).block.prev = NULL /\ PushedFirst(t).block.last = t
      /\ mode[t] => PushedFirst(t).block.sharedOwners = val[t].shared
      /\ PushedFirst(t).block.spinning = TRUE
  BY DEF PushedFirst, NoBlock, Saved
<1>4. /\ PushedOn(t).value.owned = val[t].owned /\ PushedOn(t).value.waiters = val[t].waiters
      /\ PushedOn(t).value.shared = val[t].shared /\ PushedOn(t).value.traversing = TRUE
      /\ PushedOn(t).value.multiple = val[t].multiple /\ PushedOn(t).value.head = t
  BY <1>1 DEF PushedOn, Words
<1>5. /\ PushedOn(t).block.next = val[t].head /\ PushedOn(t).block.prev = NULL
      /\ PushedOn(t).block.last = NULL /\ PushedOn(t).block.spinning = TRUE
  BY DEF PushedOn, NoBlock
<1> QED BY <1>2, <1>3, <1>4, <1>5

\* A chain whose blocks keep their rank.
LEMMA ChainRanks ==
    ASSUME NEW S, NEW a, NEW B, NEW n, NEW m, ChainOK(S, a, B, n), \A b \in S : m[b] = n[b]
    PROVE ChainOK(S, a, B, m)
<1>1. a \in S /\ Ranked(S, m) /\ \A b, c \in S : n[b] <= n[c] <=> m[b] <= m[c]
  BY DEF ChainOK, Ranked
<1>2. \A b \in S : Linked(S, B, n, b) => Linked(S, B, m, b)
  BY DEF Linked
<1> QED BY <1>1, <1>2 DEF ChainOK

\* What is left alone by a push: everything but the block of t and its place.
PushRest(t) ==
    /\ \A b \in Threads \ {t} : block'[b] = block[b]
    /\ queued' = queued \cup {t} /\ t \notin queued /\ block'[t].spinning
    /\ \A u \in Threads \ {t} : Same(u)
    /\ pc[t] = "acquire" /\ pc'[t] \in {"optimize", "block"}

LEMMA PushChains ==
    ASSUME Typed, NEW n, NEW w, NEW s, NEW e, Shape(n, w, s, e), NEW t \in Threads, PushRest(t),
           NEW m, \A b \in Threads \ {t} : m[b] = n[b],
           NEW v, v[t] = NULL, \A b \in Threads \ {t} : v[b] = w[b]
    PROVE /\ InList(v)' = InList(w) \cup {t} /\ InList(w) \subseteq Threads \ {t}
          /\ \A u \in Threads : ChainOf(u, m, v)'
<1>1. Pending \subseteq Threads \ {t} /\ queued \subseteq Threads
  BY DEF Pending, PushRest, Typed
<1>2. Pending' = Pending \cup {t}
  BY <1>1 DEF Pending, PushRest, Same
<1>3. InList(v)' = InList(w) \cup {t} /\ InList(w) \subseteq Threads \ {t}
  BY <1>1, <1>2 DEF InList
<1>4. ASSUME NEW u \in Threads PROVE Chain(v, u)' = Chain(w, u) /\ Chain(w, u) \subseteq Threads \ {t}
  BY <1>1, <1>2, NoThread DEF Chain
<1>5. ASSUME NEW u \in Threads PROVE ChainOf(u, m, v)'
  <2>0. ChainOf(u, n, w)
    BY DEF Shape
  <2>1. CASE pc[u] \in WakerPoints
    <3>1. u # t /\ Same(u)
      BY <2>1 DEF PushRest, WakerPoints
    <3>2. ChainOK(Chain(w, u), at[u], block, n)
      BY <2>0, <2>1 DEF ChainOf
    <3>3. \A b \in Chain(w, u) : block'[b] = block[b] /\ m[b] = n[b]
      BY <1>4 DEF PushRest
    <3>4. ChainOK(Chain(w, u), at[u], block, m)
      BY <3>2, <3>3, ChainRanks
    <3>5. ChainOK(Chain(w, u), at[u], block', m)
      BY <3>4, <3>3, ChainSame
    <3>6. at[u] \in Chain(w, u)
      BY <3>2 DEF ChainOK
    <3>7. pc'[u] = pc[u] /\ at'[u] = at[u] /\ first'[u] = first[u]
      BY <3>1 DEF Same
    <3>8. ChainOK(Chain(v, u), at[u], block, m)'
      BY <1>4, <3>5, <3>7
    <3> QED BY <2>0, <2>1, <3>3, <3>6, <3>7, <3>8 DEF ChainOf
  <2>2. CASE pc[u] \notin WakerPoints
    <3>1. pc'[u] \notin WakerPoints
      BY <2>2 DEF PushRest, Same, WakerPoints
    <3> QED BY <1>4, <2>0, <2>2, <3>1 DEF ChainOf, WakerPoints
  <2> QED BY <2>1, <2>2
<1> QED BY <1>3, <1>5

LEMMA PushFirstShape ==
    ASSUME Good, NEW n \in Ranks, NEW w \in Wakers, NEW s, NEW e, Shape(n, w, s, e), NEW t \in Threads, PushRest(t),
           ~value.waiters, pc'[t] = "block", Sharers' = Sharers, Clearers' = Clearers,
           value'.waiters, value'.head = t, block'[t].prev = NULL, block'[t].last = t,
           value'.multiple => block'[t].sharedOwners = Cardinality(Sharers),
           NEW v, v[t] = NULL, \A b \in Threads \ {t} : v[b] = w[b]
    PROVE Shape(n, v, t, t)'
<1>1. /\ InList(v)' = InList(w) \cup {t} /\ \A u \in Threads : ChainOf(u, n, v)'
  <2>1. Typed /\ \A b \in Threads \ {t} : n[b] = n[b]
    BY DEF Good
  <2> QED BY <2>1, PushChains
<1>2. InList(v)' = {t}
  BY <1>1 DEF Shape, Whole
<1>3. Whole(n, v, t, t)'
  <2>1. ListOK({t}, t, block', n, t, t)
    BY ListFirst
  <2>2. CountOK(v, t)'
    BY <1>2 DEF CountOK
  <2> QED BY <1>2, <2>1, <2>2 DEF Whole
<1>4. ASSUME NEW u \in Threads PROVE WalkOf(u, n, v, t, t)' /\ ReleaseOf(u, v, t)'
  <2>1. Traversers = {}
    BY DEF Good, TravInv, TravOne
  <2>2. pc[u] \notin Optimizing \cup Preparing
    BY <2>1, Members
  <2>3. CASE u = t
    BY <2>3 DEF WalkOf, ReleaseOf, Optimizing, Preparing
  <2>4. CASE u # t
    <3>1. Same(u) /\ ReleaseOf(u, w, e)
      BY <2>4 DEF PushRest, Shape
    <3>2. WalkOf(u, n, v, t, t)'
      BY <2>2, <3>1 DEF Same, WalkOf, Optimizing, Preparing
    <3>3. ReleaseOf(u, v, t)'
      BY <3>1 DEF ReleaseOf, Same
    <3> QED BY <3>2, <3>3
  <2> QED BY <2>3, <2>4
<1> QED BY <1>1, <1>3, <1>4 DEF Shape

LEMMA PushOnShape ==
    ASSUME Good, NEW n \in Ranks, NEW w \in Wakers, NEW s, NEW e, Shape(n, w, s, e), NEW t \in Threads, PushRest(t),
           value.waiters, NEW h, h = value.head, Sharers' = Sharers, Clearers' = Clearers,
           value'.waiters, value'.traversing, value'.head = t, value'.multiple = value.multiple,
           block'[t].prev = NULL, block'[t].last = NULL, block'[t].next = h,
           pc'[t] = "optimize" => val'[t] = value',
           NEW v, v[t] = NULL, \A b \in Threads \ {t} : v[b] = w[b],
           NEW m, m[t] = n[h] + 1, \A b \in Threads \ {t} : m[b] = n[b]
    PROVE Shape(m, v, s, e)'
<1> DEFINE L == InList(w)
           M == L \cup {t}
<1>0. ListOK(L, h, block, n, s, e)
  BY DEF Shape, Whole
<1>1. m[t] = n[h] + 1 /\ \A b \in Threads \ {t} : m[b] = n[b] /\ n[b] \in Int
  BY DEF Ranks
<1>2. /\ InList(v)' = M /\ L \subseteq Threads \ {t} /\ \A u \in Threads : ChainOf(u, m, v)'
  <2>1. Typed /\ \A b \in Threads \ {t} : m[b] = n[b]
    BY <1>1 DEF Good
  <2>2. /\ InList(v)' = InList(w) \cup {t} /\ InList(w) \subseteq Threads \ {t}
        /\ \A u \in Threads : ChainOf(u, m, v)'
    BY <2>1, PushChains
  <2> QED BY <2>2
<1>3. \A b \in L : block'[b] = block[b] /\ m[b] = n[b] /\ n[b] \in Int
  BY <1>1, <1>2 DEF PushRest
<1>4. ListOK(M, t, block', m, s, e)
  <2>1. SameLinks(L, block, block') /\ t \notin L /\ L \in SUBSET Threads
    BY <1>2, <1>3 DEF SameLinks
  <2> QED BY <1>0, <2>1, ListPush
<1>5. /\ e \in L /\ s \in L /\ h \in L /\ t \in M /\ \A b \in L : n[b] <= n[h] /\ b # t
  BY <1>0, <1>2 DEF ListOK
<1> HIDE DEF L, M
<1>6. Whole(m, v, s, e)'
  <2>1. CountOK(w, e)
    BY DEF Shape, Whole
  <2>2. CountOK(v, e)'
    BY <1>2, <1>3, <1>5, <2>1 DEF CountOK, M, L
  <2> QED BY <1>2, <1>4, <2>2 DEF Whole
<1>7. ASSUME NEW u \in Threads PROVE WalkOf(u, m, v, s, e)'
  <2>1. CASE u = t
    BY <1>2, <1>1, <1>3, <1>5, <2>1 DEF WalkOf, PushRest, Optimizing, Preparing
  <2>2. CASE u # t /\ pc[u] \in Optimizing \cup Preparing
    <3>1. Same(u) /\ WalkOf(u, n, w, s, e)
      BY <2>2 DEF PushRest, Shape
    <3>2. \A f \in L, lo \in Int : Completed(L, block, n, f, lo) => Completed(M, block', m, f, lo)
      <4> SUFFICES ASSUME NEW f \in L, NEW lo \in Int, Completed(L, block, n, f, lo),
                          NEW b \in M, lo <= m[b], m[b] < m[f]
                   PROVE Linked(M, block', m, b)
        BY DEF Completed
      <4>1. b \in L
        BY <1>1, <1>3, <1>5 DEF M
      <4>2. Linked(L, block, n, b)
        BY <4>1, <1>3 DEF Completed
      <4> QED BY <4>1, <4>2, <1>3 DEF Linked, M
    <3>3. /\ val'[u] = val[u] /\ pc'[u] = pc[u] /\ at'[u] = at[u] /\ first'[u] = first[u]
      BY <3>1 DEF Same
    <3>4. \A b \in L : b \in M
      BY DEF M
    <3>5. pc[u] \in Optimizing \cup (Preparing \ {"unlinked"}) =>
            /\ val[u].waiters /\ val[u].traversing /\ val[u].head \in L
            /\ block[val[u].head].prev = NULL /\ n[s] <= n[val[u].head]
      BY <3>1 DEF WalkOf, L
    <3>6. pc[u] \in {"optimizeVisit", "wakeVisit"} =>
            /\ first[u] = val[u].head /\ first[u] \in L
            /\ at[u] \in L /\ n[s] <= n[at[u]] /\ n[at[u]] <= n[first[u]]
            /\ Completed(L, block, n, first[u], n[at[u]])
      BY <3>1, <3>5 DEF WalkOf, L, Optimizing, Preparing
    <3>7. pc[u] \in {"unlink", "wakeAll"} =>
            /\ first[u] = val[u].head /\ first[u] \in L /\ at[u] = e /\ Completed(L, block, n, first[u], n[e])
            /\ pc[u] = "unlink" => block[e].prev # NULL
      BY <3>1, <3>5 DEF WalkOf, L, Optimizing, Preparing
    <3>8. pc[u] \in {"optimizeVisit", "wakeVisit"} => Completed(M, block', m, first[u], m[at[u]])
      BY <3>2, <3>6, <1>3
    <3>9. pc[u] \in {"unlink", "wakeAll"} => Completed(M, block', m, first[u], m[e])
      BY <3>2, <3>7, <1>3, <1>5
    <3> QED BY <1>2, <1>3, <1>5, <3>3, <3>4, <3>5, <3>6, <3>7, <3>8, <3>9 DEF WalkOf
  <2>3. CASE u # t /\ pc[u] \notin Optimizing \cup Preparing
    BY <2>3 DEF WalkOf, PushRest, Same, Optimizing, Preparing
  <2> QED BY <2>1, <2>2, <2>3
<1>8. ASSUME NEW u \in Threads PROVE ReleaseOf(u, v, e)'
  <2>1. CASE u = t
    BY <2>1 DEF ReleaseOf, PushRest
  <2>2. CASE u # t
    <3>1. Same(u) /\ ReleaseOf(u, w, e)
      BY <2>2 DEF PushRest, Shape
    <3> QED BY <1>2, <3>1 DEF ReleaseOf, Same, M, L
  <2> QED BY <2>1, <2>2
<1> QED BY <1>2, <1>6, <1>7, <1>8 DEF Shape

LEMMA PushedAt ==
    ASSUME Good, NEW t \in Threads, Push(t), ~CasFailed(t, "acquire")
    PROVE /\ PushRest(t) /\ value = val[t] /\ value' = Pushed(t).value /\ block'[t] = Pushed(t).block
          /\ found'[t] = value /\ (IF mode[t] THEN value.owned ELSE ~MayShare(value))
          /\ pc' = [pc EXCEPT ![t] = IF MustOptimize(value) THEN "optimize" ELSE "block"]
          /\ val'[t] = (IF MustOptimize(value) THEN value' ELSE Free)
          /\ \A u \in Threads \ {t} : found'[u] = found[u]
          /\ UNCHANGED <<mode, at, first, caller>>
<1> DEFINE q == IF MustOptimize(val[t]) THEN "optimize" ELSE "block"
<1>0. Typed /\ Control
  BY DEF Good
<1>1. /\ pc[t] = "acquire" /\ Cas(t, Pushed(t).value, q, "acquire")
      /\ IF mode[t] THEN val[t].owned ELSE ~MayShare(val[t])
      /\ value = val[t] => /\ block' = [block EXCEPT ![t] = Pushed(t).block]
                           /\ queued' = queued \cup {t}
                           /\ found' = [found EXCEPT ![t] = value]
      /\ UNCHANGED <<mode, at, first, caller>>
  BY DEF Push, Pushed, traversal
<1>2. CasDone(t, Pushed(t).value, q)
  BY <1>0, <1>1, CasCases
<1>3. /\ value = val[t] /\ value' = Pushed(t).value /\ pc' = [pc EXCEPT ![t] = q]
      /\ val'[t] = (IF q \in Forgets THEN Free ELSE Pushed(t).value)
      /\ \A u \in Threads \ {t} : val'[u] = val[u]
  BY <1>2 DEF CasDone
<1>4. /\ block'[t] = Pushed(t).block /\ \A b \in Threads \ {t} : block'[b] = block[b]
      /\ found'[t] = value /\ \A u \in Threads \ {t} : found'[u] = found[u]
  BY <1>0, <1>1, <1>3 DEF Typed, BlockMaps
<1>5. block'[t].spinning
  BY <1>0, <1>4, PushFields DEF Pushed
<1>6. t \notin queued
  BY <1>0, <1>1 DEF Control, ControlOf, Waiting, Waking
<1>7. pc'[t] = q /\ \A u \in Threads : u # t => pc'[u] = pc[u]
  BY <1>0, <1>3, Stays
<1>8. PushRest(t)
  BY <1>1, <1>3, <1>4, <1>5, <1>6, <1>7 DEF PushRest, Same
<1>9. val'[t] = (IF MustOptimize(value) THEN value' ELSE Free)
  BY <1>3 DEF Forgets
<1> QED BY <1>1, <1>3, <1>4, <1>8, <1>9

LEMMA PushStep ==
    ASSUME Good, NEW n \in Ranks, NEW w \in Wakers, NEW s \in MaybeThread, NEW e \in MaybeThread, Shape(n, w, s, e),
           NEW t \in Threads, Push(t)
    PROVE Good' /\ ShapeInv'
<1>0. Typed /\ Control /\ OwnInv /\ TravInv
  BY DEF Good
<1>1. Typed'
  BY <1>0, SlowAcquireType DEF SlowAcquire
<1>2. CASE CasFailed(t, "acquire")
  <2>1. value # val[t]
    BY <1>2 DEF CasFailed
  <2>2. pc[t] = "acquire" /\ UNCHANGED <<block, queued, found, at, first, caller>>
    BY <2>1 DEF Push, waitBlocks, traversal
  <2>3. Good' /\ Shape(n, w, s, e)'
    BY <1>1, <1>2, <2>2, AcquireFails
  <2> QED BY <2>3 DEF ShapeInv
<1>3. CASE ~CasFailed(t, "acquire")
  <2> DEFINE q == IF MustOptimize(value) THEN "optimize" ELSE "block"
  <2>1. /\ PushRest(t) /\ value = val[t] /\ value' = Pushed(t).value /\ block'[t] = Pushed(t).block
        /\ found'[t] = value /\ (IF mode[t] THEN value.owned ELSE ~MayShare(value))
        /\ pc' = [pc EXCEPT ![t] = q]
        /\ val'[t] = (IF MustOptimize(value) THEN value' ELSE Free)
        /\ \A u \in Threads \ {t} : found'[u] = found[u]
        /\ UNCHANGED <<mode, at, first, caller>>
    BY <1>3, PushedAt
  <2>2. /\ pc[t] = "acquire" /\ queued' = queued \cup {t} /\ t \notin queued
        /\ \A u \in Threads \ {t} : Same(u) /\ block'[u] = block[u]
    BY <2>1 DEF PushRest
  <2>3. /\ Sharers' = Sharers /\ Clearers' = Clearers /\ Exclusive' = Exclusive
        /\ pc'[t] = q /\ \A u \in Threads : u # t => pc'[u] = pc[u]
    <3>1. /\ pc[t] \notin SharerPoints /\ q \notin SharerPoints /\ pc[t] # "clearOwned" /\ q # "clearOwned"
          /\ pc[t] \notin {"exclusive", "release"} /\ q \notin {"exclusive", "release"}
      BY <2>2 DEF SharerPoints
    <3> QED BY <1>0, <2>1, <3>1, Stays
  <2>4. /\ value \in Words /\ value.owned \in BOOLEAN /\ value.waiters \in BOOLEAN /\ value.traversing \in BOOLEAN
        /\ value.multiple \in BOOLEAN /\ value.shared \in Nat /\ WordOK(value) /\ mode[t] \in BOOLEAN
        /\ value' \in Words
    BY <1>0, <1>1, WordUpdates DEF Typed, Control
  <2>5. value.owned \/ value.waiters
    BY <2>1, <2>4 DEF MayShare
  <2>6. ASSUME WordOK(value') PROVE Control'
    <3>1. ControlOf(t)'
      BY <1>0, <2>1, <2>2, <2>3, <2>4, <2>6, FreeIsWord DEF Control, ControlOf, Waiting
    <3>2. \A u \in Threads \ {t} :
              /\ pc'[u] = pc[u] /\ caller'[u] = caller[u] /\ val'[u] = val[u] /\ found'[u] = found[u]
              /\ u \in queued' <=> u \in queued
              /\ block'[u].spinning => block[u].spinning
      BY <2>1, <2>2 DEF Same
    <3> QED BY <1>0, <2>6, <3>1, <3>2, ControlFrame
  <2>7. PICK v \in Wakers : v[t] = NULL /\ \A b \in Threads \ {t} : v[b] = w[b]
    <3>1. [w EXCEPT ![t] = NULL] \in Wakers
      BY DEF Wakers, MaybeThread
    <3> QED BY <3>1 DEF Wakers
  <2>8. CASE ~value.waiters
    <3>1. /\ value'.owned = TRUE /\ value'.waiters = TRUE /\ value'.shared = 0 /\ value'.traversing = FALSE
          /\ value'.multiple = (mode[t] /\ value.shared > 1) /\ value'.head = t
          /\ block'[t].prev = NULL /\ block'[t].last = t
          /\ mode[t] => block'[t].sharedOwners = value.shared
      <4>1. Pushed(t) = PushedFirst(t)
        BY <2>1, <2>8 DEF Pushed
      <4>2. value' = PushedFirst(t).value /\ block'[t] = PushedFirst(t).block /\ val[t] = value
        BY <2>1, <4>1
      <4>3. /\ PushedFirst(t).value.owned = TRUE /\ PushedFirst(t).value.waiters = TRUE
            /\ PushedFirst(t).value.shared = 0 /\ PushedFirst(t).value.traversing = FALSE
            /\ PushedFirst(t).value.multiple = (mode[t] /\ val[t].shared > 1) /\ PushedFirst(t).value.head = t
            /\ PushedFirst(t).block.prev = NULL /\ PushedFirst(t).block.last = t
            /\ mode[t] => PushedFirst(t).block.sharedOwners = val[t].shared
        BY <1>0, PushFields
      <4> QED BY <4>2, <4>3
    <3>2. Control'
      BY <2>6, <3>1 DEF WordOK
    <3>3. /\ value.shared = Cardinality(Sharers) /\ Clearers = {} /\ value.owned
          /\ ~mode[t] => value.shared = 0
      BY <1>0, <2>1, <2>4, <2>5, <2>8 DEF OwnInv, MayShare
    <3>4. OwnInv'
      BY <1>0, <2>3, <2>4, <3>1, <3>3, SharersFinite DEF OwnInv, Single
    <3>5. pc'[t] = "block" /\ Traversers' = Traversers
      <4>1. q = "block"
        BY <2>8 DEF MustOptimize
      <4>2. pc[t] \notin Optimizing \cup Preparing /\ q \notin Optimizing \cup Preparing
        BY <2>2, <4>1 DEF Optimizing, Preparing
      <4> QED BY <1>0, <2>1, <2>3, <4>1, <4>2, Stays
    <3>6. TravInv'
      <4>1. ~value.traversing
        BY <2>4, <2>8 DEF WordOK
      <4>2. TravOf(t)'
        BY <3>5, Untravelled DEF Optimizing, Preparing
      <4> QED BY <1>0, <2>2, <2>3, <2>4, <2>8, <3>1, <3>5, <4>1, <4>2, TravFrame DEF Same
    <3>7. Shape(n, v, t, t)'
      BY <2>1, <2>3, <2>7, <2>8, <3>1, <3>3, <3>5, PushFirstShape
    <3> QED BY <1>1, <2>7, <3>2, <3>4, <3>6, <3>7 DEF Good, ShapeInv, MaybeThread
  <2>9. CASE value.waiters
    <3>1. /\ value'.owned = value.owned /\ value'.waiters = TRUE /\ value'.shared = value.shared
          /\ value'.traversing = TRUE /\ value'.multiple = value.multiple /\ value'.head = t
          /\ block'[t].prev = NULL /\ block'[t].last = NULL /\ block'[t].next = value.head
      <4>1. Pushed(t) = PushedOn(t) /\ value.waiters = TRUE
        BY <2>1, <2>4, <2>9 DEF Pushed
      <4>2. value' = PushedOn(t).value /\ block'[t] = PushedOn(t).block /\ val[t] = value
        BY <2>1, <4>1
      <4>3. /\ PushedOn(t).value.owned = val[t].owned /\ PushedOn(t).value.waiters = val[t].waiters
            /\ PushedOn(t).value.shared = val[t].shared /\ PushedOn(t).value.traversing = TRUE
            /\ PushedOn(t).value.multiple = val[t].multiple /\ PushedOn(t).value.head = t
            /\ PushedOn(t).block.next = val[t].head /\ PushedOn(t).block.prev = NULL
            /\ PushedOn(t).block.last = NULL
        BY <1>0, PushFields
      <4> QED BY <4>1, <4>2, <4>3
    <3>2. Control'
      BY <2>4, <2>6, <2>9, <3>1 DEF WordOK
    <3>3. OwnInv'
      BY <1>0, <2>3, <2>4, <2>9, <3>1, OwnFrame
    <3>4. TravInv'
      <4>1. CASE value.traversing
        <5>1. pc'[t] = "block"
          BY <2>3, <4>1 DEF MustOptimize
        <5>2. Traversers' = Traversers
          BY <1>0, <2>1, <2>2, <2>3, <5>1, Stays DEF Optimizing, Preparing
        <5>3. TravOf(t)'
          BY <5>1, Untravelled DEF Optimizing, Preparing
        <5> QED BY <1>0, <2>2, <2>3, <2>4, <2>9, <3>1, <4>1, <5>2, <5>3, TravFrame DEF Same
      <4>2. CASE ~value.traversing
        <5>1. pc'[t] = "optimize" /\ val'[t] = value'
          BY <2>1, <2>3, <2>9, <4>2 DEF MustOptimize
        <5>2. Traversers = {}
          BY <1>0, <4>2 DEF TravInv, TravOne
        <5>3. Traversers' = {t}
          <6>1. Traversers' = With(Traversers, t, q \in Optimizing \cup Preparing)
            BY <1>0, <2>1, Moves
          <6>2. q \in Optimizing
            BY <2>3, <5>1 DEF Optimizing
          <6> QED BY <5>2, <6>1, <6>2 DEF With
        <5>4. TravOf(t)'
          BY <1>0, <2>3, <3>1, <5>1 DEF TravOf, OwnInv, Single, Preparing, Optimizing
        <5>5. ASSUME NEW u \in Threads \ {t} PROVE TravOf(u)'
          <6>1. u \notin Traversers' /\ pc'[u] = pc[u]
            BY <2>3, <5>3
          <6>2. pc'[u] \notin Optimizing \cup Preparing
            BY <5>2, <6>1, Members
          <6> QED BY <6>2, Untravelled
        <5> QED BY <3>1, <5>3, <5>4, <5>5 DEF TravInv, TravOne
      <4> QED BY <4>1, <4>2
    <3>5. value.head \in Threads
      BY <2>4, <2>9 DEF WordOK
    <3>6. PICK m \in Ranks : m[t] = n[value.head] + 1 /\ \A b \in Threads \ {t} : m[b] = n[b]
      <4>1. [n EXCEPT ![t] = n[value.head] + 1] \in Ranks
        BY <3>5 DEF Ranks
      <4> QED BY <4>1 DEF Ranks
    <3>7. PICK h : h = value.head
      OBVIOUS
    <3>8. pc'[t] = "optimize" => val'[t] = value'
      BY <2>1, <2>3
    <3>9. Shape(m, v, s, e)'
      <4>1. m[t] = n[h] + 1 /\ block'[t].next = h
        BY <3>1, <3>6, <3>7
      <4> QED BY <2>1, <2>3, <2>7, <2>9, <3>1, <3>6, <3>7, <3>8, <4>1, PushOnShape
    <3> QED BY <1>1, <2>7, <3>2, <3>3, <3>4, <3>6, <3>9 DEF Good, ShapeInv
  <2> QED BY <2>8, <2>9
<1> QED BY <1>2, <1>3
-----------------------------------------------------------------------------
(* PhpOptimizeQueuedLockListEx *)

\* What a traverser knows of the list.
LEMMA TraverserList ==
    ASSUME Good, NEW n, NEW w, NEW s, NEW e, Shape(n, w, s, e), NEW t \in Threads, pc[t] \in Optimizing \cup Preparing
    PROVE /\ value.waiters /\ value.traversing /\ ListOK(InList(w), value.head, block, n, s, e)
          /\ e \in InList(w) /\ s \in InList(w) /\ value.head \in InList(w) /\ block[value.head].prev = NULL
          /\ n[s] <= n[value.head] /\ InList(w) \in SUBSET Threads /\ InList(w) \subseteq Pending
          /\ \A u \in Threads \ {t} : pc[u] \notin Optimizing \cup Preparing
<1>1. t \in Traversers
  BY Members
<1>2. value.waiters /\ value.traversing /\ \A u \in Threads \ {t} : u \notin Traversers
  BY <1>1 DEF Good, TravInv, TravOne
<1>3. ListOK(InList(w), value.head, block, n, s, e)
  BY <1>2 DEF Shape, Whole
<1>4. InList(w) \in SUBSET Threads /\ InList(w) \subseteq Pending
  BY DEF InList, Pending, Good, Typed
<1>5. /\ e \in InList(w) /\ s \in InList(w) /\ value.head \in InList(w) /\ block[value.head].prev = NULL
      /\ n[s] <= n[value.head]
  BY <1>3 DEF ListOK
<1>6. \A u \in Threads \ {t} : pc[u] \notin Optimizing \cup Preparing
  BY <1>2, Members
<1> QED BY <1>2, <1>3, <1>4, <1>5, <1>6

\* The points of a traversal are no points of a waker or of a release.
LEMMA TravPoints ==
    /\ \A p \in Optimizing \cup (Preparing \ {"unlinked"}) :
          p \notin WakerPoints /\ p \notin {"releaseShared", "findLast", "decrement", "keyed", "block", "wakeForRelease"}
    /\ \A p \in Optimizing \cup Preparing : p \in Waiting \cup Waking /\ Group(p) = "traverser"
    /\ Optimizing \subseteq Waiting /\ Preparing \subseteq Waking /\ Waiting \cap Waking = {}
    /\ Optimizing \cap Preparing = {}
BY DEF Optimizing, Preparing, WakerPoints, Waiting, Waking, Group, SharerPoints

\* A step of a traverser that changes nothing but its own view.
LEMMA TraverserStep ==
    ASSUME Good, NEW n, NEW w, NEW s, NEW e, Shape(n, w, s, e), NEW t \in Threads, NEW q, Typed',
           pc[t] \in Optimizing \cup (Preparing \ {"unlinked"}), q \in Optimizing \cup (Preparing \ {"unlinked"}),
           pc' = [pc EXCEPT ![t] = q], UNCHANGED <<value, block, queued, found>>,
           \A u \in Threads \ {t} : /\ val'[u] = val[u] /\ at'[u] = at[u]
                                    /\ first'[u] = first[u] /\ caller'[u] = caller[u],
           q \in Preparing => (pc[t] \in Preparing /\ caller'[t] = caller[t])
                           \/ (pc[t] \in Optimizing /\ caller'[t] = "block"),
           q \in Optimizing => pc[t] \in Optimizing,
           WordOK(val'[t]), TravOf(t)', WalkOf(t, n, w, s, e)'
    PROVE Good' /\ Shape(n, w, s, e)'
<1>1. pc'[t] = q /\ \A u \in Threads : u # t => pc'[u] = pc[u]
  BY Stays DEF Good
<1>2. Group(q) = Group(pc[t]) /\ pc[t] # "keyed" /\ q # "keyed" /\ pc[t] \notin WakerPoints /\ q \notin WakerPoints
  BY TravPoints
<1>3. Pending' = Pending
  BY <1>1, <1>2, PendingSame DEF Good, Typed
<1>4. ChainOf(t, n, w)'
  BY <1>1, <1>2, <1>3 DEF Shape, ChainOf, Chain, WakerPoints
<1>5. ReleaseOf(t, w, e)'
  BY <1>1, TravPoints DEF ReleaseOf
<1>6. ControlOf(t)'
  BY <1>1, <1>2, TravPoints DEF Good, Control, ControlOf
<1> QED BY <1>1, <1>2, <1>4, <1>5, <1>6, LocalStep

\* A traverser that starts again from the word it found.
LEMMA TraverserReloads ==
    ASSUME Good, NEW n, NEW w, NEW s, NEW e, Shape(n, w, s, e), NEW t \in Threads, Typed',
           \/ pc[t] \in Optimizing /\ CasFailed(t, "optimize")
           \/ pc[t] \in Preparing \ {"unlinked"} /\ CasFailed(t, "wake"),
           UNCHANGED <<block, queued, found, caller>>,
           \A u \in Threads \ {t} : at'[u] = at[u] /\ first'[u] = first[u]
    PROVE Good' /\ Shape(n, w, s, e)'
<1> DEFINE q == IF pc[t] \in Optimizing THEN "optimize" ELSE "wake"
<1>1. /\ pc' = [pc EXCEPT ![t] = q] /\ value' = value /\ val'[t] = value
      /\ \A u \in Threads \ {t} : val'[u] = val[u]
  BY TravPoints DEF CasFailed, Forgets
<1>2. q \in Optimizing => pc[t] \in Optimizing
  BY DEF Optimizing
<1>3. q \in Preparing => pc[t] \in Preparing
  BY DEF Preparing
<1>4. q \in Optimizing \cup (Preparing \ {"unlinked"}) /\ q \in {"optimize", "wake"}
  BY DEF Optimizing, Preparing
<1> HIDE DEF q
<1>5. pc'[t] = q /\ Sharers' = Sharers /\ Clearers' = Clearers
  <2>1. Group(q) = Group(pc[t])
    BY <1>4, TravPoints
  <2> QED BY <1>1, <2>1, GroupSame DEF Good
<1>6. /\ value.waiters /\ value.traversing /\ value.head \in InList(w) /\ block[value.head].prev = NULL
      /\ n[s] <= n[value.head]
  BY TraverserList
<1>7. InList(w)' = InList(w)
  <2>1. Pending' = Pending
    BY <1>1, <1>4, <1>5, TravPoints, PendingSame, Stays DEF Good, Typed
  <2> QED BY <2>1 DEF InList
<1>8. WalkOf(t, n, w, s, e)'
  BY <1>1, <1>4, <1>5, <1>6, <1>7 DEF WalkOf
<1>9. TravOf(t)'
  <2>1. ~value.owned => Sharers \cup Clearers = {}
    BY DEF Good, OwnInv, Single
  <2>2. pc[t] \in Preparing => Sharers \cup Clearers = {}
    BY DEF Good, TravInv, TravOf
  <2>3. pc[t] \in Preparing => ~value.multiple
    BY <2>2 DEF Good, OwnInv, Control, WordOK, Single
  <2> QED BY <1>1, <1>3, <1>4, <1>5, <2>1, <2>2, <2>3 DEF TravOf, Optimizing, Preparing
<1>10. WordOK(val'[t])
  BY <1>1 DEF Good, Control
<1> QED BY <1>1, <1>2, <1>3, <1>4, <1>8, <1>9, <1>10, TraverserStep

\* A traversal starts at the first block.
LEMMA TopStep ==
    ASSUME Good, NEW n \in Ranks, NEW w, NEW s, NEW e, Shape(n, w, s, e), NEW t \in Threads,
           OptimizeTop(t) \/ WakeTop(t)
    PROVE Good' /\ Shape(n, w, s, e)'
<1> DEFINE q == IF WakeTop(t) THEN "wakeVisit" ELSE IF ~val[t].owned THEN "wake" ELSE "optimizeVisit"
<1>1. Typed'
  BY WalkType DEF Good, PlainWalk
<1>2. /\ pc[t] = (IF WakeTop(t) THEN "wake" ELSE "optimize")
      /\ at' = [at EXCEPT ![t] = val[t].head] /\ first' = [first EXCEPT ![t] = val[t].head]
      /\ caller' = IF WakeTop(t) THEN caller ELSE [caller EXCEPT ![t] = "block"]
      /\ pc' = [pc EXCEPT ![t] = q] /\ UNCHANGED <<value, block, queued, found, val>>
      /\ WakeTop(t) => ~val[t].owned
  BY DEF OptimizeTop, WakeTop, WakeRequested, Goto, waitBlocks
<1>3. /\ at'[t] = val[t].head /\ first'[t] = val[t].head /\ pc'[t] = q
      /\ caller'[t] = (IF WakeTop(t) THEN caller[t] ELSE "block")
      /\ \A u \in Threads \ {t} : at'[u] = at[u] /\ first'[u] = first[u] /\ caller'[u] = caller[u] /\ pc'[u] = pc[u]
  BY <1>2 DEF Good, Typed
<1>4. /\ pc[t] \in Optimizing \cup (Preparing \ {"unlinked"}) /\ q \in Optimizing \cup (Preparing \ {"unlinked"})
      /\ pc[t] \in Preparing <=> WakeTop(t)
      /\ pc[t] \in Optimizing <=> ~WakeTop(t)
      /\ q \in Optimizing => pc[t] \in Optimizing
  BY <1>2 DEF Optimizing, Preparing
<1>5. /\ q \in {"wakeVisit", "wake", "optimizeVisit"}
      /\ q = "wakeVisit" => ~val[t].owned
      /\ q = "wake" => ~val[t].owned
      /\ q = "optimizeVisit" => val[t].owned
      /\ q # "optimizeVisit" => (pc[t] \in Preparing \/ (pc[t] \in Optimizing /\ ~val[t].owned))
  BY <1>2, <1>4
<1> HIDE DEF q
<1>6. Sharers' = Sharers /\ Clearers' = Clearers
  <2>1. Group(q) = Group(pc[t])
    BY <1>4, TravPoints
  <2> QED BY <1>2, <2>1, GroupSame DEF Good
<1>7. TravOf(t)'
  <2>1. q # "optimizeVisit" => Sharers \cup Clearers = {}
    BY <1>5 DEF Good, TravInv, TravOf
  <2>2. ~val[t].owned => ~val[t].multiple
    BY DEF Good, Control, ControlOf, WordOK
  <2> QED BY <1>2, <1>3, <1>5, <1>6, <2>1, <2>2 DEF TravOf, Preparing, Optimizing
<1>8. InList(w)' = InList(w) /\ InList(w) \in SUBSET Threads
  <2>1. Pending' = Pending
    BY <1>2, <1>3, <1>4, TravPoints, PendingSame DEF Good, Typed
  <2> QED BY <2>1 DEF InList, Pending, Good, Typed
<1>9. WalkOf(t, n, w, s, e)'
  <2>1. /\ val[t].waiters /\ val[t].traversing /\ val[t].head \in InList(w)
        /\ block[val[t].head].prev = NULL /\ n[s] <= n[val[t].head]
    BY <1>4 DEF Shape, WalkOf
  <2>2. Completed(InList(w), block, n, val[t].head, n[val[t].head]) /\ n[val[t].head] <= n[val[t].head]
    BY <1>8, <2>1 DEF Completed, Ranks
  <2> QED BY <1>2, <1>3, <1>5, <1>8, <2>1, <2>2 DEF WalkOf
<1>10. WordOK(val'[t])
  BY <1>2 DEF Good, Control, ControlOf
<1> QED BY <1>1, <1>2, <1>3, <1>4, <1>7, <1>9, <1>10, TraverserStep

\* The part of the invariant that does not concern the list, when t moves within its group.
LEMMA GoodFrame ==
    ASSUME Good, Typed', NEW t \in Threads, NEW q, pc' = [pc EXCEPT ![t] = q], Group(q) = Group(pc[t]),
           UNCHANGED <<value, queued, found>>,
           \A u \in Threads \ {t} : val'[u] = val[u] /\ caller'[u] = caller[u]
                                    /\ (block'[u].spinning => block[u].spinning),
           ControlOf(t)', TravOf(t)'
    PROVE Good'
<1>0. Typed /\ Control /\ OwnInv /\ TravInv
  BY DEF Good
<1>1. /\ Sharers' = Sharers /\ Clearers' = Clearers /\ Exclusive' = Exclusive /\ Traversers' = Traversers
      /\ pc'[t] = q /\ \A u \in Threads : u # t => pc'[u] = pc[u]
  BY <1>0, GroupSame
<1>2. Control'
  BY <1>0, <1>1, ControlFrame DEF Control
<1>3. OwnInv'
  BY <1>0, <1>1, OwnFrame
<1>4. TravInv'
  BY <1>0, <1>1, TravFrame DEF TravInv, TravOne
<1> QED BY <1>2, <1>3, <1>4 DEF Good

\* The traverser t changes blocks of the list, and r is the new first block with a Last pointer.
LEMMA ListChange ==
    ASSUME Good, NEW n, NEW w, NEW s, NEW e, Shape(n, w, s, e), NEW t \in Threads, NEW r,
           pc[t] \in Optimizing \cup (Preparing \ {"unlinked"}), pc'[t] \in Optimizing \cup (Preparing \ {"unlinked"}),
           Pending' = Pending, value' = value, Sharers' = Sharers, Clearers' = Clearers,
           \A u \in Threads \ {t} : Same(u),
           \A b \in Pending : w[b] # NULL => block'[b] = block[b],
           \A b \in InList(w) : /\ block'[b].sharedOwners = block[b].sharedOwners
                                /\ block'[b].last = block[b].last \/ block'[b].last = e,
           ListOK(InList(w), value.head, block', n, r, e), WalkOf(t, n, w, r, e)'
    PROVE Shape(n, w, r, e)'
<1>1. InList(w)' = InList(w) /\ \A u : Chain(w, u)' = Chain(w, u)
  BY DEF InList, Chain
<1>2. value.waiters /\ e \in InList(w) /\ \A u \in Threads \ {t} : pc[u] \notin Optimizing \cup Preparing
  BY TraverserList
<1>3. Whole(n, w, r, e)'
  <2>1. CountOK(w, e)
    BY DEF Shape, Whole
  <2>2. CountOK(w, e)'
    BY <1>1, <1>2, <2>1 DEF CountOK
  <2> QED BY <1>1, <1>2, <2>2 DEF Whole
<1>4. ASSUME NEW u \in Threads PROVE ChainOf(u, n, w)'
  <2>1. ChainOf(u, n, w)
    BY DEF Shape
  <2>2. CASE u = t
    BY <1>1, <2>1, <2>2, TravPoints DEF ChainOf, WakerPoints
  <2>3. CASE u # t
    <3>1. \A b \in Chain(w, u) : block'[b] = block[b]
      BY NoThread DEF Chain
    <3> QED BY <1>1, <2>1, <2>3, <3>1, ChainFrame
  <2> QED BY <2>2, <2>3
<1>5. ASSUME NEW u \in Threads PROVE WalkOf(u, n, w, r, e)'
  <2>1. CASE u = t
    BY <2>1
  <2>2. CASE u # t
    <3>1. pc'[u] \notin Optimizing \cup Preparing
      BY <1>2, <2>2 DEF Same
    <3> QED BY <3>1 DEF WalkOf, Optimizing, Preparing
  <2> QED BY <2>1, <2>2
<1>6. ASSUME NEW u \in Threads PROVE ReleaseOf(u, w, e)'
  <2>1. ReleaseOf(u, w, e)
    BY DEF Shape
  <2>2. CASE u = t
    BY <2>2, TravPoints DEF ReleaseOf
  <2>3. CASE u # t
    BY <1>1, <2>1, <2>3 DEF ReleaseOf, Same
  <2> QED BY <2>2, <2>3
<1> QED BY <1>3, <1>4, <1>5, <1>6 DEF Shape

\* "Previous pointers" are set while Next is followed.
LEMMA FollowStep ==
    ASSUME Good, NEW n \in Ranks, NEW w, NEW s, NEW e, Shape(n, w, s, e), NEW t \in Threads,
           pc[t] \in {"optimizeVisit", "wakeVisit"}, FollowNext(t),
           UNCHANGED <<pc, value, queued, found, val, mode, first, caller, ops>>
    PROVE Good' /\ Shape(n, w, s, e)'
<1>0. PICK a, x : a = at[t] /\ x = block[a].next
  OBVIOUS
<1>1. block[a].last = NULL /\ block' = [block EXCEPT ![x].prev = a] /\ at' = [at EXCEPT ![t] = x]
  BY <1>0 DEF FollowNext
<1>2. pc[t] \in Optimizing \cup (Preparing \ {"unlinked"})
  BY DEF Optimizing, Preparing
<1>3. /\ ListOK(InList(w), value.head, block, n, s, e) /\ InList(w) \in SUBSET Threads
  BY <1>2, TraverserList
<1>4. /\ first[t] = val[t].head /\ val[t].head \in InList(w) /\ a \in InList(w) /\ n[s] <= n[a]
      /\ n[a] <= n[first[t]] /\ Completed(InList(w), block, n, first[t], n[a])
      /\ val[t].waiters /\ val[t].traversing /\ block[val[t].head].prev = NULL /\ n[s] <= n[val[t].head]
  BY <1>0, <1>2 DEF Shape, WalkOf
<1>5. /\ x \in InList(w) /\ n[x] = n[a] - 1 /\ n[s] <= n[x] /\ x # value.head
  <2>1. block[a].last = NULL /\ a \in InList(w) /\ n[s] <= n[a]
    BY <1>1, <1>4
  <2>2. /\ block[a].next \in InList(w) /\ n[block[a].next] = n[a] - 1
        /\ n[s] <= n[block[a].next] /\ block[a].next # value.head
    <3> DEFINE L == InList(w)
               h == value.head
    <3>1. ListOK(L, h, block, n, s, e) /\ L \in SUBSET Threads /\ a \in L
      BY <1>3, <2>1
    <3> HIDE DEF L, h
    <3>2. block[a].next \in L /\ block[a].next # h
      BY <2>1, <3>1, GoesOn
    <3>3. n[s] <= n[block[a].next] /\ a # e
      BY <2>1, <3>1, GoesOn
    <3>4. n[block[a].next] = n[a] - 1
      BY <3>1, <3>3 DEF ListOK
    <3> QED BY <3>2, <3>3, <3>4 DEF L, h
  <2> QED BY <1>0, <2>2
<1>6. x \in Threads /\ a \in Threads /\ block \in BlockMaps /\ at \in [Threads -> MaybeThread]
  BY <1>3, <1>4, <1>5 DEF Good, Typed
<1>7. /\ block'[x] = [block[x] EXCEPT !.prev = a] /\ \A b \in Threads \ {x} : block'[b] = block[b]
      /\ block[x] \in BlockType
  BY <1>1, <1>6 DEF BlockMaps
<1>8. /\ block'[x].next = block[x].next /\ block'[x].last = block[x].last /\ block'[x].prev = a
      /\ block'[x].sharedOwners = block[x].sharedOwners /\ block'[x].spinning = block[x].spinning
  BY <1>7 DEF BlockType
<1>9. Typed'
  <2>1. a \in MaybeThread /\ x \in MaybeThread
    BY <1>6 DEF MaybeThread
  <2>2. block' \in BlockMaps
    BY <1>1, <1>6, <2>1, BlockUpdates
  <2>3. at' \in [Threads -> MaybeThread]
    BY <1>1, <1>6, <2>1
  <2> QED BY <2>2, <2>3 DEF Good, Typed
<1>10. \A b \in Threads : block'[b].spinning = block[b].spinning
  BY <1>7, <1>8
<1>11. /\ pc' = [pc EXCEPT ![t] = pc[t]] /\ Sharers' = Sharers /\ Clearers' = Clearers
  <2>1. pc' = [pc EXCEPT ![t] = pc[t]]
    BY DEF Good, Typed
  <2> QED BY <2>1, GroupSame DEF Good
<1>12. Good'
  <2>1. TravOf(t)'
    BY <1>11 DEF TravOf, Good, TravInv
  <2>2. ControlOf(t)'
    BY <1>10 DEF ControlOf, Good, Control
  <2> QED BY <1>9, <1>10, <1>11, <2>1, <2>2, GoodFrame
<1>13. Pending' = Pending /\ InList(w)' = InList(w)
  <2>1. Pending' = Pending
    BY <1>10 DEF Pending, Good, Typed
  <2> QED BY <2>1 DEF InList
<1>14. \A u \in Threads \ {t} : Same(u)
  BY <1>1, <1>6 DEF Same
<1>15. \A b \in InList(w) : /\ block'[b].next = block[b].next /\ block'[b].last = block[b].last
                            /\ block'[b].prev = (IF b = x THEN a ELSE block[b].prev)
                            /\ block'[b].sharedOwners = block[b].sharedOwners
  BY <1>3, <1>7, <1>8
<1>16. ListOK(InList(w), value.head, block', n, s, e)
  BY <1>3, <1>4, <1>5, <1>15, ListVisit
<1>17. Completed(InList(w), block', n, val[t].head, n[x])
  <2>1. Ranked(InList(w), n)
    BY <1>3 DEF ListOK
  <2>2. /\ val[t].head \in InList(w) /\ a \in InList(w) /\ x \in InList(w) /\ n[x] = n[a] - 1
        /\ Completed(InList(w), block, n, val[t].head, n[a]) /\ InList(w) \in SUBSET Threads
    BY <1>3, <1>4, <1>5
  <2>3. \A b \in InList(w) : block'[b].prev = IF b = x THEN a ELSE block[b].prev
    BY <1>15
  <2> QED BY <2>1, <2>2, <2>3, CompletedVisit
<1>18. WalkOf(t, n, w, s, e)'
  <2>1. x # val[t].head /\ n[x] <= n[val[t].head]
    BY <1>3, <1>4, <1>5 DEF Ranks
  <2>2. block'[val[t].head].prev = NULL
    BY <1>4, <1>15, <2>1
  <2>3. at'[t] = x
    BY <1>1, <1>6
  <2> QED BY <1>4, <1>5, <1>13, <1>17, <2>1, <2>2, <2>3 DEF WalkOf
<1>19. \A b \in Pending : w[b] # NULL => block'[b] = block[b]
  BY <1>5, <1>7 DEF InList, Pending, Good, Typed
<1> QED BY <1>2, <1>11, <1>12, <1>13, <1>14, <1>15, <1>16, <1>18, <1>19, ListChange

\* The first block gets its shortcut to the last one.
LEMMA OptimizeVisitStep ==
    ASSUME Good, NEW n \in Ranks, NEW w \in Wakers, NEW s \in MaybeThread, NEW e \in MaybeThread, Shape(n, w, s, e),
           NEW t \in Threads, OptimizeVisit(t)
    PROVE Good' /\ ShapeInv'
<1>0. pc[t] = "optimizeVisit" /\ UNCHANGED <<value, queued, found, val, mode, first, caller, ops>>
  BY DEF OptimizeVisit
<1>a. CASE FollowNext(t) /\ UNCHANGED pc
  <2>1. Good' /\ Shape(n, w, s, e)'
    BY <1>0, <1>a, FollowStep
  <2> QED BY <2>1 DEF ShapeInv
<1>b. CASE ~(FollowNext(t) /\ UNCHANGED pc)
  <2>0. PICK a, f : a = at[t] /\ f = first[t]
    OBVIOUS
  <2>1. /\ block[a].last # NULL /\ block' = [block EXCEPT ![f].last = block[a].last]
        /\ pc' = [pc EXCEPT ![t] = "optimizeDone"] /\ at' = at
    BY <1>b, <2>0 DEF OptimizeVisit, Goto
  <2>2. pc[t] \in Optimizing \cup (Preparing \ {"unlinked"})
    BY <1>0 DEF Optimizing, Preparing
  <2>3. /\ ListOK(InList(w), value.head, block, n, s, e) /\ InList(w) \in SUBSET Threads /\ e \in InList(w)
    BY <2>2, TraverserList
  <2>4. /\ f = val[t].head /\ f \in InList(w) /\ a \in InList(w) /\ n[s] <= n[a] /\ n[s] <= n[f]
        /\ n[a] <= n[f] /\ Completed(InList(w), block, n, f, n[a])
        /\ val[t].waiters /\ val[t].traversing /\ block[f].prev = NULL
    BY <1>0, <2>0, <2>2 DEF Shape, WalkOf
  <2>5. a = s /\ block[a].last = e /\ Completed(InList(w), block, n, f, n[e])
    BY <2>1, <2>3, <2>4, CompletedDown
  <2>6. f \in Threads /\ e \in Threads /\ block \in BlockMaps
    BY <2>3, <2>4 DEF Good, Typed
  <2>7. /\ block'[f] = [block[f] EXCEPT !.last = e] /\ \A b \in Threads \ {f} : block'[b] = block[b]
        /\ block[f] \in BlockType
    BY <2>1, <2>5, <2>6 DEF BlockMaps
  <2>8. /\ block'[f].next = block[f].next /\ block'[f].last = e /\ block'[f].prev = block[f].prev
        /\ block'[f].sharedOwners = block[f].sharedOwners /\ block'[f].spinning = block[f].spinning
    BY <2>7 DEF BlockType
  <2>9. Typed'
    <3>1. block' \in BlockMaps
      BY <2>1, <2>5, <2>6, BlockUpdates DEF MaybeThread
    <3> QED BY <1>0, <2>1, <3>1, PointsAre DEF Good, Typed
  <2>10. \A b \in Threads : block'[b].spinning = block[b].spinning
    BY <2>7, <2>8
  <2>11. /\ Group("optimizeDone") = Group(pc[t]) /\ Sharers' = Sharers /\ Clearers' = Clearers
         /\ pc'[t] = "optimizeDone" /\ \A u \in Threads : u # t => pc'[u] = pc[u]
    <3>1. Group("optimizeDone") = Group(pc[t])
      BY <1>0, GroupsAre
    <3> QED BY <2>1, <3>1, GroupSame DEF Good
  <2>12. Good'
    <3>1. TravOf(t)'
      BY <1>0, <2>11 DEF TravOf, Good, TravInv, Optimizing, Preparing
    <3>2. ControlOf(t)'
      BY <1>0, <2>10, <2>11 DEF ControlOf, Good, Control, Waiting
    <3> QED BY <1>0, <2>1, <2>9, <2>10, <2>11, <3>1, <3>2, GoodFrame
  <2>13. Pending' = Pending /\ InList(w)' = InList(w)
    <3>1. Pending' = Pending
      BY <1>0, <2>10, <2>11 DEF Pending, Good, Typed
    <3> QED BY <3>1 DEF InList
  <2>14. \A u \in Threads \ {t} : Same(u)
    BY <1>0, <2>1, <2>11 DEF Same
  <2>15. \A b \in InList(w) : /\ block'[b].next = block[b].next /\ block'[b].prev = block[b].prev
                              /\ block'[b].last = (IF b = f THEN e ELSE block[b].last)
                              /\ block'[b].sharedOwners = block[b].sharedOwners
    BY <2>3, <2>7, <2>8
  <2>16. ListOK(InList(w), value.head, block', n, f, e)
    BY <2>3, <2>4, <2>5, <2>15, ListOptimized
  <2>17. WalkOf(t, n, w, f, e)'
    <3>1. n[f] <= n[f]
      BY <2>6 DEF Ranks
    <3> QED BY <1>0, <2>4, <2>8, <2>11, <2>13, <3>1 DEF WalkOf
  <2>18. \A b \in Pending : w[b] # NULL => block'[b] = block[b]
    BY <2>4, <2>7 DEF InList, Pending, Good, Typed
  <2>19. pc'[t] \in Optimizing \cup (Preparing \ {"unlinked"})
    BY <2>11 DEF Optimizing
  <2>20. Shape(n, w, f, e)'
    BY <1>0, <2>2, <2>11, <2>13, <2>14, <2>15, <2>16, <2>17, <2>18, <2>19, ListChange
  <2> QED BY <2>6, <2>12, <2>20 DEF ShapeInv, MaybeThread
<1> QED BY <1>a, <1>b

\* The traversing bit is given up.
LEMMA TraversalOver ==
    ASSUME Good, Typed', NEW t \in Threads, NEW q, pc[t] \in Optimizing \cup Preparing,
           pc' = [pc EXCEPT ![t] = q], value' = [value EXCEPT !.traversing = FALSE],
           val'[t] = Free, \A u \in Threads \ {t} : val'[u] = val[u], UNCHANGED <<block, queued, found, caller>>,
           \/ q = "block" /\ (pc[t] \in Optimizing \/ caller[t] = "block")
           \/ q = "idle" /\ pc[t] \in Preparing /\ caller[t] = "idle"
           \/ q = "unblock" /\ pc[t] \in Preparing
    PROVE /\ Good' /\ Sharers' = Sharers /\ Clearers' = Clearers
          /\ pc'[t] = q /\ \A u \in Threads : u # t => pc'[u] = pc[u]
          /\ value'.waiters = value.waiters /\ value'.multiple = value.multiple /\ value'.head = value.head
<1>0. Typed /\ Control /\ OwnInv /\ TravInv /\ value \in Words
  BY DEF Good, Typed
<1>1. /\ value'.owned = value.owned /\ value'.waiters = value.waiters /\ value'.shared = value.shared
      /\ value'.traversing = FALSE /\ value'.multiple = value.multiple /\ value'.head = value.head
  BY <1>0, Fields
<1>2. q \in {"block", "idle", "unblock"}
  OBVIOUS
<1>3. /\ Sharers' = Sharers /\ Clearers' = Clearers /\ Exclusive' = Exclusive
      /\ pc'[t] = q /\ \A u \in Threads : u # t => pc'[u] = pc[u]
  <2>1. /\ pc[t] \notin SharerPoints /\ q \notin SharerPoints /\ pc[t] # "clearOwned" /\ q # "clearOwned"
        /\ pc[t] \notin {"exclusive", "release"} /\ q \notin {"exclusive", "release"}
    BY <1>2 DEF SharerPoints, Optimizing, Preparing
  <2> QED BY <1>0, <2>1, Stays
<1>4. Traversers' = {}
  <2>1. Traversers' = With(Traversers, t, q \in Optimizing \cup Preparing)
    BY <1>0, Moves
  <2>2. t \in Traversers
    BY Members
  <2>3. Traversers = {t}
    BY <1>0, <2>2 DEF TravInv, TravOne
  <2>4. q \notin Optimizing \cup Preparing
    BY <1>2 DEF Optimizing, Preparing
  <2> QED BY <2>1, <2>3, <2>4 DEF With
<1>5. value.waiters
  <2>1. t \in Traversers
    BY Members
  <2> QED BY <1>0, <2>1 DEF TravInv, TravOne
<1>6. Control'
  <2>1. WordOK(value')
    BY <1>0, <1>1, <1>5 DEF Control, WordOK
  <2>2. ControlOf(t)'
    <3>1. /\ pc[t] \in Optimizing => pc[t] \in Waiting
          /\ pc[t] \in Preparing => pc[t] \in Waking /\ pc[t] \notin Waiting
      BY TravPoints
    <3>2. t \in queued <=> pc[t] \in Waiting \/ (pc[t] \in Waking /\ caller[t] = "block")
      BY <1>0 DEF Control, ControlOf
    <3>3. q \in Waiting <=> q = "block"
      BY <1>2 DEF Waiting
    <3>4. q \in Waking <=> q = "unblock"
      BY <1>2 DEF Waking
    <3>5. t \in queued <=> q \in Waiting \/ (q \in Waking /\ caller[t] = "block")
      BY <3>1, <3>2, <3>3, <3>4
    <3>6. WordOK(found[t])
      BY <1>0 DEF Control, ControlOf
    <3> QED BY <1>2, <1>3, <3>5, <3>6, FreeIsWord DEF ControlOf
  <2> QED BY <1>0, <1>3, <2>1, <2>2, ControlFrame
<1>7. OwnInv'
  BY <1>0, <1>1, <1>3, OwnFrame
<1>8. TravInv'
  <2>1. ASSUME NEW u \in Threads PROVE TravOf(u)'
    <3>1. pc'[u] \notin Optimizing \cup Preparing
      BY <1>4 DEF Traversers, Optimizing, Preparing
    <3> QED BY <3>1, Untravelled
  <2> QED BY <1>1, <1>4, <2>1 DEF TravInv, TravOne
<1> QED BY <1>1, <1>3, <1>6, <1>7, <1>8 DEF Good

LEMMA DoneStep ==
    ASSUME Good, NEW n, NEW w, NEW s, NEW e, Shape(n, w, s, e), NEW t \in Threads,
           OptimizeDone(t) \/ WakeNoPoint(t)
    PROVE Good' /\ Shape(n, w, s, e)'
<1> DEFINE yes == IF OptimizeDone(t) THEN "block" ELSE caller[t]
           no == IF OptimizeDone(t) THEN "optimize" ELSE "wake"
           new == [val[t] EXCEPT !.traversing = FALSE]
<1>1. Typed'
  BY WalkType DEF Good, PlainWalk
<1>2. /\ pc[t] = (IF OptimizeDone(t) THEN "optimizeDone" ELSE "wake") /\ Cas(t, new, yes, no)
      /\ UNCHANGED <<block, queued, found, caller>>
  BY DEF OptimizeDone, WakeNoPoint, waitBlocks, traversal
<1>3. \A u \in Threads \ {t} : at'[u] = at[u] /\ first'[u] = first[u]
  BY DEF OptimizeDone, WakeNoPoint, traversal, Returned, Good, Typed
<1>4. caller[t] \in {"idle", "block"}
  BY DEF Good, Typed
<1>5. /\ pc[t] \in Optimizing \cup (Preparing \ {"unlinked"})
      /\ pc[t] \in Optimizing <=> OptimizeDone(t)
  BY <1>2 DEF Optimizing, Preparing
<1>6. CasDone(t, new, yes) \/ CasFailed(t, no)
  BY <1>2, CasCases DEF Good
<1>7. CASE CasFailed(t, no)
  BY <1>1, <1>2, <1>3, <1>5, <1>7, TraverserReloads
<1>8. CASE CasDone(t, new, yes)
  <2>1. yes \in {"block", "idle"}
    BY <1>4
  <2>2. /\ value' = [value EXCEPT !.traversing = FALSE] /\ pc' = [pc EXCEPT ![t] = yes]
        /\ val'[t] = Free /\ \A u \in Threads \ {t} : val'[u] = val[u]
    BY <1>8, <2>1 DEF CasDone, Forgets
  <2>3. \/ yes = "block" /\ (pc[t] \in Optimizing \/ caller[t] = "block")
        \/ yes = "idle" /\ pc[t] \in Preparing /\ caller[t] = "idle"
    BY <1>4, <1>5
  <2> HIDE DEF yes
  <2>4. /\ Good' /\ Sharers' = Sharers /\ Clearers' = Clearers
        /\ pc'[t] = yes /\ \A u \in Threads : u # t => pc'[u] = pc[u]
        /\ value'.waiters = value.waiters /\ value'.multiple = value.multiple /\ value'.head = value.head
    BY <1>1, <1>2, <1>5, <2>2, <2>3, TraversalOver
  <2>5. pc[t] \notin WakerPoints /\ pc'[t] \notin Special /\ pc[t] # "keyed" /\ pc'[t] # "keyed"
    BY <1>5, <2>1, <2>4, PlainPoints, TravPoints
  <2>6. Pending' = Pending /\ BlocksSame
    BY <1>2, <2>4, <2>5, PendingSame DEF Good, Typed
  <2>7. \A u \in Threads \ {t} : Same(u)
    BY <1>3, <2>2, <2>4 DEF Same
  <2>8. Shape(n, w, s, e)'
    BY <2>4, <2>5, <2>6, <2>7, PlainStep
  <2> QED BY <2>4, <2>8
<1> QED BY <1>6, <1>7, <1>8
-----------------------------------------------------------------------------
(* PhpPrepareToWakeQueuedLock *)

LEMMA WakeVisitStep ==
    ASSUME Good, NEW n \in Ranks, NEW w, NEW s, NEW e, Shape(n, w, s, e), NEW t \in Threads, WakeVisit(t)
    PROVE Good' /\ Shape(n, w, s, e)'
<1>0. pc[t] = "wakeVisit" /\ UNCHANGED <<value, queued, found, val, mode, first, caller, ops>>
  BY DEF WakeVisit
<1>a. CASE FollowNext(t) /\ UNCHANGED pc
  BY <1>0, <1>a, FollowStep
<1>b. CASE ~(FollowNext(t) /\ UNCHANGED pc)
  <2>0. PICK a, l : a = at[t] /\ l = block[a].last
    OBVIOUS
  <2> DEFINE q == IF WakeOne(block[l]) THEN "unlink" ELSE "wakeAll"
  <2>1. /\ l # NULL /\ block' = block /\ pc' = [pc EXCEPT ![t] = q] /\ at' = [at EXCEPT ![t] = l]
    BY <1>b, <2>0 DEF WakeVisit, Goto
  <2>2. pc[t] \in Preparing \ {"unlinked"} /\ q \in Preparing \ {"unlinked"} /\ q \in {"unlink", "wakeAll"}
    BY <1>0 DEF Preparing
  <2>3. q = "unlink" => block[l].prev # NULL
    BY DEF WakeOne
  <2> HIDE DEF q
  <2>4. /\ ListOK(InList(w), value.head, block, n, s, e) /\ InList(w) \in SUBSET Threads /\ e \in InList(w)
    BY <2>2, TraverserList
  <2>5. /\ first[t] = val[t].head /\ val[t].head \in InList(w) /\ a \in InList(w) /\ n[s] <= n[a]
        /\ Completed(InList(w), block, n, val[t].head, n[a])
        /\ val[t].waiters /\ val[t].traversing /\ block[val[t].head].prev = NULL /\ n[s] <= n[val[t].head]
    BY <1>0, <2>0, <2>2 DEF Shape, WalkOf
  <2>6. l = e /\ Completed(InList(w), block, n, val[t].head, n[e])
    BY <2>0, <2>1, <2>4, <2>5, CompletedDown
  <2>7. Typed'
    BY <1>0, <2>1, <2>2, <2>4, <2>6, PointsAre DEF Good, Typed, MaybeThread
  <2>8. /\ pc'[t] = q /\ at'[t] = e /\ \A u \in Threads \ {t} : at'[u] = at[u] /\ pc'[u] = pc[u]
    BY <2>1, <2>6 DEF Good, Typed
  <2>9. TravOf(t)'
    <3>1. Sharers' = Sharers /\ Clearers' = Clearers
      <4>1. Group(q) = Group(pc[t])
        BY <2>2, TravPoints
      <4> QED BY <2>1, <4>1, GroupSame DEF Good
    <3>2. Sharers \cup Clearers = {} /\ ~val[t].owned
      BY <1>0, <2>2 DEF Good, TravInv, TravOf
    <3> QED BY <1>0, <2>2, <2>8, <3>1, <3>2 DEF TravOf
  <2>10. InList(w)' = InList(w)
    <3>1. Pending' = Pending
      BY <1>0, <2>1, <2>2, <2>8, TravPoints, PendingSame DEF Good, Typed
    <3> QED BY <3>1 DEF InList
  <2>11. WalkOf(t, n, w, s, e)'
    BY <1>0, <2>1, <2>2, <2>3, <2>5, <2>6, <2>8, <2>10 DEF WalkOf
  <2>12. WordOK(val'[t])
    BY <1>0 DEF Good, Control, ControlOf
  <2>13. q \in Optimizing => pc[t] \in Optimizing
    BY <2>2 DEF Optimizing
  <2> QED BY <1>0, <2>1, <2>2, <2>7, <2>8, <2>9, <2>11, <2>12, <2>13, TraverserStep
<1> QED BY <1>a, <1>b

\* No shared owner looks at the list while somebody prepares to wake.
LEMMA NobodyShares ==
    ASSUME Good, NEW t \in Threads, pc[t] \in Preparing
    PROVE /\ Sharers = {} /\ Clearers = {} /\ ~value.multiple
          /\ \A u \in Threads : pc[u] \notin {"releaseShared", "findLast", "decrement"}
<1>1. Sharers = {} /\ Clearers = {}
  BY DEF Good, TravInv, TravOf
<1>2. ~value.multiple
  BY <1>1 DEF Good, OwnInv, Control, WordOK, Single
<1>3. \A u \in Threads : pc[u] \notin {"releaseShared", "findLast", "decrement"}
  BY <1>1 DEF Sharers
<1> QED BY <1>1, <1>2, <1>3

\* The oldest block leaves the list.
LEMMA UnlinkStep ==
    ASSUME Good, NEW n \in Ranks, NEW w \in Wakers, NEW s \in MaybeThread, NEW e \in MaybeThread, Shape(n, w, s, e),
           NEW t \in Threads, Unlink(t)
    PROVE Good' /\ ShapeInv'
<1>0. PICK f, x : f = first[t] /\ x = block[e].prev
  OBVIOUS
<1>1. pc[t] = "unlink" /\ pc' = [pc EXCEPT ![t] = "unlinked"]
      /\ UNCHANGED <<value, queued, found, val, mode, at, first, caller, ops>>
  BY DEF Unlink, Goto, traversal
<1>2. pc[t] \in Optimizing \cup (Preparing \ {"unlinked"}) /\ pc[t] \in Preparing
  BY <1>1 DEF Optimizing, Preparing
<1>3. /\ ListOK(InList(w), value.head, block, n, s, e) /\ InList(w) \in SUBSET Threads /\ e \in InList(w)
      /\ value.waiters /\ \A u \in Threads \ {t} : pc[u] \notin Optimizing \cup Preparing
  BY <1>2, TraverserList
<1>4. /\ f \in InList(w) /\ block[f].prev = NULL /\ n[s] <= n[f] /\ at[t] = e
      /\ Completed(InList(w), block, n, f, n[e]) /\ x # NULL
  BY <1>0, <1>1, <1>2 DEF Shape, WalkOf
<1>5. f \in Threads /\ e \in Threads /\ block \in BlockMaps
  BY <1>3, <1>4 DEF Good, Typed
<1>6. block' = [b \in Threads |-> [block[b] EXCEPT !.last = IF b = f THEN x ELSE @,
                                                   !.prev = IF b = e THEN NULL ELSE @]]
  BY <1>0, <1>4 DEF Unlink, PreviousCleared
<1>7. \A b \in Threads :
         /\ block[b] \in BlockType
         /\ block'[b] = [block[b] EXCEPT !.last = IF b = f THEN x ELSE block[b].last,
                                         !.prev = IF b = e THEN NULL ELSE block[b].prev]
  BY <1>5, <1>6 DEF BlockMaps, BlockType
<1>8. \A b \in Threads : /\ block'[b].next = block[b].next
                         /\ block'[b].prev = (IF b = e THEN NULL ELSE block[b].prev)
                         /\ block'[b].last = (IF b = f THEN x ELSE block[b].last)
                         /\ block'[b].spinning = block[b].spinning
  <2>1. \A B \in BlockType : \A y, z :
           LET C == [B EXCEPT !.last = y, !.prev = z] IN
           C.next = B.next /\ C.prev = z /\ C.last = y /\ C.spinning = B.spinning
    BY DEF BlockType
  <2> TAKE b \in Threads
  <2>2. PICK y, z : y = (IF b = f THEN x ELSE block[b].last) /\ z = (IF b = e THEN NULL ELSE block[b].prev)
    OBVIOUS
  <2>3. block[b] \in BlockType /\ block'[b] = [block[b] EXCEPT !.last = y, !.prev = z]
    BY <1>7, <2>2
  <2> QED BY <2>1, <2>2, <2>3
<1>9. f # e /\ x \in InList(w) \ {e} /\ ListOK(InList(w) \ {e}, value.head, block', n, f, x)
  <2>1. Unlinks(InList(w), block, block', f, e)
    BY <1>0, <1>3, <1>8 DEF Unlinks
  <2>2. /\ f # e /\ block[e].prev \in InList(w) \ {e}
        /\ ListOK(InList(w) \ {e}, value.head, block', n, f, block[e].prev)
    <3>1. /\ InList(w) \in SUBSET Threads /\ ListOK(InList(w), value.head, block, n, s, e) /\ f \in InList(w)
          /\ n[s] <= n[f] /\ Completed(InList(w), block, n, f, n[e]) /\ block[f].prev = NULL /\ block[e].prev # NULL
      BY <1>0, <1>3, <1>4
    <3>2. ListOK(InList(w) \ {e}, value.head, block', n, f, block[e].prev)
      BY <2>1, <3>1, ListUnlink
    <3>3. f # e /\ block[e].prev \in InList(w) \ {e}
      BY <2>1, <3>1, ListUnlink
    <3> QED BY <3>2, <3>3
  <2> QED BY <1>0, <2>2
<1>10. x \in Threads
  BY <1>3, <1>9
<1>11. Typed'
  <2>1. \A b \in Threads : block'[b] \in BlockType
    <3> TAKE b \in Threads
    <3>1. (IF b = f THEN x ELSE block[b].last) \in MaybeThread /\ (IF b = e THEN NULL ELSE block[b].prev) \in MaybeThread
      BY <1>7, <1>10 DEF BlockType, MaybeThread
    <3> QED BY <1>7, <3>1 DEF BlockType
  <2>2. block' \in BlockMaps
    BY <1>6, <2>1 DEF BlockMaps
  <2> QED BY <1>1, <2>2, PointsAre DEF Good, Typed
<1>12. /\ Group("unlinked") = Group(pc[t]) /\ pc'[t] = "unlinked" /\ \A u \in Threads : u # t => pc'[u] = pc[u]
       /\ Sharers' = Sharers /\ Clearers' = Clearers
  <2>1. Group("unlinked") = Group(pc[t])
    BY <1>1, GroupsAre
  <2> QED BY <1>1, <2>1, GroupSame DEF Good
<1>13. Good'
  <2>1. TravOf(t)'
    BY <1>1, <1>2, <1>12 DEF TravOf, Good, TravInv
  <2>2. ControlOf(t)'
    BY <1>1, <1>12 DEF ControlOf, Good, Control, Waiting, Waking
  <2> QED BY <1>1, <1>8, <1>11, <1>12, <2>1, <2>2, GoodFrame
<1>14. PICK v \in Wakers : v[e] = t /\ \A b \in Threads \ {e} : v[b] = w[b]
  <2>1. [w EXCEPT ![e] = t] \in Wakers
    BY DEF Wakers, MaybeThread
  <2> QED BY <1>5, <2>1 DEF Wakers
<1>15. Pending' = Pending /\ Pending \subseteq Threads
  BY <1>1, <1>8, <1>12 DEF Pending, Good, Typed
<1>16. /\ InList(v)' = InList(w) \ {e} /\ \A u \in Threads \ {t} : Chain(v, u)' = Chain(w, u)
       /\ Chain(v, t)' = {e}
  <2>1. e \in Pending /\ w[e] = NULL /\ t # NULL
    BY <1>3, NoThread DEF InList
  <2>2. Chain(w, t) = {}
    BY <1>1 DEF Shape, ChainOf, WakerPoints
  <2>3. InList(v)' = InList(w) \ {e}
    BY <1>14, <1>15, <2>1 DEF InList
  <2>4. \A u \in Threads \ {t} : Chain(v, u)' = Chain(w, u)
    BY <1>14, <1>15, <2>1, NoThread DEF Chain
  <2>5. Chain(v, t)' = {e}
    BY <1>14, <1>15, <2>1, <2>2 DEF Chain
  <2> QED BY <2>3, <2>4, <2>5
<1>17. /\ Sharers = {} /\ Clearers = {} /\ ~value.multiple
       /\ \A u \in Threads : pc[u] \notin {"releaseShared", "findLast", "decrement"}
  BY <1>2, NobodyShares
<1>18. Whole(n, v, f, x)'
  <2>1. CountOK(v, x)'
    BY <1>1, <1>12, <1>17 DEF CountOK
  <2> QED BY <1>1, <1>3, <1>9, <1>16, <2>1 DEF Whole
<1>19. ASSUME NEW u \in Threads PROVE ChainOf(u, n, v)'
  <2>1. CASE u = t
    <3>1. block'[e].prev = NULL /\ n[e] \in Int
      BY <1>5, <1>8 DEF Ranks
    <3>2. ChainOK({e}, e, block', n)
      BY <3>1, ChainOne
    <3> QED BY <1>1, <1>4, <1>12, <1>16, <2>1, <3>2 DEF ChainOf, WakerPoints
  <2>2. CASE u # t
    <3>1. ChainOf(u, n, w) /\ Chain(v, u)' = Chain(w, u) /\ pc'[u] = pc[u] /\ at'[u] = at[u] /\ first'[u] = first[u]
      BY <1>1, <1>12, <1>16, <2>2 DEF Shape
    <3>2. \A b \in Chain(w, u) : /\ b \in Threads /\ block'[b].prev = block[b].prev
                                 /\ block'[b].spinning = block[b].spinning
      BY <1>3, <1>8, <1>15, NoThread DEF Chain, InList
    <3>3. CASE pc[u] \in WakerPoints
      <4>1. ChainOK(Chain(w, u), at[u], block, n) /\ at[u] \in Chain(w, u)
        BY <3>1, <3>3 DEF ChainOf, ChainOK
      <4>2. ChainOK(Chain(w, u), at[u], block', n)
        BY <3>2, <4>1, ChainSame
      <4>3. /\ block'[at[u]].prev = block[at[u]].prev /\ block'[at[u]].spinning = block[at[u]].spinning
        BY <3>2, <4>1
      <4> QED BY <3>1, <3>3, <4>2, <4>3 DEF ChainOf
    <3>4. CASE pc[u] \notin WakerPoints
      BY <3>1, <3>4 DEF ChainOf, WakerPoints
    <3> QED BY <3>3, <3>4
  <2> QED BY <2>1, <2>2
<1>20. ASSUME NEW u \in Threads PROVE WalkOf(u, n, v, f, x)' /\ ReleaseOf(u, v, x)'
  <2>1. CASE u = t
    BY <1>12, <2>1 DEF WalkOf, ReleaseOf, Optimizing
  <2>2. CASE u # t
    <3>1. pc'[u] \notin Optimizing \cup Preparing /\ pc'[u] \notin {"releaseShared", "findLast", "decrement"}
      BY <1>3, <1>12, <1>17, <2>2
    <3> QED BY <3>1 DEF WalkOf, ReleaseOf, Optimizing, Preparing
  <2> QED BY <2>1, <2>2
<1>21. Shape(n, v, f, x)'
  BY <1>18, <1>19, <1>20 DEF Shape
<1> QED BY <1>5, <1>10, <1>13, <1>14, <1>21 DEF ShapeInv, MaybeThread

LEMMA UnlinkedStep ==
    ASSUME Good, NEW n, NEW w, NEW s, NEW e, Shape(n, w, s, e), NEW t \in Threads, Unlinked(t)
    PROVE Good' /\ Shape(n, w, s, e)'
<1>1. Typed'
  BY WalkType DEF Good, PlainWalk
<1>2. /\ pc[t] = "unlinked" /\ value' = [value EXCEPT !.traversing = FALSE] /\ pc' = [pc EXCEPT ![t] = "unblock"]
      /\ val' = [val EXCEPT ![t] = Free] /\ UNCHANGED <<block, queued, found, at, first, caller>>
  BY DEF Unlinked, Goto, Load, waitBlocks, traversal
<1>3. pc[t] \in Preparing /\ val'[t] = Free /\ \A u \in Threads \ {t} : val'[u] = val[u]
  BY <1>2 DEF Preparing, Good, Typed
<1>4. /\ Good' /\ Sharers' = Sharers /\ Clearers' = Clearers
      /\ pc'[t] = "unblock" /\ \A u \in Threads : u # t => pc'[u] = pc[u]
      /\ value'.waiters = value.waiters /\ value'.multiple = value.multiple /\ value'.head = value.head
  BY <1>1, <1>2, <1>3, TraversalOver
<1>5. Pending' = Pending /\ BlocksSame
  BY <1>2, <1>4, PendingSame DEF Good, Typed
<1>6. InList(w)' = InList(w) /\ \A u : Chain(w, u)' = Chain(w, u)
  BY <1>5 DEF InList, Chain
<1>7. \A u \in Threads \ {t} : Same(u)
  BY <1>2, <1>3, <1>4 DEF Same
<1>8. ChainOf(t, n, w)'
  BY <1>2, <1>4, <1>6 DEF Shape, ChainOf, WakerPoints
<1>9. WalkOf(t, n, w, s, e)' /\ ReleaseOf(t, w, e)'
  BY <1>4 DEF WalkOf, ReleaseOf, Optimizing, Preparing
<1>10. /\ SameLinks(Pending', block, block') /\ \A b \in Pending' : block'[b].spinning => block[b].spinning
       /\ value'.multiple => block'[e].sharedOwners = Cardinality(Sharers')
  BY <1>2, <1>4 DEF SameLinks, Shape, Whole, CountOK
<1>11. Shape(n, w, s, e)'
  BY <1>4, <1>6, <1>7, <1>8, <1>9, <1>10, ShapeFrame
<1> QED BY <1>4, <1>11

\* The whole list is taken.
LEMMA WakeAllStep ==
    ASSUME Good, NEW n \in Ranks, NEW w \in Wakers, NEW s \in MaybeThread, NEW e \in MaybeThread, Shape(n, w, s, e),
           NEW t \in Threads, WakeAll(t)
    PROVE Good' /\ ShapeInv'
<1>0. Typed /\ Control /\ OwnInv /\ TravInv
  BY DEF Good
<1>1. Typed'
  BY <1>0, WalkType DEF PlainWalk
<1>2. /\ pc[t] = "wakeAll" /\ Cas(t, Free, "unblock", "wake") /\ UNCHANGED <<block, queued, found, caller>>
      /\ \A u \in Threads \ {t} : at'[u] = at[u] /\ first'[u] = first[u]
      /\ value = val[t] => UNCHANGED <<at, first>>
  BY <1>0 DEF WakeAll, waitBlocks, Returned, Typed
<1>3. /\ pc[t] \in Preparing \ {"unlinked"} /\ pc[t] \in Optimizing \cup (Preparing \ {"unlinked"})
      /\ pc[t] \notin WakerPoints
  BY <1>2 DEF Optimizing, Preparing, WakerPoints
<1>4. CasDone(t, Free, "unblock") \/ CasFailed(t, "wake")
  BY <1>0, <1>2, CasCases
<1>5. CASE CasFailed(t, "wake")
  <2>1. Good' /\ Shape(n, w, s, e)'
    BY <1>1, <1>2, <1>3, <1>5, TraverserReloads
  <2> QED BY <2>1 DEF ShapeInv
<1>6. CASE CasDone(t, Free, "unblock")
  <2>1. /\ value = val[t] /\ value' = Free /\ pc' = [pc EXCEPT ![t] = "unblock"]
        /\ val'[t] = Free /\ \A u \in Threads \ {t} : val'[u] = val[u]
        /\ UNCHANGED <<at, first>>
    BY <1>2, <1>6 DEF CasDone
  <2>2. /\ ListOK(InList(w), value.head, block, n, s, e) /\ InList(w) \in SUBSET Threads /\ e \in InList(w)
        /\ \A u \in Threads \ {t} : pc[u] \notin Optimizing \cup Preparing
    BY <1>3, TraverserList
  <2>3. /\ at[t] = e /\ Completed(InList(w), block, n, value.head, n[e])
    BY <1>2, <2>1 DEF Shape, WalkOf
  <2>4. /\ Sharers = {} /\ Clearers = {} /\ ~value.multiple
        /\ \A u \in Threads : pc[u] \notin {"releaseShared", "findLast", "decrement"}
    BY <1>3, NobodyShares
  <2>5. Exclusive = {}
    <3>1. ~value.owned
      BY <1>0, <1>2, <2>1 DEF TravInv, TravOf
    <3> QED BY <1>0, <3>1 DEF OwnInv, Single
  <2>6. /\ Sharers' = Sharers /\ Clearers' = Clearers /\ Exclusive' = Exclusive
        /\ pc'[t] = "unblock" /\ \A u \in Threads : u # t => pc'[u] = pc[u]
    <3>1. /\ pc[t] \notin SharerPoints /\ "unblock" \notin SharerPoints /\ pc[t] # "clearOwned"
          /\ pc[t] \notin {"exclusive", "release"}
      BY <1>2 DEF SharerPoints
    <3> QED BY <1>0, <2>1, <3>1, Stays
  <2>7. \A u \in Threads : pc'[u] \notin Optimizing \cup Preparing
    <3>1. "unblock" \notin Optimizing \cup Preparing
      BY DEF Optimizing, Preparing
    <3> QED BY <2>2, <2>6, <3>1
  <2>8. Control'
    <3>1. ControlOf(t)'
      BY <1>0, <1>2, <2>1, <2>6, FreeIsWord DEF Control, ControlOf, Waiting, Waking
    <3> QED BY <1>0, <1>2, <2>1, <2>6, <3>1, FreeIsWord, ControlFrame
  <2>9. OwnInv'
    <3>1. /\ value'.owned = FALSE /\ value'.waiters = FALSE /\ value'.shared = 0 /\ value'.multiple = FALSE
      BY <2>1, FreeFields
    <3> QED BY <2>4, <2>5, <2>6, <3>1, SharersFinite DEF OwnInv, Single
  <2>10. TravInv'
    <3>1. \A u \in Threads : TravOf(u)'
      BY <2>7, Untravelled
    <3>2. Traversers' = {}
      BY <2>7 DEF Traversers, Optimizing, Preparing
    <3> QED BY <2>1, <3>1, <3>2, FreeFields DEF TravInv, TravOne
  <2>11. PICK v \in Wakers : \A b \in Threads : v[b] = IF b \in InList(w) THEN t ELSE w[b]
    <3>1. [b \in Threads |-> IF b \in InList(w) THEN t ELSE w[b]] \in Wakers
      BY DEF Wakers, MaybeThread
    <3> QED BY <3>1
  <2>12. Pending' = Pending /\ Pending \subseteq Threads
    BY <1>2, <2>6 DEF Pending, Good, Typed
  <2>13. InList(v)' = {} /\ Chain(v, t)' = InList(w) /\ \A u \in Threads \ {t} : Chain(v, u)' = Chain(w, u)
    <3>1. Chain(w, t) = {}
      BY <1>3 DEF Shape, ChainOf
    <3>2. InList(v)' = {}
      BY <2>11, <2>12, NoThread DEF InList
    <3>3. Chain(v, t)' = InList(w)
      BY <2>11, <2>12, <3>1 DEF Chain, InList
    <3>4. \A u \in Threads \ {t} : Chain(v, u)' = Chain(w, u)
      BY <2>11, <2>12, NoThread DEF Chain, InList
    <3> QED BY <3>2, <3>3, <3>4
  <2>14. Whole(n, v, s, e)'
    BY <2>1, <2>13, FreeFields DEF Whole, CountOK
  <2>15. ASSUME NEW u \in Threads PROVE ChainOf(u, n, v)'
    <3>1. CASE u = t
      <4>1. ChainOK(InList(w), e, block, n)
        BY <2>2, <2>3, ChainEverybody
      <4> QED BY <1>2, <2>1, <2>3, <2>6, <2>13, <3>1, <4>1 DEF ChainOf, WakerPoints
    <3>2. CASE u # t
      <4>1. /\ ChainOf(u, n, w) /\ Chain(v, u)' = Chain(w, u) /\ pc'[u] = pc[u] /\ at'[u] = at[u]
            /\ first'[u] = first[u] /\ block' = block
        BY <1>2, <2>1, <2>6, <2>13, <3>2 DEF Shape
      <4> QED BY <4>1 DEF ChainOf
    <3> QED BY <3>1, <3>2
  <2>16. ASSUME NEW u \in Threads PROVE WalkOf(u, n, v, s, e)' /\ ReleaseOf(u, v, e)'
    <3>1. pc'[u] \notin Optimizing \cup Preparing /\ pc'[u] \notin {"releaseShared", "findLast", "decrement"}
      BY <2>4, <2>6, <2>7
    <3> QED BY <3>1 DEF WalkOf, ReleaseOf, Optimizing, Preparing
  <2>17. Shape(n, v, s, e)'
    BY <2>14, <2>15, <2>16 DEF Shape
  <2> QED BY <1>1, <2>8, <2>9, <2>10, <2>11, <2>17 DEF Good, ShapeInv
<1> QED BY <1>4, <1>5, <1>6
-----------------------------------------------------------------------------
(* PhpUnblockQueuedWaitBlock *)

\* The block that t is about to unblock, and who has it.
LEMMA UnblockAt ==
    ASSUME Good, NEW n, NEW w, NEW s, NEW e, Shape(n, w, s, e), NEW t \in Threads, pc[t] \in {"unblock", "rendezvous"}
    PROVE /\ ChainOK(Chain(w, t), at[t], block, n) /\ at[t] \in Chain(w, t) /\ at[t] \in Pending
          /\ at[t] \in queued /\ at[t] \in Threads
          /\ \A u \in Threads \ {t} : at[t] \notin Chain(w, u)
          /\ at[t] \notin InList(w) /\ Chain(w, t) \in SUBSET Threads
<1>1. ChainOK(Chain(w, t), at[t], block, n) /\ at[t] \in Chain(w, t)
  BY DEF Shape, ChainOf, WakerPoints, ChainOK
<1>2. /\ at[t] \in Pending /\ at[t] \in queued /\ at[t] \in Threads /\ w[at[t]] = t /\ Chain(w, t) \in SUBSET Threads
  BY <1>1 DEF Chain, Pending, Good, Typed
<1>3. at[t] \notin InList(w) /\ \A u \in Threads \ {t} : at[t] \notin Chain(w, u)
  BY <1>2, NoThread DEF InList, Chain
<1> QED BY <1>1, <1>2, <1>3

\* The waiter has not started to wait for the event: resetting the bit is enough.
LEMMA UnblockSpinningStep ==
    ASSUME Good, NEW n \in Ranks, NEW w, NEW s, NEW e, Shape(n, w, s, e), NEW t \in Threads, UnblockSpinning(t)
    PROVE Good' /\ Shape(n, w, s, e)'
<1>0. PICK a, x : a = at[t] /\ x = block[a].prev
  OBVIOUS
<1> DEFINE q == IF x = NULL THEN caller[t] ELSE "unblock"
<1>1. /\ pc[t] = "unblock" /\ block[a].spinning /\ block' = [block EXCEPT ![a].spinning = FALSE]
      /\ at' = [at EXCEPT ![t] = x] /\ first' = [first EXCEPT ![t] = NULL] /\ pc' = [pc EXCEPT ![t] = q]
      /\ UNCHANGED <<value, queued, found, val, mode, caller, ops>>
  BY <1>0 DEF UnblockSpinning, GoOnWaking, Goto
<1>2. /\ ChainOK(Chain(w, t), a, block, n) /\ a \in Pending /\ a \in Threads
      /\ \A u \in Threads \ {t} : a \notin Chain(w, u)
      /\ a \notin InList(w) /\ Chain(w, t) \in SUBSET Threads
  BY <1>0, <1>1, UnblockAt
<1>3. /\ x = NULL => Chain(w, t) = {a}
      /\ x # NULL => ChainOK(Chain(w, t) \ {a}, x, block, n)
  BY <1>0, <1>2, ChainNext
<1>4. caller[t] \in {"idle", "block"} /\ block \in BlockMaps /\ q \in {"idle", "block", "unblock"}
  BY DEF Good, Typed
<1>5. /\ block'[a] = [block[a] EXCEPT !.spinning = FALSE] /\ \A b \in Threads \ {a} : block'[b] = block[b]
      /\ block[a] \in BlockType
  BY <1>1, <1>2, <1>4 DEF BlockMaps
<1>6. /\ block'[a].next = block[a].next /\ block'[a].last = block[a].last /\ block'[a].prev = block[a].prev
      /\ block'[a].sharedOwners = block[a].sharedOwners /\ block'[a].spinning = FALSE
  BY <1>5 DEF BlockType
<1>7. Typed'
  <2>1. x \in MaybeThread /\ NULL \in MaybeThread
    BY <1>0, <1>2, <1>4, BlockUpdates DEF MaybeThread
  <2>2. block' \in BlockMaps
    <3>1. 0 \in Nat /\ a \in Threads /\ block \in BlockMaps
      BY <1>2, <1>4
    <3>2. [block EXCEPT ![a].spinning = FALSE] \in BlockMaps
      BY <2>1, <3>1, BlockUpdates
    <3> QED BY <1>1, <3>2
  <2> QED BY <1>1, <1>4, <2>1, <2>2, PointsAre DEF Good, Typed
<1>8. /\ Group(q) = Group(pc[t]) /\ pc'[t] = q /\ \A u \in Threads : u # t => pc'[u] = pc[u]
      /\ Sharers' = Sharers /\ Clearers' = Clearers
  <2>1. Group(q) = Group(pc[t])
    BY <1>1, <1>4, GroupsAre
  <2> QED BY <1>1, <2>1, GroupSame DEF Good
<1>9. Good'
  <2>1. TravOf(t)'
    BY <1>4, <1>8, Untravelled DEF Optimizing, Preparing
  <2>2. ControlOf(t)'
    <3>1. WordOK(val[t]) /\ WordOK(found[t]) /\ (t \in queued <=> caller[t] = "block")
      BY <1>1 DEF ControlOf, Good, Control, Waiting, Waking
    <3>2. q \in Waiting \/ (q \in Waking /\ caller[t] = "block") <=> caller[t] = "block"
      BY <1>4 DEF Waiting, Waking
    <3> QED BY <1>1, <1>4, <1>8, <3>1, <3>2 DEF ControlOf
  <2>3. \A u \in Threads \ {t} : block'[u].spinning => block[u].spinning
    BY <1>1, <1>5
  <2> QED BY <1>1, <1>7, <1>8, <2>1, <2>2, <2>3, GoodFrame
<1> HIDE DEF q
<1>10. Pending' = Pending \ {a}
  <2>1. pc[a] # "keyed"
    BY <1>1, <1>2 DEF Good, Control, ControlOf
  <2>2. \A b \in Threads : pc'[b] = "keyed" <=> pc[b] = "keyed"
    BY <1>1, <1>4, <1>8
  <2> QED BY <1>1, <1>2, <1>5, <1>6, <2>1, <2>2 DEF Pending, Good, Typed
<1>11. /\ InList(w)' = InList(w) /\ Chain(w, t)' = Chain(w, t) \ {a}
       /\ \A u \in Threads \ {t} : Chain(w, u)' = Chain(w, u)
  BY <1>2, <1>10 DEF InList, Chain
<1>12. \A u \in Threads \ {t} : Same(u)
  BY <1>1, <1>8 DEF Same, Good, Typed
<1>13. /\ SameLinks(Pending', block, block') /\ \A b \in Pending' : block'[b].spinning => block[b].spinning
  BY <1>2, <1>5, <1>6, <1>10 DEF SameLinks, Pending, Good, Typed
<1>14. value'.multiple => block'[e].sharedOwners = Cardinality(Sharers')
  <2> SUFFICES ASSUME value.multiple PROVE block'[e].sharedOwners = Cardinality(Sharers)
    BY <1>1, <1>8
  <2>1. e \in InList(w) /\ block[e].sharedOwners = Cardinality(Sharers)
    BY DEF Shape, Whole, ListOK, CountOK, Good, Control, WordOK
  <2>2. e \in Threads \ {a}
    BY <1>2, <2>1 DEF InList, Pending, Good, Typed
  <2> QED BY <1>5, <2>1, <2>2
<1>15. ChainOf(t, n, w)'
  <2>1. CASE x = NULL
    BY <1>3, <1>4, <1>8, <1>11, <2>1 DEF ChainOf, WakerPoints, q
  <2>2. CASE x # NULL
    <3>1. ChainOK(Chain(w, t) \ {a}, x, block', n)
      <4>1. \A b \in Chain(w, t) \ {a} : block'[b].prev = block[b].prev
        BY <1>2, <1>5
      <4> QED BY <1>3, <2>2, <4>1, ChainSame
    <3>2. pc'[t] = "unblock" /\ at'[t] = x
      BY <1>1, <1>8, <2>2 DEF Good, Typed, q
    <3> QED BY <1>11, <3>1, <3>2 DEF ChainOf, WakerPoints
  <2> QED BY <2>1, <2>2
<1>16. WalkOf(t, n, w, s, e)' /\ ReleaseOf(t, w, e)'
  BY <1>4, <1>8 DEF WalkOf, ReleaseOf, Optimizing, Preparing
<1>17. Shape(n, w, s, e)'
  BY <1>1, <1>8, <1>11, <1>12, <1>13, <1>14, <1>15, <1>16, ShapeFrame
<1> QED BY <1>9, <1>17

\* The waiter waits for the event.
LEMMA UnblockBlockedStep ==
    ASSUME Good, NEW n, NEW w, NEW s, NEW e, Shape(n, w, s, e), NEW t \in Threads, UnblockBlocked(t)
    PROVE Good' /\ Shape(n, w, s, e)'
<1>1. /\ pc[t] = "unblock" /\ ~block[at[t]].spinning /\ first' = [first EXCEPT ![t] = block[at[t]].prev]
      /\ pc' = [pc EXCEPT ![t] = "rendezvous"]
      /\ UNCHANGED <<value, block, queued, found, val, mode, at, caller, ops>>
  BY DEF UnblockBlocked, Goto, waitBlocks
<1>2. at[t] \in Threads /\ ChainOK(Chain(w, t), at[t], block, n)
  BY <1>1, UnblockAt
<1>3. Typed'
  <2>1. block[at[t]].prev \in MaybeThread
    BY <1>2, BlockUpdates DEF Good, Typed
  <2> QED BY <1>1, <2>1, PointsAre DEF Good, Typed
<1>4. /\ Group("rendezvous") = Group(pc[t]) /\ pc'[t] = "rendezvous" /\ first'[t] = block[at[t]].prev
      /\ \A u \in Threads \ {t} : first'[u] = first[u] /\ pc'[u] = pc[u]
  <2>1. Group("rendezvous") = Group(pc[t])
    BY <1>1, GroupsAre
  <2> QED BY <1>1, <2>1 DEF Good, Typed
<1>5. TravOf(t)' /\ WalkOf(t, n, w, s, e)' /\ ReleaseOf(t, w, e)'
  BY <1>4 DEF TravOf, WalkOf, ReleaseOf, Optimizing, Preparing
<1>6. ControlOf(t)'
  BY <1>1, <1>4 DEF Good, Control, ControlOf, Waiting, Waking
<1>7. ChainOf(t, n, w)'
  <2>1. Pending' = Pending
    BY <1>1, <1>4, PendingSame DEF Good, Typed
  <2>2. Chain(w, t)' = Chain(w, t)
    BY <2>1 DEF Chain
  <2> QED BY <1>1, <1>2, <1>4, <2>2 DEF ChainOf, WakerPoints
<1> QED BY <1>1, <1>3, <1>4, <1>5, <1>6, <1>7, LocalStep

LEMMA GroupsSame ==
    ASSUME \A u \in Threads : Group(pc'[u]) = Group(pc[u])
    PROVE Sharers' = Sharers /\ Clearers' = Clearers /\ Exclusive' = Exclusive /\ Traversers' = Traversers
<1>1. \A u \in Threads : /\ pc[u] \in SharerPoints <=> pc'[u] \in SharerPoints
                         /\ pc[u] = "clearOwned" <=> pc'[u] = "clearOwned"
                         /\ pc[u] \in {"exclusive", "release"} <=> pc'[u] \in {"exclusive", "release"}
                         /\ pc[u] \in Optimizing \cup Preparing <=> pc'[u] \in Optimizing \cup Preparing
  BY DEF Group, SharerPoints, Optimizing, Preparing
<1>2. Sharers' = Sharers
  BY <1>1 DEF Sharers, SharerPoints
<1>3. Clearers' = Clearers
  BY <1>1 DEF Clearers
<1>4. Exclusive' = Exclusive
  BY <1>1 DEF Exclusive
<1>5. Traversers' = Traversers
  BY <1>1 DEF Traversers, Optimizing, Preparing
<1> QED BY <1>2, <1>3, <1>4, <1>5

\* What a waiter that goes on leaves behind.
LEMMA Resumed ==
    ASSUME Good, NEW t \in Threads, Resume(t)
    PROVE /\ queued' = queued \ {t} /\ val'[t] = found[t] /\ found'[t] = Free /\ caller'[t] = "idle"
          /\ \A u \in Threads \ {t} : /\ block'[u] = block[u] /\ val'[u] = val[u] /\ found'[u] = found[u]
                                      /\ caller'[u] = caller[u]
BY DEF Resume, Load, Good, Typed, BlockMaps

\* The releaser meets the waiter u at the event.
LEMMA RendezvousStep ==
    ASSUME Good, NEW n \in Ranks, NEW w, NEW s, NEW e, Shape(n, w, s, e), NEW t \in Threads, NEW u \in Threads,
           Rendezvous(t, u)
    PROVE Good' /\ Shape(n, w, s, e)'
<1>0. Typed /\ Control /\ OwnInv /\ TravInv
  BY DEF Good
<1>a. Typed'
  BY <1>0, WalkType DEF PlainWalk
<1>b. PICK x : x = block[u].prev
  OBVIOUS
<1> DEFINE q == IF x = NULL THEN caller[t] ELSE "unblock"
<1>1. /\ pc[t] = "rendezvous" /\ at[t] = u /\ pc[u] = "keyed" /\ u # t /\ first[t] = x
  BY <1>b DEF Rendezvous, Shape, ChainOf
<1>2. /\ queued' = queued \ {u} /\ val'[u] = found[u] /\ found'[u] = Free /\ caller'[u] = "idle"
      /\ \A y \in Threads \ {u} : /\ block'[y] = block[y] /\ val'[y] = val[y] /\ found'[y] = found[y]
                                  /\ caller'[y] = caller[y]
      /\ value' = value
  BY Resumed DEF Rendezvous
<1>3. /\ at'[t] = x /\ pc'[u] = "acquire" /\ pc'[t] = q
      /\ \A y \in Threads \ {t} : at'[y] = at[y] /\ first'[y] = first[y]
      /\ \A y \in Threads \ {t, u} : pc'[y] = pc[y]
  BY <1>0, <1>1 DEF Rendezvous, Typed
<1>4. caller[t] \in {"idle", "block"} /\ q \in {"idle", "block", "unblock"}
  BY <1>0 DEF Typed
<1>5. Sharers' = Sharers /\ Clearers' = Clearers /\ Exclusive' = Exclusive /\ Traversers' = Traversers
  <2>1. Group(pc'[t]) = Group(pc[t])
    BY <1>1, <1>3, <1>4, GroupsAre
  <2>2. Group(pc'[u]) = Group(pc[u])
    BY <1>1, <1>3, GroupsAre
  <2> QED BY <1>3, <2>1, <2>2, GroupsSame
<1>6. Control'
  <2>1. ControlOf(t)'
    <3>1. WordOK(val[t]) /\ WordOK(found[t]) /\ (t \in queued <=> caller[t] = "block")
      BY <1>0, <1>1 DEF ControlOf, Control, Waiting, Waking
    <3>2. q \in Waiting \/ (q \in Waking /\ caller[t] = "block") <=> caller[t] = "block"
      BY <1>4 DEF Waiting, Waking
    <3>3. t \in queued' <=> t \in queued
      BY <1>1, <1>2
    <3> QED BY <1>1, <1>2, <1>3, <1>4, <3>1, <3>2, <3>3 DEF ControlOf
  <2>2. ControlOf(u)'
    BY <1>0, <1>2, <1>3, FreeIsWord DEF ControlOf, Control, Waiting, Waking
  <2>3. ASSUME NEW y \in Threads \ {t, u} PROVE ControlOf(y)'
    BY <1>0, <1>2, <1>3 DEF ControlOf, Control
  <2> QED BY <1>0, <1>2, <2>1, <2>2, <2>3 DEF Control
<1>7. OwnInv'
  BY <1>0, <1>2, <1>5, OwnFrame
<1>8. TravInv'
  <2>1. TravOf(t)' /\ TravOf(u)'
    BY <1>3, <1>4, Untravelled DEF Optimizing, Preparing
  <2>2. ASSUME NEW y \in Threads \ {t, u} PROVE TravOf(y)'
    BY <1>0, <1>2, <1>3, <1>5 DEF TravOf, TravInv
  <2>3. TravOne'
    BY <1>0, <1>2, <1>5 DEF TravOne, TravInv
  <2> QED BY <2>1, <2>2, <2>3 DEF TravInv
<1> HIDE DEF q
<1>9. /\ ChainOK(Chain(w, t), u, block, n) /\ u \in Pending
      /\ \A y \in Threads \ {t} : u \notin Chain(w, y)
      /\ u \notin InList(w) /\ Chain(w, t) \in SUBSET Threads
  BY <1>1, UnblockAt
<1>10. /\ x = NULL => Chain(w, t) = {u}
       /\ x # NULL => ChainOK(Chain(w, t) \ {u}, x, block, n)
  BY <1>b, <1>9, ChainNext
<1>11. Pending' = Pending \ {u} /\ Pending' \subseteq Threads \ {u}
  <2>1. \A y \in Threads \ {u} : pc'[y] = "keyed" <=> pc[y] = "keyed"
    BY <1>1, <1>3, <1>4
  <2> QED BY <1>0, <1>2, <2>1 DEF Pending, Typed
<1>12. /\ InList(w)' = InList(w) /\ Chain(w, t)' = Chain(w, t) \ {u}
       /\ \A y \in Threads \ {t} : Chain(w, y)' = Chain(w, y)
  BY <1>9, <1>11 DEF InList, Chain
<1>13. \A y \in Threads \ {t} : Same(y) \/ Apart(y)
  <2>1. Apart(u)
    BY <1>1, <1>3, PlainPoints DEF Apart
  <2> QED BY <1>2, <1>3, <2>1 DEF Same
<1>14. /\ SameLinks(Pending', block, block') /\ \A b \in Pending' : block'[b].spinning => block[b].spinning
  BY <1>2, <1>11 DEF SameLinks
<1>15. value'.multiple => block'[e].sharedOwners = Cardinality(Sharers')
  <2> SUFFICES ASSUME value.multiple PROVE block'[e].sharedOwners = Cardinality(Sharers)
    BY <1>2, <1>5
  <2>1. e \in InList(w) /\ block[e].sharedOwners = Cardinality(Sharers)
    BY DEF Shape, Whole, ListOK, CountOK, Good, Control, WordOK
  <2>2. e \in Threads \ {u}
    BY <1>9, <2>1 DEF InList, Pending, Good, Typed
  <2> QED BY <1>2, <2>1, <2>2
<1>16. ChainOf(t, n, w)'
  <2>1. CASE x = NULL
    BY <1>3, <1>4, <1>10, <1>12, <2>1 DEF ChainOf, WakerPoints, q
  <2>2. CASE x # NULL
    <3>1. ChainOK(Chain(w, t) \ {u}, x, block', n)
      <4>1. \A b \in Chain(w, t) \ {u} : block'[b].prev = block[b].prev
        BY <1>2, <1>9
      <4> QED BY <1>10, <2>2, <4>1, ChainSame
    <3>2. pc'[t] = "unblock" /\ at'[t] = x
      BY <1>3, <2>2 DEF q
    <3> QED BY <1>12, <3>1, <3>2 DEF ChainOf, WakerPoints
  <2> QED BY <2>1, <2>2
<1>17. WalkOf(t, n, w, s, e)' /\ ReleaseOf(t, w, e)'
  BY <1>3, <1>4 DEF WalkOf, ReleaseOf, Optimizing, Preparing
<1>18. Shape(n, w, s, e)'
  BY <1>2, <1>5, <1>12, <1>13, <1>14, <1>15, <1>16, <1>17, ShapeFrame
<1> QED BY <1>a, <1>6, <1>7, <1>8, <1>18 DEF Good
-----------------------------------------------------------------------------
(* PhpBlockOnQueuedWaitBlock *)

LEMMA BlockOverStep ==
    ASSUME Good, NEW n, NEW w, NEW s, NEW e, Shape(n, w, s, e), NEW t \in Threads, BlockOver(t)
    PROVE Good' /\ Shape(n, w, s, e)'
<1>0. Typed /\ Control /\ OwnInv /\ TravInv
  BY DEF Good
<1>1. Typed'
  BY <1>0, BlockStepType DEF Block
<1>2. /\ pc[t] = "block" /\ ~block[t].spinning /\ pc' = [pc EXCEPT ![t] = "acquire"] /\ Resume(t)
      /\ UNCHANGED <<value, at, first>>
  BY DEF BlockOver, Goto
<1>3. /\ queued' = queued \ {t} /\ val'[t] = found[t] /\ found'[t] = Free /\ caller'[t] = "idle"
      /\ \A u \in Threads \ {t} : /\ block'[u] = block[u] /\ val'[u] = val[u] /\ found'[u] = found[u]
                                  /\ caller'[u] = caller[u]
  BY <1>2, Resumed
<1>4. /\ Sharers' = Sharers /\ Clearers' = Clearers /\ Exclusive' = Exclusive /\ Traversers' = Traversers
      /\ pc'[t] = "acquire" /\ \A u \in Threads : u # t => pc'[u] = pc[u]
  <2>1. Group("acquire") = Group(pc[t])
    BY <1>2, GroupsAre
  <2> QED BY <1>0, <1>2, <2>1, GroupSame
<1>5. Control'
  <2>1. ControlOf(t)'
    BY <1>0, <1>3, <1>4, FreeIsWord DEF Control, ControlOf, Waiting, Waking
  <2> QED BY <1>0, <1>2, <1>3, <1>4, <2>1, ControlFrame DEF Control
<1>6. OwnInv'
  BY <1>0, <1>2, <1>4, OwnFrame
<1>7. TravInv'
  <2>1. TravOf(t)'
    BY <1>4, Untravelled DEF Optimizing, Preparing
  <2> QED BY <1>0, <1>2, <1>3, <1>4, <2>1, TravFrame DEF TravInv, TravOne
<1>8. Pending' = Pending /\ t \notin Pending /\ Pending \subseteq Threads
  <2>1. t \notin Pending
    BY <1>2 DEF Pending
  <2> QED BY <1>0, <1>3, <1>4, <2>1 DEF Pending, Typed
<1>9. BlocksSame
  BY <1>3, <1>8 DEF BlocksSame, SameLinks
<1>10. Shape(n, w, s, e)'
  <2>1. pc[t] \notin WakerPoints /\ pc'[t] \notin Special
    BY <1>2, <1>4, PlainPoints
  <2>2. \A u \in Threads \ {t} : Same(u)
    BY <1>2, <1>3, <1>4 DEF Same
  <2> QED BY <1>2, <1>4, <1>8, <1>9, <2>1, <2>2, PlainStep
<1> QED BY <1>1, <1>5, <1>6, <1>7, <1>10 DEF Good

LEMMA BlockKeyedStep ==
    ASSUME Good, NEW n, NEW w, NEW s, NEW e, Shape(n, w, s, e), NEW t \in Threads, BlockKeyed(t)
    PROVE Good' /\ Shape(n, w, s, e)'
<1>1. Typed'
  BY BlockStepType DEF Block, Good
<1>2. /\ pc[t] = "block" /\ block[t].spinning /\ block' = [block EXCEPT ![t].spinning = FALSE]
      /\ pc' = [pc EXCEPT ![t] = "keyed"] /\ UNCHANGED <<value, queued, found, val, at, first, caller>>
  BY DEF BlockKeyed, Goto, traversal
<1>3. /\ block'[t].next = block[t].next /\ block'[t].last = block[t].last /\ block'[t].prev = block[t].prev
      /\ block'[t].sharedOwners = block[t].sharedOwners /\ block'[t].spinning = FALSE
      /\ \A b \in Threads \ {t} : block'[b] = block[b]
  <2>1. /\ block'[t] = [block[t] EXCEPT !.spinning = FALSE] /\ \A b \in Threads \ {t} : block'[b] = block[b]
        /\ block[t] \in BlockType
    BY <1>2 DEF Good, Typed, BlockMaps
  <2> QED BY <2>1 DEF BlockType
<1>4. /\ Group("keyed") = Group(pc[t]) /\ Sharers' = Sharers /\ Clearers' = Clearers
      /\ pc'[t] = "keyed" /\ \A u \in Threads : u # t => pc'[u] = pc[u]
  <2>1. Group("keyed") = Group(pc[t])
    BY <1>2, GroupsAre
  <2> QED BY <1>2, <2>1, GroupSame DEF Good
<1>5. Good'
  <2>1. TravOf(t)'
    BY <1>4, Untravelled DEF Optimizing, Preparing
  <2>2. ControlOf(t)'
    BY <1>2, <1>3, <1>4 DEF Good, Control, ControlOf, Waiting
  <2> QED BY <1>1, <1>2, <1>3, <1>4, <2>1, <2>2, GoodFrame
<1>6. Pending' = Pending /\ Pending \subseteq Threads
  BY <1>2, <1>3, <1>4 DEF Pending, Good, Typed
<1>7. BlocksSame
  <2>1. \A b \in Threads : /\ block'[b].next = block[b].next /\ block'[b].last = block[b].last
                           /\ block'[b].prev = block[b].prev /\ block'[b].sharedOwners = block[b].sharedOwners
                           /\ block'[b].spinning => block[b].spinning
    BY <1>3
  <2> QED BY <1>6, <2>1 DEF BlocksSame, SameLinks
<1>8. Shape(n, w, s, e)'
  <2>1. pc[t] \notin WakerPoints /\ pc'[t] \notin Special
    BY <1>2, <1>4, PlainPoints
  <2>2. \A u \in Threads \ {t} : Same(u)
    BY <1>2, <1>4 DEF Same
  <2> QED BY <1>2, <1>4, <1>6, <1>7, <2>1, <2>2, PlainStep
<1> QED BY <1>5, <1>8
-----------------------------------------------------------------------------
(* Release of the exclusive lock *)

LEMMA OnlyOwner ==
    ASSUME OwnInv, NEW t \in Threads, pc[t] \in {"exclusive", "release", "clearOwned"}
    PROVE /\ Single = {t} /\ Sharers = {} /\ value.owned
          /\ pc[t] = "clearOwned" => Clearers = {t} /\ Exclusive = {} /\ value.waiters
          /\ pc[t] # "clearOwned" => Exclusive = {t} /\ Clearers = {} /\ ~value.multiple
<1>1. t \in Single
  BY Members DEF Single
<1>2. Single = {t} /\ Sharers = {}
  BY <1>1 DEF OwnInv
<1>3. pc[t] = "clearOwned" => t \in Clearers /\ t \notin Exclusive
  BY Members
<1>4. pc[t] # "clearOwned" => t \notin Clearers /\ t \in Exclusive
  BY Members
<1> QED BY <1>2, <1>3, <1>4 DEF OwnInv, Single

\* An owner leaves, and nobody else owns the lock then.
Leaves(t, q) ==
    /\ pc[t] \in {"exclusive", "release", "clearOwned"} /\ q \in {"idle", "wakeForRelease", "wake"}
    /\ pc' = [pc EXCEPT ![t] = q]
    /\ value'.owned = FALSE /\ value'.waiters = value.waiters /\ value'.shared = value.shared /\ value'.multiple = FALSE
LEMMA OwnerLeaves ==
    ASSUME Good, NEW t \in Threads, NEW q, Leaves(t, q)
    PROVE /\ OwnInv' /\ Sharers' = {} /\ Clearers' = {}
          /\ pc'[t] = q /\ \A u \in Threads : u # t => pc'[u] = pc[u]
<1> USE DEF Leaves
<1>0. Typed /\ OwnInv
  BY DEF Good
<1>1. /\ Single = {t} /\ Sharers = {}
      /\ pc[t] = "clearOwned" => Clearers = {t} /\ Exclusive = {} /\ value.waiters
      /\ pc[t] # "clearOwned" => Exclusive = {t} /\ Clearers = {}
  BY <1>0, OnlyOwner
<1>2. q \notin SharerPoints /\ q # "clearOwned" /\ q \notin {"exclusive", "release"}
  BY DEF SharerPoints
<1>3. /\ Sharers' = With(Sharers, t, FALSE) /\ Clearers' = With(Clearers, t, FALSE)
      /\ Exclusive' = With(Exclusive, t, FALSE)
      /\ pc'[t] = q /\ \A u \in Threads : u # t => pc'[u] = pc[u]
  BY <1>0, <1>2, Moves DEF With
<1>4. Sharers' = {} /\ Clearers' = {} /\ Exclusive' = {}
  BY <1>1, <1>3 DEF With
<1>5. OwnInv'
  <2>1. ~value.waiters => value.shared = 0
    BY <1>0, <1>1, SharersFinite DEF OwnInv
  <2>2. Cardinality(Sharers') = 0
    BY <1>4, FS_EmptySet
  <2> QED BY <1>4, <2>1, <2>2 DEF OwnInv, Single
<1> QED BY <1>3, <1>4, <1>5

LEMMA OwnerGoes ==
    ASSUME Good, NEW n, NEW w, NEW s, NEW e, Shape(n, w, s, e), NEW t \in Threads, NEW q, Typed',
           pc[t] \in {"exclusive", "release", "clearOwned"}, pc' = [pc EXCEPT ![t] = q],
           q \in {"idle", "wakeForRelease"},
           q = "wakeForRelease" => value'.waiters /\ ~value'.traversing /\ val'[t] = value',
           value'.owned = FALSE, value'.waiters = value.waiters, value'.shared = value.shared, value'.multiple = FALSE,
           value'.traversing = value.traversing, value'.head = value.head,
           UNCHANGED <<block, queued, found, at, first>>,
           val'[t] \in {val[t], Free, value'},
           \A u \in Threads \ {t} : val'[u] = val[u] /\ caller'[u] = caller[u]
    PROVE Good' /\ Shape(n, w, s, e)'
<1>0. Typed /\ Control /\ OwnInv /\ TravInv
  BY DEF Good
<1>1. /\ OwnInv' /\ Sharers' = {} /\ Clearers' = {}
      /\ pc'[t] = q /\ \A u \in Threads : u # t => pc'[u] = pc[u]
  <2>1. Leaves(t, q)
    BY DEF Leaves
  <2> QED BY <2>1, OwnerLeaves
<1>2. Traversers' = Traversers
  <2>1. pc[t] \notin Optimizing \cup Preparing /\ q \notin Optimizing \cup Preparing
    BY DEF Optimizing, Preparing
  <2> QED BY <1>0, <2>1, Stays
<1>3. WordOK(value')
  <2>1. ~value.waiters => value.shared = 0
    BY <1>0, OnlyOwner, SharersFinite DEF OwnInv
  <2> QED BY <1>0, <2>1 DEF Control, WordOK
<1>4. Control'
  <2>1. ControlOf(t)'
    <3>1. t \notin queued
      BY <1>0 DEF Control, ControlOf, Waiting, Waking
    <3>2. WordOK(val'[t]) /\ WordOK(found'[t])
      BY <1>0, <1>3, FreeIsWord DEF Control, ControlOf
    <3>3. q \notin Waiting /\ q \notin Waking /\ q # "keyed"
      BY DEF Waiting, Waking
    <3> QED BY <1>1, <3>1, <3>2, <3>3 DEF ControlOf
  <2> QED BY <1>0, <1>1, <1>3, <2>1, ControlFrame
<1>5. TravInv'
  <2>1. TravOf(t)'
    BY <1>1, Untravelled DEF Optimizing, Preparing
  <2> QED BY <1>0, <1>1, <1>2, <2>1, TravFrame DEF TravInv, TravOne
<1>6. Shape(n, w, s, e)'
  <2>1. pc[t] \notin WakerPoints /\ pc'[t] \notin Special /\ pc[t] # "keyed" /\ pc'[t] # "keyed"
    BY <1>1, PlainPoints
  <2>2. Pending' = Pending /\ BlocksSame
    BY <1>0, <1>1, <2>1, PendingSame DEF Typed
  <2>3. \A u \in Threads \ {t} : Same(u)
    BY <1>1 DEF Same
  <2> QED BY <1>1, <2>1, <2>2, <2>3, PlainStep
<1> QED BY <1>1, <1>4, <1>5, <1>6 DEF Good

\* A thread sets the traversing bit in order to wake waiters.
LEMMA WakeStarts ==
    ASSUME Good, NEW n, NEW w, NEW s, NEW e, Shape(n, w, s, e), NEW t \in Threads, Typed',
           pc[t] \in {"release", "clearOwned", "wakeForRelease"}, pc' = [pc EXCEPT ![t] = "wake"],
           pc[t] = "wakeForRelease" => ~value.owned, value.waiters, ~value.traversing,
           value'.owned = FALSE, value'.waiters = value.waiters, value'.shared = value.shared, value'.multiple = FALSE,
           value'.traversing = TRUE, value'.head = value.head,
           UNCHANGED <<block, queued, found, at, first>>, val'[t] = value', caller'[t] = "idle",
           \A u \in Threads \ {t} : val'[u] = val[u] /\ caller'[u] = caller[u]
    PROVE Good' /\ Shape(n, w, s, e)'
<1>0. Typed /\ Control /\ OwnInv /\ TravInv
  BY DEF Good
<1>1. /\ OwnInv' /\ Sharers' = {} /\ Clearers' = {}
      /\ pc'[t] = "wake" /\ \A u \in Threads : u # t => pc'[u] = pc[u]
  <2>1. CASE pc[t] # "wakeForRelease"
    <3>1. Leaves(t, "wake")
      BY <2>1 DEF Leaves
    <3> QED BY <3>1, OwnerLeaves
  <2>2. CASE pc[t] = "wakeForRelease"
    <3>1. Sharers = {} /\ Clearers = {} /\ Exclusive = {}
      BY <1>0, <2>2 DEF OwnInv, Single
    <3>2. /\ Sharers' = Sharers /\ Clearers' = Clearers /\ Exclusive' = Exclusive
          /\ pc'[t] = "wake" /\ \A u \in Threads : u # t => pc'[u] = pc[u]
      <4>1. pc[t] \notin SharerPoints /\ "wake" \notin SharerPoints
        BY <2>2 DEF SharerPoints
      <4> QED BY <1>0, <2>2, <4>1, Stays
    <3>3. Cardinality(Sharers') = 0
      BY <3>1, <3>2, FS_EmptySet
    <3> QED BY <3>1, <3>2, <3>3 DEF OwnInv, Single
  <2> QED BY <2>1, <2>2
<1>2. Traversers = {} /\ Traversers' = {t}
  <2>1. Traversers = {}
    BY <1>0 DEF TravInv, TravOne
  <2>2. Traversers' = With(Traversers, t, "wake" \in Optimizing \cup Preparing)
    BY <1>0, Moves
  <2>3. "wake" \in Optimizing \cup Preparing
    BY DEF Preparing
  <2> QED BY <2>1, <2>2, <2>3 DEF With
<1>3. WordOK(value')
  BY <1>0 DEF Control, WordOK
<1>4. Control'
  <2>1. ControlOf(t)'
    <3>1. t \notin queued
      BY <1>0 DEF Control, ControlOf, Waiting, Waking
    <3> QED BY <1>0, <1>1, <1>3, <3>1 DEF Control, ControlOf, Waiting, Waking
  <2> QED BY <1>0, <1>1, <1>3, <2>1, ControlFrame
<1>5. TravInv'
  <2>1. TravOf(t)'
    BY <1>1 DEF TravOf, Preparing
  <2>2. ASSUME NEW u \in Threads \ {t} PROVE TravOf(u)'
    <3>1. pc'[u] \notin Optimizing \cup Preparing
      BY <1>1, <1>2, Members
    <3> QED BY <3>1, Untravelled
  <2> QED BY <1>2, <2>1, <2>2 DEF TravInv, TravOne
<1>6. Shape(n, w, s, e)'
  <2>1. pc[t] \notin WakerPoints /\ pc'[t] \notin WakerPoints /\ pc[t] # "keyed" /\ pc'[t] # "keyed"
    BY <1>1 DEF WakerPoints
  <2>2. Pending' = Pending /\ BlocksSame
    BY <1>0, <1>1, <2>1, PendingSame DEF Typed
  <2>3. \A u \in Threads \ {t} : Same(u)
    BY <1>1 DEF Same
  <2>4. ReleaseOf(t, w, e)'
    BY <1>1 DEF ReleaseOf
  <2>5. WalkOf(t, n, w, s, e)'
    <3>1. /\ value.head \in InList(w) /\ block[value.head].prev = NULL /\ n[s] <= n[value.head]
      BY DEF Shape, Whole, ListOK
    <3>2. InList(w)' = InList(w)
      BY <2>2 DEF InList
    <3> QED BY <1>1, <3>1, <3>2 DEF WalkOf
  <2> QED BY <1>1, <2>1, <2>2, <2>3, <2>4, <2>5, QuietStep
<1> QED BY <1>1, <1>4, <1>5, <1>6 DEF Good

LEMMA ReleaseExclusiveStep ==
    ASSUME Good, NEW n, NEW w, NEW s, NEW e, Shape(n, w, s, e), NEW t \in Threads, ReleaseExclusive(t)
    PROVE Good' /\ Shape(n, w, s, e)'
<1> DEFINE q == IF value.waiters /\ ~value.traversing THEN "wakeForRelease" ELSE "idle"
<1>1. Typed'
  BY ReleaseType DEF Good, PlainRelease
<1>2. /\ pc[t] = "exclusive" /\ value' = [value EXCEPT !.owned = FALSE] /\ pc' = [pc EXCEPT ![t] = q]
      /\ val' = IF q = "wakeForRelease" THEN [val EXCEPT ![t] = value'] ELSE val
      /\ UNCHANGED <<block, queued, found, at, first, caller>>
  BY DEF ReleaseExclusive, Goto, Load, waitBlocks, traversal
<1>3. /\ value'.owned = FALSE /\ value'.waiters = value.waiters /\ value'.shared = value.shared
      /\ value'.traversing = value.traversing /\ value'.multiple = value.multiple /\ value'.head = value.head
  BY <1>2, Fields DEF Good, Typed
<1>4. value'.multiple = FALSE
  <2>1. ~value.multiple
    BY <1>2, OnlyOwner DEF Good
  <2> QED BY <1>3, <2>1 DEF Good, Typed, Words
<1>5. /\ val'[t] = (IF q = "wakeForRelease" THEN value' ELSE val[t])
      /\ \A u \in Threads \ {t} : val'[u] = val[u]
  BY <1>2 DEF Good, Typed
<1>6. /\ q \in {"idle", "wakeForRelease"}
      /\ q = "wakeForRelease" => value'.waiters /\ ~value'.traversing /\ val'[t] = value'
      /\ val'[t] \in {val[t], Free, value'} /\ pc[t] \in {"exclusive", "release", "clearOwned"}
  BY <1>2, <1>3, <1>5
<1> HIDE DEF q
<1> QED BY <1>1, <1>2, <1>3, <1>4, <1>5, <1>6, OwnerGoes

\* A word that t has read just now.
LEMMA ReleaseExclusiveReadStep ==
    ASSUME Good, NEW n, NEW w, NEW s, NEW e, Shape(n, w, s, e), NEW t \in Threads, ReleaseExclusiveRead(t)
    PROVE Good' /\ Shape(n, w, s, e)'
<1>1. Typed'
  BY ReleaseType DEF Good, PlainRelease
<1>2. /\ pc[t] = "exclusive" /\ pc' = [pc EXCEPT ![t] = "release"] /\ val' = [val EXCEPT ![t] = value]
      /\ UNCHANGED <<value, block, queued, found, mode, at, first, caller>>
  BY DEF ReleaseExclusiveRead, Goto, Load, waitBlocks, traversal
<1>3. /\ pc'[t] = "release" /\ val'[t] = value /\ \A u \in Threads \ {t} : val'[u] = val[u]
  BY <1>2 DEF Good, Typed
<1>4. ControlOf(t)'
  BY <1>2, <1>3 DEF Good, Control, ControlOf, Waiting, Waking
<1>5. Group("release") = Group(pc[t]) /\ pc[t] \notin WakerPoints /\ "release" \notin Special
  BY <1>2, GroupsAre, PlainPoints
<1> QED BY <1>1, <1>2, <1>3, <1>4, <1>5, OwnStep

LEMMA WakeForReleaseStep ==
    ASSUME Good, NEW n, NEW w, NEW s, NEW e, Shape(n, w, s, e), NEW t \in Threads, WakeForRelease(t)
    PROVE Good' /\ Shape(n, w, s, e)'
<1> DEFINE new == [val[t] EXCEPT !.traversing = TRUE]
<1>0. Typed
  BY DEF Good
<1>1. Typed'
  BY <1>0, ReleaseType DEF PlainRelease
<1>2. /\ pc[t] = "wakeForRelease" /\ Cas(t, new, "wake", "idle") /\ caller' = [caller EXCEPT ![t] = "idle"]
      /\ UNCHANGED <<block, queued, found, at, first>>
  BY DEF WakeForRelease, ReturnTo, waitBlocks
<1>3. caller'[t] = "idle" /\ \A u \in Threads \ {t} : caller'[u] = caller[u]
  BY <1>0, <1>2 DEF Typed
<1>4. val[t].waiters /\ ~val[t].traversing /\ ~val[t].owned
  BY <1>2 DEF Good, Control, ControlOf
<1>5. CasDone(t, new, "wake") \/ CasFailed(t, "idle")
  BY <1>0, <1>2, CasCases
<1>6. CASE CasFailed(t, "idle")
  <2>1. /\ pc' = [pc EXCEPT ![t] = "idle"] /\ value' = value /\ val'[t] = Free
        /\ \A u \in Threads \ {t} : val'[u] = val[u]
    BY <1>6 DEF CasFailed, Forgets
  <2>2. pc'[t] = "idle"
    BY <1>0, <2>1 DEF Typed
  <2>3. ControlOf(t)'
    BY <1>2, <1>3, <2>1, <2>2, FreeIsWord DEF Good, Control, ControlOf, Waiting, Waking
  <2>4. Group("idle") = Group(pc[t]) /\ pc[t] \notin WakerPoints /\ "idle" \notin Special
    BY <1>2, GroupsAre, PlainPoints
  <2> QED BY <1>1, <1>2, <1>3, <2>1, <2>3, <2>4, OwnStep
<1>7. CASE CasDone(t, new, "wake")
  <2>1. /\ value = val[t] /\ value' = [value EXCEPT !.traversing = TRUE] /\ pc' = [pc EXCEPT ![t] = "wake"]
        /\ val'[t] = value' /\ \A u \in Threads \ {t} : val'[u] = val[u]
    BY <1>7 DEF CasDone, Forgets
  <2>2. /\ value'.owned = value.owned /\ value'.waiters = value.waiters /\ value'.shared = value.shared
        /\ value'.traversing = TRUE /\ value'.multiple = value.multiple /\ value'.head = value.head
    BY <1>0, <2>1, Fields DEF Typed
  <2>3. value.owned = FALSE /\ value.multiple = FALSE /\ value.waiters /\ ~value.traversing
    BY <1>0, <1>4, <2>1 DEF Good, Control, WordOK, Typed, Words
  <2>4. pc[t] \in {"release", "clearOwned", "wakeForRelease"}
    BY <1>2
  <2>5. value'.owned = FALSE /\ value'.multiple = FALSE /\ ~value.owned
    BY <2>2, <2>3
  <2> QED BY <1>1, <1>2, <1>3, <2>1, <2>2, <2>3, <2>4, <2>5, WakeStarts
<1> QED BY <1>5, <1>6, <1>7

LEMMA ReleaseExclusiveCasStep ==
    ASSUME Good, NEW n, NEW w, NEW s, NEW e, Shape(n, w, s, e), NEW t \in Threads, ReleaseExclusiveCas(t)
    PROVE Good' /\ Shape(n, w, s, e)'
<1> DEFINE one == [val[t] EXCEPT !.owned = FALSE]
           two == [val[t] EXCEPT !.owned = FALSE, !.traversing = TRUE]
<1>0. Typed
  BY DEF Good
<1>1. Typed'
  BY <1>0, ReleaseType DEF PlainRelease
<1>2. /\ pc[t] = "release" /\ caller' = [caller EXCEPT ![t] = "idle"] /\ UNCHANGED <<block, queued, found, at, first>>
      /\ \/ Cas(t, one, "idle", "release")
         \/ val[t].waiters /\ ~val[t].traversing /\ Cas(t, two, "wake", "release")
  BY DEF ReleaseExclusiveCas, ReturnTo, waitBlocks
<1>3. caller'[t] = "idle" /\ \A u \in Threads \ {t} : caller'[u] = caller[u]
  BY <1>0, <1>2 DEF Typed
<1>4. \/ CasDone(t, one, "idle") \/ CasFailed(t, "release")
      \/ val[t].waiters /\ ~val[t].traversing /\ CasDone(t, two, "wake")
  BY <1>0, <1>2, CasCases
<1>5. value.multiple = FALSE
  BY <1>2, OnlyOwner DEF Good, Typed, Words
<1>6. pc[t] \in {"exclusive", "release", "clearOwned"} /\ pc[t] \in {"release", "clearOwned", "wakeForRelease"}
  BY <1>2
<1>7. CASE CasFailed(t, "release")
  <2>1. /\ pc' = [pc EXCEPT ![t] = "release"] /\ value' = value /\ val'[t] = value
        /\ \A u \in Threads \ {t} : val'[u] = val[u]
    BY <1>7 DEF CasFailed, Forgets
  <2>2. pc'[t] = "release"
    BY <1>0, <2>1 DEF Typed
  <2>3. ControlOf(t)'
    BY <1>2, <1>3, <2>1, <2>2 DEF Good, Control, ControlOf, Waiting, Waking
  <2>4. Group("release") = Group(pc[t]) /\ pc[t] \notin WakerPoints /\ "release" \notin Special
    BY <1>2, GroupsAre, PlainPoints
  <2> QED BY <1>1, <1>2, <1>3, <2>1, <2>3, <2>4, OwnStep
<1>8. CASE CasDone(t, one, "idle")
  <2>1. /\ value' = [value EXCEPT !.owned = FALSE] /\ pc' = [pc EXCEPT ![t] = "idle"]
        /\ val'[t] = Free /\ \A u \in Threads \ {t} : val'[u] = val[u]
    BY <1>8 DEF CasDone, Forgets
  <2>2. /\ value'.owned = FALSE /\ value'.waiters = value.waiters /\ value'.shared = value.shared
        /\ value'.traversing = value.traversing /\ value'.multiple = FALSE /\ value'.head = value.head
    BY <1>0, <1>5, <2>1, Fields DEF Typed
  <2>3. "idle" \in {"idle", "wakeForRelease"} /\ "idle" # "wakeForRelease" /\ val'[t] \in {val[t], Free, value'}
    BY <2>1
  <2> QED BY <1>1, <1>2, <1>3, <1>6, <2>1, <2>2, <2>3, OwnerGoes
<1>9. CASE val[t].waiters /\ ~val[t].traversing /\ CasDone(t, two, "wake")
  <2>1. /\ value = val[t] /\ value' = [value EXCEPT !.owned = FALSE, !.traversing = TRUE]
        /\ pc' = [pc EXCEPT ![t] = "wake"] /\ val'[t] = value' /\ \A u \in Threads \ {t} : val'[u] = val[u]
    BY <1>9 DEF CasDone, Forgets
  <2>2. /\ value'.owned = FALSE /\ value'.waiters = value.waiters /\ value'.shared = value.shared
        /\ value'.traversing = TRUE /\ value'.multiple = FALSE /\ value'.head = value.head
    BY <1>0, <1>5, <2>1, Fields DEF Typed
  <2>3. value.waiters /\ ~value.traversing /\ pc[t] # "wakeForRelease"
    BY <1>2, <1>9, <2>1
  <2> QED BY <1>1, <1>2, <1>3, <1>6, <2>1, <2>2, <2>3, WakeStarts
<1> QED BY <1>4, <1>7, <1>8, <1>9

\* The last shared owner gives the lock up.
LEMMA ClearOwnedStep ==
    ASSUME Good, NEW n, NEW w, NEW s, NEW e, Shape(n, w, s, e), NEW t \in Threads, ClearOwned(t)
    PROVE Good' /\ Shape(n, w, s, e)'
<1> DEFINE q == IF val[t].traversing THEN "idle" ELSE "wake"
<1>0. Typed
  BY DEF Good
<1>1. Typed'
  BY <1>0, ReleaseType DEF PlainRelease
<1>2. /\ pc[t] = "clearOwned" /\ caller' = [caller EXCEPT ![t] = "idle"] /\ UNCHANGED <<block, queued, found, at, first>>
      /\ Cas(t, Cleared(val[t]), q, "clearOwned")
  BY DEF ClearOwned, ReturnTo, waitBlocks
<1>3. caller'[t] = "idle" /\ \A u \in Threads \ {t} : caller'[u] = caller[u]
  BY <1>0, <1>2 DEF Typed
<1>4. CasDone(t, Cleared(val[t]), q) \/ CasFailed(t, "clearOwned")
  BY <1>0, <1>2, CasCases
<1>5. value.waiters
  BY <1>2, OnlyOwner DEF Good
<1>6. pc[t] \in {"exclusive", "release", "clearOwned"} /\ pc[t] \in {"release", "clearOwned", "wakeForRelease"}
  BY <1>2
<1>7. CASE CasFailed(t, "clearOwned")
  <2>1. /\ pc' = [pc EXCEPT ![t] = "clearOwned"] /\ value' = value /\ val'[t] = value
        /\ \A u \in Threads \ {t} : val'[u] = val[u]
    BY <1>7 DEF CasFailed, Forgets
  <2>2. pc'[t] = "clearOwned"
    BY <1>0, <2>1 DEF Typed
  <2>3. ControlOf(t)'
    BY <1>2, <1>3, <2>1, <2>2 DEF Good, Control, ControlOf, Waiting, Waking
  <2>4. Group("clearOwned") = Group(pc[t]) /\ pc[t] \notin WakerPoints /\ "clearOwned" \notin Special
    BY <1>2, GroupsAre, PlainPoints
  <2> QED BY <1>1, <1>2, <1>3, <2>1, <2>3, <2>4, OwnStep
<1>8. CASE CasDone(t, Cleared(val[t]), q)
  <2>1. /\ value = val[t] /\ value' = Cleared(value) /\ pc' = [pc EXCEPT ![t] = q]
        /\ val'[t] = (IF q = "idle" THEN Free ELSE value') /\ \A u \in Threads \ {t} : val'[u] = val[u]
    BY <1>8 DEF CasDone, Forgets
  <2>2. /\ value'.owned = FALSE /\ value'.waiters = value.waiters /\ value'.shared = value.shared
        /\ value'.traversing = TRUE /\ value'.multiple = FALSE /\ value'.head = value.head
    BY <1>0, <2>1, Fields DEF Typed
  <2>3. CASE value.traversing
    <3>1. /\ q = "idle" /\ value'.traversing = value.traversing /\ val'[t] = Free
          /\ val'[t] \in {val[t], Free, value'} /\ "idle" # "wakeForRelease"
      BY <1>0, <2>1, <2>2, <2>3 DEF Typed, Words
    <3> QED BY <1>1, <1>2, <1>3, <1>6, <2>1, <2>2, <3>1, OwnerGoes
  <2>4. CASE ~value.traversing
    <3>1. q = "wake" /\ val'[t] = value' /\ pc[t] # "wakeForRelease"
      BY <1>2, <2>1, <2>4
    <3> QED BY <1>1, <1>2, <1>3, <1>5, <1>6, <2>1, <2>2, <2>4, <3>1, WakeStarts
  <2> QED BY <2>3, <2>4
<1> QED BY <1>4, <1>7, <1>8
-----------------------------------------------------------------------------
(* Release of the shared lock *)

\* A shared owner of which the list knows nothing yet does something of its own.
LEMMA SharerStep ==
    ASSUME Good, NEW n, NEW w, NEW s, NEW e, Shape(n, w, s, e), NEW t \in Threads, NEW q, Typed',
           pc[t] \in SharerPoints, q \in SharerPoints, pc' = [pc EXCEPT ![t] = q],
           UNCHANGED <<value, block, queued, found, first, caller>>,
           \A u \in Threads \ {t} : val'[u] = val[u] /\ at'[u] = at[u],
           WordOK(val'[t]), ReleaseOf(t, w, e)'
    PROVE Good' /\ Shape(n, w, s, e)'
<1>0. pc'[t] = q /\ \A u \in Threads : u # t => pc'[u] = pc[u]
  BY Stays DEF Good
<1>1. /\ pc[t] \notin WakerPoints /\ q \notin WakerPoints /\ pc[t] # "keyed" /\ q # "keyed" /\ q # "wakeForRelease"
      /\ pc[t] \notin Waiting /\ pc[t] \notin Waking /\ q \notin Waiting /\ q \notin Waking
      /\ q \notin Optimizing /\ q \notin Preparing /\ q \notin {"rendezvous", "unlink", "wakeAll"}
      /\ q \notin {"optimizeVisit", "wakeVisit"}
  BY DEF SharerPoints, WakerPoints, Waiting, Waking, Optimizing, Preparing
<1>2. Group(q) = Group(pc[t])
  BY DEF Group
<1>3. Pending' = Pending
  BY <1>0, <1>1, PendingSame DEF Good, Typed
<1>4. ChainOf(t, n, w)'
  BY <1>0, <1>1, <1>3 DEF Shape, ChainOf, Chain, WakerPoints
<1>5. WalkOf(t, n, w, s, e)' /\ TravOf(t)'
  BY <1>0, <1>1 DEF WalkOf, TravOf, Preparing
<1>6. ControlOf(t)'
  BY <1>0, <1>1 DEF Good, Control, ControlOf
<1> QED BY <1>1, <1>2, <1>4, <1>5, <1>6, LocalStep

\* A shared owner leaves while nobody waits.
LEMMA SharerGoes ==
    ASSUME Good, NEW n, NEW w, NEW s, NEW e, Shape(n, w, s, e), NEW t \in Threads, Typed',
           pc[t] \in {"shared", "releaseShared"}, pc' = [pc EXCEPT ![t] = "idle"], ~value.waiters,
           value' = IF value.shared > 1 THEN [value EXCEPT !.shared = @ - 1] ELSE Free,
           UNCHANGED <<block, queued, found, at, first, caller>>,
           val'[t] \in {val[t], Free}, \A u \in Threads \ {t} : val'[u] = val[u]
    PROVE Good' /\ Shape(n, w, s, e)'
<1>0. /\ Typed /\ Control /\ OwnInv /\ TravInv /\ value \in Words /\ value.shared \in Nat
  BY DEF Good, Typed, Words
<1>1. /\ t \in Sharers /\ value.shared = Cardinality(Sharers) /\ value.shared > 0 /\ Single = {} /\ value.owned
      /\ Clearers = {} /\ Exclusive = {}
  <2>1. t \in Sharers
    BY Members DEF SharerPoints
  <2> QED BY <1>0, <2>1, SharersFinite DEF OwnInv, Single
<1>2. /\ ~value.multiple /\ ~value.traversing /\ value.head = NULL
  BY <1>0 DEF Control, WordOK
<1>3. /\ value'.waiters = FALSE /\ value'.multiple = FALSE /\ value'.traversing = FALSE /\ value'.head = NULL
      /\ value'.shared = value.shared - 1
      /\ value'.shared = 0 => value'.owned = FALSE
      /\ value'.shared > 0 => value'.owned = TRUE
  <2>1. CASE value.shared > 1
    <3>1. value' = [value EXCEPT !.shared = @ - 1]
      BY <2>1
    <3>2. /\ value'.owned = value.owned /\ value'.waiters = value.waiters /\ value'.shared = value.shared - 1
          /\ value'.traversing = value.traversing /\ value'.multiple = value.multiple /\ value'.head = value.head
      BY <1>0, <3>1 DEF Words
    <3>3. value.owned = TRUE /\ value.waiters = FALSE /\ value.multiple = FALSE /\ value.traversing = FALSE
      BY <1>0, <1>1, <1>2 DEF Words
    <3> QED BY <1>0, <1>2, <2>1, <3>2, <3>3
  <2>2. CASE ~(value.shared > 1)
    <3>1. value' = Free
      BY <2>2
    <3>2. value.shared = 1
      BY <1>0, <1>1, <2>2
    <3> QED BY <3>1, <3>2, FreeFields
  <2> QED BY <2>1, <2>2
<1>4. /\ pc'[t] = "idle" /\ \A u \in Threads : u # t => pc'[u] = pc[u]
      /\ Clearers' = Clearers /\ Exclusive' = Exclusive /\ Traversers' = Traversers
  <2>1. /\ pc[t] # "clearOwned" /\ pc[t] \notin {"exclusive", "release"}
        /\ pc[t] \notin Optimizing \cup Preparing /\ "idle" \notin Optimizing \cup Preparing
    BY DEF Optimizing, Preparing
  <2> QED BY <1>0, <2>1, Stays
<1>5. Sharers' = Sharers \ {t} /\ Cardinality(Sharers') = value'.shared
  <2>1. Sharers' = With(Sharers, t, "idle" \in SharerPoints)
    BY <1>0, Moves
  <2>2. "idle" \notin SharerPoints
    BY DEF SharerPoints
  <2>3. Sharers' = Sharers \ {t}
    BY <2>1, <2>2 DEF With
  <2> QED BY <1>1, <1>3, <2>3, SharersFinite
<1>6. Control'
  <2>1. WordOK(value')
    BY <1>3, <1>1, <1>0 DEF WordOK
  <2>2. ControlOf(t)'
    BY <1>0, <1>4, FreeIsWord DEF Control, ControlOf, Waiting, Waking
  <2> QED BY <1>0, <1>4, <2>1, <2>2, ControlFrame
<1>7. OwnInv'
  <2>1. IsFiniteSet(Sharers') /\ (Cardinality(Sharers') = 0 <=> Sharers' = {})
    <3>1. IsFiniteSet(Sharers')
      BY <1>5, SharersFinite, FS_Subset
    <3> QED BY <3>1, FS_EmptySet
  <2>2. value'.owned <=> Sharers' # {}
    BY <1>0, <1>1, <1>3, <1>5, <2>1
  <2> QED BY <1>1, <1>3, <1>4, <1>5, <2>2 DEF OwnInv, Single
<1>8. TravInv'
  <2>1. TravOf(t)'
    BY <1>4, Untravelled DEF Optimizing, Preparing
  <2>2. value.traversing = FALSE
    BY <1>0, <1>2 DEF Words
  <2> QED BY <1>0, <1>2, <1>3, <1>4, <2>1, <2>2, TravFrame
<1>9. Shape(n, w, s, e)'
  <2>1. pc[t] \notin WakerPoints /\ pc'[t] \notin Special /\ pc[t] # "keyed" /\ pc'[t] # "keyed"
    <3>1. pc[t] \notin WakerPoints
      BY DEF WakerPoints
    <3> QED BY <1>4, <3>1, PlainPoints
  <2>2. Pending' = Pending /\ BlocksSame
    BY <1>0, <1>4, <2>1, PendingSame DEF Typed
  <2>3. \A u \in Threads \ {t} : Same(u)
    BY <1>4 DEF Same
  <2>4. value'.waiters = value.waiters /\ value'.head = value.head /\ value'.multiple = value.multiple /\ ~value'.multiple
    BY <1>0, <1>2, <1>3 DEF Words
  <2> QED BY <2>1, <2>2, <2>3, <2>4, PlainStep
<1> QED BY <1>6, <1>7, <1>8, <1>9 DEF Good

LEMMA ReleaseSharedStep ==
    ASSUME Good, NEW n, NEW w, NEW s, NEW e, Shape(n, w, s, e), NEW t \in Threads, ReleaseShared(t)
    PROVE Good' /\ Shape(n, w, s, e)'
<1>1. Typed'
  BY ReleaseType DEF Good, PlainRelease
<1>2. pc[t] = "shared" /\ UNCHANGED <<block, queued, found, val, at, first, caller>>
  BY DEF ReleaseShared, waitBlocks, traversal
<1>3. CASE value = Counted(TRUE, 1)
  <2>1. value' = Free /\ pc' = [pc EXCEPT ![t] = "idle"]
    BY <1>3 DEF ReleaseShared, Goto
  <2>2. ~value.waiters /\ ~(value.shared > 1)
    BY <1>3 DEF Counted
  <2>3. value' = (IF value.shared > 1 THEN [value EXCEPT !.shared = @ - 1] ELSE Free)
    BY <2>1, <2>2
  <2>4. pc[t] \in {"shared", "releaseShared"} /\ val'[t] \in {val[t], Free}
    BY <1>2
  <2> QED BY <1>1, <1>2, <2>1, <2>2, <2>3, <2>4, SharerGoes
<1>4. CASE value # Counted(TRUE, 1)
  <2>1. value' = value /\ pc' = [pc EXCEPT ![t] = "readShared"]
    BY <1>4 DEF ReleaseShared, Goto
  <2>2. pc'[t] = "readShared"
    BY <2>1 DEF Good, Typed
  <2>3. ReleaseOf(t, w, e)' /\ WordOK(val'[t])
    BY <1>2, <2>2 DEF ReleaseOf, Good, Control, ControlOf
  <2>4. pc[t] \in SharerPoints /\ "readShared" \in SharerPoints
    BY <1>2 DEF SharerPoints
  <2> QED BY <1>1, <1>2, <2>1, <2>3, <2>4, SharerStep
<1> QED BY <1>3, <1>4

\* A shared owner reads the word.
LEMMA SharerReads ==
    ASSUME Good, NEW n, NEW w, NEW s, NEW e, Shape(n, w, s, e), NEW t \in Threads, Typed',
           pc[t] \in {"readShared", "releaseShared"}, pc' = [pc EXCEPT ![t] = "releaseShared"], val'[t] = value,
           \A u \in Threads \ {t} : val'[u] = val[u], UNCHANGED <<value, block, queued, found, at, first, caller>>
    PROVE Good' /\ Shape(n, w, s, e)'
<1>1. pc'[t] = "releaseShared" /\ \A u \in Threads : u # t => pc'[u] = pc[u]
  BY Stays DEF Good
<1>2. InList(w)' = InList(w)
  <2>1. Pending' = Pending
    BY <1>1, PendingSame DEF Good, Typed
  <2> QED BY <2>1 DEF InList
<1>3. value.waiters => value.head \in InList(w)
  BY DEF Shape, Whole, ListOK
<1>4. ReleaseOf(t, w, e)' /\ WordOK(val'[t])
  BY <1>1, <1>2, <1>3 DEF ReleaseOf, Good, Control
<1>5. pc[t] \in SharerPoints /\ "releaseShared" \in SharerPoints
  BY DEF SharerPoints
<1> QED BY <1>4, <1>5, SharerStep

LEMMA ReleaseSharedReadStep ==
    ASSUME Good, NEW n, NEW w, NEW s, NEW e, Shape(n, w, s, e), NEW t \in Threads, ReleaseSharedRead(t)
    PROVE Good' /\ Shape(n, w, s, e)'
<1>1. Typed'
  BY ReleaseType DEF Good, PlainRelease
<1>2. /\ pc[t] = "readShared" /\ pc' = [pc EXCEPT ![t] = "releaseShared"] /\ val' = [val EXCEPT ![t] = value]
      /\ UNCHANGED <<value, block, queued, found, at, first, caller>>
  BY DEF ReleaseSharedRead, Goto, Load, waitBlocks, traversal
<1>3. val'[t] = value /\ (\A u \in Threads \ {t} : val'[u] = val[u]) /\ pc[t] \in {"readShared", "releaseShared"}
  BY <1>2 DEF Good, Typed
<1> QED BY <1>1, <1>2, <1>3, SharerReads

LEMMA ReleaseSharedCasStep ==
    ASSUME Good, NEW n, NEW w, NEW s, NEW e, Shape(n, w, s, e), NEW t \in Threads, ReleaseSharedCas(t)
    PROVE Good' /\ Shape(n, w, s, e)'
<1> DEFINE new == IF val[t].shared > 1 THEN [val[t] EXCEPT !.shared = @ - 1] ELSE Free
<1>1. Typed'
  BY ReleaseType DEF Good, PlainRelease
<1>2. /\ pc[t] = "releaseShared" /\ ~val[t].waiters /\ Cas(t, new, "idle", "releaseShared")
      /\ UNCHANGED <<block, queued, found, at, first, caller>>
  BY DEF ReleaseSharedCas, waitBlocks, traversal
<1>3. CasDone(t, new, "idle") \/ CasFailed(t, "releaseShared")
  BY <1>2, CasCases DEF Good
<1>4. CASE CasFailed(t, "releaseShared")
  <2>1. /\ pc' = [pc EXCEPT ![t] = "releaseShared"] /\ value' = value /\ val'[t] = value
        /\ \A u \in Threads \ {t} : val'[u] = val[u]
    BY <1>4 DEF CasFailed, Forgets
  <2>2. pc[t] \in {"readShared", "releaseShared"}
    BY <1>2
  <2> QED BY <1>1, <1>2, <2>1, <2>2, SharerReads
<1>5. CASE CasDone(t, new, "idle")
  <2>1. /\ value = val[t] /\ value' = new /\ pc' = [pc EXCEPT ![t] = "idle"]
        /\ val'[t] = Free /\ \A u \in Threads \ {t} : val'[u] = val[u]
    BY <1>5 DEF CasDone, Forgets
  <2>2. value' = IF value.shared > 1 THEN [value EXCEPT !.shared = @ - 1] ELSE Free
    BY <2>1
  <2>3. pc[t] \in {"shared", "releaseShared"} /\ ~value.waiters /\ val'[t] \in {val[t], Free}
    BY <1>2, <2>1
  <2> QED BY <1>1, <1>2, <2>1, <2>2, <2>3, SharerGoes
<1> QED BY <1>3, <1>4, <1>5

\* A shared owner goes on to clear OWNED, being the last one, or leaves the others.
LEMMA SharerMoves ==
    ASSUME Good, NEW t \in Threads, NEW q, pc[t] \in SharerPoints, q \in {"idle", "clearOwned"},
           pc' = [pc EXCEPT ![t] = q], value' = value, value.waiters,
           q = "clearOwned" => Sharers = {t},
           q = "idle" => value.multiple /\ Sharers # {t}
    PROVE /\ OwnInv' /\ Traversers' = Traversers /\ Sharers' = Sharers \ {t}
          /\ (Sharers \cup Clearers)' \subseteq Sharers \cup Clearers
          /\ pc'[t] = q /\ \A u \in Threads : u # t => pc'[u] = pc[u]
<1>0. Typed /\ OwnInv
  BY DEF Good
<1>1. t \in Sharers /\ Single = {} /\ Exclusive = {} /\ Clearers = {} /\ value.owned
  <2>1. t \in Sharers
    BY Members
  <2> QED BY <1>0, <2>1 DEF OwnInv, Single
<1>2. /\ pc[t] \notin {"exclusive", "release"} /\ q \notin {"exclusive", "release"}
      /\ pc[t] \notin Optimizing \cup Preparing /\ q \notin Optimizing \cup Preparing /\ q \notin SharerPoints
  BY DEF SharerPoints, Optimizing, Preparing
<1>3. /\ Exclusive' = Exclusive /\ Traversers' = Traversers
      /\ pc'[t] = q /\ \A u \in Threads : u # t => pc'[u] = pc[u]
  BY <1>0, <1>2, Stays
<1>4. Sharers' = Sharers \ {t} /\ Clearers' = IF q = "clearOwned" THEN {t} ELSE {}
  <2>1. Sharers' = With(Sharers, t, q \in SharerPoints) /\ Clearers' = With(Clearers, t, q = "clearOwned")
    BY <1>0, Moves
  <2> QED BY <1>1, <1>2, <2>1 DEF With
<1>5. OwnInv'
  <2>1. CASE q = "clearOwned"
    <3>1. Sharers' = {} /\ Clearers' = {t} /\ Exclusive' = {}
      BY <1>1, <1>3, <1>4, <2>1
    <3>2. Cardinality(Sharers') = 0
      BY <3>1, FS_EmptySet
    <3> QED BY <1>1, <3>1, <3>2 DEF OwnInv, Single
  <2>2. CASE q = "idle"
    <3>1. Sharers' # {} /\ Clearers' = {} /\ Exclusive' = {} /\ value.multiple
      BY <1>1, <1>3, <1>4, <2>2
    <3> QED BY <1>1, <3>1 DEF OwnInv, Single
  <2> QED BY <2>1, <2>2
<1>6. (Sharers \cup Clearers)' \subseteq Sharers \cup Clearers
  BY <1>1, <1>4
<1> QED BY <1>3, <1>4, <1>5, <1>6

LEMMA ReleaseSharedWaitersStep ==
    ASSUME Good, NEW n, NEW w, NEW s, NEW e, Shape(n, w, s, e), NEW t \in Threads, ReleaseSharedWaiters(t)
    PROVE Good' /\ Shape(n, w, s, e)'
<1>0. Typed /\ Control /\ OwnInv /\ TravInv
  BY DEF Good
<1>1. Typed'
  BY <1>0, ReleaseType DEF PlainRelease
<1>2. /\ pc[t] = "releaseShared" /\ val[t].waiters /\ UNCHANGED <<value, block, queued, found, val, first, caller>>
  BY DEF ReleaseSharedWaiters, waitBlocks
<1>3. value.waiters /\ val[t].head \in InList(w) /\ (val[t].multiple <=> value.multiple)
  BY <1>2 DEF Shape, ReleaseOf
<1>4. pc[t] \in SharerPoints
  BY <1>2 DEF SharerPoints
<1>5. CASE val[t].multiple
  <2>1. pc' = [pc EXCEPT ![t] = "findLast"] /\ at' = [at EXCEPT ![t] = val[t].head]
    BY <1>5 DEF ReleaseSharedWaiters, Goto
  <2>2. /\ pc'[t] = "findLast" /\ at'[t] = val[t].head /\ \A u \in Threads \ {t} : at'[u] = at[u] /\ pc'[u] = pc[u]
    BY <1>0, <2>1 DEF Typed
  <2>3. InList(w)' = InList(w)
    <3>1. Pending' = Pending
      BY <1>0, <1>2, <2>2, PendingSame DEF Typed
    <3> QED BY <3>1 DEF InList
  <2>4. ReleaseOf(t, w, e)' /\ WordOK(val'[t])
    BY <1>0, <1>2, <1>3, <1>5, <2>2, <2>3 DEF ReleaseOf, Control, ControlOf
  <2>5. "findLast" \in SharerPoints
    BY DEF SharerPoints
  <2> QED BY <1>1, <1>2, <1>4, <2>1, <2>2, <2>4, <2>5, SharerStep
<1>6. CASE ~val[t].multiple
  <2>1. pc' = [pc EXCEPT ![t] = "clearOwned"] /\ at' = at
    BY <1>6 DEF ReleaseSharedWaiters, Goto
  <2>2. Sharers = {t} /\ ~value.multiple
    <3>1. t \in Sharers
      BY <1>4, Members
    <3>2. Cardinality(Sharers) <= 1 /\ ~value.multiple
      BY <1>0, <1>3, <1>6 DEF OwnInv
    <3> QED BY <3>1, <3>2, SharersFinite
  <2>3. /\ OwnInv' /\ Traversers' = Traversers /\ Sharers' = Sharers \ {t}
        /\ (Sharers \cup Clearers)' \subseteq Sharers \cup Clearers
        /\ pc'[t] = "clearOwned" /\ \A u \in Threads : u # t => pc'[u] = pc[u]
    <3>1. "clearOwned" \in {"idle", "clearOwned"} /\ "clearOwned" # "idle"
      OBVIOUS
    <3> QED BY <1>2, <1>3, <1>4, <2>1, <2>2, <3>1, SharerMoves
  <2>4. Control'
    <3>1. ControlOf(t)'
      BY <1>0, <1>2, <2>3 DEF Control, ControlOf, Waiting, Waking
    <3> QED BY <1>0, <1>2, <2>3, <3>1, ControlFrame DEF Control
  <2>5. TravInv'
    <3>1. TravOf(t)'
      BY <2>3, Untravelled DEF Optimizing, Preparing
    <3> QED BY <1>0, <1>2, <1>3, <2>3, <3>1, TravFrame
  <2>6. Shape(n, w, s, e)'
    <3>1. pc[t] \notin WakerPoints /\ pc'[t] \notin Special /\ pc[t] # "keyed" /\ pc'[t] # "keyed"
      <4>1. pc[t] \notin WakerPoints
        BY <1>2 DEF WakerPoints
      <4> QED BY <1>2, <2>3, <4>1, PlainPoints
    <3>2. Pending' = Pending /\ BlocksSame
      BY <1>0, <1>2, <2>3, <3>1, PendingSame DEF Typed
    <3>3. \A u \in Threads \ {t} : Same(u)
      BY <1>2, <2>1, <2>3 DEF Same
    <3> QED BY <1>2, <2>2, <2>3, <3>1, <3>2, <3>3, PlainStep
  <2> QED BY <1>1, <2>3, <2>4, <2>5, <2>6 DEF Good
<1> QED BY <1>5, <1>6

\* What a shared owner knows that walks the list.
LEMMA SharerList ==
    ASSUME Good, NEW n, NEW w, NEW s, NEW e, Shape(n, w, s, e), NEW t \in Threads, pc[t] \in {"findLast", "decrement"}
    PROVE /\ value.waiters /\ value.multiple /\ at[t] \in InList(w) /\ t \in Sharers
          /\ ListOK(InList(w), value.head, block, n, s, e) /\ InList(w) \in SUBSET Threads /\ e \in InList(w)
          /\ block[e].last = e /\ \A b \in InList(w) : block[b].last # NULL => block[b].last = e
          /\ block[e].sharedOwners = Cardinality(Sharers)
<1>1. value.waiters /\ value.multiple /\ at[t] \in InList(w)
  BY DEF Shape, ReleaseOf
<1>2. t \in Sharers
  BY Members DEF SharerPoints
<1>3. ListOK(InList(w), value.head, block, n, s, e) /\ e \in InList(w)
  BY <1>1 DEF Shape, Whole, ListOK
<1>4. InList(w) \in SUBSET Threads
  BY DEF InList, Pending, Good, Typed
<1>5. CountOK(w, e)
  BY DEF Shape, Whole
<1> QED BY <1>1, <1>2, <1>3, <1>4, <1>5 DEF CountOK

LEMMA FindLastStep ==
    ASSUME Good, NEW n, NEW w, NEW s, NEW e, Shape(n, w, s, e), NEW t \in Threads, FindLast(t)
    PROVE Good' /\ Shape(n, w, s, e)'
<1>0. PICK a, x : a = at[t] /\ x = (IF block[a].last # NULL THEN block[a].last ELSE block[a].next)
  OBVIOUS
<1> DEFINE q == IF block[a].last # NULL THEN "decrement" ELSE "findLast"
<1>1. /\ pc[t] = "findLast" /\ at' = [at EXCEPT ![t] = x] /\ pc' = [pc EXCEPT ![t] = q]
      /\ UNCHANGED <<value, block, queued, found, val, first, caller, mode, ops>>
  BY <1>0 DEF FindLast, Goto, waitBlocks
<1>2. /\ value.waiters /\ value.multiple /\ a \in InList(w)
      /\ ListOK(InList(w), value.head, block, n, s, e) /\ InList(w) \in SUBSET Threads /\ e \in InList(w)
      /\ block[e].last = e /\ \A b \in InList(w) : block[b].last # NULL => block[b].last = e
  BY <1>0, <1>1, SharerList
<1>3. x \in InList(w) /\ (q = "decrement" => x = e)
  <2>1. CASE block[a].last # NULL
    BY <1>0, <1>2, <2>1
  <2>2. CASE block[a].last = NULL
    <3>1. a # e
      BY <1>2, <2>2, NoThread
    <3>2. block[a].next \in InList(w)
      BY <1>2, <3>1 DEF ListOK
    <3> QED BY <1>0, <2>2, <3>2
  <2> QED BY <2>1, <2>2
<1>4. q \in {"findLast", "decrement"} /\ q \in SharerPoints /\ pc[t] \in SharerPoints
  BY <1>1 DEF SharerPoints
<1> HIDE DEF q
<1>5. Typed'
  <2>1. x \in MaybeThread
    BY <1>2, <1>3 DEF MaybeThread
  <2> QED BY <1>1, <1>4, <2>1, PointsAre DEF Good, Typed
<1>6. /\ pc'[t] = q /\ at'[t] = x /\ \A u \in Threads \ {t} : at'[u] = at[u] /\ pc'[u] = pc[u]
  BY <1>1 DEF Good, Typed
<1>7. InList(w)' = InList(w)
  <2>1. Pending' = Pending
    BY <1>1, <1>4, <1>6, PendingSame DEF Good, Typed
  <2> QED BY <2>1 DEF InList
<1>8. ReleaseOf(t, w, e)' /\ WordOK(val'[t])
  BY <1>1, <1>2, <1>3, <1>4, <1>6, <1>7 DEF ReleaseOf, Good, Control, ControlOf
<1> QED BY <1>1, <1>4, <1>5, <1>6, <1>8, SharerStep

\* One shared owner less.
LEMMA DecrementStep ==
    ASSUME Good, NEW n, NEW w, NEW s, NEW e, Shape(n, w, s, e), NEW t \in Threads, Decrement(t)
    PROVE Good' /\ Shape(n, w, s, e)'
<1>0. Typed /\ Control /\ OwnInv /\ TravInv
  BY DEF Good
<1>1. pc[t] = "decrement" /\ UNCHANGED <<value, queued, found, mode, caller, ops>>
  BY DEF Decrement
<1>2. /\ value.waiters /\ value.multiple /\ t \in Sharers
      /\ InList(w) \in SUBSET Threads /\ e \in InList(w) /\ block[e].sharedOwners = Cardinality(Sharers)
  BY <1>1, SharerList
<1>3. at[t] = e
  BY <1>1 DEF Shape, ReleaseOf
<1>4. PICK k : k = Cardinality(Sharers) - 1
  OBVIOUS
<1>5. /\ k \in Nat /\ Cardinality(Sharers \ {t}) = k /\ (k = 0 <=> Sharers = {t}) /\ block[e].sharedOwners - 1 = k
  <2>1. /\ IsFiniteSet(Sharers) /\ Cardinality(Sharers) \in Nat /\ Cardinality(Sharers) # 0
        /\ Cardinality(Sharers \ {t}) = Cardinality(Sharers) - 1
    BY <1>2, SharersFinite DEF Sharers
  <2>2. IsFiniteSet(Sharers \ {t})
    BY <2>1, FS_RemoveElement
  <2>3. Cardinality(Sharers \ {t}) = 0 <=> Sharers \ {t} = {}
    BY <2>2, FS_EmptySet
  <2> QED BY <1>2, <1>4, <2>1, <2>3
<1> DEFINE q == IF k = 0 THEN "clearOwned" ELSE "idle"
<1>6. e \in Threads /\ block \in BlockMaps
  BY <1>0, <1>2 DEF Typed
<1>7. block' = [block EXCEPT ![e].sharedOwners = k]
  <2>1. block' = [block EXCEPT ![e].sharedOwners = @ - 1]
    BY <1>3 DEF Decrement
  <2>2. block' = [block EXCEPT ![e] = [block[e] EXCEPT !.sharedOwners = block[e].sharedOwners - 1]]
    BY <1>6, <2>1 DEF BlockMaps, BlockType
  <2> QED BY <1>5, <1>6, <2>2 DEF BlockMaps, BlockType
<1>8. /\ pc' = [pc EXCEPT ![t] = q] /\ val' = (IF k = 0 THEN val ELSE [val EXCEPT ![t] = Free])
      /\ at' = [at EXCEPT ![t] = NULL] /\ first' = [first EXCEPT ![t] = NULL]
  BY <1>3, <1>5 DEF Decrement, LastShared, Goto, Load, Returned
<1>9. /\ block'[e] = [block[e] EXCEPT !.sharedOwners = k] /\ \A b \in Threads \ {e} : block'[b] = block[b]
      /\ block[e] \in BlockType
  BY <1>6, <1>7 DEF BlockMaps
<1>10. /\ block'[e].next = block[e].next /\ block'[e].last = block[e].last /\ block'[e].prev = block[e].prev
       /\ block'[e].sharedOwners = k /\ block'[e].spinning = block[e].spinning
  BY <1>5, <1>9 DEF BlockType
<1>11. \A b \in Threads : /\ block'[b].next = block[b].next /\ block'[b].last = block[b].last
                          /\ block'[b].prev = block[b].prev /\ block'[b].spinning = block[b].spinning
  BY <1>9, <1>10
<1>12. q \in {"idle", "clearOwned"} /\ (q = "clearOwned" => Sharers = {t}) /\ (q = "idle" => Sharers # {t})
  BY <1>5
<1> HIDE DEF q
<1>13. Typed'
  <2>1. block' \in BlockMaps
    <3>1. NULL \in MaybeThread
      BY DEF MaybeThread
    <3>2. [block EXCEPT ![e].sharedOwners = k] \in BlockMaps
      BY <1>5, <1>6, <3>1, BlockUpdates
    <3> QED BY <1>7, <3>2
  <2>2. pc' \in [Threads -> Points] /\ at' \in [Threads -> MaybeThread] /\ first' \in [Threads -> MaybeThread]
    BY <1>0, <1>8, <1>12, PointsAre DEF Typed, MaybeThread
  <2>3. val' \in [Threads -> Words]
    BY <1>0, <1>8, FreeIsWord DEF Typed
  <2> QED BY <1>0, <1>1, <2>1, <2>2, <2>3 DEF Typed
<1>14. /\ OwnInv' /\ Traversers' = Traversers /\ Sharers' = Sharers \ {t}
       /\ (Sharers \cup Clearers)' \subseteq Sharers \cup Clearers
       /\ pc'[t] = q /\ \A u \in Threads : u # t => pc'[u] = pc[u]
  <2>1. pc[t] \in SharerPoints
    BY <1>1 DEF SharerPoints
  <2> QED BY <1>1, <1>2, <1>8, <1>12, <2>1, SharerMoves
<1>15. val'[t] \in {val[t], Free} /\ \A u \in Threads \ {t} : val'[u] = val[u] /\ at'[u] = at[u] /\ first'[u] = first[u]
  BY <1>0, <1>8 DEF Typed
<1>16. Control'
  <2>1. ControlOf(t)'
    <3>1. /\ q \notin Waiting /\ q \notin Waking /\ pc[t] \notin Waiting /\ pc[t] \notin Waking /\ q # "keyed"
          /\ q # "wakeForRelease"
      BY <1>1, <1>12 DEF Waiting, Waking
    <3>2. WordOK(val'[t]) /\ WordOK(found[t])
      BY <1>0, <1>15, FreeIsWord DEF Control, ControlOf
    <3> QED BY <1>0, <1>1, <1>14, <3>1, <3>2 DEF Control, ControlOf
  <2> QED BY <1>0, <1>1, <1>11, <1>14, <1>15, <2>1, ControlFrame DEF Control
<1>17. TravInv'
  <2>1. TravOf(t)'
    BY <1>12, <1>14, Untravelled DEF Optimizing, Preparing
  <2> QED BY <1>0, <1>1, <1>2, <1>14, <1>15, <2>1, TravFrame
<1>18. Pending' = Pending /\ Pending \subseteq Threads
  <2>1. \A b \in Threads : pc'[b] = "keyed" <=> pc[b] = "keyed"
    BY <1>1, <1>12, <1>14
  <2> QED BY <1>0, <1>1, <1>11, <2>1 DEF Pending, Typed
<1>19. Shape(n, w, s, e)'
  <2>1. InList(w)' = InList(w) /\ \A u : Chain(w, u)' = Chain(w, u)
    BY <1>18 DEF InList, Chain
  <2>2. \A u \in Threads \ {t} : Same(u)
    BY <1>14, <1>15 DEF Same
  <2>3. pc[t] \notin WakerPoints /\ pc'[t] \notin Special /\ pc'[t] \notin WakerPoints
    <3>1. pc[t] \notin WakerPoints
      BY <1>1 DEF WakerPoints
    <3> QED BY <1>12, <1>14, <3>1, PlainPoints
  <2>4. ChainOf(t, n, w)'
    BY <2>1, <2>3 DEF Shape, ChainOf, WakerPoints
  <2>5. WalkOf(t, n, w, s, e)' /\ ReleaseOf(t, w, e)'
    BY <2>3 DEF WalkOf, ReleaseOf, Special, Optimizing, Preparing
  <2>6. /\ SameLinks(Pending', block, block') /\ \A b \in Pending' : block'[b].spinning => block[b].spinning
    BY <1>11, <1>18 DEF SameLinks
  <2>7. block'[e].sharedOwners = Cardinality(Sharers')
    BY <1>5, <1>10, <1>14
  <2> QED BY <1>1, <1>14, <2>1, <2>2, <2>4, <2>5, <2>6, <2>7, ShapeFrame
<1> QED BY <1>13, <1>14, <1>16, <1>17, <1>19 DEF Good
-----------------------------------------------------------------------------
(* The invariant holds in every state. *)

LEMMA InitInv == Init => IInv
<1> SUFFICES ASSUME Init PROVE IInv
  OBVIOUS
<1>1. /\ value = Free /\ queued = {} /\ \A t \in Threads : /\ pc[t] = "idle" /\ val[t] = Free /\ found[t] = Free
                                                         /\ caller[t] = "idle"
  BY DEF Init
<1>2. Typed
  BY FreeIsWord, PointsAre DEF Init, Typed, BlockMaps, MaybeThread
<1>3. Control
  BY <1>1, FreeIsWord DEF Control, ControlOf, Waiting, Waking
<1>4. Sharers = {} /\ Clearers = {} /\ Exclusive = {} /\ Traversers = {}
  BY <1>1 DEF Sharers, Clearers, Exclusive, Traversers
<1>5. OwnInv
  <2>1. Cardinality(Sharers) = 0
    BY <1>4, FS_EmptySet
  <2> QED BY <1>1, <1>4, <2>1, FreeFields DEF OwnInv, Single
<1>6. TravInv
  BY <1>1, <1>4, FreeFields DEF TravInv, TravOne, TravOf, Preparing, Optimizing
<1>7. ShapeInv
  <2>1. PICK n \in Ranks, w \in Wakers : TRUE
    <3>1. [t \in Threads |-> 0] \in Ranks /\ [t \in Threads |-> NULL] \in Wakers
      BY DEF Ranks, Wakers, MaybeThread
    <3> QED BY <3>1
  <2>2. Pending = {}
    BY <1>1 DEF Pending
  <2>3. Whole(n, w, NULL, NULL)
    BY <1>1, <2>2, FreeFields DEF Whole, CountOK, InList
  <2>4. ASSUME NEW t \in Threads PROVE ChainOf(t, n, w) /\ WalkOf(t, n, w, NULL, NULL) /\ ReleaseOf(t, w, NULL)
    BY <1>1, <2>2 DEF ChainOf, WalkOf, ReleaseOf, Chain, WakerPoints, Optimizing, Preparing
  <2>5. Shape(n, w, NULL, NULL)
    BY <2>3, <2>4 DEF Shape
  <2> QED BY <2>5 DEF ShapeInv, MaybeThread
<1> QED BY <1>2, <1>3, <1>5, <1>6, <1>7, TypeIs DEF IInv

LEMMA AcquireKeeps ==
    ASSUME Good, NEW n \in Ranks, NEW w \in Wakers, NEW s \in MaybeThread, NEW e \in MaybeThread, Shape(n, w, s, e),
           NEW t \in Threads, Acquire(t) \/ SlowAcquire(t) \/ Block(t)
    PROVE Good' /\ ShapeInv'
<1>1. CASE Push(t)
  BY <1>1, PushStep
<1>2. CASE ~Push(t)
  <2>1. Good' /\ Shape(n, w, s, e)'
    <3>1. CASE AcquireExclusive(t) \/ TryAcquireExclusive(t)
      BY <3>1, AcquireExclusiveStep
    <3>2. CASE AcquireShared(t)
      BY <3>2, AcquireSharedStep
    <3>3. CASE SlowRead(t)
      BY <3>3, SlowReadStep
    <3>4. CASE SlowTakeExclusive(t)
      BY <3>4, SlowTakeExclusiveStep
    <3>5. CASE SlowTakeShared(t)
      BY <3>5, SlowTakeSharedStep
    <3>6. CASE BlockOver(t)
      BY <3>6, BlockOverStep
    <3>7. CASE BlockKeyed(t)
      BY <3>7, BlockKeyedStep
    <3> QED BY <1>2, <3>1, <3>2, <3>3, <3>4, <3>5, <3>6, <3>7 DEF Acquire, SlowAcquire, Block
  <2> QED BY <2>1 DEF ShapeInv
<1> QED BY <1>1, <1>2

LEMMA WakeKeeps ==
    ASSUME Good, NEW n \in Ranks, NEW w \in Wakers, NEW s \in MaybeThread, NEW e \in MaybeThread, Shape(n, w, s, e),
           NEW t \in Threads, Optimize(t) \/ Wake(t)
    PROVE Good' /\ ShapeInv'
<1>1. CASE OptimizeVisit(t)
  BY <1>1, OptimizeVisitStep
<1>2. CASE Unlink(t)
  BY <1>2, UnlinkStep
<1>3. CASE WakeAll(t)
  BY <1>3, WakeAllStep
<1>4. CASE ~(OptimizeVisit(t) \/ Unlink(t) \/ WakeAll(t))
  <2>1. Good' /\ Shape(n, w, s, e)'
    <3>1. CASE OptimizeTop(t) \/ WakeTop(t)
      BY <3>1, TopStep
    <3>2. CASE OptimizeDone(t) \/ WakeNoPoint(t)
      BY <3>2, DoneStep
    <3>3. CASE WakeVisit(t)
      BY <3>3, WakeVisitStep
    <3>4. CASE Unlinked(t)
      BY <3>4, UnlinkedStep
    <3>5. CASE UnblockSpinning(t)
      BY <3>5, UnblockSpinningStep
    <3>6. CASE UnblockBlocked(t)
      BY <3>6, UnblockBlockedStep
    <3>7. ASSUME NEW u \in Threads, Rendezvous(t, u) PROVE Good' /\ Shape(n, w, s, e)'
      BY <3>7, RendezvousStep
    <3> QED BY <1>4, <3>1, <3>2, <3>3, <3>4, <3>5, <3>6, <3>7 DEF Optimize, Wake
  <2> QED BY <2>1 DEF ShapeInv
<1> QED BY <1>1, <1>2, <1>3, <1>4

LEMMA ReleaseKeeps ==
    ASSUME Good, NEW n \in Ranks, NEW w \in Wakers, NEW s \in MaybeThread, NEW e \in MaybeThread, Shape(n, w, s, e),
           NEW t \in Threads, Release(t)
    PROVE Good' /\ ShapeInv'
<1>1. Good' /\ Shape(n, w, s, e)'
  <2>1. CASE ReleaseExclusive(t)
    BY <2>1, ReleaseExclusiveStep
  <2>2. CASE WakeForRelease(t)
    BY <2>2, WakeForReleaseStep
  <2>3. CASE ReleaseExclusiveRead(t)
    BY <2>3, ReleaseExclusiveReadStep
  <2>4. CASE ReleaseExclusiveCas(t)
    BY <2>4, ReleaseExclusiveCasStep
  <2>5. CASE ReleaseShared(t)
    BY <2>5, ReleaseSharedStep
  <2>6. CASE ReleaseSharedRead(t)
    BY <2>6, ReleaseSharedReadStep
  <2>7. CASE ReleaseSharedCas(t)
    BY <2>7, ReleaseSharedCasStep
  <2>8. CASE ReleaseSharedWaiters(t)
    BY <2>8, ReleaseSharedWaitersStep
  <2>9. CASE FindLast(t)
    BY <2>9, FindLastStep
  <2>10. CASE Decrement(t)
    BY <2>10, DecrementStep
  <2>11. CASE ClearOwned(t)
    BY <2>11, ClearOwnedStep
  <2> QED BY <2>1, <2>2, <2>3, <2>4, <2>5, <2>6, <2>7, <2>8, <2>9, <2>10, <2>11 DEF Release
<1> QED BY <1>1 DEF ShapeInv

LEMMA IInvGood == (IInv <=> Good /\ ShapeInv) /\ (IInv' <=> Good' /\ ShapeInv')
BY TypeIs DEF IInv, Good

LEMMA NextInv == IInv /\ [Next]_vars => IInv'
<1> SUFFICES ASSUME IInv, [Next]_vars PROVE IInv'
  OBVIOUS
<1>1. ASSUME NEW t \in Threads, Step(t) PROVE IInv'
  <2>1. PICK n \in Ranks, w \in Wakers, s \in MaybeThread, e \in MaybeThread : Shape(n, w, s, e)
    BY DEF IInv, ShapeInv
  <2>2. Good
    BY IInvGood
  <2>3. CASE Acquire(t) \/ SlowAcquire(t) \/ Block(t)
    BY <2>1, <2>2, <2>3, AcquireKeeps, IInvGood
  <2>4. CASE Optimize(t) \/ Wake(t)
    BY <2>1, <2>2, <2>4, WakeKeeps, IInvGood
  <2>5. CASE Release(t)
    BY <2>1, <2>2, <2>5, ReleaseKeeps, IInvGood
  <2> QED BY <1>1, <2>3, <2>4, <2>5 DEF Step
<1>2. CASE UNCHANGED vars
  <2>1. /\ TypeOK' = TypeOK /\ Sharers' = Sharers /\ Clearers' = Clearers /\ Exclusive' = Exclusive
        /\ Traversers' = Traversers /\ Pending' = Pending
    BY <1>2 DEF vars, TypeOK, Sharers, Clearers, Exclusive, Traversers, Pending
  <2>2. TypeOK' /\ Control' /\ OwnInv' /\ TravInv'
    BY <1>2, <2>1 DEF vars, IInv, Control, ControlOf, OwnInv, Single, TravInv, TravOne, TravOf
  <2>3. PICK n \in Ranks, w \in Wakers, s \in MaybeThread, e \in MaybeThread : Shape(n, w, s, e)
    BY DEF IInv, ShapeInv
  <2>4. InList(w)' = InList(w) /\ \A t : Chain(w, t)' = Chain(w, t)
    BY <2>1 DEF InList, Chain
  <2>5. Shape(n, w, s, e)'
    BY <1>2, <2>1, <2>3, <2>4 DEF vars, Shape, Whole, CountOK, ChainOf, WalkOf, ReleaseOf
  <2> QED BY <2>2, <2>5 DEF IInv, ShapeInv
<1> QED BY <1>1, <1>2 DEF Next

\* The inductive invariant of the queued lock.
THEOREM Invariance == Spec => []IInv
<1>1. Init => IInv
  BY InitInv
<1>2. IInv /\ [Next]_vars => IInv'
  BY NextInv
<1> QED BY <1>1, <1>2, PTL DEF Spec
-----------------------------------------------------------------------------
(* What it says of the list. *)

LEMMA FewTraversers == ASSUME TravInv PROVE OneTraverser
<1>1. Cardinality(Traversers) <= 1
  <2>1. CASE Traversers = {}
    BY <2>1, FS_EmptySet
  <2>2. CASE Traversers # {}
    <3>1. PICK t : t \in Traversers
      BY <2>2
    <3>2. Traversers = {t}
      BY <3>1 DEF TravInv, TravOne
    <3>3. Cardinality({t}) = 1
      BY FS_Singleton
    <3> QED BY <3>2, <3>3
  <2> QED BY <2>1, <2>2
<1> QED BY <1>1 DEF OneTraverser, TravInv, TravOne

LEMMA SoundLists == IInv => ListSound
<1> SUFFICES ASSUME IInv PROVE ListSound
  OBVIOUS
<1>0. Good /\ TypeOK /\ TravInv
  BY IInvGood DEF IInv
<1>1. PICK n \in Ranks, w \in Wakers, s \in MaybeThread, e \in MaybeThread : Shape(n, w, s, e)
  BY DEF IInv, ShapeInv
<1>2. InList(w) \subseteq queued
  BY DEF InList, Pending
<1>3. ASSUME NEW t \in Threads, pc[t] \in {"unblock", "rendezvous"}
      PROVE at[t] \in queued /\ at[t] \notin InList(w)
  BY <1>0, <1>1, <1>3, UnblockAt
<1>4. ASSUME NEW t \in Threads, pc[t] \in {"findLast", "decrement"} PROVE at[t] \in InList(w)
  BY <1>1, <1>4 DEF Shape, ReleaseOf
<1>5. ASSUME NEW t \in Threads, pc[t] \in {"optimizeVisit", "wakeVisit"} PROVE at[t] \in InList(w)
  BY <1>1, <1>5 DEF Shape, WalkOf
<1>6. ASSUME NEW t \in Threads, pc[t] \in {"unlink", "wakeAll"} PROVE at[t] \in InList(w)
  <2>1. at[t] = e
    BY <1>1, <1>6 DEF Shape, WalkOf
  <2>2. pc[t] \in Optimizing \cup Preparing
    BY <1>6 DEF Preparing
  <2>3. e \in InList(w)
    BY <1>0, <1>1, <2>2, TraverserList
  <2> QED BY <2>1, <2>3
<1>7. BlocksLive
  BY <1>2, <1>3, <1>4, <1>5, <1>6 DEF BlocksLive
<1>8. WakeAssertions
  <2> SUFFICES ASSUME NEW t \in Threads
               PROVE /\ pc[t] \in {"wake", "optimize"} => val[t].traversing
                     /\ pc[t] = "wake" => ~val[t].multiple
                     /\ pc[t] \in {"unlink", "unlinked", "unblock", "rendezvous"}
                          => \A u \in Threads : pc[u] \notin {"findLast", "decrement"} \/ at[u] # at[t]
    BY DEF WakeAssertions
  <2>1. pc[t] \in {"wake", "optimize"} => val[t].traversing
    BY <1>1 DEF Shape, WalkOf, Optimizing, Preparing
  <2>2. pc[t] = "wake" => ~val[t].multiple
    BY <1>0 DEF TravInv, TravOf
  <2>3. CASE pc[t] \in {"unlink", "unlinked"}
    <3>1. pc[t] \in Preparing
      BY <2>3 DEF Preparing
    <3>2. \A u \in Threads : pc[u] \notin {"findLast", "decrement"}
      BY <1>0, <3>1, NobodyShares
    <3> QED BY <2>1, <2>2, <3>2
  <2>4. CASE pc[t] \in {"unblock", "rendezvous"}
    BY <1>3, <1>4, <2>1, <2>2, <2>4
  <2> QED BY <2>1, <2>2, <2>3, <2>4
<1>9. OneTraverser
  BY <1>0, FewTraversers
<1> QED BY <1>0, <1>7, <1>8, <1>9 DEF ListSound

\* The list of wait blocks is sound in every state (PhpPushQueuedWaitBlock, PhpOptimizeQueuedLockListEx,
\* PhpPrepareToWakeQueuedLock, PhpfWakeQueuedLock): one thread at a time traverses it, nobody is woken
\* whose block a shared owner still looks at, and no pointer leads to the block of a thread that is gone.
THEOREM ListsAreSound == Spec => []ListSound
<1>1. IInv => ListSound
  BY SoundLists
<1> QED BY <1>1, Invariance, PTL
-----------------------------------------------------------------------------
(* The reader-writer lock. *)

\* The control points at which a thread owns the lock.
Owning == {"exclusive", "release", "shared"}

\* What a step of t does to the owners: the others keep what they own, and nobody goes from one kind of
\* ownership to the other.
OwnersMove(t) ==
    /\ \A u \in Threads \ {t} : pc'[u] = pc[u] \/ (pc[u] \notin Owning /\ pc'[u] \notin Owning)
    /\ pc[t] \in {"exclusive", "release"} => pc'[t] # "shared"
    /\ pc[t] = "shared" => pc'[t] \notin {"exclusive", "release"}

\* Owners exclude each other.
OwnersApart == (\A s, t \in Exclusive : s = t) /\ (Exclusive # {} => Shared = {})

LEMMA ApartFromOwn == OwnInv => OwnersApart
BY DEF OwnInv, OwnersApart, Single, Sharers, Shared

LEMMA OwnersMoveAcquire ==
    ASSUME TypeOK, NEW t \in Threads, Acquire(t) \/ SlowAcquire(t) \/ Block(t) \/ Optimize(t)
    PROVE  OwnersMove(t)
<1> USE DEF TypeOK, OwnersMove, Owning, Goto
<1>1. CASE Acquire(t)
  BY <1>1 DEF Acquire, AcquireExclusive, AcquireShared, TryAcquireExclusive
<1>2. CASE SlowAcquire(t)
  BY <1>2 DEF SlowAcquire, SlowRead, SlowTakeExclusive, SlowTakeShared, Push, Cas
<1>3. CASE Block(t)
  BY <1>3 DEF Block, BlockOver, BlockKeyed
<1>4. CASE Optimize(t)
  BY <1>4 DEF Optimize, OptimizeTop, OptimizeVisit, OptimizeDone, Cas
<1> QED BY <1>1, <1>2, <1>3, <1>4

LEMMA OwnersMoveWake == ASSUME TypeOK, NEW t \in Threads, Wake(t) PROVE OwnersMove(t)
<1> USE DEF TypeOK, OwnersMove, Owning, Goto
<1>1. CASE WakeNoPoint(t) \/ WakeTop(t) \/ WakeVisit(t) \/ Unlink(t) \/ Unlinked(t) \/ WakeAll(t)
  BY <1>1 DEF WakeNoPoint, WakeTop, WakeVisit, Unlink, Unlinked, WakeAll, Cas
<1>2. CASE UnblockSpinning(t) \/ UnblockBlocked(t)
  BY <1>2 DEF UnblockSpinning, UnblockBlocked, GoOnWaking
<1>3. ASSUME NEW w \in Threads, Rendezvous(t, w) PROVE OwnersMove(t)
  BY <1>3 DEF Rendezvous
<1> QED BY <1>1, <1>2, <1>3 DEF Wake

LEMMA OwnersMoveRelease == ASSUME TypeOK, NEW t \in Threads, Release(t) PROVE OwnersMove(t)
<1> USE DEF TypeOK, OwnersMove, Owning, Goto
<1>1. CASE ReleaseExclusive(t) \/ WakeForRelease(t) \/ ReleaseExclusiveRead(t) \/ ReleaseExclusiveCas(t)
  BY <1>1 DEF ReleaseExclusive, WakeForRelease, ReleaseExclusiveRead, ReleaseExclusiveCas, Cas
<1>2. CASE ReleaseShared(t) \/ ReleaseSharedRead(t) \/ ReleaseSharedCas(t) \/ ReleaseSharedWaiters(t)
  BY <1>2 DEF ReleaseShared, ReleaseSharedRead, ReleaseSharedCas, ReleaseSharedWaiters, Cas
<1>3. CASE FindLast(t) \/ Decrement(t) \/ ClearOwned(t)
  BY <1>3 DEF FindLast, Decrement, ClearOwned, Cas
<1> QED BY <1>1, <1>2, <1>3 DEF Release

\* Every step acquires the abstract lock, releases it, or leaves its owners alone.
LEMMA OwnersStep ==
    ASSUME TypeOK, OwnInv, OwnInv', NEW t \in Threads, Step(t)
    PROVE  RW!Next \/ UNCHANGED <<Exclusive, Shared>>
<1>1. OwnersMove(t)
  BY OwnersMoveAcquire, OwnersMoveWake, OwnersMoveRelease DEF Step
<1>2. \A u \in Threads \ {t} : (u \in Exclusive' <=> u \in Exclusive) /\ (u \in Shared' <=> u \in Shared)
  BY <1>1 DEF OwnersMove, Owning, Exclusive, Shared
<1>3. Exclusive \subseteq Threads /\ Shared \subseteq Threads /\ Exclusive' \subseteq Threads /\ Shared' \subseteq Threads
  BY DEF Exclusive, Shared
<1>4. \A u \in Threads : ~(u \in Exclusive /\ u \in Shared) /\ ~(u \in Exclusive' /\ u \in Shared')
  BY DEF Exclusive, Shared
<1>5. ~(t \in Exclusive /\ t \in Shared') /\ ~(t \in Shared /\ t \in Exclusive')
  BY <1>1 DEF OwnersMove, Exclusive, Shared
<1>6. OwnersApart /\ OwnersApart'
  BY ApartFromOwn, PTL
<1>7. CASE t \notin Exclusive /\ t \in Exclusive'
  <2>1. \A u \in Exclusive' : u = t
    BY <1>6, <1>7 DEF OwnersApart
  <2>2. Exclusive' = {t} /\ Exclusive = {}
    BY <1>2, <1>3, <1>7, <2>1
  <2>3. Shared' = {}
    BY <1>6, <1>7 DEF OwnersApart
  <2>4. Shared = {}
    BY <1>2, <1>3, <1>5, <1>7, <2>3
  <2> QED BY <2>2, <2>3, <2>4 DEF RW!Next, RW!AcquireExclusive
<1>8. CASE t \notin Shared /\ t \in Shared'
  <2>1. Exclusive = {} /\ Exclusive' = {} /\ Shared' = Shared \cup {t}
    BY <1>2, <1>3, <1>5, <1>6, <1>8 DEF OwnersApart
  <2> QED BY <1>8, <2>1 DEF RW!Next, RW!AcquireShared
<1>9. CASE (t \in Exclusive /\ t \notin Exclusive') \/ (t \in Shared /\ t \notin Shared')
  <2>1. Exclusive' = Exclusive \ {t} /\ Shared' = Shared \ {t}
    BY <1>2, <1>3, <1>4, <1>5, <1>9
  <2> QED BY <1>9, <2>1 DEF RW!Next, RW!Release
<1>10. CASE (t \in Exclusive' <=> t \in Exclusive) /\ (t \in Shared' <=> t \in Shared)
  <2>1. Exclusive' = Exclusive /\ Shared' = Shared
    BY <1>2, <1>3, <1>10
  <2> QED BY <2>1
<1> QED BY <1>7, <1>8, <1>9, <1>10

\* The queued lock implements the reader-writer lock (PhfAcquireQueuedLockExclusive,
\* PhfAcquireQueuedLockShared, the releases and the inline fast paths): a step of any thread is an
\* acquisition the abstract lock allows, a release, or one its owners do not notice.
THEOREM QueuedLockIsRWLock == Spec => ImplementsRWLock
<1>1. Init => RW!Init
  BY DEF Init, RW!Init, Exclusive, Shared
<1>2. IInv /\ IInv' /\ [Next]_vars => [RW!Next]_<<Exclusive, Shared>>
  <2> SUFFICES ASSUME IInv, IInv', [Next]_vars PROVE RW!Next \/ UNCHANGED <<Exclusive, Shared>>
    OBVIOUS
  <2>1. CASE Next
    BY <2>1, OwnersStep DEF Next, IInv
  <2>2. CASE UNCHANGED vars
    BY <2>2 DEF vars, Exclusive, Shared
  <2> QED BY <2>1, <2>2
<1> QED BY <1>1, <1>2, Invariance, PTL DEF Spec, ImplementsRWLock, RW!Spec
-----------------------------------------------------------------------------
(***************************************************************************)
(* The work queue.  The counters are compared with the number of threads   *)
(* at certain points; the counting argument is the same for all of them.   *)
(***************************************************************************)
\* How many of the threads D are at a point in P.
NumberAt(f, D, P) == Cardinality({x \in D : f[x] \in P})

RunningPoints == WorkerPoints \ {"none", "exit"}
WokenPoints == {"woken", "dequeue"}
ExecutingPoints == {"run", "executed"}
Deleting == {"idle", "delSignal", "delRundown", "delWait", "deleted"}

Running == NumberAt(wpc, Workers, RunningPoints)
Woke == NumberAt(wpc, Workers, WokenPoints)
Executing == NumberAt(wpc, Workers, ExecutingPoints)
Signalling == NumberAt(cpc, Clients, {"signal"})

\* The counters and what they count.
Counts ==
    /\ current = Running /\ current <= MaximumThreads
    /\ ~terminating => Len(queue) = tokens + Woke + Signalling
    /\ busy = Len(queue) + Executing

\* The clients blocked on the condition are those it has; nobody but the thread that deletes
\* the queue is inside once it has begun.
ClientInv ==
    /\ waiting = {c \in Clients : cpc[c] = "blocked"}
    /\ \A c \in Clients : IF terminating THEN cpc[c] \in Deleting ELSE cpc[c] = "idle" \/ cpc[c] \notin Deleting

\* Where an item is that was queued and is not freed.
ItemInv ==
    /\ \A i \in Items : status[i] = "queued" => \E k \in DOMAIN queue : queue[k] = i
    /\ \A i \in Items : status[i] \in {"running", "executed"} =>
                            \E w \in Workers : wpc[w] \in ExecutingPoints /\ item[w] = i
    /\ \A w \in Workers : wpc[w] \in ExecutingPoints => item[w] \in Items

WorkQueueInv == WorkQueueTypeOK /\ Counts /\ ClientInv /\ ItemInv /\ DeletedClean
-----------------------------------------------------------------------------
(* Counting *)

LEMMA Counting ==
    ASSUME NEW D, IsFiniteSet(D), NEW f, f = [x \in D |-> f[x]], NEW a \in D, NEW v, NEW g, g = [f EXCEPT ![a] = v], NEW P
    PROVE  /\ NumberAt(f, D, P) \in Nat
           /\ (f[a] \in P <=> v \in P) => NumberAt(g, D, P) = NumberAt(f, D, P)
           /\ f[a] \in P /\ v \notin P => NumberAt(g, D, P) = NumberAt(f, D, P) - 1 /\ NumberAt(f, D, P) >= 1
           /\ f[a] \notin P /\ v \in P => NumberAt(g, D, P) = NumberAt(f, D, P) + 1
  <1> DEFINE F == {x \in D : f[x] \in P}
             G == {x \in D : g[x] \in P}
  <1>1. g[a] = v /\ \A x \in D : x # a => g[x] = f[x]
    OBVIOUS
  <1>2. IsFiniteSet(F) /\ Cardinality(F) \in Nat
    BY FS_Subset, FS_CardinalityType
  <1>3. ASSUME f[a] \in P <=> v \in P PROVE G = F
    BY <1>1, <1>3
  <1>4. ASSUME f[a] \in P, v \notin P PROVE a \in F /\ G = F \ {a}
    BY <1>1, <1>4
  <1>5. ASSUME f[a] \notin P, v \in P PROVE a \notin F /\ G = F \cup {a}
    BY <1>1, <1>5
  <1>6. NumberAt(f, D, P) = Cardinality(F) /\ NumberAt(g, D, P) = Cardinality(G)
    BY DEF NumberAt
  <1> HIDE DEF F, G
  <1>7. ASSUME a \in F, G = F \ {a} PROVE Cardinality(G) = Cardinality(F) - 1 /\ Cardinality(F) >= 1
    <2>1. IsFiniteSet(G) /\ Cardinality(G) = Cardinality(F) - 1
      BY <1>2, <1>7, FS_RemoveElement
    <2>2. Cardinality(G) \in Nat
      BY <2>1, FS_CardinalityType
    <2> QED
      BY <1>2, <2>1, <2>2
  <1>8. ASSUME a \notin F, G = F \cup {a} PROVE Cardinality(G) = Cardinality(F) + 1
    BY <1>2, <1>8, FS_AddElement
  <1> QED
    BY <1>2, <1>3, <1>4, <1>5, <1>6, <1>7, <1>8

\* A worker moves.
LEMMA WorkerMove ==
    ASSUME WorkQueueTypeOK, NEW w \in Workers, NEW p \in WorkerPoints, wpc' = [wpc EXCEPT ![w] = p]
    PROVE  /\ wpc' \in [Workers -> WorkerPoints] /\ wpc'[w] = p /\ (\A v \in Workers : v # w => wpc'[v] = wpc[v])
           /\ Running \in Nat /\ Woke \in Nat /\ Executing \in Nat
           /\ (wpc[w] \in RunningPoints <=> p \in RunningPoints) => Running' = Running
           /\ wpc[w] \in RunningPoints /\ p \notin RunningPoints => Running' = Running - 1 /\ Running >= 1
           /\ wpc[w] \notin RunningPoints /\ p \in RunningPoints => Running' = Running + 1
           /\ (wpc[w] \in WokenPoints <=> p \in WokenPoints) => Woke' = Woke
           /\ wpc[w] \in WokenPoints /\ p \notin WokenPoints => Woke' = Woke - 1 /\ Woke >= 1
           /\ wpc[w] \notin WokenPoints /\ p \in WokenPoints => Woke' = Woke + 1
           /\ (wpc[w] \in ExecutingPoints <=> p \in ExecutingPoints) => Executing' = Executing
           /\ wpc[w] \in ExecutingPoints /\ p \notin ExecutingPoints => Executing' = Executing - 1 /\ Executing >= 1
           /\ wpc[w] \notin ExecutingPoints /\ p \in ExecutingPoints => Executing' = Executing + 1
  <1>1. IsFiniteSet(Workers) /\ wpc = [x \in Workers |-> wpc[x]] /\ wpc \in [Workers -> WorkerPoints]
    BY WorkQueueAssumption DEF WorkQueueTypeOK
  <1>2. ASSUME NEW P
        PROVE  /\ NumberAt(wpc, Workers, P) \in Nat
               /\ (wpc[w] \in P <=> p \in P) => NumberAt(wpc', Workers, P) = NumberAt(wpc, Workers, P)
               /\ wpc[w] \in P /\ p \notin P => /\ NumberAt(wpc', Workers, P) = NumberAt(wpc, Workers, P) - 1
                                                /\ NumberAt(wpc, Workers, P) >= 1
               /\ wpc[w] \notin P /\ p \in P => NumberAt(wpc', Workers, P) = NumberAt(wpc, Workers, P) + 1
    BY <1>1, Counting
  <1>3. wpc' \in [Workers -> WorkerPoints] /\ wpc'[w] = p /\ (\A v \in Workers : v # w => wpc'[v] = wpc[v])
    BY <1>1
  <1>4. /\ Running = NumberAt(wpc, Workers, RunningPoints) /\ Running' = NumberAt(wpc', Workers, RunningPoints)
        /\ Woke = NumberAt(wpc, Workers, WokenPoints) /\ Woke' = NumberAt(wpc', Workers, WokenPoints)
        /\ Executing = NumberAt(wpc, Workers, ExecutingPoints) /\ Executing' = NumberAt(wpc', Workers, ExecutingPoints)
    BY DEF Running, Woke, Executing
  <1> QED
    BY <1>2, <1>3, <1>4

LEMMA ClientMove ==
    ASSUME WorkQueueTypeOK, NEW c \in Clients, NEW p \in ClientPoints, cpc' = [cpc EXCEPT ![c] = p]
    PROVE  /\ cpc' \in [Clients -> ClientPoints] /\ cpc'[c] = p /\ (\A d \in Clients : d # c => cpc'[d] = cpc[d])
           /\ Signalling \in Nat
           /\ (cpc[c] = "signal" <=> p = "signal") => Signalling' = Signalling
           /\ cpc[c] = "signal" /\ p # "signal" => Signalling' = Signalling - 1 /\ Signalling >= 1
           /\ cpc[c] # "signal" /\ p = "signal" => Signalling' = Signalling + 1
  <1>1. IsFiniteSet(Clients) /\ cpc = [x \in Clients |-> cpc[x]] /\ cpc \in [Clients -> ClientPoints]
    BY WorkQueueAssumption DEF WorkQueueTypeOK
  <1>2. ASSUME NEW P
        PROVE  /\ NumberAt(cpc, Clients, P) \in Nat
               /\ (cpc[c] \in P <=> p \in P) => NumberAt(cpc', Clients, P) = NumberAt(cpc, Clients, P)
               /\ cpc[c] \in P /\ p \notin P => /\ NumberAt(cpc', Clients, P) = NumberAt(cpc, Clients, P) - 1
                                                /\ NumberAt(cpc, Clients, P) >= 1
               /\ cpc[c] \notin P /\ p \in P => NumberAt(cpc', Clients, P) = NumberAt(cpc, Clients, P) + 1
    BY <1>1, Counting
  <1>3. cpc' \in [Clients -> ClientPoints] /\ cpc'[c] = p /\ (\A d \in Clients : d # c => cpc'[d] = cpc[d])
    BY <1>1
  <1>4. Signalling = NumberAt(cpc, Clients, {"signal"}) /\ Signalling' = NumberAt(cpc', Clients, {"signal"})
    BY DEF Signalling
  <1>5. \A q : q \in {"signal"} <=> q = "signal"
    OBVIOUS
  <1> QED
    BY <1>2, <1>3, <1>4, <1>5

LEMMA Numbers == ASSUME WorkQueueTypeOK PROVE Running \in Nat /\ Woke \in Nat /\ Executing \in Nat /\ Signalling \in Nat
  <1>1. ASSUME NEW f, NEW D, IsFiniteSet(D), NEW P PROVE NumberAt(f, D, P) \in Nat
    <2>1. IsFiniteSet({x \in D : f[x] \in P})
      BY <1>1, FS_Subset
    <2> QED
      BY <2>1, FS_CardinalityType DEF NumberAt
  <1> QED
    BY <1>1, WorkQueueAssumption DEF Running, Woke, Executing, Signalling
-----------------------------------------------------------------------------
(* Workers *)

\* While a worker exists PhDeleteWorkQueue does not return.
LEMMA NotDeleted == ASSUME WorkQueueInv, NEW w \in Workers, wpc[w] # "none" PROVE \A c \in Clients : cpc[c] # "deleted"
  BY DEF WorkQueueInv, DeletedClean, Live

\* A worker that neither takes nor finishes an item.
LEMMA QuietMove ==
    ASSUME WorkQueueInv, NEW w \in Workers, NEW p \in WorkerPoints, wpc' = [wpc EXCEPT ![w] = p], wpc[w] # "none",
           wpc[w] \notin ExecutingPoints, p \notin ExecutingPoints,
           UNCHANGED <<queue, busy, terminating, rundown, waiting, item, cpc, seen, status, failures>>,
           current' \in Nat, tokens' \in Nat
    PROVE  WorkQueueTypeOK' /\ ClientInv' /\ ItemInv' /\ DeletedClean' /\ Executing' = Executing /\ Signalling' = Signalling
  <1> USE DEF WorkQueueInv
  <1>1. wpc' \in [Workers -> WorkerPoints] /\ wpc'[w] = p /\ \A v \in Workers : v # w => wpc'[v] = wpc[v]
    BY WorkerMove
  <1>2. Executing' = Executing
    BY WorkerMove
  <1>3. Signalling' = Signalling
    BY DEF Signalling
  <1>4. WorkQueueTypeOK'
    BY <1>1 DEF WorkQueueTypeOK
  <1>5. ClientInv'
    BY DEF ClientInv
  <1>6. DeletedClean'
    BY NotDeleted DEF DeletedClean
  <1>7. ItemInv'
    <2>1. \A v \in Workers : wpc[v] \in ExecutingPoints <=> wpc'[v] \in ExecutingPoints
      BY <1>1
    <2> QED
      BY <2>1 DEF ItemInv
  <1> QED
    BY <1>2, <1>3, <1>4, <1>5, <1>6, <1>7

LEMMA WorkerTopStep == ASSUME WorkQueueInv, NEW w \in Workers, Top(w) \/ Timeout(w) PROVE WorkQueueInv'
  <1>1. /\ wpc[w] \in {"top", "wait"} /\ UNCHANGED <<queue, busy, current, tokens, terminating, rundown, waiting, item,
                                                    cpc, seen, status, failures>>
    BY DEF Top, Timeout, shared, clients
  <1>2. \E q \in {"wait", "noWork"} : wpc' = [wpc EXCEPT ![w] = q]
    BY DEF Top, Timeout, AfterTimeout, WGoto
  <1>3. PICK q \in {"wait", "noWork"} : wpc' = [wpc EXCEPT ![w] = q]
    BY <1>2
  <1>4. WorkQueueTypeOK' /\ ClientInv' /\ ItemInv' /\ DeletedClean' /\ Executing' = Executing /\ Signalling' = Signalling
    BY <1>1, <1>3, QuietMove DEF WorkerPoints, ExecutingPoints, WorkQueueInv, WorkQueueTypeOK
  <1>5. Running' = Running /\ Woke' = Woke
    BY <1>1, <1>3, WorkerMove DEF WorkerPoints, RunningPoints, WokenPoints, WorkQueueInv
  <1>6. Counts'
    BY <1>1, <1>4, <1>5 DEF WorkQueueInv, Counts
  <1> QED
    BY <1>4, <1>6 DEF WorkQueueInv

LEMMA WokenStep == ASSUME WorkQueueInv, NEW w \in Workers, Woken(w) PROVE WorkQueueInv'
  <1>1. /\ wpc[w] = "wait" /\ tokens > 0 /\ tokens' = tokens - 1 /\ wpc' = [wpc EXCEPT ![w] = "woken"]
        /\ UNCHANGED <<queue, busy, current, terminating, rundown, waiting, item, cpc, seen, status, failures>>
    BY DEF Woken, WGoto, clients
  <1>2. tokens \in Nat /\ tokens' \in Nat /\ current \in Nat
    BY <1>1 DEF WorkQueueInv, WorkQueueTypeOK
  <1>3. WorkQueueTypeOK' /\ ClientInv' /\ ItemInv' /\ DeletedClean' /\ Executing' = Executing /\ Signalling' = Signalling
    BY <1>1, <1>2, QuietMove DEF WorkerPoints, ExecutingPoints
  <1>4. Running' = Running /\ Woke' = Woke + 1 /\ Woke \in Nat /\ Signalling \in Nat
    BY <1>1, WorkerMove, Numbers DEF WorkerPoints, RunningPoints, WokenPoints, WorkQueueInv
  <1>5. Counts'
    BY <1>1, <1>2, <1>3, <1>4 DEF WorkQueueInv, Counts
  <1> QED
    BY <1>3, <1>5 DEF WorkQueueInv

LEMMA TestTerminatingStep == ASSUME WorkQueueInv, NEW w \in Workers, TestTerminating(w) PROVE WorkQueueInv'
  <1> DEFINE p == IF terminating THEN "noWork" ELSE "dequeue"
  <1>1. /\ wpc[w] = "woken" /\ wpc' = [wpc EXCEPT ![w] = p]
        /\ UNCHANGED <<queue, busy, current, tokens, terminating, rundown, waiting, item, cpc, seen, status, failures>>
    BY DEF TestTerminating, WGoto, shared, clients
  <1>2. p \in {"noWork", "dequeue"} /\ (~terminating => p = "dequeue")
    OBVIOUS
  <1> HIDE DEF p
  <1>3. WorkQueueTypeOK' /\ ClientInv' /\ ItemInv' /\ DeletedClean' /\ Executing' = Executing /\ Signalling' = Signalling
    BY <1>1, <1>2, QuietMove DEF WorkerPoints, ExecutingPoints, WorkQueueInv, WorkQueueTypeOK
  <1>4. Running' = Running /\ (~terminating => Woke' = Woke)
    BY <1>1, <1>2, WorkerMove DEF WorkerPoints, RunningPoints, WokenPoints, WorkQueueInv
  <1>5. Counts'
    BY <1>1, <1>3, <1>4 DEF WorkQueueInv, Counts
  <1> QED
    BY <1>3, <1>5 DEF WorkQueueInv

LEMMA NoWorkStep == ASSUME WorkQueueInv, NEW w \in Workers, NoWork(w) PROVE WorkQueueInv'
  <1>1. /\ wpc[w] = "noWork"
        /\ UNCHANGED <<queue, busy, tokens, terminating, rundown, waiting, item, cpc, seen, status, failures>>
        /\ \/ current' = current - 1 /\ wpc' = [wpc EXCEPT ![w] = "exit"]
           \/ wpc' = [wpc EXCEPT ![w] = "top"] /\ UNCHANGED current
    BY DEF NoWork, WGoto, clients
  <1>2. current \in Nat /\ tokens \in Nat /\ current = Running /\ current <= MaximumThreads /\ MaximumThreads \in Nat
    BY WorkQueueAssumption DEF WorkQueueInv, WorkQueueTypeOK, Counts
  <1>3. CASE current' = current - 1 /\ wpc' = [wpc EXCEPT ![w] = "exit"]
    <2>1. Running' = Running - 1 /\ Running >= 1 /\ Woke' = Woke
      BY <1>1, <1>3, WorkerMove DEF WorkerPoints, RunningPoints, WokenPoints, WorkQueueInv
    <2>2. current' \in Nat /\ tokens' \in Nat
      BY <1>1, <1>2, <1>3, <2>1
    <2>3. WorkQueueTypeOK' /\ ClientInv' /\ ItemInv' /\ DeletedClean' /\ Executing' = Executing /\ Signalling' = Signalling
      BY <1>1, <1>3, <2>2, QuietMove DEF WorkerPoints, ExecutingPoints
    <2>4. Counts'
      BY <1>1, <1>2, <1>3, <2>1, <2>3 DEF WorkQueueInv, Counts
    <2> QED
      BY <2>3, <2>4 DEF WorkQueueInv
  <1>4. CASE wpc' = [wpc EXCEPT ![w] = "top"] /\ UNCHANGED current
    <2>1. Running' = Running /\ Woke' = Woke
      BY <1>1, <1>4, WorkerMove DEF WorkerPoints, RunningPoints, WokenPoints, WorkQueueInv
    <2>2. WorkQueueTypeOK' /\ ClientInv' /\ ItemInv' /\ DeletedClean' /\ Executing' = Executing /\ Signalling' = Signalling
      BY <1>1, <1>2, <1>4, QuietMove DEF WorkerPoints, ExecutingPoints
    <2>3. Counts'
      BY <1>1, <1>4, <2>1, <2>2 DEF WorkQueueInv, Counts
    <2> QED
      BY <2>2, <2>3 DEF WorkQueueInv
  <1> QED
    BY <1>1, <1>3, <1>4

LEMMA ExitStep == ASSUME WorkQueueInv, NEW w \in Workers, Exit(w) PROVE WorkQueueInv'
  <1>1. /\ wpc[w] = "exit" /\ wpc' = [wpc EXCEPT ![w] = "none"]
        /\ UNCHANGED <<queue, busy, current, tokens, terminating, rundown, waiting, item, cpc, seen, status, failures>>
    BY DEF Exit, WGoto, shared, clients
  <1>2. WorkQueueTypeOK' /\ ClientInv' /\ ItemInv' /\ DeletedClean' /\ Executing' = Executing /\ Signalling' = Signalling
    BY <1>1, QuietMove DEF WorkerPoints, ExecutingPoints, WorkQueueInv, WorkQueueTypeOK
  <1>3. Running' = Running /\ Woke' = Woke
    BY <1>1, WorkerMove DEF WorkerPoints, RunningPoints, WokenPoints, WorkQueueInv
  <1>4. Counts'
    BY <1>1, <1>2, <1>3 DEF WorkQueueInv, Counts
  <1> QED
    BY <1>2, <1>4 DEF WorkQueueInv

LEMMA DequeueStep == ASSUME WorkQueueInv, NEW w \in Workers, Dequeue(w) PROVE WorkQueueInv'
  <1> USE DEF WorkQueueInv
  <1> DEFINE i == Head(queue)
  <1>1. /\ wpc[w] = "dequeue" /\ queue # <<>> /\ queue' = Tail(queue) /\ item' = [item EXCEPT ![w] = i]
        /\ status' = [status EXCEPT ![i] = "running"] /\ wpc' = [wpc EXCEPT ![w] = "run"]
        /\ UNCHANGED <<busy, current, tokens, terminating, rundown, seen, failures>>
        /\ \/ \E c \in waiting : waiting' = waiting \ {c} /\ cpc' = [cpc EXCEPT ![c] = "rewait"]
           \/ UNCHANGED <<waiting, cpc>>
    BY DEF Dequeue, WGoto, CGoto
  <1>2. /\ queue \in Seq(Items) /\ i \in Items /\ queue' \in Seq(Items) /\ Len(queue') = Len(queue) - 1 /\ Len(queue) \in Nat
        /\ i = queue[1] /\ \A k \in 1..(Len(queue) - 1) : queue'[k] = queue[k + 1]
    <2>1. queue \in Seq(Items)
      BY DEF WorkQueueTypeOK
    <2> QED
      BY <1>1, <2>1
  <1>3. DOMAIN queue = 1..Len(queue) /\ DOMAIN queue' = 1..(Len(queue) - 1)
    BY <1>2
  <1> HIDE DEF i
  <1>4. /\ wpc' \in [Workers -> WorkerPoints] /\ wpc'[w] = "run" /\ (\A v \in Workers : v # w => wpc'[v] = wpc[v])
        /\ Running' = Running /\ Woke' = Woke - 1 /\ Executing' = Executing + 1
    BY <1>1, WorkerMove DEF WorkerPoints, RunningPoints, WokenPoints, ExecutingPoints
  <1>5. waiting' \subseteq Clients /\ cpc' \in [Clients -> ClientPoints] /\ Signalling' = Signalling /\ ClientInv'
        /\ \A c \in Clients : cpc'[c] = "deleted" => cpc[c] = "deleted"
    <2>1. CASE UNCHANGED <<waiting, cpc>>
      BY <1>1, <2>1 DEF WorkQueueTypeOK, Signalling, ClientInv
    <2>2. CASE \E c \in waiting : waiting' = waiting \ {c} /\ cpc' = [cpc EXCEPT ![c] = "rewait"]
      <3>1. PICK c \in waiting : waiting' = waiting \ {c} /\ cpc' = [cpc EXCEPT ![c] = "rewait"]
        BY <2>2
      <3>2. c \in Clients /\ cpc[c] = "blocked" /\ waiting \subseteq Clients
        BY DEF ClientInv
      <3>3. /\ cpc' \in [Clients -> ClientPoints] /\ cpc'[c] = "rewait" /\ (\A d \in Clients : d # c => cpc'[d] = cpc[d])
            /\ Signalling' = Signalling
        BY <3>1, <3>2, ClientMove DEF ClientPoints
      <3>4. waiting' = {d \in Clients : cpc'[d] = "blocked"}
        BY <3>1, <3>3 DEF ClientInv
      <3>5. ~terminating
        BY <3>2 DEF ClientInv, Deleting
      <3>6. ClientInv'
        BY <1>1, <3>3, <3>4, <3>5 DEF ClientInv, Deleting
      <3> QED
        BY <3>1, <3>2, <3>3, <3>6
    <2> QED
      BY <1>1, <2>1, <2>2
  <1>6. Counts'
    <2>1. Woke \in Nat /\ Signalling \in Nat /\ Executing \in Nat /\ tokens \in Nat /\ busy \in Nat
      BY Numbers DEF WorkQueueTypeOK
    <2>2. ~terminating => Len(queue') = tokens' + Woke' + Signalling'
      <3>1. ~terminating => Len(queue) = tokens + Woke + Signalling
        BY DEF Counts
      <3>2. Len(queue') = Len(queue) - 1 /\ Len(queue) \in Nat
        BY <1>2
      <3>3. tokens' = tokens /\ Woke' = Woke - 1 /\ Signalling' = Signalling
        BY <1>1, <1>4, <1>5
      <3> QED
        BY <2>1, <3>1, <3>2, <3>3
    <2>3. busy' = Len(queue') + Executing'
      <3>1. busy = Len(queue) + Executing
        BY DEF Counts
      <3> QED
        BY <1>1, <1>2, <1>4, <2>1, <3>1
    <2> QED
      BY <1>1, <1>4, <2>2, <2>3 DEF Counts
  <1>7. status' \in [Items -> {"new", "queued", "running", "executed", "freed"}] /\ item' \in [Workers -> Items \cup {None}]
        /\ status'[i] = "running" /\ (\A j \in Items : j # i => status'[j] = status[j])
        /\ item'[w] = i /\ \A v \in Workers : v # w => item'[v] = item[v]
    BY <1>1, <1>2 DEF WorkQueueTypeOK
  <1>8. WorkQueueTypeOK'
    BY <1>1, <1>2, <1>4, <1>5, <1>7 DEF WorkQueueTypeOK
  <1>9. DeletedClean'
    BY <1>1, <1>5, NotDeleted DEF DeletedClean
  <1>10. ItemInv'
    <2>1. ASSUME NEW j \in Items, status'[j] = "queued" PROVE \E k \in DOMAIN queue' : queue'[k] = j
      <3>1. j # i /\ status[j] = "queued"
        BY <1>7, <2>1
      <3>2. PICK k \in DOMAIN queue : queue[k] = j
        BY <3>1 DEF ItemInv
      <3>3. k # 1 /\ k \in 1..Len(queue)
        BY <1>2, <1>3, <3>1, <3>2
      <3>4. k - 1 \in DOMAIN queue' /\ queue'[k - 1] = j
        BY <1>2, <1>3, <3>2, <3>3
      <3> QED
        BY <3>4
    <2>2. ASSUME NEW j \in Items, status'[j] \in {"running", "executed"}
          PROVE  \E v \in Workers : wpc'[v] \in ExecutingPoints /\ item'[v] = j
      <3>1. CASE j = i
        BY <1>4, <1>7, <3>1 DEF ExecutingPoints
      <3>2. CASE j # i
        <4>1. PICK v \in Workers : wpc[v] \in ExecutingPoints /\ item[v] = j
          BY <1>7, <2>2, <3>2 DEF ItemInv
        <4>2. v # w
          BY <1>1, <4>1 DEF ExecutingPoints
        <4> QED
          BY <1>4, <1>7, <4>1, <4>2
      <3> QED
        BY <3>1, <3>2
    <2>3. \A v \in Workers : wpc'[v] \in ExecutingPoints => item'[v] \in Items
      BY <1>2, <1>4, <1>7 DEF ItemInv
    <2> QED
      BY <2>1, <2>2, <2>3 DEF ItemInv
  <1> QED
    BY <1>5, <1>6, <1>8, <1>9, <1>10

\* A worker goes on with its item.
LEMMA ExecuteStep == ASSUME WorkQueueInv, NEW w \in Workers, Execute(w) PROVE WorkQueueInv'
  <1> USE DEF WorkQueueInv
  <1> DEFINE i == item[w]
  <1>1. /\ wpc[w] = "run" /\ status' = [status EXCEPT ![i] = "executed"] /\ wpc' = [wpc EXCEPT ![w] = "executed"]
        /\ UNCHANGED <<queue, busy, current, tokens, terminating, rundown, waiting, item, cpc, seen, failures>>
    BY DEF Execute, WGoto, shared, clients
  <1>2. /\ wpc' \in [Workers -> WorkerPoints] /\ wpc'[w] = "executed" /\ (\A v \in Workers : v # w => wpc'[v] = wpc[v])
        /\ Running' = Running /\ Woke' = Woke /\ Executing' = Executing
    BY <1>1, WorkerMove DEF WorkerPoints, RunningPoints, WokenPoints, ExecutingPoints
  <1>3. i \in Items /\ wpc[w] \in ExecutingPoints /\ wpc'[w] \in ExecutingPoints
    BY <1>1, <1>2 DEF ItemInv, ExecutingPoints
  <1> HIDE DEF i
  <1>4. status' \in [Items -> {"new", "queued", "running", "executed", "freed"}] /\ status'[i] = "executed"
        /\ (\A j \in Items : j # i => status'[j] = status[j])
    BY <1>1, <1>3 DEF WorkQueueTypeOK
  <1>5. WorkQueueTypeOK'
    BY <1>1, <1>2, <1>4 DEF WorkQueueTypeOK
  <1>6. Counts'
    BY <1>1, <1>2 DEF Counts, Signalling
  <1>7. ClientInv' /\ DeletedClean'
    BY <1>1, NotDeleted DEF ClientInv, DeletedClean
  <1>8. ItemInv'
    <2>1. \A v \in Workers : wpc'[v] \in ExecutingPoints <=> wpc[v] \in ExecutingPoints
      BY <1>2, <1>3
    <2>2. \A j \in Items : status'[j] = "queued" => status[j] = "queued"
      BY <1>4
    <2>3. ASSUME NEW j \in Items, status'[j] \in {"running", "executed"}
          PROVE  \E v \in Workers : wpc'[v] \in ExecutingPoints /\ item'[v] = j
      <3>1. CASE j = i
        BY <1>1, <1>3, <3>1 DEF i
      <3>2. CASE j # i
        BY <1>1, <1>4, <2>1, <2>3, <3>2 DEF ItemInv
      <3> QED
        BY <3>1, <3>2
    <2> QED
      BY <1>1, <2>1, <2>2, <2>3 DEF ItemInv
  <1> QED
    BY <1>5, <1>6, <1>7, <1>8

LEMMA FinishStep == ASSUME WorkQueueInv, NEW w \in Workers, Finish(w) PROVE WorkQueueInv'
  <1> USE DEF WorkQueueInv
  <1> DEFINE i == item[w]
  <1>1. /\ wpc[w] = "executed" /\ status' = [status EXCEPT ![i] = "freed"] /\ wpc' = [wpc EXCEPT ![w] = "top"]
        /\ item' = [item EXCEPT ![w] = None] /\ busy' = busy - 1
        /\ UNCHANGED <<queue, current, tokens, terminating, rundown, waiting, cpc, seen, failures>>
    BY DEF Finish, WGoto, clients, Decremented
  <1>2. /\ wpc' \in [Workers -> WorkerPoints] /\ wpc'[w] = "top" /\ (\A v \in Workers : v # w => wpc'[v] = wpc[v])
        /\ Running' = Running /\ Woke' = Woke /\ Executing' = Executing - 1 /\ Executing >= 1
    BY <1>1, WorkerMove DEF WorkerPoints, RunningPoints, WokenPoints, ExecutingPoints
  <1>3. i \in Items
    BY <1>1 DEF ItemInv, ExecutingPoints
  <1>4. /\ status' \in [Items -> {"new", "queued", "running", "executed", "freed"}] /\ status'[i] = "freed"
        /\ (\A j \in Items : j # i => status'[j] = status[j])
        /\ item' \in [Workers -> Items \cup {None}] /\ \A v \in Workers : v # w => item'[v] = item[v]
    BY <1>1, <1>3 DEF WorkQueueTypeOK
  <1>5. busy' \in Nat /\ Counts'
    <2>1. Len(queue) \in Nat /\ Executing \in Nat /\ busy = Len(queue) + Executing
      BY Numbers DEF WorkQueueTypeOK, Counts
    <2>2. busy' \in Nat /\ busy' = Len(queue) + Executing'
      BY <1>1, <1>2, <2>1
    <2> QED
      BY <1>1, <1>2, <2>2 DEF Counts, Signalling
  <1>6. WorkQueueTypeOK'
    BY <1>1, <1>2, <1>4, <1>5 DEF WorkQueueTypeOK
  <1>7. ClientInv' /\ DeletedClean'
    BY <1>1, NotDeleted DEF ClientInv, DeletedClean
  <1>8. ItemInv'
    <2>1. \A j \in Items : status'[j] = "queued" => status[j] = "queued"
      BY <1>4
    <2>2. ASSUME NEW j \in Items, status'[j] \in {"running", "executed"}
          PROVE  \E v \in Workers : wpc'[v] \in ExecutingPoints /\ item'[v] = j
      <3>1. j # i
        BY <1>4, <2>2
      <3>2. PICK v \in Workers : wpc[v] \in ExecutingPoints /\ item[v] = j
        BY <1>4, <2>2, <3>1 DEF ItemInv
      <3>3. v # w
        BY <3>1, <3>2
      <3> QED
        BY <1>2, <1>4, <3>2, <3>3
    <2>3. \A v \in Workers : wpc'[v] \in ExecutingPoints => item'[v] \in Items
      BY <1>2, <1>4 DEF ItemInv, ExecutingPoints
    <2> QED
      BY <1>1, <2>1, <2>2, <2>3 DEF ItemInv
  <1> QED
    BY <1>5, <1>6, <1>7, <1>8
-----------------------------------------------------------------------------
(* Clients *)

\* A client that changes neither items nor workers, and does not block.
LEMMA ClientQuiet ==
    ASSUME WorkQueueInv, NEW c \in Clients, NEW p \in ClientPoints, cpc' = [cpc EXCEPT ![c] = p],
           cpc[c] # "blocked", p # "blocked", p # "deleted",
           IF terminating' THEN p \in Deleting /\ \A d \in Clients : d # c => cpc[d] \in Deleting
           ELSE ~terminating /\ (p = "idle" \/ p \notin Deleting),
           UNCHANGED <<queue, busy, current, waiting, wpc, item, status>>,
           tokens' \in Nat, rundown' \in BOOLEAN, terminating' \in BOOLEAN, seen' \in [Clients -> Nat], failures' \in Nat
    PROVE  /\ WorkQueueTypeOK' /\ ClientInv' /\ ItemInv' /\ DeletedClean'
           /\ Executing' = Executing /\ Running' = Running /\ Woke' = Woke
  <1> USE DEF WorkQueueInv
  <1>1. cpc' \in [Clients -> ClientPoints] /\ cpc'[c] = p /\ (\A d \in Clients : d # c => cpc'[d] = cpc[d])
    BY ClientMove
  <1>2. WorkQueueTypeOK'
    BY <1>1 DEF WorkQueueTypeOK
  <1>3. waiting' = {d \in Clients : cpc'[d] = "blocked"}
    BY <1>1 DEF ClientInv
  <1>4. \A d \in Clients : IF terminating' THEN cpc'[d] \in Deleting ELSE cpc'[d] = "idle" \/ cpc'[d] \notin Deleting
    BY <1>1 DEF ClientInv
  <1>5. ClientInv'
    BY <1>3, <1>4 DEF ClientInv
  <1>6. ItemInv'
    BY DEF ItemInv
  <1>7. DeletedClean'
    BY <1>1 DEF DeletedClean, Live
  <1>8. Executing' = Executing /\ Running' = Running /\ Woke' = Woke
    BY DEF Executing, Running, Woke
  <1> QED
    BY <1>2, <1>5, <1>6, <1>7, <1>8

LEMMA Locals == ASSUME WorkQueueInv PROVE /\ tokens \in Nat /\ rundown \in BOOLEAN /\ terminating \in BOOLEAN
                                  /\ seen \in [Clients -> Nat] /\ failures \in Nat /\ busy \in Nat /\ current \in Nat
                                  /\ Len(queue) \in Nat
  BY DEF WorkQueueInv, WorkQueueTypeOK

\* A client that is in a call of its own.
LEMMA NotTerminating == ASSUME WorkQueueInv, NEW c \in Clients, cpc[c] \notin Deleting PROVE ~terminating
  BY DEF WorkQueueInv, ClientInv

\* A client that deletes the queue.
LEMMA Terminating ==
    ASSUME WorkQueueInv, NEW c \in Clients, cpc[c] \in Deleting, cpc[c] # "idle"
    PROVE  terminating /\ \A d \in Clients : cpc[d] \in Deleting
  BY DEF WorkQueueInv, ClientInv, WorkQueueTypeOK

LEMMA SignalStep == ASSUME WorkQueueInv, NEW c \in Clients, Signal(c) PROVE WorkQueueInv'
  <1>1. /\ cpc[c] = "signal" /\ tokens' = tokens + 1 /\ cpc' = [cpc EXCEPT ![c] = "readBusy"]
        /\ UNCHANGED <<queue, busy, current, terminating, rundown, waiting, wpc, item, seen, status, failures>>
    BY DEF Signal, CGoto, workers
  <1>2. ~terminating /\ tokens \in Nat /\ tokens' \in Nat
    BY <1>1, NotTerminating, Locals DEF Deleting
  <1>3. /\ WorkQueueTypeOK' /\ ClientInv' /\ ItemInv' /\ DeletedClean' /\ Executing' = Executing /\ Running' = Running /\ Woke' = Woke
    BY <1>1, <1>2, ClientQuiet, Locals DEF ClientPoints, Deleting
  <1>4. Signalling' = Signalling - 1 /\ Signalling \in Nat /\ Woke \in Nat
    BY <1>1, ClientMove, Numbers DEF ClientPoints, WorkQueueInv
  <1>5. Counts'
    <2>1. Len(queue) = tokens + Woke + Signalling
      BY <1>2 DEF WorkQueueInv, Counts
    <2>2. Len(queue') = tokens' + Woke' + Signalling'
      BY <1>1, <1>2, <1>3, <1>4, <2>1
    <2> QED
      BY <1>1, <1>3, <2>2 DEF WorkQueueInv, Counts
  <1> QED
    BY <1>3, <1>5 DEF WorkQueueInv

\* The other steps of the clients' calls.
LEMMA CallStep ==
    ASSUME WorkQueueInv, NEW c \in Clients,
           ReadBusyCount(c) \/ CheckThreads(c) \/ CreateFails(c) \/ WaitCall(c) \/ WaitReturn(c)
    PROVE  WorkQueueInv'
  <1>1. UNCHANGED <<queue, busy, current, tokens, terminating, rundown, waiting, wpc, item, status>>
    BY DEF ReadBusyCount, CheckThreads, CreateFails, WaitCall, WaitReturn, workers, shared
  <1>2. /\ cpc[c] \in {"readBusy", "check", "create", "idle", "waited"} /\ ~terminating
        /\ \E p \in {"check", "create", "idle", "rewait"} : cpc' = [cpc EXCEPT ![c] = p]
    <2>1. /\ cpc[c] \in {"readBusy", "check", "create", "idle", "waited"} /\ (cpc[c] = "idle" => ~terminating)
          /\ \E p \in {"check", "create", "idle", "rewait"} : cpc' = [cpc EXCEPT ![c] = p]
      BY DEF ReadBusyCount, CheckThreads, CreateFails, WaitCall, WaitReturn, CGoto
    <2> QED
      BY <2>1, NotTerminating DEF Deleting
  <1>3. seen' \in [Clients -> Nat] /\ failures' \in Nat
    BY Locals DEF ReadBusyCount, CheckThreads, CreateFails, WaitCall, WaitReturn, workers, shared
  <1>4. PICK p \in {"check", "create", "idle", "rewait"} : cpc' = [cpc EXCEPT ![c] = p]
    BY <1>2
  <1>5. /\ WorkQueueTypeOK' /\ ClientInv' /\ ItemInv' /\ DeletedClean' /\ Executing' = Executing /\ Running' = Running /\ Woke' = Woke
    BY <1>1, <1>2, <1>3, <1>4, ClientQuiet, Locals DEF ClientPoints, Deleting
  <1>6. Signalling' = Signalling
    BY <1>2, <1>4, ClientMove DEF ClientPoints, WorkQueueInv
  <1>7. Counts'
    BY <1>1, <1>5, <1>6 DEF WorkQueueInv, Counts
  <1> QED
    BY <1>5, <1>7 DEF WorkQueueInv

LEMMA WaitTestStep == ASSUME WorkQueueInv, NEW c \in Clients, WaitTest(c) PROVE WorkQueueInv'
  <1> USE DEF WorkQueueInv
  <1>1. /\ cpc[c] = "rewait"
        /\ UNCHANGED <<queue, busy, current, tokens, terminating, rundown, wpc, item, seen, status, failures>>
        /\ \/ cpc' = [cpc EXCEPT ![c] = "waited"] /\ UNCHANGED waiting
           \/ cpc' = [cpc EXCEPT ![c] = "blocked"] /\ waiting' = waiting \cup {c}
    BY DEF WaitTest, CGoto, workers
  <1>2. ~terminating
    BY <1>1, NotTerminating DEF Deleting
  <1>3. PICK p \in {"waited", "blocked"} : cpc' = [cpc EXCEPT ![c] = p]
    BY <1>1
  <1>4. /\ cpc' \in [Clients -> ClientPoints] /\ cpc'[c] = p /\ (\A d \in Clients : d # c => cpc'[d] = cpc[d])
        /\ Signalling' = Signalling
    BY <1>1, <1>3, ClientMove DEF ClientPoints
  <1>5. waiting' = {d \in Clients : cpc'[d] = "blocked"}
    <2>1. waiting = {d \in Clients : cpc[d] = "blocked"}
      BY DEF ClientInv
    <2>2. CASE cpc' = [cpc EXCEPT ![c] = "waited"] /\ UNCHANGED waiting
      <3>1. cpc'[c] = "waited"
        BY <2>2 DEF WorkQueueTypeOK
      <3> QED
        BY <1>1, <1>4, <2>1, <2>2, <3>1
    <2>3. CASE cpc' = [cpc EXCEPT ![c] = "blocked"] /\ waiting' = waiting \cup {c}
      <3>1. cpc'[c] = "blocked"
        BY <2>3 DEF WorkQueueTypeOK
      <3> QED
        BY <1>1, <1>4, <2>1, <2>3, <3>1
    <2> QED
      BY <1>1, <2>2, <2>3
  <1>6. ClientInv'
    BY <1>1, <1>2, <1>4, <1>5 DEF ClientInv, Deleting
  <1>7. WorkQueueTypeOK'
    <2>1. waiting' \subseteq Clients
      BY <1>5
    <2> QED
      BY <1>1, <1>4, <2>1 DEF WorkQueueTypeOK
  <1>8. ItemInv' /\ Counts'
    BY <1>1, <1>4 DEF ItemInv, Counts, Executing, Running, Woke
  <1>9. DeletedClean'
    BY <1>1, <1>4 DEF DeletedClean, Live
  <1> QED
    BY <1>6, <1>7, <1>8, <1>9

LEMMA DeleteStep ==
    ASSUME WorkQueueInv, NEW c \in Clients, DeleteCall(c) \/ DeleteSignal(c) \/ DeleteRundown(c) PROVE WorkQueueInv'
  <1>1. UNCHANGED <<queue, busy, current, waiting, wpc, item, seen, status, failures>>
    BY DEF DeleteCall, DeleteSignal, DeleteRundown, workers
  <1>2. tokens' \in Nat /\ rundown' \in BOOLEAN /\ terminating' = TRUE /\ \A d \in Clients : cpc[d] \in Deleting
    <2>1. CASE DeleteCall(c)
      BY <2>1, Locals DEF DeleteCall, Deleting
    <2>2. CASE DeleteSignal(c)
      <3>1. terminating /\ \A d \in Clients : cpc[d] \in Deleting
        BY <2>2, Terminating DEF DeleteSignal, Deleting
      <3> QED
        BY <2>2, <3>1, Locals DEF DeleteSignal, WakeCount
    <2>3. CASE DeleteRundown(c)
      <3>1. terminating /\ \A d \in Clients : cpc[d] \in Deleting
        BY <2>3, Terminating DEF DeleteRundown, Deleting
      <3> QED
        BY <2>3, <3>1, Locals DEF DeleteRundown
    <2> QED
      BY <2>1, <2>2, <2>3
  <1>3. PICK p \in {"delSignal", "delRundown", "delWait"} : cpc' = [cpc EXCEPT ![c] = p]
    BY DEF DeleteCall, DeleteSignal, DeleteRundown, CGoto
  <1>4. /\ WorkQueueTypeOK' /\ ClientInv' /\ ItemInv' /\ DeletedClean' /\ Executing' = Executing /\ Running' = Running
    BY <1>1, <1>2, <1>3, ClientQuiet, Locals DEF ClientPoints, Deleting
  <1>5. Counts'
    BY <1>1, <1>2, <1>4 DEF WorkQueueInv, Counts
  <1> QED
    BY <1>4, <1>5 DEF WorkQueueInv

LEMMA EnqueueStep == ASSUME WorkQueueInv, NEW c \in Clients, Enqueue(c) PROVE WorkQueueInv'
  <1> USE DEF WorkQueueInv
  <1> DEFINE i == CHOOSE i \in Items : status[i] = "new"
  <1>1. /\ cpc[c] = "idle" /\ ~terminating /\ queue' = Append(queue, i) /\ status' = [status EXCEPT ![i] = "queued"]
        /\ busy' = busy + 1 /\ cpc' = [cpc EXCEPT ![c] = "signal"] /\ i \in Items
        /\ UNCHANGED <<current, tokens, terminating, rundown, waiting, wpc, item, seen, failures>>
    BY DEF Enqueue, CGoto, workers
  <1> HIDE DEF i
  <1>2. /\ queue' \in Seq(Items) /\ Len(queue') = Len(queue) + 1 /\ Len(queue) \in Nat /\ queue'[Len(queue) + 1] = i
        /\ \A k \in 1..Len(queue) : queue'[k] = queue[k]
    <2>1. queue \in Seq(Items)
      BY DEF WorkQueueTypeOK
    <2> QED
      BY <1>1, <2>1
  <1>3. DOMAIN queue = 1..Len(queue) /\ DOMAIN queue' = 1..(Len(queue) + 1)
    <2>1. queue \in Seq(Items)
      BY DEF WorkQueueTypeOK
    <2> QED
      BY <1>2, <2>1
  <1>4. /\ cpc' \in [Clients -> ClientPoints] /\ cpc'[c] = "signal" /\ (\A d \in Clients : d # c => cpc'[d] = cpc[d])
        /\ Signalling' = Signalling + 1
    BY <1>1, ClientMove DEF ClientPoints
  <1>5. Executing' = Executing /\ Running' = Running /\ Woke' = Woke
    BY <1>1 DEF Executing, Running, Woke
  <1>6. Counts'
    <2>1. Woke \in Nat /\ Signalling \in Nat /\ Executing \in Nat /\ tokens \in Nat /\ busy \in Nat
      BY Numbers, Locals
    <2>2. Len(queue) = tokens + Woke + Signalling /\ busy = Len(queue) + Executing
      BY <1>1 DEF Counts
    <2>3. Len(queue') = tokens' + Woke' + Signalling' /\ busy' = Len(queue') + Executing'
      BY <1>1, <1>2, <1>4, <1>5, <2>1, <2>2
    <2> QED
      BY <1>1, <1>5, <2>3 DEF Counts
  <1>7. /\ status' \in [Items -> {"new", "queued", "running", "executed", "freed"}]
        /\ status'[i] = "queued" /\ \A j \in Items : j # i => status'[j] = status[j]
    BY <1>1 DEF WorkQueueTypeOK
  <1>8. WorkQueueTypeOK'
    <2>1. busy' \in Nat
      BY <1>1, Locals
    <2> QED
      BY <1>1, <1>2, <1>4, <1>7, <2>1 DEF WorkQueueTypeOK
  <1>9. ClientInv'
    BY <1>1, <1>4 DEF ClientInv, Deleting
  <1>10. DeletedClean'
    BY <1>1, <1>4, <1>9 DEF DeletedClean, ClientInv, Deleting
  <1>11. ItemInv'
    <2>1. ASSUME NEW j \in Items, status'[j] = "queued" PROVE \E k \in DOMAIN queue' : queue'[k] = j
      <3>1. CASE j = i
        <4>1. Len(queue) + 1 \in DOMAIN queue'
          BY <1>2, <1>3
        <4> QED
          BY <1>2, <3>1, <4>1
      <3>2. CASE j # i
        <4>1. PICK k \in DOMAIN queue : queue[k] = j
          BY <1>7, <2>1, <3>2 DEF ItemInv
        <4>2. k \in DOMAIN queue' /\ queue'[k] = j
          BY <1>2, <1>3, <4>1
        <4> QED
          BY <4>2
      <3> QED
        BY <3>1, <3>2
    <2>2. \A j \in Items : status'[j] \in {"running", "executed"} => status[j] = status'[j]
      BY <1>7
    <2> QED
      BY <1>1, <2>1, <2>2 DEF ItemInv
  <1> QED
    BY <1>6, <1>8, <1>9, <1>10, <1>11

LEMMA CreateThreadStep == ASSUME WorkQueueInv, NEW c \in Clients, CreateThread(c) PROVE WorkQueueInv'
  <1> USE DEF WorkQueueInv
  <1> DEFINE w == CHOOSE w \in Workers : wpc[w] = "none"
  <1>1. /\ cpc[c] = "create" /\ current < MaximumThreads /\ w \in Workers /\ wpc[w] = "none"
        /\ wpc' = [wpc EXCEPT ![w] = "top"] /\ current' = current + 1 /\ cpc' = [cpc EXCEPT ![c] = "idle"]
        /\ UNCHANGED <<queue, busy, tokens, terminating, rundown, waiting, item, seen, status, failures>>
    BY DEF CreateThread, BelowMaximum, WGoto, CGoto
  <1> HIDE DEF w
  <1>2. ~terminating
    BY <1>1, NotTerminating DEF Deleting
  <1>3. /\ cpc' \in [Clients -> ClientPoints] /\ cpc'[c] = "idle" /\ (\A d \in Clients : d # c => cpc'[d] = cpc[d])
        /\ Signalling' = Signalling
    BY <1>1, ClientMove DEF ClientPoints
  <1>4. /\ wpc' \in [Workers -> WorkerPoints] /\ wpc'[w] = "top" /\ (\A v \in Workers : v # w => wpc'[v] = wpc[v])
        /\ Running' = Running + 1 /\ Woke' = Woke /\ Executing' = Executing
    BY <1>1, WorkerMove DEF WorkerPoints, RunningPoints, WokenPoints, ExecutingPoints
  <1>5. current' \in Nat /\ current' <= MaximumThreads
    BY <1>1, Locals, WorkQueueAssumption
  <1>6. WorkQueueTypeOK'
    BY <1>1, <1>3, <1>4, <1>5 DEF WorkQueueTypeOK
  <1>7. Counts'
    <2>1. current' = Running'
      BY <1>1, <1>4 DEF Counts
    <2> QED
      BY <1>1, <1>3, <1>4, <1>5, <2>1 DEF Counts
  <1>8. ClientInv'
    BY <1>1, <1>2, <1>3 DEF ClientInv
  <1>9. DeletedClean'
    BY <1>1, <1>2, <1>8 DEF DeletedClean, ClientInv, Deleting
  <1>10. ItemInv'
    <2>1. \A v \in Workers : wpc'[v] \in ExecutingPoints <=> wpc[v] \in ExecutingPoints
      BY <1>1, <1>4 DEF ExecutingPoints
    <2> QED
      BY <1>1, <2>1 DEF ItemInv
  <1> QED
    BY <1>6, <1>7, <1>8, <1>9, <1>10

LEMMA DeleteFreeStep == ASSUME WorkQueueInv, NEW c \in Clients, DeleteFree(c) PROVE WorkQueueInv'
  <1> USE DEF WorkQueueInv
  <1>1. /\ cpc[c] = "delWait" /\ Live = {} /\ cpc' = [cpc EXCEPT ![c] = "deleted"]
        /\ status' = [i \in Items |-> IF \E k \in DOMAIN queue : queue[k] = i THEN "freed" ELSE status[i]]
        /\ UNCHANGED <<queue, busy, current, tokens, terminating, rundown, waiting, wpc, item, seen, failures>>
    BY DEF DeleteFree, RunDown, CGoto, workers, shared
  <1>2. terminating /\ \A d \in Clients : cpc[d] \in Deleting
    BY <1>1, Terminating DEF Deleting
  <1>3. /\ cpc' \in [Clients -> ClientPoints] /\ cpc'[c] = "deleted" /\ (\A d \in Clients : d # c => cpc'[d] = cpc[d])
    BY <1>1, ClientMove DEF ClientPoints
  <1>4. \A w \in Workers : wpc[w] = "none"
    BY <1>1 DEF Live
  <1>5. \A i \in Items : status'[i] \in {"new", "freed"}
    <2>1. \A i \in Items : status[i] \in {"new", "queued", "running", "executed", "freed"}
      BY DEF WorkQueueTypeOK
    <2>2. \A i \in Items : status[i] \notin {"running", "executed"}
      BY <1>4 DEF ItemInv, ExecutingPoints
    <2> QED
      BY <1>1, <2>1, <2>2 DEF ItemInv
  <1>6. status' \in [Items -> {"new", "queued", "running", "executed", "freed"}]
    BY <1>1, <1>5
  <1>7. WorkQueueTypeOK'
    BY <1>1, <1>3, <1>6 DEF WorkQueueTypeOK
  <1>8. ClientInv'
    BY <1>1, <1>2, <1>3 DEF ClientInv, Deleting
  <1>9. ItemInv'
    BY <1>1, <1>5 DEF ItemInv
  <1>10. DeletedClean'
    BY <1>1, <1>5 DEF DeletedClean, Live
  <1>11. Counts'
    BY <1>1, <1>2 DEF Counts, Executing, Running
  <1> QED
    BY <1>7, <1>8, <1>9, <1>10, <1>11
-----------------------------------------------------------------------------
(* The specification *)

LEMMA InitStep == ASSUME WorkQueueInit PROVE WorkQueueInv
  <1>1. WorkQueueTypeOK
    <2>1. queue \in Seq(Items) /\ seen \in [Clients -> Nat] /\ item \in [Workers -> Items \cup {None}]
      BY DEF WorkQueueInit
    <2>2. wpc \in [Workers -> WorkerPoints] /\ cpc \in [Clients -> ClientPoints]
      BY DEF WorkQueueInit, WorkerPoints, ClientPoints
    <2>3. status \in [Items -> {"new", "queued", "running", "executed", "freed"}]
      BY DEF WorkQueueInit
    <2> QED
      BY <2>1, <2>2, <2>3 DEF WorkQueueInit, WorkQueueTypeOK
  <1>2. ASSUME NEW D, NEW f, NEW P, \A x \in D : f[x] \notin P PROVE NumberAt(f, D, P) = 0
    <2>1. {x \in D : f[x] \in P} = {}
      BY <1>2
    <2> QED
      BY <2>1, FS_EmptySet DEF NumberAt
  <1>3. (\A w \in Workers : wpc[w] = "none") /\ \A c \in Clients : cpc[c] = "idle"
    BY DEF WorkQueueInit
  <1>4. Running = 0 /\ Woke = 0 /\ Executing = 0 /\ Signalling = 0
    BY <1>2, <1>3 DEF Running, Woke, Executing, Signalling, RunningPoints, WokenPoints, ExecutingPoints
  <1>5. Counts
    BY <1>4, WorkQueueAssumption DEF WorkQueueInit, Counts
  <1>6. ClientInv /\ DeletedClean
    BY <1>3 DEF WorkQueueInit, ClientInv, DeletedClean
  <1>7. ItemInv
    BY <1>3 DEF WorkQueueInit, ItemInv, ExecutingPoints
  <1> QED
    BY <1>1, <1>5, <1>6, <1>7 DEF WorkQueueInv

LEMMA Unchanged == ASSUME WorkQueueInv, UNCHANGED workQueueVars PROVE WorkQueueInv'
  <1>1. UNCHANGED <<queue, busy, current, tokens, terminating, rundown, waiting, wpc, item, cpc, seen, status, failures>>
    BY DEF workQueueVars, shared, workers, clients
  <1>2. WorkQueueTypeOK'
    BY <1>1 DEF WorkQueueInv, WorkQueueTypeOK
  <1>3. Counts'
    BY <1>1 DEF WorkQueueInv, Counts, Running, Woke, Executing, Signalling
  <1>4. ClientInv' /\ ItemInv' /\ DeletedClean'
    BY <1>1 DEF WorkQueueInv, ClientInv, ItemInv, DeletedClean, Live
  <1> QED
    BY <1>2, <1>3, <1>4 DEF WorkQueueInv

\* The inductive invariant of the work queue: its counters, who is inside while it is deleted,
\* and where every item is.
THEOREM WorkQueueInvariance == WorkQueueSpec => []WorkQueueInv
  <1>1. WorkQueueInit => WorkQueueInv
    BY InitStep
  <1>2. WorkQueueInv /\ [WorkQueueNext]_workQueueVars => WorkQueueInv'
    <2> SUFFICES ASSUME WorkQueueInv, [WorkQueueNext]_workQueueVars PROVE WorkQueueInv'
      OBVIOUS
    <2>1. ASSUME NEW w \in Workers, WorkerGoesOn(w) \/ Timeout(w) PROVE WorkQueueInv'
      BY <2>1, WorkerTopStep, WokenStep, TestTerminatingStep, DequeueStep, ExecuteStep, FinishStep, NoWorkStep, ExitStep
         DEF WorkerGoesOn
    <2>2. ASSUME NEW c \in Clients, ClientGoesOn(c) \/ Enqueue(c) \/ WaitCall(c) \/ DeleteCall(c) PROVE WorkQueueInv'
      BY <2>2, SignalStep, CallStep, CreateThreadStep, WaitTestStep, DeleteStep, DeleteFreeStep, EnqueueStep
         DEF ClientGoesOn
    <2>3. CASE UNCHANGED workQueueVars
      BY <2>3, Unchanged
    <2> QED
      BY <2>1, <2>2, <2>3 DEF WorkQueueNext
  <1> QED
    BY <1>1, <1>2, PTL DEF WorkQueueSpec

LEMMA CountsAgree == ASSUME WorkQueueInv PROVE CountersAgree
  <1>1. {w \in Live : wpc[w] # "exit"} = {w \in Workers : wpc[w] \in RunningPoints}
    BY DEF WorkQueueInv, WorkQueueTypeOK, Live, RunningPoints
  <1>2. ThreadsCounted
    BY <1>1 DEF WorkQueueInv, Counts, ThreadsCounted, Running, NumberAt
  <1>3. {c \in Clients : cpc[c] = "signal"} = {c \in Clients : cpc[c] \in {"signal"}}
    OBVIOUS
  <1>4. TokenPerItem
    BY <1>3 DEF WorkQueueInv, Counts, TokenPerItem, Woke, Signalling, NumberAt, WokenPoints
  <1>5. BusyCounted
    BY DEF WorkQueueInv, Counts, BusyCounted, Executing, NumberAt, ExecutingPoints
  <1> QED
    BY <1>2, <1>4, <1>5 DEF WorkQueueInv, CountersAgree

\* CurrentThreads, the semaphore and BusyCount agree with what they count, and MaximumThreads is
\* not exceeded: for any number of clients, workers, items and failed creations.
THEOREM CountersAlwaysAgree == WorkQueueSpec => []CountersAgree
  BY WorkQueueInvariance, CountsAgree, PTL

\* When PhDeleteWorkQueue returns, no worker is left and every item that was queued was freed.
THEOREM DeletionIsComplete == WorkQueueSpec => []DeletedClean
  <1>1. WorkQueueInv => DeletedClean
    BY DEF WorkQueueInv
  <1> QED
    BY <1>1, WorkQueueInvariance, PTL
=============================================================================
