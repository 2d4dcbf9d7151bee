---------------------- MODULE HandleTableRundownProofs ----------------------
(***************************************************************************)
(* Proofs about the handle table for any number of threads, of entries per *)
(* table, of locks and of calls, and about rundown protection for any number*)
(* of users, of waiters and of calls.  The handle table part names the sets*)
(* of entries in the two free lists and in the chains that are being moved,*)
(* and numbers the entries of each list from its end; a thread that pops an*)
(* entry keeps it from being put back in front of the main list.           *)
(***************************************************************************)
EXTENDS HandleTable, Rundown, FiniteSetTheorems, WellFoundedInduction, TLAPS

MaybeHandle == Handles \cup {NULL}
PointsAlone == {"allocated", "fill", "free", "push", "pushCas"}
PointsHolding == {"locked", "unlock", "destroy"}
PointsPopping == {"allocNext", "allocCas"}
PointsBarring == {"allocCheck", "allocNext", "allocCas", "allocated", "allocRetry"}
PointsGrowing == {"move", "drain", "moved", "reverse", "splice", "spliceCas", "more", "extend"}
PointsEntry == {"allocLock", "allocCheck", "allocRetry", "lock", "lockCas", "register", "recheck", "sleep"}
PointsOther == {"idle", "alloc", "grow", "failed", "find", "table", "wake"}
Points == PointsAlone \cup PointsHolding \cup PointsPopping \cup PointsGrowing \cup PointsEntry \cup PointsOther

EntryType == [inUse : BOOLEAN, unlocked : BOOLEAN, object : Threads \cup {NULL}, next : MaybeHandle \cup {Value2}]

\* The type of the state.
TypeOK ==
    /\ freeValue \in MaybeHandle /\ freeValueAlt \in MaybeHandle
    /\ nextValue \in Nat /\ strictFifo \in BOOLEAN /\ tables \in Nat
    /\ entry \in [Handles -> EntryType]
    /\ popping \in [0..Locks - 1 -> SUBSET Threads] /\ owner \in Threads \cup {NULL}
    /\ pc \in [Threads -> Points] /\ mode \in [Threads -> {"idle", "create", "lookup", "destroy", "enum"}]
    /\ h \in [Threads -> MaybeHandle] /\ nx \in [Threads -> MaybeHandle \cup {Value2}]
    /\ tail \in [Threads -> Int] /\ seen \in [Threads -> Threads \cup {NULL, "main", "alt"}]
    /\ count \in [Threads -> Nat]
    /\ cont \in [Threads -> {"idle", "more", "allocLock", "alloc"}]

\* The handle that t works on is in no list and not in use: t alone knows of it.
Single(t) == pc[t] \in PointsAlone \/ (pc[t] = "wake" /\ mode[t] = "destroy")
Holds(t) == pc[t] \in PointsHolding
Pops(t) == pc[t] \in PointsPopping
Bars(t) == pc[t] \in PointsBarring  \* t holds the popping lock of its handle
Grows(t) == pc[t] \in PointsGrowing
Mine(t) == Single(t) \/ Holds(t)
PushesMain(t) == pc[t] \in {"push", "pushCas"} /\ seen[t] = "main"

\* What the calls are that have come so far.
ModeInv ==
    \A t \in Threads :
        /\ pc[t] \in PointsBarring \cup PointsGrowing \cup {"alloc", "allocLock", "fill", "grow", "failed"}
             => mode[t] = "create"
        /\ pc[t] = "unlock" => mode[t] # "destroy"
        /\ pc[t] = "destroy" => mode[t] = "destroy"

\* Who holds the table's lock, and how many tables there are.
GrowInv ==
    /\ \A t \in Threads : Grows(t) <=> owner = t
    /\ \A t \in Threads : pc[t] \in {"splice", "spliceCas"} => cont[t] # "idle"
    /\ 0 < tables /\ tables <= LevelEntries * LevelEntries
    /\ \A t \in Threads : pc[t] = "extend" => nextValue + LevelEntries = tables * LevelEntries
    /\ (\A t \in Threads : pc[t] # "extend") => nextValue = tables * LevelEntries

\* The handles that the threads work on, and who holds which lock.
PointInv ==
    \A t \in Threads :
        /\ Mine(t) \/ Pops(t) \/ pc[t] \in PointsEntry => h[t] \in Entries
        /\ pc[t] \in {"find", "wake"} => h[t] \in Handles
        /\ pc[t] = "table" => h[t] \in Entries
PopInv == \A i \in 0..Locks - 1 : popping[i] = {t \in Threads : Bars(t) /\ LockIndex(h[t]) = i}

\* Who locked an entry or took it for itself has it alone.
MineInv ==
    /\ \A s, t \in Threads : s # t /\ Mine(s) /\ Mine(t) => h[s] # h[t]
    /\ \A t \in Threads : Holds(t) => entry[h[t]].inUse /\ ~entry[h[t]].unlocked
    /\ \A t \in Threads : Single(t) => ~entry[h[t]].inUse
    /\ InUse \subseteq Entries

\* A list of entries, numbered from its end; N is NextFreeValue.
Ranks == [Handles -> Int]
Ranked(L, n) == \A u, v \in L : n[u] = n[v] => u = v
Ends(L, n, v) == \A u \in L : n[v] <= n[u]
Heads(L, n, a) == (a = NULL <=> L = {}) /\ (L # {} => a \in L) /\ \A v \in L : n[v] <= n[a]
Leads(L, N, n, v) == N[v] \in L /\ n[N[v]] = n[v] - 1
ListOK(L, a, N, n) ==
    /\ Ranked(L, n) /\ Heads(L, n, a)
    /\ \A v \in L : (N[v] = NULL /\ Ends(L, n, v)) \/ Leads(L, N, n, v)
SegmentOK(L, a, z, N, n) ==
    /\ Ranked(L, n) /\ Heads(L, n, a) /\ z \in L /\ Ends(L, n, z)
    /\ \A v \in L \ {z} : Leads(L, N, n, v)

Nexts == [v \in Handles |-> entry[v].next]

\* The entries that the thread that holds the table's lock has taken off the alternative list (D),
\* and those that it has reversed or made (R).
ChainOf(t, D, R, n) ==
    /\ pc[t] \in {"move", "more"} => D = {} /\ R = {}
    /\ pc[t] \in {"drain", "moved"} => D # {} /\ R = {} /\ ListOK(D, nx[t], Nexts, n)
    /\ pc[t] = "drain" => tail[t] \in 0..Locks - 1
    /\ pc[t] = "reverse" => /\ D # {} /\ ListOK(D, h[t], Nexts, n) /\ ListOK(R, nx[t], Nexts, n)
                            /\ IF R = {} THEN tail[t] = h[t] ELSE tail[t] \in R /\ Ends(R, n, tail[t])
    /\ pc[t] = "extend" => /\ D = {} /\ R = nextValue..(nextValue + LevelEntries - 1)
                           /\ SegmentOK(R, nextValue, nextValue + LevelEntries - 1, Nexts, n)
    /\ pc[t] \in {"splice", "spliceCas"} => D = {} /\ SegmentOK(R, h[t], tail[t], Nexts, n)
    /\ pc[t] = "spliceCas" => Nexts[tail[t]] = nx[t]

\* Who pops: while its handle is in the main list the next one is the one it has read, and the handle
\* is not put there again as long as the lock is held.
PopOf(t, M, D, R) ==
    Pops(t) =>
        /\ pc[t] = "allocCas" /\ h[t] \in M => nx[t] = Nexts[h[t]]
        /\ h[t] \notin R
        /\ \A o \in Threads : h[t] \in D /\ owner = o => pc[o] = "drain" /\ tail[o] <= LockIndex(h[t])
        /\ \A s \in Threads : PushesMain(s) => h[s] # h[t]

Shape(M, A, D, R, n) ==
    /\ M \cup A \cup D \cup R \subseteq Entries
    /\ M \cap A = {} /\ (M \cup A) \cap (D \cup R) = {} /\ D \cap R = {}
    /\ \A v \in M \cup A \cup D \cup R : ~entry[v].inUse /\ \A t \in Threads : Single(t) => h[t] # v
    /\ \A v \in Entries : \/ v \in M \cup A \cup D \cup R \cup InUse
                          \/ \E t \in Threads : Single(t) /\ h[t] = v
    /\ ListOK(M, freeValue, Nexts, n) /\ ListOK(A, freeValueAlt, Nexts, n)
    /\ owner = NULL => D = {} /\ R = {}
    /\ \A t \in Threads : ChainOf(t, D, R, n) /\ PopOf(t, M, D, R)
    /\ \A t \in Threads : pc[t] = "pushCas" => Nexts[h[t]] = nx[t]
ShapeInv == \E M, A, D, R \in SUBSET Handles, n \in Ranks : Shape(M, A, D, R, n)

IInv == TypeOK /\ ModeInv /\ GrowInv /\ PointInv /\ PopInv /\ MineInv /\ ShapeInv
-----------------------------------------------------------------------------
(* Lists *)

NextMaps == [Handles -> MaybeHandle \cup {Value2}]

LEMMA NoHandle == NULL \notin Handles /\ Value2 \notin Handles /\ NULL # Value2 /\ NULL \notin Threads
                  /\ Handles \subseteq Nat
BY HandleTableAssumption DEF Handles, Value2

LEMMA EmptyList == ASSUME NEW N, NEW n PROVE ListOK({}, NULL, N, n)
BY DEF ListOK, Ranked, Heads

\* Only the entries of a list count.
LEMMA ListSame ==
    ASSUME NEW L \in SUBSET Handles, NEW a, NEW N, NEW K, NEW n, NEW m, ListOK(L, a, N, n),
           \A v \in L : K[v] = N[v] /\ m[v] = n[v]
    PROVE  ListOK(L, a, K, m)
BY NoHandle DEF ListOK, Ranked, Heads, Ends, Leads

LEMMA SegmentSame ==
    ASSUME NEW L \in SUBSET Handles, NEW a, NEW z, NEW N, NEW K, NEW n, NEW m, SegmentOK(L, a, z, N, n),
           \A v \in L \ {z} : K[v] = N[v], \A v \in L : m[v] = n[v]
    PROVE  SegmentOK(L, a, z, K, m)
BY NoHandle DEF SegmentOK, Ranked, Heads, Ends, Leads

LEMMA ListIsSegment ==
    ASSUME NEW L \in SUBSET Handles, NEW a, NEW z \in L, NEW N, NEW n \in Ranks, ListOK(L, a, N, n), Ends(L, n, z)
    PROVE  SegmentOK(L, a, z, N, n)
<1>1. ASSUME NEW v \in L \ {z}, Ends(L, n, v) PROVE FALSE
  BY <1>1 DEF ListOK, Ranked, Ends, Ranks
<1> QED BY <1>1 DEF ListOK, SegmentOK

\* A single entry.
LEMMA Singleton ==
    ASSUME NEW L \in SUBSET Handles, NEW a, NEW N, NEW n \in Ranks, ListOK(L, a, N, n), L # {}, N[a] = NULL
    PROVE  L = {a}
<1>1. a \in L /\ Ends(L, n, a)
  BY NoHandle DEF ListOK, Heads, Leads
<1>2. ASSUME NEW v \in L PROVE v = a
  BY <1>1 DEF ListOK, Heads, Ends, Ranked, Ranks
<1> QED BY <1>1, <1>2

\* The first entry is taken off.
LEMMA PopHead ==
    ASSUME NEW L \in SUBSET Handles, NEW a, NEW N, NEW n \in Ranks, ListOK(L, a, N, n), L # {}
    PROVE  a \in L /\ ListOK(L \ {a}, N[a], N, n)
<1>1. a \in L /\ a \in Handles /\ n \in [Handles -> Int]
  BY DEF ListOK, Heads, Ranks
<1>2. Ranked(L \ {a}, n)
  BY DEF ListOK, Ranked
<1>3. \A v \in L \ {a} : n[v] < n[a]
  BY <1>1 DEF ListOK, Heads, Ranked
<1>4. Heads(L \ {a}, n, N[a])
  <2>1. CASE N[a] = NULL /\ Ends(L, n, a)
    <3>1. L = {a}
      BY <2>1, Singleton
    <3> QED BY <2>1, <3>1 DEF Heads
  <2>2. CASE Leads(L, N, n, a)
    <3>1. N[a] \in L /\ n[N[a]] = n[a] - 1 /\ N[a] # a
      BY <1>1, <2>2 DEF Leads
    <3>2. \A v \in L \ {a} : n[v] <= n[N[a]]
      BY <1>1, <1>3, <3>1
    <3> QED BY <3>1, <3>2, NoHandle DEF Heads
  <2> QED BY <1>1, <2>1, <2>2 DEF ListOK
<1>5. \A v \in L \ {a} : Leads(L, N, n, v) => Leads(L \ {a}, N, n, v)
  BY <1>1, <1>3 DEF Leads
<1>6. \A v \in L \ {a} : (N[v] = NULL /\ Ends(L \ {a}, n, v)) \/ Leads(L \ {a}, N, n, v)
  BY <1>5 DEF ListOK, Ends
<1> QED BY <1>1, <1>2, <1>4, <1>6 DEF ListOK

\* An entry is put in front.
Topped(L, a, n, v) == [n EXCEPT ![v] = IF L = {} THEN 0 ELSE n[a] + 1]

LEMMA PushHead ==
    ASSUME NEW L \in SUBSET Handles, NEW a, NEW N, NEW n \in Ranks, ListOK(L, a, N, n),
           NEW v \in Handles \ L, N[v] = a
    PROVE  /\ Topped(L, a, n, v) \in Ranks
           /\ ListOK(L \cup {v}, v, N, Topped(L, a, n, v))
           /\ \A u \in Handles \ {v} : Topped(L, a, n, v)[u] = n[u]
           /\ \A u \in L : Ends(L, n, u) => Ends(L \cup {v}, Topped(L, a, n, v), u)
<1> DEFINE m == Topped(L, a, n, v)
<1>1. CASE L = {}
  <2>1. a = NULL
    BY <1>1 DEF ListOK, Heads
  <2>2. m \in Ranks /\ m[v] = 0 /\ \A u \in Handles \ {v} : m[u] = n[u]
    BY <1>1 DEF Topped, Ranks
  <2>3. ListOK({v}, v, N, m)
    BY <2>1, <2>2, NoHandle DEF ListOK, Ranked, Heads, Ends
  <2> QED BY <1>1, <2>2, <2>3
<1>2. CASE L # {}
  <2>1. a \in L /\ a \in Handles /\ n[a] \in Int /\ \A u \in L : n[u] \in Int /\ n[u] <= n[a]
    BY <1>2 DEF ListOK, Heads, Ranks
  <2>2. m \in Ranks /\ m[v] = n[a] + 1 /\ \A u \in Handles \ {v} : m[u] = n[u]
    BY <1>2, <2>1 DEF Topped, Ranks
  <2>3. \A u \in L : u # v /\ m[u] = n[u] /\ m[u] < m[v] /\ m[u] # m[v]
    BY <2>1, <2>2
  <2>4. Ranked(L \cup {v}, m)
    <3>1. \A x, y \in L : m[x] = m[y] => x = y
      BY <2>3 DEF ListOK, Ranked
    <3> QED BY <2>3, <3>1 DEF Ranked
  <2>5. Heads(L \cup {v}, m, v)
    BY <2>1, <2>2, <2>3, NoHandle DEF Heads
  <2>6. \A u \in L : Ends(L, n, u) => Ends(L \cup {v}, m, u)
    BY <2>1, <2>2, <2>3 DEF Ends
  <2>7. \A u \in L : Leads(L, N, n, u) => Leads(L \cup {v}, N, m, u)
    BY <2>2, <2>3 DEF Leads
  <2>8. Leads(L \cup {v}, N, m, v)
    BY <2>1, <2>2 DEF Leads
  <2> QED BY <2>2, <2>4, <2>5, <2>6, <2>7, <2>8 DEF ListOK
<1> QED BY <1>1, <1>2

\* A segment is put in front.
Lifted(S, z, L, b, n) == [v \in Handles |-> IF v \in S /\ L # {} THEN n[v] + (n[b] + 1 - n[z]) ELSE n[v]]

AsBefore(m, n, S) == \A u \in Handles \ S : m[u] = n[u]

LEMMA Concat ==
    ASSUME NEW S \in SUBSET Handles, NEW L \in SUBSET Handles, NEW a, NEW z, NEW b, NEW N, NEW n \in Ranks,
           SegmentOK(S, a, z, N, n), ListOK(L, b, N, n), S \cap L = {}, N[z] = b
    PROVE  /\ Lifted(S, z, L, b, n) \in Ranks
           /\ ListOK(S \cup L, a, N, Lifted(S, z, L, b, n))
           /\ AsBefore(Lifted(S, z, L, b, n), n, S)
<1> DEFINE m == Lifted(S, z, L, b, n)
<1>0. z \in S /\ a \in S /\ \A v \in Handles : n[v] \in Int
  BY DEF SegmentOK, Heads, Ranks
<1>1. CASE L = {}
  <2>1. m \in Ranks /\ \A u \in Handles : m[u] = n[u]
    BY <1>1, <1>0 DEF Lifted, Ranks
  <2>2. N[z] = NULL
    BY <1>1 DEF ListOK, Heads
  <2>3. ListOK(S, a, N, n)
    BY <2>2 DEF SegmentOK, ListOK
  <2>4. ListOK(S, a, N, m)
    BY <2>1, <2>3, ListSame
  <2>5. S \cup L = S
    BY <1>1
  <2> QED BY <2>1, <2>4, <2>5 DEF AsBefore
<1>2. CASE L # {}
  <2>1. b \in L /\ \A u \in L : n[u] <= n[b]
    BY <1>2 DEF ListOK, Heads
  <2> DEFINE k == n[b] + 1 - n[z]
  <2>2. k \in Int /\ n[b] + 1 = n[z] + k
    BY <1>0, <2>1
  <2>3. \A u \in S : m[u] = n[u] + k
    BY <1>2 DEF Lifted
  <2>4. \A u \in Handles \ S : m[u] = n[u]
    BY DEF Lifted
  <2>5. m \in Ranks
    BY <1>0, <2>2 DEF Lifted, Ranks
  <2>6. \A u \in S : n[z] <= n[u] /\ n[u] <= n[a]
    BY DEF SegmentOK, Heads, Ends
  <2> HIDE DEF m, k
  <2>7. \A u \in L : m[u] = n[u] /\ m[u] <= n[b]
    BY <2>1, <2>4
  <2>8. \A u \in S : m[u] \in Int /\ m[u] > n[b] /\ m[u] <= m[a]
    BY <1>0, <2>1, <2>2, <2>3, <2>6
  <2>9. Ranked(S \cup L, m)
    <3>1. \A x, y \in S : m[x] = m[y] => x = y
      BY <1>0, <2>2, <2>3 DEF SegmentOK, Ranked
    <3>2. \A x, y \in L : m[x] = m[y] => x = y
      BY <2>7 DEF ListOK, Ranked
    <3>3. \A x \in S, y \in L : m[x] # m[y]
      BY <1>0, <2>1, <2>7, <2>8
    <3> QED BY <3>1, <3>2, <3>3 DEF Ranked
  <2>10. Heads(S \cup L, m, a)
    <3>1. \A v \in L : m[v] <= m[a]
      BY <1>0, <2>1, <2>7, <2>8
    <3> QED BY <1>0, <2>8, <3>1, NoHandle DEF Heads
  <2>11. \A v \in L : Ends(L, n, v) => Ends(S \cup L, m, v)
    BY <1>0, <2>1, <2>7, <2>8 DEF Ends
  <2>12. \A v \in L : Leads(L, N, n, v) => Leads(S \cup L, N, m, v)
    BY <2>7 DEF Leads
  <2>13. \A v \in S \ {z} : Leads(S \cup L, N, m, v)
    <3> TAKE v \in S \ {z}
    <3>1. N[v] \in S /\ n[N[v]] = n[v] - 1
      BY DEF SegmentOK, Leads
    <3>2. m[N[v]] = m[v] - 1
      BY <1>0, <2>2, <2>3, <3>1
    <3> QED BY <3>1, <3>2 DEF Leads
  <2>14. Leads(S \cup L, N, m, z)
    <3>1. m[z] = n[b] + 1 /\ m[b] = n[b] /\ n[b] \in Int
      BY <1>0, <2>1, <2>2, <2>3, <2>7
    <3> QED BY <2>1, <3>1 DEF Leads
  <2>15. ListOK(S \cup L, a, N, m)
    BY <2>9, <2>10, <2>11, <2>12, <2>13, <2>14 DEF ListOK
  <2> QED BY <2>4, <2>5, <2>15 DEF m, AsBefore
<1> QED BY <1>1, <1>2

Joins(S, L, a, z, b, N, n) == SegmentOK(S, a, z, N, n) /\ ListOK(L, b, N, n) /\ S \cap L = {} /\ N[z] = b

LEMMA ConcatLists ==
    ASSUME NEW S \in SUBSET Handles, NEW L \in SUBSET Handles, NEW a, NEW z, NEW b, NEW N, NEW n \in Ranks,
           Joins(S, L, a, z, b, N, n)
    PROVE  \E m \in Ranks : ListOK(S \cup L, a, N, m) /\ AsBefore(m, n, S)
<1>1. SegmentOK(S, a, z, N, n) /\ ListOK(L, b, N, n) /\ S \cap L = {} /\ N[z] = b
  BY DEF Joins
<1> QED BY <1>1, Concat

\* The entries of a new table.
Counting(n, x, y) == [v \in Handles |-> IF v \in x..y THEN -v ELSE n[v]]

LEMMA NewChain ==
    ASSUME NEW x \in Nat, NEW y \in Nat, x <= y, x..y \subseteq Handles, NEW N, NEW n \in Ranks,
           \A v \in x..(y - 1) : N[v] = v + 1
    PROVE  /\ Counting(n, x, y) \in Ranks
           /\ SegmentOK(x..y, x, y, N, Counting(n, x, y))
           /\ AsBefore(Counting(n, x, y), n, x..y)
<1> DEFINE m == Counting(n, x, y)
<1>1. m \in Ranks
  BY DEF Counting, Ranks, Handles
<1>2. \A v \in x..y : m[v] = -v
  BY DEF Counting
<1>3. \A u \in Handles \ (x..y) : m[u] = n[u]
  BY DEF Counting
<1> HIDE DEF m
<1>4. Ranked(x..y, m)
  BY <1>2 DEF Ranked
<1>5. Heads(x..y, m, x)
  BY <1>2, NoHandle DEF Heads
<1>6. y \in x..y /\ Ends(x..y, m, y)
  BY <1>2 DEF Ends
<1>7. \A v \in (x..y) \ {y} : Leads(x..y, N, m, v)
  BY <1>2 DEF Leads
<1> QED BY <1>1, <1>3, <1>4, <1>5, <1>6, <1>7 DEF SegmentOK, m, AsBefore
-----------------------------------------------------------------------------
(* What is linked from the head of a list. *)

LEMMA Least == ASSUME NEW T \in SUBSET Nat, T # {} PROVE \E x \in T : \A y \in T : x <= y
<1>1. PICK x \in T : \A y \in T : ~ (<<y, x>> \in OpToRel(<, Nat))
  BY NatLessThanWellFounded, WFMin
<1>2. \A y \in T : y < x => <<y, x>> \in OpToRel(<, Nat)
  BY DEF OpToRel
<1>3. \A y \in T : ~(y < x)
  BY <1>1, <1>2, Zenon
<1> QED BY <1>3

Follows(S, N, z) == \A u \in S \ {Value2, z} : N[u] # NULL => N[u] \in S

\* A set that has the head and follows the links has the whole list, ...
LEMMA LinkedDown ==
    ASSUME NEW L \in SUBSET Handles, NEW a \in L, NEW z, NEW N, NEW n \in Ranks,
           Ranked(L, n), \A v \in L : n[v] <= n[a],
           \A v \in L : Ends(L, n, v) \/ (v # z /\ Leads(L, N, n, v)),
           NEW S, a \in S, Follows(S, N, z), NEW v \in L
    PROVE  v \in S
<1> SUFFICES ASSUME v \notin S PROVE FALSE
  OBVIOUS
<1>0. \A u \in Handles : n[u] \in Int
  BY DEF Ranks
<1> DEFINE T == {k \in Nat : k <= n[a] - n[v] /\ \A u \in L \cap S : n[u] # n[a] - k}
<1>1. n[a] - n[v] \in T
  <2>1. n[a] - n[v] \in Nat /\ n[a] - (n[a] - n[v]) = n[v]
    BY <1>0
  <2>2. \A u \in L \cap S : n[u] # n[v]
    BY DEF Ranked
  <2> QED BY <1>0, <2>1, <2>2
<1>2. PICK k \in T : \A y \in T : k <= y
  <2>1. T \in SUBSET Nat /\ T # {}
    BY <1>1
  <2> HIDE DEF T
  <2> QED BY <2>1, Least
<1>3. k \in Nat /\ k # 0
  BY <1>0, <1>2
<1>4. k - 1 \notin T /\ k - 1 \in Nat /\ k - 1 <= n[a] - n[v]
  BY <1>0, <1>2, <1>3
<1>5. PICK u \in L \cap S : n[u] = n[a] - (k - 1)
  BY <1>4
<1>6. n[v] < n[u] /\ n[u] - 1 = n[a] - k
  BY <1>0, <1>2, <1>3, <1>5
<1>7. u # z /\ Leads(L, N, n, u)
  BY <1>0, <1>5, <1>6 DEF Ends
<1>8. N[u] \in L /\ N[u] # NULL /\ u # Value2
  BY <1>5, <1>7, NoHandle DEF Leads
<1>9. N[u] \in S /\ n[N[u]] = n[a] - k
  BY <1>0, <1>5, <1>6, <1>7, <1>8 DEF Follows, Leads
<1> QED BY <1>2, <1>8, <1>9

\* ... and the list is such a set.
LEMMA ListLinked ==
    ASSUME TypeOK, NEW L \in SUBSET Entries, Entries \subseteq Handles, NEW a, NEW n \in Ranks,
           ListOK(L, a, Nexts, n)
    PROVE  Linked(a, NULL) = L
<1>1. CASE L = {}
  <2>1. a = NULL
    BY <1>1 DEF ListOK, Heads
  <2>2. {} \in SUBSET Words
    OBVIOUS
  <2> QED BY <1>1, <2>1, <2>2 DEF Linked, INVALID
<1>2. CASE L # {}
  <2>1. a \in L /\ a # NULL /\ Ranked(L, n) /\ \A v \in L : n[v] <= n[a]
    BY <1>2, NoHandle DEF ListOK, Heads
  <2>2. \A v \in L : Ends(L, n, v) \/ (v # NULL /\ Leads(L, Nexts, n, v))
    BY NoHandle DEF ListOK
  <2>3. ASSUME NEW v \in L, NEW S \in SUBSET Words, a \in S, Follows(S, Nexts, NULL) PROVE v \in S
    BY <2>1, <2>2, <2>3, LinkedDown
  <2>4. Follows(L, Nexts, NULL)
    BY DEF Follows, ListOK, Leads
  <2>5. L \in SUBSET Words /\ L \subseteq Words
    BY DEF Words
  <2>6. \A S \in SUBSET Words : Follows(S, Nexts, NULL) <=>
              \A u \in S \ {Value2, NULL} : entry[u].next # NULL => entry[u].next \in S
    BY DEF Follows, Nexts, Words
  <2>7. ASSUME NEW v \in L PROVE v \in Linked(a, NULL)
    BY <2>1, <2>3, <2>5, <2>6 DEF Linked, INVALID
  <2>8. ASSUME NEW v \in Linked(a, NULL) PROVE v \in L
    BY <2>1, <2>4, <2>5, <2>6 DEF Linked, INVALID
  <2> QED BY <2>7, <2>8
<1> QED BY <1>1, <1>2

LEMMA SegmentLinked ==
    ASSUME TypeOK, NEW L \in SUBSET Entries, Entries \subseteq Handles, NEW a, NEW z, NEW n \in Ranks,
           SegmentOK(L, a, z, Nexts, n)
    PROVE  Linked(a, z) = L
<1>1. a \in L /\ a # NULL /\ Ranked(L, n) /\ \A v \in L : n[v] <= n[a]
  BY NoHandle DEF SegmentOK, Heads
<1>2. \A v \in L : Ends(L, n, v) \/ (v # z /\ Leads(L, Nexts, n, v))
  BY DEF SegmentOK
<1>3. ASSUME NEW v \in L, NEW S \in SUBSET Words, a \in S, Follows(S, Nexts, z) PROVE v \in S
  BY <1>1, <1>2, <1>3, LinkedDown
<1>4. Follows(L, Nexts, z)
  BY DEF Follows, SegmentOK, Leads
<1>5. L \in SUBSET Words /\ L \subseteq Words
  BY DEF Words
<1>6. \A S \in SUBSET Words : Follows(S, Nexts, z) <=>
            \A u \in S \ {Value2, z} : entry[u].next # NULL => entry[u].next \in S
  BY DEF Follows, Nexts, Words
<1>7. ASSUME NEW v \in L PROVE v \in Linked(a, z)
  BY <1>1, <1>3, <1>5, <1>6 DEF Linked, INVALID
<1>8. ASSUME NEW v \in Linked(a, z) PROVE v \in L
  BY <1>1, <1>4, <1>5, <1>6 DEF Linked, INVALID
<1> QED BY <1>7, <1>8
-----------------------------------------------------------------------------
(* Numbers *)

LEMMA SizeFacts ==
    ASSUME TypeOK, GrowInv
    PROVE  /\ Entries \subseteq Handles
           /\ LevelEntries \in Nat /\ LevelEntries > 0 /\ Locks \in Nat /\ Locks > 0
           /\ tables * LevelEntries \in Nat
           /\ (tables + 1) * LevelEntries = tables * LevelEntries + LevelEntries
<1>1. LevelEntries \in Nat /\ LevelEntries > 0 /\ tables \in Nat /\ tables <= LevelEntries * LevelEntries
      /\ Locks \in Nat /\ Locks > 0
  BY HandleTableAssumption DEF TypeOK, GrowInv
<1> DEFINE q == LevelEntries * LevelEntries
<1>2. q \in Nat /\ tables <= q
  BY <1>1
<1>3. ASSUME NEW a \in Nat, NEW b \in Nat, NEW c \in Nat, a <= b PROVE a * c <= b * c /\ a * c \in Nat
  BY <1>3
<1>4. tables * LevelEntries <= q * LevelEntries /\ tables * LevelEntries \in Nat /\ q * LevelEntries \in Nat
  <2> HIDE DEF q
  <2>1. q * LevelEntries \in Nat
    BY <1>1, <1>2
  <2> QED BY <1>1, <1>2, <1>3, <2>1
<1>5. Handles = 0..(q * LevelEntries - 1)
  BY DEF Handles
<1>6. (tables + 1) * LevelEntries = tables * LevelEntries + LevelEntries
  BY <1>1
<1> HIDE DEF q
<1>7. Entries \subseteq Handles
  BY <1>4, <1>5 DEF Entries
<1> QED BY <1>1, <1>4, <1>6, <1>7

LEMMA IndexOfLock == ASSUME NEW v \in Handles PROVE LockIndex(v) \in 0..Locks - 1
<1>1. v \in Nat /\ Locks \in Nat /\ Locks > 0
  BY NoHandle, HandleTableAssumption
<1> QED BY <1>1 DEF LockIndex

\* A table more.
LEMMA OneMore ==
    ASSUME TypeOK, GrowInv, tables < LevelEntries * LevelEntries
    PROVE  (tables * LevelEntries)..(tables * LevelEntries + LevelEntries - 1) \subseteq Handles
<1>1. LevelEntries \in Nat /\ LevelEntries > 0 /\ tables \in Nat /\ LevelEntries * LevelEntries \in Nat
  BY HandleTableAssumption DEF TypeOK
<1> DEFINE q == LevelEntries * LevelEntries
<1>2. q \in Nat /\ tables + 1 <= q /\ tables + 1 \in Nat
  BY <1>1
<1>3. ASSUME NEW a \in Nat, NEW b \in Nat, NEW c \in Nat, a <= b PROVE a * c <= b * c /\ a * c \in Nat
  BY <1>3
<1>5. Handles = 0..(q * LevelEntries - 1)
  BY DEF Handles
<1> HIDE DEF q
<1>4. (tables + 1) * LevelEntries <= q * LevelEntries /\ (tables + 1) * LevelEntries \in Nat
      /\ q * LevelEntries \in Nat
  BY <1>1, <1>2, <1>3
<1>6. (tables + 1) * LevelEntries = tables * LevelEntries + LevelEntries /\ tables * LevelEntries \in Nat
  BY SizeFacts
<1> QED BY <1>1, <1>4, <1>5, <1>6
-----------------------------------------------------------------------------
(* Steps *)

LEMMA EntryUpdates ==
    ASSUME NEW E \in [Handles -> EntryType], NEW v \in Handles
    PROVE  /\ [E EXCEPT ![v].unlocked = FALSE] \in [Handles -> EntryType]
           /\ [E EXCEPT ![v].unlocked = TRUE] \in [Handles -> EntryType]
           /\ \A x \in MaybeHandle \cup {Value2} : [E EXCEPT ![v].next = x] \in [Handles -> EntryType]
           /\ \A e \in EntryType : [E EXCEPT ![v] = e] \in [Handles -> EntryType]
<1>1. E[v] \in EntryType
  OBVIOUS
<1>2. /\ [E[v] EXCEPT !.unlocked = FALSE] \in EntryType /\ [E[v] EXCEPT !.unlocked = TRUE] \in EntryType
      /\ \A x \in MaybeHandle \cup {Value2} : [E[v] EXCEPT !.next = x] \in EntryType
  BY <1>1 DEF EntryType
<1> QED BY <1>2

Same(s) == /\ pc'[s] = pc[s] /\ mode'[s] = mode[s] /\ h'[s] = h[s] /\ nx'[s] = nx[s]
           /\ tail'[s] = tail[s] /\ seen'[s] = seen[s] /\ cont'[s] = cont[s]
Others(t) == \A s \in Threads \ {t} : Same(s)

LEMMA SamePredicates ==
    ASSUME NEW s, Same(s)
    PROVE  /\ (Single(s)' <=> Single(s)) /\ (Holds(s)' <=> Holds(s)) /\ (Pops(s)' <=> Pops(s)) /\ (Bars(s)' <=> Bars(s))
           /\ (Grows(s)' <=> Grows(s)) /\ (Mine(s)' <=> Mine(s)) /\ (PushesMain(s)' <=> PushesMain(s))
BY DEF Same, Single, Holds, Pops, Bars, Grows, Mine, PushesMain

LEMMA ChainKept ==
    ASSUME NEW s \in Threads, NEW D \in SUBSET Handles, NEW R \in SUBSET Handles, NEW n, NEW m,
           ChainOf(s, D, R, n), Same(s), nextValue' = nextValue,
           \A v \in D \cup R : Nexts'[v] = Nexts[v] /\ m[v] = n[v]
    PROVE  ChainOf(s, D, R, m)'
<1>1. \A a : /\ ListOK(D, a, Nexts, n) => ListOK(D, a, Nexts', m)
             /\ ListOK(R, a, Nexts, n) => ListOK(R, a, Nexts', m)
  BY ListSame
<1>2. \A a, z : SegmentOK(R, a, z, Nexts, n) => SegmentOK(R, a, z, Nexts', m) /\ z \in R
  BY SegmentSame DEF SegmentOK
<1>3. \A z : Ends(R, n, z) /\ z \in R => Ends(R, m, z)
  BY DEF Ends
<1> QED BY <1>1, <1>2, <1>3 DEF ChainOf, Same

\* A thread that has not the table's lock has no entries of its own there.
LEMMA ChainOfNobody ==
    ASSUME NEW s, ~Grows(s), NEW D, NEW R, NEW n PROVE ChainOf(s, D, R, n)
BY DEF Grows, PointsGrowing, ChainOf

\* A step that leaves the table and the lists as they are, but for the lock bits.
Calm(t) ==
    /\ Others(t)
    /\ UNCHANGED <<freeValue, freeValueAlt, nextValue, tables, owner>>
    /\ Nexts' = Nexts /\ InUse' = InUse /\ \A v \in Handles : entry'[v].inUse = entry[v].inUse
    /\ ~Grows(t) /\ ~Grows(t)'
    /\ (Single(t)' <=> Single(t)) /\ (Single(t) => h'[t] = h[t])

LEMMA CalmShape ==
    ASSUME TypeOK, NEW t \in Threads, Calm(t),
           NEW M \in SUBSET Handles, NEW A \in SUBSET Handles, NEW D \in SUBSET Handles, NEW R \in SUBSET Handles,
           NEW n \in Ranks, Shape(M, A, D, R, n),
           pc'[t] = "pushCas" => Nexts[h'[t]] = nx'[t],
           pc'[t] = "allocCas" => (h'[t] \in M => nx'[t] = Nexts[h'[t]]),
           Pops(t)' => (Pops(t) /\ h'[t] = h[t]) \/ h'[t] \in M,
           PushesMain(t)' => \/ PushesMain(t) /\ h'[t] = h[t]
                             \/ \A s \in Threads \ {t} : Pops(s) => h[s] # h'[t]
    PROVE  Shape(M, A, D, R, n)'
<1>1. Entries' = Entries
  BY DEF Calm, Entries
<1>2. \A s \in Threads \ {t} : /\ h'[s] = h[s] /\ (Single(s)' <=> Single(s)) /\ (Pops(s)' <=> Pops(s))
                               /\ (PushesMain(s)' <=> PushesMain(s)) /\ pc'[s] = pc[s] /\ nx'[s] = nx[s]
                               /\ tail'[s] = tail[s]
  BY SamePredicates DEF Calm, Others, Same
<1>3. \A s \in Threads : (Single(s)' <=> Single(s))
  BY <1>2 DEF Calm
<1>4. \A s \in Threads : Single(s) => h'[s] = h[s]
  BY <1>2 DEF Calm
<1>5. \A v \in M \cup A \cup D \cup R : ~entry'[v].inUse /\ \A s \in Threads : Single(s)' => h'[s] # v
  BY <1>3, <1>4 DEF Shape, Calm
<1>6. \A v \in Entries : \/ v \in M \cup A \cup D \cup R \cup InUse
                         \/ \E s \in Threads : Single(s)' /\ h'[s] = v
  BY <1>3, <1>4 DEF Shape
<1>7. \A s \in Threads : ChainOf(s, D, R, n)'
  <2> TAKE s \in Threads
  <2>1. CASE s = t
    <3>1. ~Grows(s)'
      BY <2>1 DEF Calm
    <3> QED BY <3>1 DEF Grows, PointsGrowing, ChainOf
  <2>2. CASE s # t
    BY <2>2, ChainKept DEF Calm, Others, Shape
  <2> QED BY <2>1, <2>2
<1>8. \A s \in Threads : PopOf(s, M, D, R)'
  <2> TAKE s \in Threads
  <2> SUFFICES ASSUME Pops(s)'
               PROVE  /\ pc'[s] = "allocCas" /\ h'[s] \in M => nx'[s] = Nexts[h'[s]]
                      /\ h'[s] \notin R
                      /\ \A o \in Threads : h'[s] \in D /\ owner' = o => pc'[o] = "drain" /\ tail'[o] <= LockIndex(h'[s])
                      /\ \A u \in Threads : PushesMain(u)' => h'[u] # h'[s]
    BY DEF PopOf, Calm
  <2>1. (Pops(s) /\ h'[s] = h[s]) \/ h'[s] \in M
    BY <1>2
  <2>2. pc'[s] = "allocCas" /\ h'[s] \in M => nx'[s] = Nexts[h'[s]]
    <3>1. CASE s = t
      BY <3>1
    <3>2. CASE s # t
      BY <1>2, <3>2 DEF Shape, PopOf
    <3> QED BY <3>1, <3>2
  <2>3. h'[s] \notin R
    BY <2>1 DEF Shape, PopOf
  <2>4. ASSUME NEW o \in Threads, h'[s] \in D, owner' = o PROVE pc'[o] = "drain" /\ tail'[o] <= LockIndex(h'[s])
    <3>1. Pops(s) /\ h'[s] = h[s] /\ owner = o
      BY <2>1, <2>4 DEF Shape, Calm
    <3>2. pc[o] = "drain" /\ tail[o] <= LockIndex(h[s])
      BY <2>4, <3>1 DEF Shape, PopOf
    <3>3. o # t
      BY <3>2 DEF Calm, Grows, PointsGrowing
    <3> QED BY <1>2, <3>1, <3>2, <3>3
  <2>5. ASSUME NEW u \in Threads, PushesMain(u)' PROVE h'[u] # h'[s]
    <3>1. Single(u)' /\ pc'[u] \in {"push", "pushCas"}
      BY <2>5 DEF PushesMain, Single, PointsAlone
    <3>2. Single(u) /\ h'[u] = h[u]
      BY <1>3, <1>4, <3>1
    <3>3. CASE h'[s] \in M
      BY <3>2, <3>3 DEF Shape
    <3>4. CASE Pops(s) /\ h'[s] = h[s]
      <4>1. CASE PushesMain(u)
        BY <3>2, <3>4, <4>1 DEF Shape, PopOf
      <4>2. CASE ~PushesMain(u)
        <5>1. u = t
          BY <1>2, <2>5, <4>2
        <5>2. s # t
          BY <3>1, <5>1 DEF Pops, Bars, PointsPopping, PointsBarring
        <5> QED BY <2>5, <3>4, <4>2, <5>1, <5>2
      <4> QED BY <4>1, <4>2
    <3> QED BY <2>1, <3>3, <3>4
  <2> QED BY <2>2, <2>3, <2>4, <2>5
<1>9. \A s \in Threads : pc'[s] = "pushCas" => Nexts[h'[s]] = nx'[s]
  BY <1>2 DEF Shape
<1>10. /\ M \cup A \cup D \cup R \subseteq Entries'
       /\ M \cap A = {} /\ (M \cup A) \cap (D \cup R) = {} /\ D \cap R = {}
       /\ ListOK(M, freeValue', Nexts', n) /\ ListOK(A, freeValueAlt', Nexts', n)
       /\ owner' = NULL => D = {} /\ R = {}
  BY <1>1 DEF Shape, Calm
<1> QED BY <1>1, <1>5, <1>6, <1>7, <1>8, <1>9, <1>10 DEF Shape, Calm

LEMMA CalmGrow == ASSUME GrowInv, NEW t \in Threads, Calm(t) PROVE GrowInv'
<1>1. \A s \in Threads \ {t} : (Grows(s)' <=> Grows(s)) /\ pc'[s] = pc[s] /\ cont'[s] = cont[s]
  BY SamePredicates DEF Calm, Others, Same
<1>2. /\ pc[t] \notin {"splice", "spliceCas", "extend"} /\ pc'[t] \notin {"splice", "spliceCas", "extend"}
      /\ owner # t
  BY DEF Calm, Grows, PointsGrowing, GrowInv
<1> QED BY <1>1, <1>2 DEF Calm, GrowInv

PointOf(t) ==
    /\ Mine(t) \/ Pops(t) \/ pc[t] \in PointsEntry => h[t] \in Entries
    /\ pc[t] \in {"find", "wake"} => h[t] \in Handles
    /\ pc[t] = "table" => h[t] \in Entries

LEMMA OthersPoints ==
    ASSUME PointInv, NEW t \in Threads, Others(t), Entries \subseteq Entries', PointOf(t)' PROVE PointInv'
<1>1. \A s \in Threads : PointOf(s)
  BY DEF PointInv, PointOf
<1>2. \A s \in Threads \ {t} : PointOf(s)'
  BY <1>1, SamePredicates DEF PointOf, Others, Same
<1> QED BY <1>2 DEF PointInv, PointOf

LEMMA OthersPop ==
    ASSUME PopInv, NEW t \in Threads, Others(t), popping' = popping, Bars(t)' <=> Bars(t), Bars(t) => h'[t] = h[t]
    PROVE  PopInv'
<1>1. \A s \in Threads : (Bars(s)' <=> Bars(s)) /\ (Bars(s) => h'[s] = h[s])
  BY SamePredicates DEF Others, Same
<1> QED BY <1>1 DEF PopInv, LockIndex

LEMMA OthersMode ==
    ASSUME ModeInv, NEW t \in Threads, Others(t),
        pc'[t] \in PointsBarring \cup PointsGrowing \cup {"alloc", "allocLock", "fill", "grow", "failed"}
             => mode'[t] = "create",
        pc'[t] = "unlock" => mode'[t] # "destroy",
        pc'[t] = "destroy" => mode'[t] = "destroy"
    PROVE ModeInv'
BY DEF ModeInv, Others, Same

\* A step of a thread that keeps what it has.
Quiet(t) ==
    /\ Calm(t) /\ entry' = entry /\ popping' = popping
    /\ (Pops(t)' <=> Pops(t)) /\ (Bars(t)' <=> Bars(t)) /\ (Bars(t) \/ Pops(t) => h'[t] = h[t])
    /\ Mine(t)' => Mine(t) /\ h'[t] = h[t]
    /\ Holds(t)' => Holds(t)
    /\ pc'[t] = "pushCas" => pc[t] = "pushCas" /\ nx'[t] = nx[t]
    /\ pc'[t] = "allocCas" => nx'[t] = Nexts[h'[t]]
    /\ PushesMain(t)' => \/ PushesMain(t)
                         \/ \A s \in Threads \ {t} : Pops(s) => h[s] # h'[t]

LEMMA QuietInv ==
    ASSUME IInv, NEW t \in Threads, Quiet(t), TypeOK', ModeInv', PointOf(t)' PROVE IInv'
<1>1. GrowInv'
  BY CalmGrow DEF IInv, Quiet
<1>2. PointInv'
  BY OthersPoints DEF IInv, Quiet, Calm, Entries
<1>3. PopInv'
  BY OthersPop DEF IInv, Quiet, Calm
<1>4. MineInv'
  <2>1. \A s \in Threads : /\ Mine(s)' => Mine(s) /\ h'[s] = h[s]
                           /\ Holds(s)' => Holds(s)
                           /\ Single(s)' => Single(s)
    BY SamePredicates DEF Quiet, Calm, Others, Same
  <2>2. InUse' \subseteq Entries' /\ entry' = entry
    BY DEF Quiet, Calm, Entries, IInv, MineInv
  <2>3. \A s \in Threads : (Holds(s)' => Mine(s)') /\ (Single(s)' => Mine(s)')
    BY DEF Mine
  <2> QED BY <2>1, <2>2, <2>3 DEF MineInv, IInv
<1>5. PICK M \in SUBSET Handles, A \in SUBSET Handles, D \in SUBSET Handles, R \in SUBSET Handles, n \in Ranks :
        Shape(M, A, D, R, n)
  BY DEF IInv, ShapeInv
<1>6. pc'[t] = "pushCas" => Nexts[h'[t]] = nx'[t]
  <2>1. pc[t] = "pushCas" => Nexts[h[t]] = nx[t]
    BY <1>5 DEF Shape
  <2>2. pc[t] = "pushCas" => Single(t)
    BY DEF Single, PointsAlone
  <2> QED BY <2>1, <2>2 DEF Quiet, Calm
<1>7. Single(t)' => h'[t] = h[t]
  BY DEF Quiet, Calm
<1>8. PushesMain(t)' => Single(t)'
  BY DEF PushesMain, Single, PointsAlone
<1>9. Shape(M, A, D, R, n)'
  BY <1>5, <1>6, <1>7, <1>8, CalmShape DEF Quiet, IInv
<1>10. ShapeInv'
  BY <1>9 DEF ShapeInv
<1> QED BY <1>1, <1>2, <1>3, <1>4, <1>10 DEF IInv
-----------------------------------------------------------------------------
(* The steps that leave the table and the lists as they are. *)

LEMMA FreeIsEntry == ASSUME ShapeInv PROVE freeValue = NULL \/ freeValue \in Entries
BY DEF ShapeInv, Shape, ListOK, Heads

LEMMA NextHandleTypes ==
    ASSUME TypeOK, NEW t \in Threads, NextHandle(t)
    PROVE  h' \in [Threads -> MaybeHandle] /\ pc' \in [Threads -> Points]
<1>1. CASE mode[t] = "enum" /\ h[t] + 1 \in Handles
  BY <1>1 DEF NextHandle, TypeOK, Goto, Set, MaybeHandle, Points, PointsOther
<1>2. CASE ~(mode[t] = "enum" /\ h[t] + 1 \in Handles)
  BY <1>2 DEF NextHandle, TypeOK, Goto, Points, PointsOther
<1> QED BY <1>1, <1>2

LEMMA CreateHandleStep == ASSUME IInv, NEW t \in Threads, CreateHandle(t) PROVE IInv'
<1>0. TypeOK /\ ModeInv /\ GrowInv /\ PointInv
  BY DEF IInv
<1>1. TypeOK'
  BY <1>0 DEF CreateHandle, Call, lists, locals, Goto, Set, TypeOK, MaybeHandle, Points, PointsAlone, PointsHolding, PointsPopping, PointsGrowing, PointsEntry, PointsOther
<1>2. Others(t)
  BY <1>0 DEF CreateHandle, Call, lists, locals, Goto, Set, TypeOK, Others, Same
<1>3. ModeInv'
  BY <1>0, <1>2, OthersMode DEF CreateHandle, Call, lists, locals, Goto, Set, TypeOK, ModeInv, PointsAlone, PointsHolding, PointsPopping, PointsBarring, PointsGrowing, PointsEntry, PointsOther
<1>4. PointOf(t)'
  BY <1>0 DEF CreateHandle, Call, lists, locals, Goto, Set, TypeOK, PointInv, PointOf, Entries, Mine, Single, Holds, Pops, Bars, PointsAlone, PointsHolding, PointsPopping, PointsBarring, PointsGrowing, PointsEntry, PointsOther
<1>5. Calm(t)
  BY <1>0, <1>2 DEF CreateHandle, Call, lists, locals, Goto, Set, TypeOK, Calm, Nexts, InUse, Single, Grows, PointsAlone, PointsHolding, PointsPopping, PointsGrowing, PointsEntry, PointsOther
<1>6. Quiet(t)
  BY <1>0, <1>5 DEF CreateHandle, Call, lists, locals, Goto, Set, TypeOK, Quiet, Mine, Single, Holds, Pops, Bars, PushesMain, PointsAlone, PointsHolding, PointsPopping, PointsBarring, PointsGrowing, PointsEntry, PointsOther
<1> QED BY <1>1, <1>3, <1>4, <1>6, QuietInv

LEMMA AllocReadStep == ASSUME IInv, NEW t \in Threads, AllocRead(t) PROVE IInv'
<1>0. TypeOK /\ ModeInv /\ GrowInv /\ PointInv
  BY DEF IInv
<1>f. freeValue = NULL \/ freeValue \in Entries
  BY FreeIsEntry DEF IInv
<1>1. TypeOK'
  BY <1>0, <1>f DEF AllocRead, INVALID, lists, locals, Goto, Set, TypeOK, MaybeHandle, Points, PointsAlone, PointsHolding, PointsPopping, PointsGrowing, PointsEntry, PointsOther
<1>2. Others(t)
  BY <1>0 DEF AllocRead, INVALID, lists, locals, Goto, Set, TypeOK, Others, Same
<1>3. ModeInv'
  BY <1>0, <1>2, OthersMode DEF AllocRead, INVALID, lists, locals, Goto, Set, TypeOK, ModeInv, PointsAlone, PointsHolding, PointsPopping, PointsBarring, PointsGrowing, PointsEntry, PointsOther
<1>4. PointOf(t)'
  BY <1>0, <1>f DEF AllocRead, INVALID, lists, locals, Goto, Set, TypeOK, PointInv, PointOf, Entries, Mine, Single, Holds, Pops, Bars, PointsAlone, PointsHolding, PointsPopping, PointsBarring, PointsGrowing, PointsEntry, PointsOther
<1>5. Calm(t)
  BY <1>0, <1>2 DEF AllocRead, INVALID, lists, locals, Goto, Set, TypeOK, Calm, Nexts, InUse, Single, Grows, PointsAlone, PointsHolding, PointsPopping, PointsGrowing, PointsEntry, PointsOther
<1>6. Quiet(t)
  BY <1>0, <1>5, <1>f DEF AllocRead, INVALID, lists, locals, Goto, Set, TypeOK, Quiet, Mine, Single, Holds, Pops, Bars, PushesMain, PointsAlone, PointsHolding, PointsPopping, PointsBarring, PointsGrowing, PointsEntry, PointsOther
<1> QED BY <1>1, <1>3, <1>4, <1>6, QuietInv

LEMMA GrowFoundStep == ASSUME IInv, NEW t \in Threads, Grow(t), freeValue # NULL PROVE IInv'
<1>0. TypeOK /\ ModeInv /\ GrowInv /\ PointInv
  BY DEF IInv
<1>f. freeValue = NULL \/ freeValue \in Entries
  BY FreeIsEntry DEF IInv
<1>1. TypeOK'
  BY <1>0, <1>f DEF Grow, INVALID, lists, locals, Goto, Set, TypeOK, MaybeHandle, Points, PointsAlone, PointsHolding, PointsPopping, PointsGrowing, PointsEntry, PointsOther
<1>2. Others(t)
  BY <1>0 DEF Grow, INVALID, lists, locals, Goto, Set, TypeOK, Others, Same
<1>3. ModeInv'
  BY <1>0, <1>2, OthersMode DEF Grow, INVALID, lists, locals, Goto, Set, TypeOK, ModeInv, PointsAlone, PointsHolding, PointsPopping, PointsBarring, PointsGrowing, PointsEntry, PointsOther
<1>4. PointOf(t)'
  BY <1>0, <1>f DEF Grow, INVALID, lists, locals, Goto, Set, TypeOK, PointInv, PointOf, Entries, Mine, Single, Holds, Pops, Bars, PointsAlone, PointsHolding, PointsPopping, PointsBarring, PointsGrowing, PointsEntry, PointsOther
<1>5. Calm(t)
  BY <1>0, <1>2 DEF Grow, INVALID, lists, locals, Goto, Set, TypeOK, Calm, Nexts, InUse, Single, Grows, PointsAlone, PointsHolding, PointsPopping, PointsGrowing, PointsEntry, PointsOther
<1>6. Quiet(t)
  BY <1>0, <1>5, <1>f DEF Grow, INVALID, lists, locals, Goto, Set, TypeOK, Quiet, Mine, Single, Holds, Pops, Bars, PushesMain, PointsAlone, PointsHolding, PointsPopping, PointsBarring, PointsGrowing, PointsEntry, PointsOther
<1> QED BY <1>1, <1>3, <1>4, <1>6, QuietInv

LEMMA FailedStep == ASSUME IInv, NEW t \in Threads, Failed(t) PROVE IInv'
<1>0. TypeOK /\ ModeInv /\ GrowInv /\ PointInv
  BY DEF IInv
<1>f. freeValue = NULL \/ freeValue \in Entries
  BY FreeIsEntry DEF IInv
<1>1. TypeOK'
  BY <1>0, <1>f DEF Failed, INVALID, lists, locals, Goto, Set, TypeOK, MaybeHandle, Points, PointsAlone, PointsHolding, PointsPopping, PointsGrowing, PointsEntry, PointsOther
<1>2. Others(t)
  BY <1>0 DEF Failed, INVALID, lists, locals, Goto, Set, TypeOK, Others, Same
<1>3. ModeInv'
  BY <1>0, <1>2, OthersMode DEF Failed, INVALID, lists, locals, Goto, Set, TypeOK, ModeInv, PointsAlone, PointsHolding, PointsPopping, PointsBarring, PointsGrowing, PointsEntry, PointsOther
<1>4. PointOf(t)'
  BY <1>0, <1>f DEF Failed, INVALID, lists, locals, Goto, Set, TypeOK, PointInv, PointOf, Entries, Mine, Single, Holds, Pops, Bars, PointsAlone, PointsHolding, PointsPopping, PointsBarring, PointsGrowing, PointsEntry, PointsOther
<1>5. Calm(t)
  BY <1>0, <1>2 DEF Failed, INVALID, lists, locals, Goto, Set, TypeOK, Calm, Nexts, InUse, Single, Grows, PointsAlone, PointsHolding, PointsPopping, PointsGrowing, PointsEntry, PointsOther
<1>6. Quiet(t)
  BY <1>0, <1>5, <1>f DEF Failed, INVALID, lists, locals, Goto, Set, TypeOK, Quiet, Mine, Single, Holds, Pops, Bars, PushesMain, PointsAlone, PointsHolding, PointsPopping, PointsBarring, PointsGrowing, PointsEntry, PointsOther
<1> QED BY <1>1, <1>3, <1>4, <1>6, QuietInv

LEMMA AllocNextStep == ASSUME IInv, NEW t \in Threads, AllocNext(t) PROVE IInv'
<1>0. TypeOK /\ ModeInv /\ GrowInv /\ PointInv
  BY DEF IInv
<1>s. Entries \subseteq Handles /\ NULL \notin Handles
  BY <1>0, SizeFacts, NoHandle
<1>h. h[t] \in Handles
  BY <1>0, <1>s DEF AllocNext, PointInv, Pops, Bars, PointsPopping, PointsBarring
<1>n. Nexts[h[t]] = entry[h[t]].next
  BY <1>h DEF Nexts
<1>1. TypeOK'
  BY <1>0, <1>h, <1>n DEF AllocNext, lists, locals, Goto, Set, TypeOK, EntryType, MaybeHandle, Points, PointsAlone, PointsHolding, PointsPopping, PointsGrowing, PointsEntry, PointsOther
<1>2. Others(t)
  BY <1>0 DEF AllocNext, lists, locals, Goto, Set, TypeOK, Others, Same
<1>3. ModeInv'
  BY <1>0, <1>2, OthersMode DEF AllocNext, lists, locals, Goto, Set, TypeOK, ModeInv, PointsAlone, PointsHolding, PointsPopping, PointsBarring, PointsGrowing, PointsEntry, PointsOther
<1>4. PointOf(t)'
  BY <1>0, <1>h, <1>n DEF AllocNext, lists, locals, Goto, Set, TypeOK, PointInv, PointOf, Entries, Mine, Single, Holds, Pops, Bars, PointsAlone, PointsHolding, PointsPopping, PointsBarring, PointsGrowing, PointsEntry, PointsOther
<1>5. Calm(t)
  BY <1>0, <1>2 DEF AllocNext, lists, locals, Goto, Set, TypeOK, Calm, Nexts, InUse, Single, Grows, PointsAlone, PointsHolding, PointsPopping, PointsGrowing, PointsEntry, PointsOther
<1>6. Quiet(t)
  BY <1>0, <1>5, <1>h, <1>n DEF AllocNext, lists, locals, Goto, Set, TypeOK, Quiet, Mine, Single, Holds, Pops, Bars, PushesMain, PointsAlone, PointsHolding, PointsPopping, PointsBarring, PointsGrowing, PointsEntry, PointsOther
<1> QED BY <1>1, <1>3, <1>4, <1>6, QuietInv

LEMMA LookupHandleStep == ASSUME IInv, NEW t \in Threads, LookupHandle(t) PROVE IInv'
<1>0. TypeOK /\ ModeInv /\ GrowInv /\ PointInv
  BY DEF IInv
<1>1. TypeOK'
  BY <1>0 DEF LookupHandle, Call, lists, locals, Goto, Set, TypeOK, MaybeHandle, Points, PointsAlone, PointsHolding, PointsPopping, PointsGrowing, PointsEntry, PointsOther
<1>2. Others(t)
  BY <1>0 DEF LookupHandle, Call, lists, locals, Goto, Set, TypeOK, Others, Same
<1>3. ModeInv'
  BY <1>0, <1>2, OthersMode DEF LookupHandle, Call, lists, locals, Goto, Set, TypeOK, ModeInv, PointsAlone, PointsHolding, PointsPopping, PointsBarring, PointsGrowing, PointsEntry, PointsOther
<1>4. PointOf(t)'
  BY <1>0 DEF LookupHandle, Call, lists, locals, Goto, Set, TypeOK, PointInv, PointOf, Entries, Mine, Single, Holds, Pops, Bars, PointsAlone, PointsHolding, PointsPopping, PointsBarring, PointsGrowing, PointsEntry, PointsOther
<1>5. Calm(t)
  BY <1>0, <1>2 DEF LookupHandle, Call, lists, locals, Goto, Set, TypeOK, Calm, Nexts, InUse, Single, Grows, PointsAlone, PointsHolding, PointsPopping, PointsGrowing, PointsEntry, PointsOther
<1>6. Quiet(t)
  BY <1>0, <1>5 DEF LookupHandle, Call, lists, locals, Goto, Set, TypeOK, Quiet, Mine, Single, Holds, Pops, Bars, PushesMain, PointsAlone, PointsHolding, PointsPopping, PointsBarring, PointsGrowing, PointsEntry, PointsOther
<1> QED BY <1>1, <1>3, <1>4, <1>6, QuietInv

LEMMA FindStep == ASSUME IInv, NEW t \in Threads, Find(t) PROVE IInv'
<1>0. TypeOK /\ ModeInv /\ GrowInv /\ PointInv
  BY DEF IInv
<1>y. nextValue <= tables * LevelEntries /\ nextValue \in Nat /\ tables * LevelEntries \in Nat
  <2>1. LevelEntries \in Nat /\ tables * LevelEntries \in Nat /\ nextValue \in Nat
    BY <1>0, SizeFacts DEF TypeOK
  <2>2. nextValue = tables * LevelEntries \/ nextValue + LevelEntries = tables * LevelEntries
    BY <1>0 DEF GrowInv
  <2> QED BY <2>1, <2>2
<1>x. h[t] \in Nat
  BY <1>0, NoHandle DEF Find, PointInv
<1>z. ~(h[t] >= nextValue) => h[t] \in Entries
  BY <1>x, <1>y DEF Entries
<1>1. TypeOK'
  BY <1>0, <1>z DEF Find, lists, locals, Goto, Set, TypeOK, MaybeHandle, Points, PointsAlone, PointsHolding, PointsPopping, PointsGrowing, PointsEntry, PointsOther
<1>2. Others(t)
  BY <1>0 DEF Find, lists, locals, Goto, Set, TypeOK, Others, Same
<1>3. ModeInv'
  BY <1>0, <1>2, OthersMode DEF Find, lists, locals, Goto, Set, TypeOK, ModeInv, PointsAlone, PointsHolding, PointsPopping, PointsBarring, PointsGrowing, PointsEntry, PointsOther
<1>4. PointOf(t)'
  BY <1>0, <1>z DEF Find, lists, locals, Goto, Set, TypeOK, PointInv, PointOf, Entries, Mine, Single, Holds, Pops, Bars, PointsAlone, PointsHolding, PointsPopping, PointsBarring, PointsGrowing, PointsEntry, PointsOther
<1>5. Calm(t)
  BY <1>0, <1>2 DEF Find, lists, locals, Goto, Set, TypeOK, Calm, Nexts, InUse, Single, Grows, PointsAlone, PointsHolding, PointsPopping, PointsGrowing, PointsEntry, PointsOther
<1>6. Quiet(t)
  BY <1>0, <1>5, <1>z DEF Find, lists, locals, Goto, Set, TypeOK, Quiet, Mine, Single, Holds, Pops, Bars, PushesMain, PointsAlone, PointsHolding, PointsPopping, PointsBarring, PointsGrowing, PointsEntry, PointsOther
<1> QED BY <1>1, <1>3, <1>4, <1>6, QuietInv

LEMMA FindTableStep == ASSUME IInv, NEW t \in Threads, FindTable(t) PROVE IInv'
<1>0. TypeOK /\ ModeInv /\ GrowInv /\ PointInv
  BY DEF IInv
<1>1. TypeOK'
  BY <1>0 DEF FindTable, lists, locals, Goto, Set, TypeOK, MaybeHandle, Points, PointsAlone, PointsHolding, PointsPopping, PointsGrowing, PointsEntry, PointsOther
<1>2. Others(t)
  BY <1>0 DEF FindTable, lists, locals, Goto, Set, TypeOK, Others, Same
<1>3. ModeInv'
  BY <1>0, <1>2, OthersMode DEF FindTable, lists, locals, Goto, Set, TypeOK, ModeInv, PointsAlone, PointsHolding, PointsPopping, PointsBarring, PointsGrowing, PointsEntry, PointsOther
<1>4. PointOf(t)'
  BY <1>0 DEF FindTable, lists, locals, Goto, Set, TypeOK, PointInv, PointOf, Entries, Mine, Single, Holds, Pops, Bars, PointsAlone, PointsHolding, PointsPopping, PointsBarring, PointsGrowing, PointsEntry, PointsOther
<1>5. Calm(t)
  BY <1>0, <1>2 DEF FindTable, lists, locals, Goto, Set, TypeOK, Calm, Nexts, InUse, Single, Grows, PointsAlone, PointsHolding, PointsPopping, PointsGrowing, PointsEntry, PointsOther
<1>6. Quiet(t)
  BY <1>0, <1>5 DEF FindTable, lists, locals, Goto, Set, TypeOK, Quiet, Mine, Single, Holds, Pops, Bars, PushesMain, PointsAlone, PointsHolding, PointsPopping, PointsBarring, PointsGrowing, PointsEntry, PointsOther
<1> QED BY <1>1, <1>3, <1>4, <1>6, QuietInv

LEMMA QueueStep == ASSUME IInv, NEW t \in Threads, QueueWakeEvent(t) PROVE IInv'
<1>0. TypeOK /\ ModeInv /\ GrowInv /\ PointInv
  BY DEF IInv
<1>1. TypeOK'
  BY <1>0 DEF QueueWakeEvent, lists, locals, Goto, Set, TypeOK, MaybeHandle, Points, PointsAlone, PointsHolding, PointsPopping, PointsGrowing, PointsEntry, PointsOther
<1>2. Others(t)
  BY <1>0 DEF QueueWakeEvent, lists, locals, Goto, Set, TypeOK, Others, Same
<1>3. ModeInv'
  BY <1>0, <1>2, OthersMode DEF QueueWakeEvent, lists, locals, Goto, Set, TypeOK, ModeInv, PointsAlone, PointsHolding, PointsPopping, PointsBarring, PointsGrowing, PointsEntry, PointsOther
<1>4. PointOf(t)'
  BY <1>0 DEF QueueWakeEvent, lists, locals, Goto, Set, TypeOK, PointInv, PointOf, Entries, Mine, Single, Holds, Pops, Bars, PointsAlone, PointsHolding, PointsPopping, PointsBarring, PointsGrowing, PointsEntry, PointsOther
<1>5. Calm(t)
  BY <1>0, <1>2 DEF QueueWakeEvent, lists, locals, Goto, Set, TypeOK, Calm, Nexts, InUse, Single, Grows, PointsAlone, PointsHolding, PointsPopping, PointsGrowing, PointsEntry, PointsOther
<1>6. Quiet(t)
  BY <1>0, <1>5 DEF QueueWakeEvent, lists, locals, Goto, Set, TypeOK, Quiet, Mine, Single, Holds, Pops, Bars, PushesMain, PointsAlone, PointsHolding, PointsPopping, PointsBarring, PointsGrowing, PointsEntry, PointsOther
<1> QED BY <1>1, <1>3, <1>4, <1>6, QuietInv

LEMMA RecheckStep == ASSUME IInv, NEW t \in Threads, Recheck(t) PROVE IInv'
<1>0. TypeOK /\ ModeInv /\ GrowInv /\ PointInv
  BY DEF IInv
<1>1. TypeOK'
  BY <1>0 DEF Recheck, lists, locals, Goto, Set, TypeOK, MaybeHandle, Points, PointsAlone, PointsHolding, PointsPopping, PointsGrowing, PointsEntry, PointsOther
<1>2. Others(t)
  BY <1>0 DEF Recheck, lists, locals, Goto, Set, TypeOK, Others, Same
<1>3. ModeInv'
  BY <1>0, <1>2, OthersMode DEF Recheck, lists, locals, Goto, Set, TypeOK, ModeInv, PointsAlone, PointsHolding, PointsPopping, PointsBarring, PointsGrowing, PointsEntry, PointsOther
<1>4. PointOf(t)'
  BY <1>0 DEF Recheck, lists, locals, Goto, Set, TypeOK, PointInv, PointOf, Entries, Mine, Single, Holds, Pops, Bars, PointsAlone, PointsHolding, PointsPopping, PointsBarring, PointsGrowing, PointsEntry, PointsOther
<1>5. Calm(t)
  BY <1>0, <1>2 DEF Recheck, lists, locals, Goto, Set, TypeOK, Calm, Nexts, InUse, Single, Grows, PointsAlone, PointsHolding, PointsPopping, PointsGrowing, PointsEntry, PointsOther
<1>6. Quiet(t)
  BY <1>0, <1>5 DEF Recheck, lists, locals, Goto, Set, TypeOK, Quiet, Mine, Single, Holds, Pops, Bars, PushesMain, PointsAlone, PointsHolding, PointsPopping, PointsBarring, PointsGrowing, PointsEntry, PointsOther
<1> QED BY <1>1, <1>3, <1>4, <1>6, QuietInv

LEMMA WakeUpStep == ASSUME IInv, NEW t \in Threads, WakeUp(t) PROVE IInv'
<1>0. TypeOK /\ ModeInv /\ GrowInv /\ PointInv
  BY DEF IInv
<1>1. TypeOK'
  BY <1>0 DEF WakeUp, lists, locals, Goto, Set, TypeOK, MaybeHandle, Points, PointsAlone, PointsHolding, PointsPopping, PointsGrowing, PointsEntry, PointsOther
<1>2. Others(t)
  BY <1>0 DEF WakeUp, lists, locals, Goto, Set, TypeOK, Others, Same
<1>3. ModeInv'
  BY <1>0, <1>2, OthersMode DEF WakeUp, lists, locals, Goto, Set, TypeOK, ModeInv, PointsAlone, PointsHolding, PointsPopping, PointsBarring, PointsGrowing, PointsEntry, PointsOther
<1>4. PointOf(t)'
  BY <1>0 DEF WakeUp, lists, locals, Goto, Set, TypeOK, PointInv, PointOf, Entries, Mine, Single, Holds, Pops, Bars, PointsAlone, PointsHolding, PointsPopping, PointsBarring, PointsGrowing, PointsEntry, PointsOther
<1>5. Calm(t)
  BY <1>0, <1>2 DEF WakeUp, lists, locals, Goto, Set, TypeOK, Calm, Nexts, InUse, Single, Grows, PointsAlone, PointsHolding, PointsPopping, PointsGrowing, PointsEntry, PointsOther
<1>6. Quiet(t)
  BY <1>0, <1>5 DEF WakeUp, lists, locals, Goto, Set, TypeOK, Quiet, Mine, Single, Holds, Pops, Bars, PushesMain, PointsAlone, PointsHolding, PointsPopping, PointsBarring, PointsGrowing, PointsEntry, PointsOther
<1> QED BY <1>1, <1>3, <1>4, <1>6, QuietInv

LEMMA UseStep == ASSUME IInv, NEW t \in Threads, Use(t) PROVE IInv'
<1>0. TypeOK /\ ModeInv /\ GrowInv /\ PointInv
  BY DEF IInv
<1>1. TypeOK'
  BY <1>0 DEF Use, lists, locals, Goto, Set, TypeOK, MaybeHandle, Points, PointsAlone, PointsHolding, PointsPopping, PointsGrowing, PointsEntry, PointsOther
<1>2. Others(t)
  BY <1>0 DEF Use, lists, locals, Goto, Set, TypeOK, Others, Same
<1>3. ModeInv'
  BY <1>0, <1>2, OthersMode DEF Use, lists, locals, Goto, Set, TypeOK, ModeInv, PointsAlone, PointsHolding, PointsPopping, PointsBarring, PointsGrowing, PointsEntry, PointsOther
<1>4. PointOf(t)'
  BY <1>0 DEF Use, lists, locals, Goto, Set, TypeOK, PointInv, PointOf, Entries, Mine, Single, Holds, Pops, Bars, PointsAlone, PointsHolding, PointsPopping, PointsBarring, PointsGrowing, PointsEntry, PointsOther
<1>5. Calm(t)
  BY <1>0, <1>2 DEF Use, lists, locals, Goto, Set, TypeOK, Calm, Nexts, InUse, Single, Grows, PointsAlone, PointsHolding, PointsPopping, PointsGrowing, PointsEntry, PointsOther
<1>6. Quiet(t)
  BY <1>0, <1>5 DEF Use, lists, locals, Goto, Set, TypeOK, Quiet, Mine, Single, Holds, Pops, Bars, PushesMain, PointsAlone, PointsHolding, PointsPopping, PointsBarring, PointsGrowing, PointsEntry, PointsOther
<1> QED BY <1>1, <1>3, <1>4, <1>6, QuietInv

LEMMA LockReadStep == ASSUME IInv, NEW t \in Threads, LockRead(t) PROVE IInv'
<1>0. TypeOK /\ ModeInv /\ GrowInv /\ PointInv
  BY DEF IInv
<1>n. h' \in [Threads -> MaybeHandle] /\ pc' \in [Threads -> Points]
  BY <1>0, NextHandleTypes DEF LockRead, Goto, TypeOK, Points, PointsOther, PointsEntry, PointsAlone
<1>h. h[t] \in Handles
  BY <1>0, SizeFacts DEF LockRead, PointInv, PointsEntry
<1>1. TypeOK'
  BY <1>0, <1>n, <1>h DEF LockRead, lists, locals, Set, TypeOK, EntryType, MaybeHandle, Points, PointsAlone, PointsHolding, PointsPopping, PointsGrowing, PointsEntry, PointsOther
<1>2. Others(t)
  BY <1>0 DEF LockRead, NextHandle, lists, locals, Goto, Set, TypeOK, Others, Same
<1>3. ModeInv'
  BY <1>0, <1>2, OthersMode DEF LockRead, NextHandle, lists, locals, Goto, Set, TypeOK, ModeInv, PointsAlone, PointsHolding, PointsPopping, PointsBarring, PointsGrowing, PointsEntry, PointsOther
<1>4. PointOf(t)'
  BY <1>0, <1>n, <1>h DEF LockRead, NextHandle, lists, locals, Goto, Set, TypeOK, PointInv, PointOf, Entries, Mine, Single, Holds, Pops, Bars, PointsAlone, PointsHolding, PointsPopping, PointsBarring, PointsGrowing, PointsEntry, PointsOther
<1>5. Calm(t)
  BY <1>0, <1>2 DEF LockRead, NextHandle, lists, locals, Goto, Set, TypeOK, Calm, Nexts, InUse, Single, Grows, PointsAlone, PointsHolding, PointsPopping, PointsGrowing, PointsEntry, PointsOther
<1>6. Quiet(t)
  BY <1>0, <1>5, <1>n, <1>h DEF LockRead, NextHandle, lists, locals, Goto, Set, TypeOK, Quiet, Mine, Single, Holds, Pops, Bars, PushesMain, PointsAlone, PointsHolding, PointsPopping, PointsBarring, PointsGrowing, PointsEntry, PointsOther
<1> QED BY <1>1, <1>3, <1>4, <1>6, QuietInv

LEMMA LockCasFailsStep == ASSUME IInv, NEW t \in Threads, LockCas(t), ~Unlocked(t) PROVE IInv'
<1>0. TypeOK /\ ModeInv /\ GrowInv /\ PointInv
  BY DEF IInv
<1>1. TypeOK'
  BY <1>0 DEF LockCas, lists, locals, Goto, Set, TypeOK, MaybeHandle, Points, PointsAlone, PointsHolding, PointsPopping, PointsGrowing, PointsEntry, PointsOther
<1>2. Others(t)
  BY <1>0 DEF LockCas, lists, locals, Goto, Set, TypeOK, Others, Same
<1>3. ModeInv'
  BY <1>0, <1>2, OthersMode DEF LockCas, lists, locals, Goto, Set, TypeOK, ModeInv, PointsAlone, PointsHolding, PointsPopping, PointsBarring, PointsGrowing, PointsEntry, PointsOther
<1>4. PointOf(t)'
  BY <1>0 DEF LockCas, lists, locals, Goto, Set, TypeOK, PointInv, PointOf, Entries, Mine, Single, Holds, Pops, Bars, PointsAlone, PointsHolding, PointsPopping, PointsBarring, PointsGrowing, PointsEntry, PointsOther
<1>5. Calm(t)
  BY <1>0, <1>2 DEF LockCas, lists, locals, Goto, Set, TypeOK, Calm, Nexts, InUse, Single, Grows, PointsAlone, PointsHolding, PointsPopping, PointsGrowing, PointsEntry, PointsOther
<1>6. Quiet(t)
  BY <1>0, <1>5 DEF LockCas, lists, locals, Goto, Set, TypeOK, Quiet, Mine, Single, Holds, Pops, Bars, PushesMain, PointsAlone, PointsHolding, PointsPopping, PointsBarring, PointsGrowing, PointsEntry, PointsOther
<1> QED BY <1>1, <1>3, <1>4, <1>6, QuietInv

LEMMA WakeStep == ASSUME IInv, NEW t \in Threads, Wake(t) PROVE IInv'
<1>0. TypeOK /\ ModeInv /\ GrowInv /\ PointInv
  BY DEF IInv
<1>n. h' \in [Threads -> MaybeHandle] /\ pc' \in [Threads -> Points]
  BY <1>0, NextHandleTypes DEF Wake, Goto, TypeOK, Points, PointsOther, PointsEntry, PointsAlone
<1>1. TypeOK'
  BY <1>0, <1>n DEF Wake, lists, locals, Set, TypeOK, MaybeHandle, Points, PointsAlone, PointsHolding, PointsPopping, PointsGrowing, PointsEntry, PointsOther
<1>2. Others(t)
  BY <1>0 DEF Wake, NextHandle, lists, locals, Goto, Set, TypeOK, Others, Same
<1>3. ModeInv'
  BY <1>0, <1>2, OthersMode DEF Wake, NextHandle, lists, locals, Goto, Set, TypeOK, ModeInv, PointsAlone, PointsHolding, PointsPopping, PointsBarring, PointsGrowing, PointsEntry, PointsOther
<1>4. PointOf(t)'
  BY <1>0, <1>n DEF Wake, NextHandle, lists, locals, Goto, Set, TypeOK, PointInv, PointOf, Entries, Mine, Single, Holds, Pops, Bars, PointsAlone, PointsHolding, PointsPopping, PointsBarring, PointsGrowing, PointsEntry, PointsOther
<1>5. Calm(t)
  BY <1>0, <1>2 DEF Wake, NextHandle, lists, locals, Goto, Set, TypeOK, Calm, Nexts, InUse, Single, Grows, PointsAlone, PointsHolding, PointsPopping, PointsGrowing, PointsEntry, PointsOther
<1>6. Quiet(t)
  BY <1>0, <1>5, <1>n DEF Wake, NextHandle, lists, locals, Goto, Set, TypeOK, Quiet, Mine, Single, Holds, Pops, Bars, PushesMain, PointsAlone, PointsHolding, PointsPopping, PointsBarring, PointsGrowing, PointsEntry, PointsOther
<1> QED BY <1>1, <1>3, <1>4, <1>6, QuietInv

LEMMA FreeStep == ASSUME IInv, NEW t \in Threads, Free(t) PROVE IInv'
<1>0. TypeOK /\ ModeInv /\ GrowInv /\ PointInv
  BY DEF IInv
<1>h. h[t] \in Handles
  BY <1>0, SizeFacts DEF Free, PointInv, Mine, Single, PointsAlone
<1>p. popping[LockIndex(h[t])] = {} => \A s \in Threads : Pops(s) => h[s] # h[t]
  BY <1>h, IndexOfLock DEF IInv, PopInv, Pops, Bars, PointsPopping, PointsBarring
<1>1. TypeOK'
  BY <1>0, <1>p DEF Free, UseMainList, MoverOwns, lists, locals, Goto, Set, TypeOK, MaybeHandle, Points, PointsAlone, PointsHolding, PointsPopping, PointsGrowing, PointsEntry, PointsOther
<1>2. Others(t)
  BY <1>0 DEF Free, UseMainList, MoverOwns, lists, locals, Goto, Set, TypeOK, Others, Same
<1>3. ModeInv'
  BY <1>0, <1>2, OthersMode DEF Free, UseMainList, MoverOwns, lists, locals, Goto, Set, TypeOK, ModeInv, PointsAlone, PointsHolding, PointsPopping, PointsBarring, PointsGrowing, PointsEntry, PointsOther
<1>4. PointOf(t)'
  BY <1>0, <1>p DEF Free, UseMainList, MoverOwns, lists, locals, Goto, Set, TypeOK, PointInv, PointOf, Entries, Mine, Single, Holds, Pops, Bars, PointsAlone, PointsHolding, PointsPopping, PointsBarring, PointsGrowing, PointsEntry, PointsOther
<1>5. Calm(t)
  BY <1>0, <1>2 DEF Free, UseMainList, MoverOwns, lists, locals, Goto, Set, TypeOK, Calm, Nexts, InUse, Single, Grows, PointsAlone, PointsHolding, PointsPopping, PointsGrowing, PointsEntry, PointsOther
<1>6. Quiet(t)
  BY <1>0, <1>5, <1>p DEF Free, UseMainList, MoverOwns, lists, locals, Goto, Set, TypeOK, Quiet, Mine, Single, Holds, Pops, Bars, PushesMain, PointsAlone, PointsHolding, PointsPopping, PointsBarring, PointsGrowing, PointsEntry, PointsOther
<1> QED BY <1>1, <1>3, <1>4, <1>6, QuietInv

LEMMA PushCasFailsStep == ASSUME IInv, NEW t \in Threads, PushCas(t), FreeList(t) # nx[t] PROVE IInv'
<1>0. TypeOK /\ ModeInv /\ GrowInv /\ PointInv
  BY DEF IInv
<1>1. TypeOK'
  BY <1>0 DEF PushCas, lists, locals, Goto, Set, TypeOK, MaybeHandle, Points, PointsAlone, PointsHolding, PointsPopping, PointsGrowing, PointsEntry, PointsOther
<1>2. Others(t)
  BY <1>0 DEF PushCas, lists, locals, Goto, Set, TypeOK, Others, Same
<1>3. ModeInv'
  BY <1>0, <1>2, OthersMode DEF PushCas, lists, locals, Goto, Set, TypeOK, ModeInv, PointsAlone, PointsHolding, PointsPopping, PointsBarring, PointsGrowing, PointsEntry, PointsOther
<1>4. PointOf(t)'
  BY <1>0 DEF PushCas, lists, locals, Goto, Set, TypeOK, PointInv, PointOf, Entries, Mine, Single, Holds, Pops, Bars, PointsAlone, PointsHolding, PointsPopping, PointsBarring, PointsGrowing, PointsEntry, PointsOther
<1>5. Calm(t)
  BY <1>0, <1>2 DEF PushCas, lists, locals, Goto, Set, TypeOK, Calm, Nexts, InUse, Single, Grows, PointsAlone, PointsHolding, PointsPopping, PointsGrowing, PointsEntry, PointsOther
<1>6. Quiet(t)
  BY <1>0, <1>5 DEF PushCas, lists, locals, Goto, Set, TypeOK, Quiet, Mine, Single, Holds, Pops, Bars, PushesMain, PointsAlone, PointsHolding, PointsPopping, PointsBarring, PointsGrowing, PointsEntry, PointsOther
<1> QED BY <1>1, <1>3, <1>4, <1>6, QuietInv
-----------------------------------------------------------------------------
(* The steps that take and return a popping lock or the lock bit of an entry. *)

LEMMA PopJoins ==
    ASSUME TypeOK, PopInv, NEW t \in Threads, Others(t), ~Bars(t), Bars(t)', h[t] \in Handles, h'[t] = h[t],
           popping' = [popping EXCEPT ![LockIndex(h[t])] = @ \cup {t}]
    PROVE  PopInv'
<1>1. LockIndex(h[t]) \in 0..Locks - 1
  BY IndexOfLock
<1>2. \A s \in Threads \ {t} : (Bars(s)' <=> Bars(s)) /\ h'[s] = h[s]
  BY SamePredicates DEF Others, Same
<1>3. ASSUME NEW i \in 0..Locks - 1 PROVE popping'[i] = {s \in Threads : Bars(s)' /\ LockIndex(h'[s]) = i}
  <2>1. popping[i] = {s \in Threads : Bars(s) /\ LockIndex(h[s]) = i}
    BY DEF PopInv
  <2>2. popping'[i] = IF i = LockIndex(h[t]) THEN popping[i] \cup {t} ELSE popping[i]
    BY <1>1 DEF TypeOK
  <2> QED BY <1>2, <2>1, <2>2
<1> QED BY <1>3 DEF PopInv, LockIndex

LEMMA PopLeaves ==
    ASSUME TypeOK, PopInv, NEW t \in Threads, Others(t), ~Bars(t)', h[t] \in Handles,
           popping' = [popping EXCEPT ![LockIndex(h[t])] = @ \ {t}], Bars(t)
    PROVE  PopInv'
<1>1. LockIndex(h[t]) \in 0..Locks - 1
  BY IndexOfLock
<1>2. \A s \in Threads \ {t} : (Bars(s)' <=> Bars(s)) /\ h'[s] = h[s]
  BY SamePredicates DEF Others, Same
<1>3. ASSUME NEW i \in 0..Locks - 1 PROVE popping'[i] = {s \in Threads : Bars(s)' /\ LockIndex(h'[s]) = i}
  <2>1. popping[i] = {s \in Threads : Bars(s) /\ LockIndex(h[s]) = i}
    BY DEF PopInv
  <2>2. popping'[i] = IF i = LockIndex(h[t]) THEN popping[i] \ {t} ELSE popping[i]
    BY <1>1 DEF TypeOK
  <2> QED BY <1>2, <2>1, <2>2
<1> QED BY <1>3 DEF PopInv, LockIndex

\* Who has an entry keeps it when the entries stay as they are.
LEMMA OthersMine ==
    ASSUME MineInv, NEW t \in Threads, Others(t), entry' = entry, Entries \subseteq Entries',
           Mine(t)' => Mine(t) /\ h'[t] = h[t], Holds(t)' => Holds(t), Single(t)' => Single(t)
    PROVE  MineInv'
<1>1. \A s \in Threads : /\ Mine(s)' => Mine(s) /\ h'[s] = h[s]
                         /\ Holds(s)' => Holds(s)
                         /\ Single(s)' => Single(s)
  BY SamePredicates DEF Others, Same
<1>2. InUse' \subseteq Entries'
  BY DEF MineInv, InUse
<1>3. \A s \in Threads : (Holds(s)' => Mine(s)') /\ (Single(s)' => Mine(s)')
  BY DEF Mine
<1> QED BY <1>1, <1>2, <1>3 DEF MineInv

LEMMA CalmInv ==
    ASSUME IInv, NEW t \in Threads, Calm(t), TypeOK', ModeInv', PointOf(t)', PopInv', MineInv',
           pc'[t] # "pushCas", pc'[t] # "allocCas", ~PushesMain(t)',
           Pops(t)' => h'[t] = freeValue /\ freeValue # NULL
    PROVE  IInv'
<1>1. GrowInv'
  BY CalmGrow DEF IInv
<1>2. PointInv'
  BY OthersPoints DEF IInv, Calm, Entries
<1>3. PICK M \in SUBSET Handles, A \in SUBSET Handles, D \in SUBSET Handles, R \in SUBSET Handles, n \in Ranks :
        Shape(M, A, D, R, n)
  BY DEF IInv, ShapeInv
<1>4. freeValue # NULL => freeValue \in M
  BY <1>3 DEF Shape, ListOK, Heads
<1>5. Shape(M, A, D, R, n)'
  BY <1>3, <1>4, CalmShape DEF IInv
<1>6. ShapeInv'
  BY <1>5 DEF ShapeInv
<1> QED BY <1>1, <1>2, <1>6 DEF IInv

LEMMA AllocLockStep == ASSUME IInv, NEW t \in Threads, AllocLock(t) PROVE IInv'
<1>0. TypeOK /\ ModeInv /\ GrowInv /\ PointInv /\ MineInv /\ PopInv /\ Entries \subseteq Handles
  BY SizeFacts DEF IInv
<1>h. h[t] \in Entries /\ h[t] \in Handles /\ pc[t] = "allocLock" /\ pc'[t] = "allocCheck" /\ h'[t] = h[t]
  BY <1>0 DEF AllocLock, PointInv, PointsEntry, Goto, TypeOK, locals
<1>i. LockIndex(h[t]) \in 0..Locks - 1
  BY <1>h, IndexOfLock
<1>p. popping' \in [0..Locks - 1 -> SUBSET Threads] /\ pc' \in [Threads -> Points]
  <2>1. popping[LockIndex(h[t])] \cup {t} \in SUBSET Threads
    BY <1>0, <1>i DEF TypeOK
  <2>2. popping' \in [0..Locks - 1 -> SUBSET Threads]
    BY <1>0, <1>i, <2>1 DEF AllocLock, TypeOK
  <2>3. pc' \in [Threads -> Points]
    BY <1>0 DEF AllocLock, Goto, TypeOK, Points, PointsEntry
  <2> QED BY <2>2, <2>3
<1>1. TypeOK'
  BY <1>0, <1>p DEF AllocLock, lists, locals, TypeOK
<1>2. Others(t)
  BY <1>0 DEF AllocLock, locals, Goto, TypeOK, Others, Same
<1>3. ModeInv'
  BY <1>0, <1>2, <1>h, OthersMode DEF AllocLock, ModeInv
<1>5. Calm(t)
  BY <1>0, <1>2, <1>h DEF AllocLock, lists, locals, Calm, Nexts, InUse, Single, Grows, PointsAlone, PointsGrowing
<1>6. /\ ~Mine(t)' /\ ~Holds(t)' /\ ~Single(t)' /\ ~Pops(t)' /\ ~PushesMain(t)' /\ ~Bars(t) /\ Bars(t)'
      /\ entry' = entry /\ Entries' = Entries
  BY <1>h DEF AllocLock, lists, Entries, Mine, Single, Holds, Pops, Bars, PushesMain, PointsAlone, PointsHolding, PointsPopping,
              PointsBarring
<1>4. PointOf(t)'
  BY <1>h, <1>6 DEF PointOf, PointsEntry
<1>7. MineInv'
  BY <1>0, <1>2, <1>6, OthersMine
<1>8. PopInv'
  BY <1>0, <1>2, <1>6, <1>h, PopJoins DEF AllocLock
<1> QED BY <1>1, <1>3, <1>4, <1>5, <1>6, <1>7, <1>8, <1>h, CalmInv

LEMMA AllocCheckStep == ASSUME IInv, NEW t \in Threads, AllocCheck(t) PROVE IInv'
<1>0. TypeOK /\ ModeInv /\ GrowInv /\ PointInv /\ MineInv /\ PopInv /\ Entries \subseteq Handles
  BY SizeFacts DEF IInv
<1>h. /\ h[t] \in Entries /\ h[t] # NULL /\ pc[t] = "allocCheck" /\ h'[t] = h[t]
      /\ pc'[t] = IF freeValue = h[t] THEN "allocNext" ELSE "allocRetry"
  BY <1>0, NoHandle DEF AllocCheck, PointInv, PointsEntry, Goto, TypeOK, locals
<1>1. TypeOK'
  BY <1>0 DEF AllocCheck, lists, locals, Goto, TypeOK, Points, PointsEntry, PointsPopping
<1>2. Others(t)
  BY <1>0 DEF AllocCheck, locals, Goto, TypeOK, Others, Same
<1>3. ModeInv'
  BY <1>0, <1>2, <1>h, OthersMode DEF AllocCheck, ModeInv, PointsBarring
<1>5. Calm(t)
  BY <1>0, <1>2, <1>h DEF AllocCheck, lists, locals, Calm, Nexts, InUse, Single, Grows, PointsAlone, PointsGrowing
<1>6. /\ ~Mine(t)' /\ ~Holds(t)' /\ ~Single(t)' /\ ~PushesMain(t)' /\ Bars(t) /\ Bars(t)'
      /\ Pops(t)' => freeValue = h[t]
      /\ entry' = entry /\ Entries' = Entries /\ popping' = popping
  BY <1>h DEF AllocCheck, lists, Entries, Mine, Single, Holds, Pops, Bars, PushesMain, PointsAlone, PointsHolding, PointsPopping,
              PointsBarring
<1>4. PointOf(t)'
  BY <1>h, <1>6 DEF PointOf
<1>7. MineInv'
  BY <1>0, <1>2, <1>6, OthersMine
<1>8. PopInv'
  BY <1>0, <1>2, <1>6, <1>h, OthersPop
<1> QED BY <1>1, <1>3, <1>4, <1>5, <1>6, <1>7, <1>8, <1>h, CalmInv

LEMMA AllocCasFailsStep == ASSUME IInv, NEW t \in Threads, AllocCas(t), freeValue # h[t] PROVE IInv'
<1>0. TypeOK /\ ModeInv /\ GrowInv /\ PointInv /\ MineInv /\ PopInv /\ Entries \subseteq Handles
  BY SizeFacts DEF IInv
<1>h. h[t] \in Entries /\ pc[t] = "allocCas" /\ pc'[t] = "allocRetry" /\ h'[t] = h[t]
  BY <1>0 DEF AllocCas, PointInv, Pops, PointsPopping, Goto, TypeOK, locals
<1>1. TypeOK'
  BY <1>0 DEF AllocCas, lists, locals, Goto, TypeOK, Points, PointsEntry
<1>2. Others(t)
  BY <1>0 DEF AllocCas, locals, Goto, TypeOK, Others, Same
<1>3. ModeInv'
  BY <1>0, <1>2, <1>h, OthersMode DEF AllocCas, ModeInv, PointsBarring
<1>5. Calm(t)
  BY <1>0, <1>2, <1>h DEF AllocCas, lists, locals, Calm, Nexts, InUse, Single, Grows, PointsAlone, PointsGrowing
<1>6. /\ ~Mine(t)' /\ ~Holds(t)' /\ ~Single(t)' /\ ~Pops(t)' /\ ~PushesMain(t)' /\ Bars(t) /\ Bars(t)'
      /\ entry' = entry /\ Entries' = Entries /\ popping' = popping
  BY <1>h DEF AllocCas, Entries, Mine, Single, Holds, Pops, Bars, PushesMain, PointsAlone, PointsHolding, PointsPopping,
              PointsBarring
<1>4. PointOf(t)'
  BY <1>h, <1>6 DEF PointOf
<1>7. MineInv'
  BY <1>0, <1>2, <1>6, OthersMine
<1>8. PopInv'
  BY <1>0, <1>2, <1>6, <1>h, OthersPop
<1> QED BY <1>1, <1>3, <1>4, <1>5, <1>6, <1>7, <1>8, <1>h, CalmInv

LEMMA AllocUnlockStep == ASSUME IInv, NEW t \in Threads, AllocUnlock(t) PROVE IInv'
<1>0. TypeOK /\ ModeInv /\ GrowInv /\ PointInv /\ MineInv /\ PopInv /\ Entries \subseteq Handles
  BY SizeFacts DEF IInv
<1>h. /\ h[t] \in Entries /\ h[t] \in Handles /\ pc[t] \in {"allocated", "allocRetry"} /\ h'[t] = h[t]
      /\ pc'[t] = IF pc[t] = "allocated" THEN "fill" ELSE "alloc"
  BY <1>0 DEF AllocUnlock, PointInv, PointsEntry, Mine, Single, PointsAlone, Goto, TypeOK, locals
<1>i. LockIndex(h[t]) \in 0..Locks - 1
  BY <1>h, IndexOfLock
<1>1. TypeOK'
  <2>1. pc' \in [Threads -> Points]
    BY <1>0 DEF AllocUnlock, Goto, TypeOK, Points, PointsAlone, PointsOther
  <2>2. popping' \in [0..Locks - 1 -> SUBSET Threads]
    BY <1>0, <1>i DEF AllocUnlock, TypeOK
  <2> QED BY <1>0, <2>1, <2>2 DEF AllocUnlock, lists, locals, TypeOK
<1>2. Others(t)
  BY <1>0 DEF AllocUnlock, locals, Goto, TypeOK, Others, Same
<1>3. ModeInv'
  BY <1>0, <1>2, <1>h, OthersMode DEF AllocUnlock, ModeInv, PointsBarring
<1>5. Calm(t)
  BY <1>0, <1>2, <1>h DEF AllocUnlock, lists, locals, Calm, Nexts, InUse, Single, Grows, PointsAlone, PointsGrowing
<1>6. /\ Mine(t)' => Mine(t)
      /\ Single(t)' => Single(t)
      /\ ~Holds(t)' /\ ~Pops(t)' /\ ~PushesMain(t)' /\ Bars(t) /\ ~Bars(t)'
      /\ entry' = entry /\ Entries' = Entries
  BY <1>h DEF AllocUnlock, lists, Entries, Mine, Single, Holds, Pops, Bars, PushesMain, PointsAlone, PointsHolding, PointsPopping,
              PointsBarring
<1>4. PointOf(t)'
  BY <1>h, <1>6 DEF PointOf
<1>7. MineInv'
  BY <1>0, <1>2, <1>6, <1>h, OthersMine
<1>8. PopInv'
  BY <1>0, <1>2, <1>6, <1>h, PopLeaves DEF AllocUnlock
<1> QED BY <1>1, <1>3, <1>4, <1>5, <1>6, <1>7, <1>8, <1>h, CalmInv

\* The lock bit of an entry: LockCas takes it, Unlock returns it.
LEMMA LockCasStep == ASSUME IInv, NEW t \in Threads, LockCas(t), Unlocked(t) PROVE IInv'
<1>0. TypeOK /\ ModeInv /\ GrowInv /\ PointInv /\ MineInv /\ PopInv /\ Entries \subseteq Handles
  BY SizeFacts DEF IInv
<1>h. h[t] \in Entries /\ h[t] \in Handles /\ pc[t] = "lockCas" /\ pc'[t] = "locked" /\ h'[t] = h[t] /\ mode' = mode
  BY <1>0 DEF LockCas, PointInv, PointsEntry, Goto, TypeOK, locals
<1>d. entry' = [entry EXCEPT ![h[t]].unlocked = FALSE] /\ entry[h[t]].inUse /\ entry[h[t]].unlocked
  <2>1. entry' = [entry EXCEPT ![h[t]].unlocked = FALSE]
    BY DEF LockCas
  <2> QED BY <2>1 DEF Unlocked
<1>e. /\ entry[h[t]].inUse /\ entry[h[t]].unlocked
      /\ entry'[h[t]].inUse /\ ~entry'[h[t]].unlocked
      /\ \A v \in Handles : entry'[v].inUse = entry[v].inUse /\ entry'[v].next = entry[v].next
      /\ \A v \in Handles \ {h[t]} : entry'[v] = entry[v]
  BY <1>0, <1>d, <1>h DEF TypeOK, EntryType
<1>1. TypeOK'
  <2>1. pc' = [pc EXCEPT ![t] = "locked"]
    BY DEF LockCas, Goto
  <2>2. entry' \in [Handles -> EntryType]
    BY <1>0, <1>d, <1>h, EntryUpdates DEF TypeOK
  <2> QED BY <1>0, <2>1, <2>2 DEF LockCas, lists, locals, TypeOK, Points, PointsHolding
<1>2. Others(t)
  BY <1>0 DEF LockCas, locals, Goto, TypeOK, Others, Same
<1>3. ModeInv'
  BY <1>0, <1>2, <1>h, OthersMode DEF PointsPopping, PointsBarring, PointsGrowing
<1>4. Nexts' = Nexts /\ InUse' = InUse /\ Entries' = Entries
  BY <1>e DEF Nexts, InUse, Entries, LockCas, lists
<1>5. /\ ~Mine(t) /\ Holds(t)' /\ ~Single(t)' /\ ~Single(t) /\ ~Pops(t) /\ ~Bars(t) /\ ~Pops(t)' /\ ~Bars(t)' /\ ~PushesMain(t)'
      /\ ~Grows(t) /\ ~Grows(t)'
  BY <1>h DEF Mine, Single, Holds, Pops, Bars, Grows, PushesMain, PointsAlone, PointsHolding, PointsPopping, PointsBarring, PointsGrowing
<1>6. Calm(t)
  BY <1>2, <1>4, <1>5, <1>e DEF Calm, LockCas, lists
<1>7. PointOf(t)'
  BY <1>4, <1>h DEF PointOf
<1>8. MineInv'
  <2>1. \A s \in Threads \ {t} : (Mine(s)' <=> Mine(s)) /\ (Holds(s)' <=> Holds(s)) /\ (Single(s)' <=> Single(s)) /\ h'[s] = h[s]
    BY <1>2, SamePredicates DEF Others, Same
  <2>2. \A s \in Threads \ {t} : Mine(s) => h[s] # h[t] /\ h[s] \in Handles
    <3> TAKE s \in Threads \ {t}
    <3>1. Mine(s) => h[s] \in Handles
      BY <1>0 DEF PointInv
    <3>2. Mine(s) => h[s] # h[t]
      BY <1>0, <1>e DEF MineInv, Mine
    <3> QED BY <3>1, <3>2
  <2>3. \A s \in Threads : Mine(s)' /\ s # t => entry'[h'[s]] = entry[h[s]]
    BY <1>e, <2>1, <2>2
  <2>4. \A s, u \in Threads : s # u /\ Mine(s)' /\ Mine(u)' => h'[s] # h'[u]
    BY <1>0, <1>h, <2>1, <2>2 DEF MineInv
  <2>5. \A s \in Threads : Holds(s)' => entry'[h'[s]].inUse /\ ~entry'[h'[s]].unlocked
    BY <1>0, <1>e, <1>h, <2>1, <2>3 DEF MineInv, Mine
  <2>6. \A s \in Threads : Single(s)' => ~entry'[h'[s]].inUse
    BY <1>0, <1>5, <2>1, <2>3 DEF MineInv, Mine
  <2> QED BY <1>0, <1>4, <2>4, <2>5, <2>6 DEF MineInv
<1>9. PopInv'
  BY <1>0, <1>2, <1>5, OthersPop DEF LockCas
<1> QED BY <1>1, <1>3, <1>5, <1>6, <1>7, <1>8, <1>9, <1>h, CalmInv

LEMMA UnlockStep == ASSUME IInv, NEW t \in Threads, Unlock(t) PROVE IInv'
<1>0. TypeOK /\ ModeInv /\ GrowInv /\ PointInv /\ MineInv /\ PopInv /\ Entries \subseteq Handles
  BY SizeFacts DEF IInv
<1>h. /\ h[t] \in Entries /\ h[t] \in Handles /\ pc[t] = "unlock" /\ pc'[t] = "wake" /\ h'[t] = h[t] /\ mode' = mode
      /\ mode[t] # "destroy" /\ Holds(t)
  BY <1>0 DEF Unlock, PointInv, Mine, Holds, PointsHolding, Goto, TypeOK, locals, ModeInv
<1>e. /\ \A v \in Handles : entry'[v].inUse = entry[v].inUse /\ entry'[v].next = entry[v].next
      /\ \A v \in Handles \ {h[t]} : entry'[v] = entry[v]
  BY <1>0, <1>h DEF Unlock, TypeOK, EntryType
<1>1. TypeOK'
  BY <1>0, <1>h, EntryUpdates DEF Unlock, lists, locals, Goto, TypeOK, Points, PointsOther
<1>2. Others(t)
  BY <1>0 DEF Unlock, locals, Goto, TypeOK, Others, Same
<1>3. ModeInv'
  BY <1>0, <1>2, <1>h, OthersMode DEF PointsPopping, PointsBarring, PointsGrowing
<1>4. Nexts' = Nexts /\ InUse' = InUse /\ Entries' = Entries
  BY <1>e DEF Nexts, InUse, Entries, Unlock, lists
<1>5. /\ Mine(t) /\ ~Mine(t)' /\ ~Holds(t)' /\ ~Single(t)' /\ ~Single(t) /\ ~Pops(t) /\ ~Bars(t) /\ ~Pops(t)' /\ ~Bars(t)' /\ ~PushesMain(t)'
      /\ ~Grows(t) /\ ~Grows(t)'
  BY <1>h DEF Mine, Single, Holds, Pops, Bars, Grows, PushesMain, PointsAlone, PointsHolding, PointsPopping, PointsBarring, PointsGrowing
<1>6. Calm(t)
  BY <1>2, <1>4, <1>5, <1>e DEF Calm, Unlock, lists
<1>7. PointOf(t)'
  BY <1>4, <1>5, <1>h DEF PointOf
<1>8. MineInv'
  <2>1. \A s \in Threads \ {t} : (Mine(s)' <=> Mine(s)) /\ (Holds(s)' <=> Holds(s)) /\ (Single(s)' <=> Single(s)) /\ h'[s] = h[s]
    BY <1>2, SamePredicates DEF Others, Same
  <2>2. \A s \in Threads \ {t} : Mine(s) => h[s] # h[t] /\ h[s] \in Handles
    BY <1>0, <1>5 DEF MineInv, PointInv
  <2>3. \A s \in Threads \ {t} : Mine(s) => entry'[h'[s]] = entry[h[s]]
    BY <1>e, <2>1, <2>2
  <2>4. \A s, u \in Threads : s # u /\ Mine(s)' /\ Mine(u)' => h'[s] # h'[u]
    BY <1>0, <1>5, <2>1 DEF MineInv
  <2>5. \A s \in Threads : Holds(s)' => entry'[h'[s]].inUse /\ ~entry'[h'[s]].unlocked
    BY <1>0, <1>5, <2>1, <2>3 DEF MineInv, Mine
  <2>6. \A s \in Threads : Single(s)' => ~entry'[h'[s]].inUse
    BY <1>0, <1>5, <2>1, <2>3 DEF MineInv, Mine
  <2> QED BY <1>0, <1>4, <2>4, <2>5, <2>6 DEF MineInv
<1>9. PopInv'
  BY <1>0, <1>2, <1>5, OthersPop DEF Unlock
<1> QED BY <1>1, <1>3, <1>5, <1>6, <1>7, <1>8, <1>9, <1>h, CalmInv
-----------------------------------------------------------------------------
(* The steps of the thread that holds the table's lock. *)

OwnerStep(t) ==
    /\ Others(t) /\ Grows(t) /\ pc'[t] \in PointsGrowing \cup {"allocLock", "alloc", "failed"}
    /\ popping' = popping /\ mode' = mode /\ Entries \subseteq Entries' /\ owner' \in {t, NULL}
    /\ \A v \in Entries : entry'[v].inUse = entry[v].inUse /\ entry'[v].unlocked = entry[v].unlocked
    /\ \A v \in Handles \ Entries : ~entry'[v].inUse

LEMMA OwnerThreads ==
    ASSUME NEW t \in Threads, OwnerStep(t)
    PROVE  /\ ~Mine(t) /\ ~Single(t) /\ ~Holds(t) /\ ~Pops(t) /\ ~Bars(t) /\ ~PushesMain(t)
           /\ ~Mine(t)' /\ ~Single(t)' /\ ~Holds(t)' /\ ~Pops(t)' /\ ~Bars(t)' /\ ~PushesMain(t)' /\ pc'[t] # "pushCas"
           /\ \A s \in Threads : /\ (Mine(s)' <=> Mine(s)) /\ (Single(s)' <=> Single(s))
                                 /\ (Holds(s)' <=> Holds(s)) /\ (Pops(s)' <=> Pops(s)) /\ (Bars(s)' <=> Bars(s))
                                 /\ (PushesMain(s)' <=> PushesMain(s))
                                 /\ s # t => Same(s)
<1>1. /\ ~Mine(t) /\ ~Single(t) /\ ~Holds(t) /\ ~Pops(t) /\ ~Bars(t) /\ ~PushesMain(t)
      /\ ~Mine(t)' /\ ~Single(t)' /\ ~Holds(t)' /\ ~Pops(t)' /\ ~Bars(t)' /\ ~PushesMain(t)' /\ pc'[t] # "pushCas"
  BY DEF OwnerStep, Grows, Mine, Single, Holds, Pops, Bars, PushesMain, PointsAlone, PointsHolding,
         PointsPopping, PointsBarring, PointsGrowing
<1> QED BY <1>1, SamePredicates DEF OwnerStep, Others

LEMMA OwnerRest ==
    ASSUME IInv, NEW t \in Threads, OwnerStep(t), pc'[t] = "allocLock" => h'[t] \in Entries'
    PROVE  ModeInv' /\ PointInv' /\ PopInv' /\ MineInv'
<1>0. TypeOK /\ ModeInv /\ GrowInv /\ PointInv /\ MineInv /\ PopInv /\ Entries \subseteq Handles
  BY SizeFacts DEF IInv
<1>1. ModeInv'
  <2>1. mode'[t] = "create"
    BY <1>0 DEF OwnerStep, ModeInv, Grows
  <2>2. pc'[t] \notin {"unlock", "destroy"}
    BY DEF OwnerStep, PointsGrowing
  <2> QED BY <1>0, <2>1, <2>2, OthersMode DEF OwnerStep
<1>2. PointInv'
  <2>1. PointOf(t)'
    BY OwnerThreads DEF OwnerStep, PointOf, PointsEntry, PointsGrowing
  <2> QED BY <1>0, <2>1, OthersPoints DEF OwnerStep
<1>3. PopInv'
  BY <1>0, OwnerThreads, OthersPop DEF OwnerStep
<1>4. MineInv'
  <2>1. \A s \in Threads : Mine(s) => s # t /\ h'[s] = h[s] /\ h[s] \in Entries
    BY <1>0, OwnerThreads DEF Same, PointInv
  <2>2. \A s \in Threads : Mine(s) => entry'[h'[s]].inUse = entry[h[s]].inUse /\ entry'[h'[s]].unlocked = entry[h[s]].unlocked
    BY <2>1 DEF OwnerStep
  <2>3. InUse' \subseteq Entries'
    BY DEF InUse, OwnerStep
  <2>4. \A s, u \in Threads : s # u /\ Mine(s)' /\ Mine(u)' => h'[s] # h'[u]
    BY <1>0, <2>1, OwnerThreads DEF MineInv
  <2>5. \A s \in Threads : Holds(s)' => entry'[h'[s]].inUse /\ ~entry'[h'[s]].unlocked
    BY <1>0, <2>2, OwnerThreads DEF MineInv, Mine
  <2>6. \A s \in Threads : Single(s)' => ~entry'[h'[s]].inUse
    BY <1>0, <2>2, OwnerThreads DEF MineInv, Mine
  <2> QED BY <2>3, <2>4, <2>5, <2>6 DEF MineInv
<1> QED BY <1>1, <1>2, <1>3, <1>4

LEMMA OwnerShape ==
    ASSUME IInv, NEW t \in Threads, OwnerStep(t),
           NEW M \in SUBSET Handles, NEW A \in SUBSET Handles, NEW D \in SUBSET Handles, NEW R \in SUBSET Handles,
           NEW n \in Ranks, Shape(M, A, D, R, n),
           NEW M2 \in SUBSET Handles, NEW A2 \in SUBSET Handles, NEW D2 \in SUBSET Handles, NEW R2 \in SUBSET Handles,
           NEW m \in Ranks,
           M2 \cup A2 \cup D2 \cup R2 = M \cup A \cup D \cup R \cup (Entries' \ Entries),
           M2 \cap A2 = {}, (M2 \cup A2) \cap (D2 \cup R2) = {}, D2 \cap R2 = {},
           ListOK(M2, freeValue', Nexts', m), ListOK(A2, freeValueAlt', Nexts', m),
           owner' = NULL => D2 = {} /\ R2 = {},
           ChainOf(t, D2, R2, m)',
           \A v \in Entries \ (D \cup R) : Nexts'[v] = Nexts[v],
           \A s \in Threads : Pops(s) =>
                /\ h[s] \in M2 => h[s] \in M
                /\ h[s] \notin R2
                /\ h[s] \in D2 /\ owner' = t => pc'[t] = "drain" /\ tail'[t] <= LockIndex(h[s])
    PROVE  Shape(M2, A2, D2, R2, m)'
<1>0. TypeOK /\ ModeInv /\ GrowInv /\ PointInv /\ MineInv /\ PopInv /\ Entries \subseteq Handles
  BY SizeFacts DEF IInv
<1>1. \A s \in Threads : Mine(s) \/ Pops(s) => s # t /\ Same(s) /\ h'[s] = h[s] /\ h[s] \in Entries
  BY <1>0, OwnerThreads DEF Same, PointInv
<1>2. \A s \in Threads : Single(s) => Mine(s)
  BY DEF Mine
<1>3. M2 \cup A2 \cup D2 \cup R2 \subseteq Entries'
  BY DEF Shape, OwnerStep
<1>4. \A v \in M2 \cup A2 \cup D2 \cup R2 : ~entry'[v].inUse /\ \A s \in Threads : Single(s)' => h'[s] # v
  <2> TAKE v \in M2 \cup A2 \cup D2 \cup R2
  <2>1. CASE v \in Entries
    <3>1. v \in M \cup A \cup D \cup R
      BY <2>1
    <3>2. ~entry[v].inUse /\ \A s \in Threads : Single(s) => h[s] # v
      BY <3>1 DEF Shape
    <3> QED BY <1>1, <1>2, <2>1, <3>2, OwnerThreads DEF OwnerStep
  <2>2. CASE v \notin Entries
    BY <1>1, <1>2, <2>2, OwnerThreads DEF OwnerStep
  <2> QED BY <2>1, <2>2
<1>5. \A v \in Entries' : \/ v \in M2 \cup A2 \cup D2 \cup R2 \cup InUse'
                          \/ \E s \in Threads : Single(s)' /\ h'[s] = v
  <2> TAKE v \in Entries'
  <2>1. CASE v \in Entries
    <3>1. \/ v \in M \cup A \cup D \cup R \cup InUse
          \/ \E s \in Threads : Single(s) /\ h[s] = v
      BY <2>1 DEF Shape
    <3>2. v \in InUse => v \in InUse'
      BY <2>1 DEF InUse, OwnerStep
    <3> QED BY <1>1, <1>2, <3>1, <3>2, OwnerThreads
  <2>2. CASE v \notin Entries
    BY <2>2
  <2> QED BY <2>1, <2>2
<1>6. \A s \in Threads : ChainOf(s, D2, R2, m)'
  <2> TAKE s \in Threads
  <2>1. CASE s = t
    BY <2>1
  <2>2. CASE s # t
    <3>1. ~Grows(s)
      BY <1>0, <2>2 DEF GrowInv, OwnerStep
    <3>2. ~Grows(s)'
      BY <2>2, <3>1, SamePredicates DEF OwnerStep, Others
    <3> QED BY <3>2 DEF Grows, PointsGrowing, ChainOf
  <2> QED BY <2>1, <2>2
<1>7. \A s \in Threads : PopOf(s, M2, D2, R2)'
  <2> TAKE s \in Threads
  <2> SUFFICES ASSUME Pops(s)'
               PROVE  /\ pc'[s] = "allocCas" /\ h'[s] \in M2 => nx'[s] = Nexts'[h'[s]]
                      /\ h'[s] \notin R2
                      /\ \A o \in Threads : h'[s] \in D2 /\ owner' = o => pc'[o] = "drain" /\ tail'[o] <= LockIndex(h'[s])
                      /\ \A u \in Threads : PushesMain(u)' => h'[u] # h'[s]
    BY DEF PopOf, LockIndex
  <2>1. Pops(s) /\ Same(s) /\ h'[s] = h[s] /\ h[s] \in Entries
    BY <1>1, OwnerThreads
  <2>2. pc'[s] = "allocCas" /\ h'[s] \in M2 => nx'[s] = Nexts'[h'[s]]
    <3> SUFFICES ASSUME pc'[s] = "allocCas", h'[s] \in M2 PROVE nx'[s] = Nexts'[h'[s]]
      OBVIOUS
    <3>1. h[s] \in M /\ h[s] \notin D \cup R /\ pc[s] = "allocCas"
      BY <2>1 DEF Shape, Same
    <3>2. nx[s] = Nexts[h[s]]
      BY <2>1, <3>1 DEF Shape, PopOf
    <3> QED BY <2>1, <3>1, <3>2 DEF Same
  <2>3. h'[s] \notin R2
    BY <2>1
  <2>4. \A o \in Threads : h'[s] \in D2 /\ owner' = o => pc'[o] = "drain" /\ tail'[o] <= LockIndex(h'[s])
    BY <2>1, NoHandle DEF OwnerStep
  <2>5. ASSUME NEW u \in Threads, PushesMain(u)' PROVE h'[u] # h'[s]
    <3>1. PushesMain(u) /\ Mine(u)
      BY <2>5, OwnerThreads DEF PushesMain, Mine, Single, PointsAlone
    <3> QED BY <1>1, <2>1, <3>1 DEF Shape, PopOf
  <2> QED BY <2>2, <2>3, <2>4, <2>5
<1>8. \A s \in Threads : pc'[s] = "pushCas" => Nexts'[h'[s]] = nx'[s]
  <2> SUFFICES ASSUME NEW s \in Threads, pc'[s] = "pushCas" PROVE Nexts'[h'[s]] = nx'[s]
    OBVIOUS
  <2>1. s # t /\ Same(s) /\ pc[s] = "pushCas"
    BY OwnerThreads DEF Same
  <2>2. Single(s) /\ Mine(s)
    BY <2>1 DEF Mine, Single, PointsAlone
  <2>3. h[s] \in Entries \ (D \cup R) /\ Nexts[h[s]] = nx[s]
    BY <1>1, <2>1, <2>2 DEF Shape
  <2> QED BY <2>1, <2>3 DEF Same
<1> QED BY <1>3, <1>4, <1>5, <1>6, <1>7, <1>8 DEF Shape

\* Nobody else extends the table.
LEMMA OwnerSize ==
    ASSUME GrowInv, NEW t \in Threads, Grows(t)
    PROVE  /\ pc[t] = "extend" => nextValue + LevelEntries = tables * LevelEntries
           /\ pc[t] # "extend" => nextValue = tables * LevelEntries
           /\ \A s \in Threads \ {t} : ~Grows(s) /\ pc[s] \notin {"extend", "splice", "spliceCas"}
<1>1. \A s \in Threads \ {t} : ~Grows(s)
  BY DEF GrowInv
<1>2. \A s \in Threads \ {t} : pc[s] \notin {"extend", "splice", "spliceCas"}
  BY <1>1 DEF Grows, PointsGrowing
<1> QED BY <1>1, <1>2 DEF GrowInv

LEMMA OwnerGrow ==
    ASSUME GrowInv, NEW t \in Threads, OwnerStep(t), Grows(t)' <=> owner' = t,
           pc'[t] \in {"splice", "spliceCas"} => cont'[t] # "idle",
           0 < tables', tables' <= LevelEntries * LevelEntries,
           pc'[t] = "extend" => nextValue' + LevelEntries = tables' * LevelEntries,
           pc'[t] # "extend" => nextValue' = tables' * LevelEntries
    PROVE  GrowInv'
<1>1. \A s \in Threads \ {t} : ~Grows(s)' /\ pc'[s] \notin {"extend", "splice", "spliceCas"} /\ owner' # s
  <2>1. \A s \in Threads \ {t} : ~Grows(s) /\ pc[s] \notin {"extend", "splice", "spliceCas"}
    BY OwnerSize DEF OwnerStep
  <2>2. \A s \in Threads \ {t} : (Grows(s)' <=> Grows(s)) /\ pc'[s] = pc[s]
    BY SamePredicates DEF OwnerStep, Others, Same
  <2> QED BY <2>1, <2>2, NoHandle DEF OwnerStep
<1> QED BY <1>1 DEF GrowInv

\* A step of the owner that leaves the entries alone.
LEMMA OwnerPlain ==
    ASSUME IInv, NEW t \in Threads, Others(t), Grows(t), pc'[t] \in PointsGrowing \cup {"allocLock", "alloc", "failed"},
           popping' = popping, mode' = mode, tables' = tables, nextValue' = nextValue, entry' = entry,
           pc[t] # "extend", pc'[t] # "extend",
           owner' = (IF pc'[t] \in PointsGrowing THEN t ELSE NULL),
           pc'[t] \in {"splice", "spliceCas"} => cont'[t] # "idle"
    PROVE  OwnerStep(t) /\ GrowInv' /\ Entries' = Entries /\ Nexts' = Nexts
<1>0. GrowInv /\ TypeOK /\ MineInv
  BY DEF IInv
<1>1. Entries' = Entries /\ Nexts' = Nexts
  BY DEF Entries, Nexts
<1>2. \A v \in Handles \ Entries : ~entry'[v].inUse
  BY <1>0 DEF MineInv, InUse
<1>3. OwnerStep(t)
  BY <1>1, <1>2 DEF OwnerStep
<1>4. Grows(t)' <=> owner' = t
  BY NoHandle DEF Grows
<1>5. nextValue' = tables' * LevelEntries
  BY <1>0, OwnerSize
<1>6. GrowInv'
  BY <1>0, <1>3, <1>4, <1>5, OwnerGrow DEF GrowInv
<1> QED BY <1>1, <1>3, <1>6

\* Where the lists are.
LEMMA Lists ==
    ASSUME IInv
    PROVE  \E M \in SUBSET Handles, A \in SUBSET Handles, D \in SUBSET Handles, R \in SUBSET Handles, n \in Ranks :
             Shape(M, A, D, R, n)
BY DEF IInv, ShapeInv

LEMMA MoveStep == ASSUME IInv, NEW t \in Threads, Move(t) PROVE IInv'
<1>0. TypeOK /\ NULL \notin Threads /\ GrowInv /\ Locks \in Nat /\ Locks > 0
  BY NoHandle, SizeFacts DEF IInv
<1>1. /\ pc[t] = "move" /\ Grows(t) /\ owner = t
      /\ pc' = [pc EXCEPT ![t] = IF freeValueAlt = NULL THEN "more" ELSE "drain"]
      /\ nx'[t] = freeValueAlt /\ tail'[t] = 0 /\ freeValueAlt' = NULL
  BY <1>0 DEF Move, Grows, PointsGrowing, GrowInv, TypeOK, Set, Goto, INVALID
<1>2. TypeOK'
  BY <1>0, <1>1 DEF Move, TypeOK, Set, MaybeHandle, Points, PointsGrowing, INVALID
<1>3. Others(t)
  BY <1>0, <1>1 DEF Move, TypeOK, Set, Others, Same
<1>4. pc'[t] \in {"more", "drain"} /\ owner' = t /\ (pc'[t] = "drain" => freeValueAlt # NULL) /\ (pc'[t] = "more" => freeValueAlt = NULL)
  BY <1>0, <1>1 DEF Move, TypeOK
<1>5. OwnerStep(t) /\ GrowInv' /\ Entries' = Entries /\ Nexts' = Nexts
  BY <1>1, <1>3, <1>4, OwnerPlain DEF Move, PointsGrowing
<1>6. ModeInv' /\ PointInv' /\ PopInv' /\ MineInv'
  BY <1>4, <1>5, OwnerRest
<1>7. PICK M \in SUBSET Handles, A \in SUBSET Handles, D \in SUBSET Handles, R \in SUBSET Handles, n \in Ranks :
        Shape(M, A, D, R, n)
  BY Lists
<1>8. D = {} /\ R = {}
  BY <1>1, <1>7 DEF Shape, ChainOf
<1>9. ListOK(M, freeValue', Nexts', n) /\ ListOK(A, nx'[t], Nexts', n) /\ (freeValueAlt # NULL <=> A # {})
  BY <1>1, <1>5, <1>7 DEF Shape, Move, ListOK, Heads
<1>10. Shape(M, {}, A, {}, n)'
  <2>1. ListOK({}, freeValueAlt', Nexts', n)
    BY <1>1, EmptyList
  <2>2. ChainOf(t, A, {}, n)'
    BY <1>0, <1>1, <1>4, <1>9 DEF ChainOf
  <2>3. \A s \in Threads : Pops(s) => LockIndex(h[s]) \in 0..Locks - 1
    BY <1>0, IndexOfLock, SizeFacts DEF IInv, PointInv
  <2>4. \A s \in Threads : Pops(s) /\ h[s] \in A => A # {} /\ pc'[t] = "drain" /\ tail'[t] <= LockIndex(h[s])
    BY <1>1, <1>4, <1>9, <2>3
  <2>5. \A v \in Entries \ (D \cup R) : Nexts'[v] = Nexts[v]
    BY <1>5
  <2>6. /\ M \cup {} \cup A \cup {} = M \cup A \cup D \cup R \cup (Entries' \ Entries)
        /\ M \cap {} = {} /\ (M \cup {}) \cap (A \cup {}) = {} /\ A \cap {} = {} /\ {} \in SUBSET Handles
    BY <1>5, <1>7, <1>8 DEF Shape
  <2> HIDE DEF Shape
  <2> QED BY <1>0, <1>4, <1>5, <1>7, <1>9, <2>1, <2>2, <2>4, <2>5, <2>6, OwnerShape
<1>11. ShapeInv'
  BY <1>10 DEF ShapeInv
<1> QED BY <1>2, <1>5, <1>6, <1>11 DEF IInv

LEMMA NextIndex ==
    ASSUME NEW k \in Nat, k > 0, NEW x \in 0..k - 1
    PROVE  (x + 1 = k \/ (x + 1) % k = x + 1) /\ (x + 1) % k \in 0..k - 1 /\ (x + 1) % k \in Int
<1>1. (x + 1) % k \in 0..k - 1
  OBVIOUS
<1>2. x + 1 < k => (x + 1) % k = x + 1
  OBVIOUS
<1> QED BY <1>1, <1>2

LEMMA DrainStep == ASSUME IInv, NEW t \in Threads, Drain(t) PROVE IInv'
<1>0. TypeOK /\ NULL \notin Threads /\ GrowInv /\ Locks \in Nat /\ Locks > 0 /\ PopInv /\ PointInv /\ Entries \subseteq Handles
  BY NoHandle, SizeFacts DEF IInv
<1>1. /\ pc[t] = "drain" /\ Grows(t) /\ owner = t /\ popping[tail[t]] = {}
      /\ pc' = [pc EXCEPT ![t] = IF tail[t] + 1 = Locks THEN "moved" ELSE "drain"]
      /\ tail' = [tail EXCEPT ![t] = (tail[t] + 1) % Locks]
  BY <1>0 DEF Drain, Grows, PointsGrowing, GrowInv, Set, Goto
<1>7. PICK M \in SUBSET Handles, A \in SUBSET Handles, D \in SUBSET Handles, R \in SUBSET Handles, n \in Ranks :
        Shape(M, A, D, R, n)
  BY Lists
<1>8. D # {} /\ R = {} /\ ListOK(D, nx[t], Nexts, n) /\ tail[t] \in 0..Locks - 1
  BY <1>1, <1>7 DEF Shape, ChainOf
<1>k. /\ tail'[t] = (tail[t] + 1) % Locks /\ (tail[t] + 1 = Locks \/ tail'[t] = tail[t] + 1) /\ tail'[t] \in 0..Locks - 1
      /\ (tail[t] + 1) % Locks \in Int
  <2>1. tail'[t] = (tail[t] + 1) % Locks
    BY <1>0, <1>1 DEF TypeOK
  <2> QED BY <1>0, <1>8, <2>1, NextIndex
<1>2. TypeOK'
  BY <1>0, <1>1, <1>k DEF Drain, lists, TypeOK, Points, PointsGrowing
<1>3. Others(t)
  BY <1>0, <1>1 DEF Drain, TypeOK, Others, Same
<1>4. pc'[t] \in {"moved", "drain"} /\ owner' = t /\ (pc'[t] = "moved" <=> tail[t] + 1 = Locks) /\ nx' = nx
  BY <1>0, <1>1 DEF Drain, TypeOK
<1>5. OwnerStep(t) /\ GrowInv' /\ Entries' = Entries /\ Nexts' = Nexts
  BY <1>1, <1>3, <1>4, OwnerPlain DEF Drain, PointsGrowing, lists
<1>6. ModeInv' /\ PointInv' /\ PopInv' /\ MineInv'
  BY <1>4, <1>5, OwnerRest
<1>9. ListOK(M, freeValue', Nexts', n) /\ ListOK(A, freeValueAlt', Nexts', n) /\ ListOK(D, nx'[t], Nexts', n)
  BY <1>4, <1>5, <1>7, <1>8 DEF Shape, Drain, lists
<1>10. Shape(M, A, D, {}, n)'
  <2>2. ChainOf(t, D, {}, n)'
    BY <1>4, <1>8, <1>9, <1>k DEF ChainOf
  <2>3. ASSUME NEW s \in Threads, Pops(s) PROVE LockIndex(h[s]) \in 0..Locks - 1 /\ LockIndex(h[s]) # tail[t]
    <3>1. LockIndex(h[s]) \in 0..Locks - 1
      BY <1>0, <2>3, IndexOfLock DEF PointInv
    <3> QED BY <1>0, <1>1, <2>3, <3>1 DEF PopInv, Pops, Bars, PointsPopping, PointsBarring
  <2>4. ASSUME NEW s \in Threads, Pops(s), h[s] \in D PROVE pc'[t] = "drain" /\ tail'[t] <= LockIndex(h[s])
    <3>1. tail[t] <= LockIndex(h[s])
      BY <1>1, <1>7, <2>4 DEF Shape, PopOf
    <3>2. LockIndex(h[s]) \in 0..Locks - 1 /\ LockIndex(h[s]) # tail[t]
      BY <2>3, <2>4
    <3> QED BY <1>0, <1>4, <1>8, <1>k, <3>1, <3>2
  <2>5. \A v \in Entries \ (D \cup R) : Nexts'[v] = Nexts[v]
    BY <1>5
  <2>6. /\ M \cup A \cup D \cup {} = M \cup A \cup D \cup R \cup (Entries' \ Entries)
        /\ M \cap A = {} /\ (M \cup A) \cap (D \cup {}) = {} /\ D \cap {} = {} /\ {} \in SUBSET Handles
    BY <1>5, <1>7, <1>8 DEF Shape
  <2> HIDE DEF Shape
  <2> QED BY <1>0, <1>4, <1>5, <1>7, <1>9, <2>2, <2>4, <2>5, <2>6, OwnerShape
<1>11. ShapeInv'
  BY <1>10 DEF ShapeInv
<1> QED BY <1>2, <1>5, <1>6, <1>11 DEF IInv

LEMMA ShortcutStep == ASSUME IInv, NEW t \in Threads, Shortcut(t) PROVE IInv'
<1>0. TypeOK /\ NULL \notin Threads /\ GrowInv /\ Entries \subseteq Handles
  BY NoHandle, SizeFacts DEF IInv
<1>1. /\ pc[t] = "moved" /\ Grows(t) /\ owner = t /\ freeValue = NULL
      /\ pc' = [pc EXCEPT ![t] = "allocLock"] /\ owner' = NULL /\ freeValue' = nx[t] /\ h' = [h EXCEPT ![t] = nx[t]]
  BY <1>0 DEF Shortcut, Grows, PointsGrowing, GrowInv, Set, Goto, INVALID
<1>7. PICK M \in SUBSET Handles, A \in SUBSET Handles, D \in SUBSET Handles, R \in SUBSET Handles, n \in Ranks :
        Shape(M, A, D, R, n)
  BY Lists
<1>8. M = {} /\ D # {} /\ R = {} /\ ListOK(D, nx[t], Nexts, n) /\ nx[t] \in D /\ nx[t] \in Handles
  BY <1>1, <1>7 DEF Shape, ChainOf, ListOK, Heads
<1>2. TypeOK'
  BY <1>0, <1>1, <1>8 DEF Shortcut, TypeOK, Points, PointsEntry, MaybeHandle
<1>3. Others(t)
  BY <1>0, <1>1 DEF Shortcut, TypeOK, Others, Same
<1>4. pc'[t] = "allocLock" /\ h'[t] = nx[t]
  BY <1>0, <1>1 DEF TypeOK
<1>5. OwnerStep(t) /\ GrowInv' /\ Entries' = Entries /\ Nexts' = Nexts
  BY <1>1, <1>3, <1>4, OwnerPlain DEF Shortcut, PointsGrowing
<1>6. ModeInv' /\ PointInv' /\ PopInv' /\ MineInv'
  <2>1. h'[t] \in Entries'
    BY <1>4, <1>5, <1>7, <1>8 DEF Shape
  <2> QED BY <2>1, <1>5, OwnerRest
<1>9. ListOK(D, freeValue', Nexts', n) /\ ListOK(A, freeValueAlt', Nexts', n)
  BY <1>1, <1>5, <1>7, <1>8 DEF Shape, Shortcut
<1>10. Shape(D, A, {}, {}, n)'
  <2>2. ChainOf(t, {}, {}, n)'
    BY <1>4 DEF ChainOf
  <2>4. ASSUME NEW s \in Threads, Pops(s), h[s] \in D PROVE FALSE
    BY <1>1, <1>7, <2>4 DEF Shape, PopOf
  <2>5. \A v \in Entries \ (D \cup R) : Nexts'[v] = Nexts[v]
    BY <1>5
  <2>6. /\ D \cup A \cup {} \cup {} = M \cup A \cup D \cup R \cup (Entries' \ Entries)
        /\ D \cap A = {} /\ (D \cup A) \cap ({} \cup {}) = {} /\ {} \cap {} = {} /\ {} \in SUBSET Handles
    BY <1>5, <1>7, <1>8 DEF Shape
  <2> HIDE DEF Shape
  <2> QED BY <1>0, <1>4, <1>5, <1>7, <1>9, <2>2, <2>4, <2>5, <2>6, OwnerShape
<1>11. ShapeInv'
  BY <1>10 DEF ShapeInv
<1> QED BY <1>2, <1>5, <1>6, <1>11 DEF IInv

LEMMA StartReverseStep == ASSUME IInv, NEW t \in Threads, StartReverse(t) PROVE IInv'
<1>0. TypeOK /\ NULL \notin Threads /\ GrowInv /\ Entries \subseteq Handles
  BY NoHandle, SizeFacts DEF IInv
<1>1. /\ pc[t] = "moved" /\ Grows(t) /\ owner = t
      /\ pc' = [pc EXCEPT ![t] = "reverse"] /\ h' = [h EXCEPT ![t] = nx[t]] /\ tail' = [tail EXCEPT ![t] = nx[t]]
      /\ nx' = [nx EXCEPT ![t] = NULL] /\ count' = [count EXCEPT ![t] = 0]
  BY <1>0 DEF StartReverse, Grows, PointsGrowing, GrowInv, Set, Goto, INVALID
<1>7. PICK M \in SUBSET Handles, A \in SUBSET Handles, D \in SUBSET Handles, R \in SUBSET Handles, n \in Ranks :
        Shape(M, A, D, R, n)
  BY Lists
<1>8. D # {} /\ R = {} /\ ListOK(D, nx[t], Nexts, n) /\ nx[t] \in D /\ nx[t] \in Handles
  BY <1>1, <1>7 DEF Shape, ChainOf, ListOK, Heads
<1>m. nx[t] \in MaybeHandle /\ nx[t] \in Int
  <2>1. Handles \subseteq Int
    BY NoHandle
  <2> QED BY <1>8, <2>1 DEF MaybeHandle
<1>2. TypeOK'
  <2>1. tail' \in [Threads -> Int] /\ h' \in [Threads -> MaybeHandle]
    BY <1>0, <1>1, <1>m DEF TypeOK
  <2>2. nx' \in [Threads -> MaybeHandle \cup {Value2}] /\ count' \in [Threads -> Nat]
    BY <1>0, <1>1 DEF TypeOK, MaybeHandle
  <2>3. pc' \in [Threads -> Points]
    BY <1>0, <1>1 DEF TypeOK, Points, PointsGrowing
  <2> QED BY <1>0, <2>1, <2>2, <2>3 DEF StartReverse, lists, TypeOK
<1>3. Others(t)
  BY <1>0, <1>1 DEF StartReverse, TypeOK, Others, Same
<1>4. pc'[t] = "reverse" /\ h'[t] = nx[t] /\ tail'[t] = nx[t] /\ nx'[t] = NULL /\ owner' = t
  BY <1>0, <1>1 DEF TypeOK, StartReverse
<1>5. OwnerStep(t) /\ GrowInv' /\ Entries' = Entries /\ Nexts' = Nexts
  BY <1>1, <1>3, <1>4, OwnerPlain DEF StartReverse, PointsGrowing, lists
<1>6. ModeInv' /\ PointInv' /\ PopInv' /\ MineInv'
  BY <1>4, <1>5, OwnerRest
<1>9. ListOK(M, freeValue', Nexts', n) /\ ListOK(A, freeValueAlt', Nexts', n) /\ ListOK(D, h'[t], Nexts', n)
  BY <1>1, <1>4, <1>5, <1>7, <1>8 DEF Shape, StartReverse, lists
<1>10. Shape(M, A, D, {}, n)'
  <2>1. ListOK({}, nx'[t], Nexts', n)
    BY <1>4, EmptyList
  <2>2. ChainOf(t, D, {}, n)'
    BY <1>4, <1>8, <1>9, <2>1 DEF ChainOf
  <2>4. ASSUME NEW s \in Threads, Pops(s), h[s] \in D PROVE FALSE
    BY <1>1, <1>7, <2>4 DEF Shape, PopOf
  <2>5. \A v \in Entries \ (D \cup R) : Nexts'[v] = Nexts[v]
    BY <1>5
  <2>6. /\ M \cup A \cup D \cup {} = M \cup A \cup D \cup R \cup (Entries' \ Entries)
        /\ M \cap A = {} /\ (M \cup A) \cap (D \cup {}) = {} /\ D \cap {} = {} /\ {} \in SUBSET Handles
    BY <1>5, <1>7, <1>8 DEF Shape
  <2> HIDE DEF Shape
  <2> QED BY <1>0, <1>4, <1>5, <1>7, <1>9, <2>2, <2>4, <2>5, <2>6, OwnerShape
<1>11. ShapeInv'
  BY <1>10 DEF ShapeInv
<1> QED BY <1>2, <1>5, <1>6, <1>11 DEF IInv

\* A step of the owner that sets the link of one entry.
LEMMA OwnerLinks ==
    ASSUME IInv, NEW t \in Threads, Others(t), Grows(t), pc'[t] \in PointsGrowing,
           popping' = popping, mode' = mode, tables' = tables, nextValue' = nextValue, owner' = owner,
           pc[t] # "extend", pc'[t] # "extend",
           pc'[t] \in {"splice", "spliceCas"} => cont'[t] # "idle",
           NEW v \in Entries, NEW x \in MaybeHandle \cup {Value2}, entry' = [entry EXCEPT ![v].next = x]
    PROVE  /\ OwnerStep(t) /\ GrowInv' /\ Entries' = Entries /\ entry' \in [Handles -> EntryType]
           /\ Nexts'[v] = x /\ \A u \in Handles \ {v} : Nexts'[u] = Nexts[u]
<1>0. GrowInv /\ TypeOK /\ MineInv /\ v \in Handles /\ owner' = t /\ Entries \subseteq Handles
  <2>1. GrowInv /\ TypeOK /\ MineInv
    BY DEF IInv
  <2>2. Entries \subseteq Handles
    BY <2>1, SizeFacts
  <2> QED BY <2>1, <2>2 DEF GrowInv
<1>1. Entries' = Entries
  BY DEF Entries
<1>2. entry' \in [Handles -> EntryType]
  BY <1>0, EntryUpdates DEF TypeOK
<1>3. /\ \A u \in Handles : entry'[u].inUse = entry[u].inUse /\ entry'[u].unlocked = entry[u].unlocked
      /\ entry'[v].next = x /\ \A u \in Handles \ {v} : entry'[u].next = entry[u].next
  BY <1>0 DEF TypeOK, EntryType
<1>4. Nexts'[v] = x /\ \A u \in Handles \ {v} : Nexts'[u] = Nexts[u]
  BY <1>0, <1>3 DEF Nexts
<1>5. \A u \in Handles \ Entries : ~entry'[u].inUse
  BY <1>0, <1>3 DEF MineInv, InUse
<1>6. OwnerStep(t)
  BY <1>0, <1>1, <1>3, <1>5 DEF OwnerStep
<1>7. Grows(t)' <=> owner' = t
  BY <1>0 DEF Grows
<1>8. nextValue' = tables' * LevelEntries
  BY <1>0, OwnerSize
<1>9. GrowInv'
  BY <1>0, <1>6, <1>7, <1>8, OwnerGrow DEF GrowInv
<1> QED BY <1>1, <1>2, <1>4, <1>6, <1>9

LEMMA ReverseEntryStep == ASSUME IInv, NEW t \in Threads, ReverseEntry(t) PROVE IInv'
<1>0. TypeOK /\ NULL \notin Threads /\ GrowInv /\ Entries \subseteq Handles
  BY NoHandle, SizeFacts DEF IInv
<1>1. /\ pc[t] = "reverse" /\ Grows(t) /\ owner = t /\ owner' = owner /\ popping' = popping /\ mode' = mode
      /\ tables' = tables /\ nextValue' = nextValue /\ freeValue' = freeValue /\ freeValueAlt' = freeValueAlt
      /\ strictFifo' = strictFifo /\ tail' = tail /\ seen' = seen
      /\ count' = [count EXCEPT ![t] = count[t] + 1] /\ entry' = [entry EXCEPT ![h[t]].next = nx[t]]
  BY <1>0 DEF ReverseEntry, Grows, PointsGrowing, GrowInv, Set, lists
<1>2. PICK M \in SUBSET Handles, A \in SUBSET Handles, D \in SUBSET Handles, R \in SUBSET Handles, n \in Ranks :
        Shape(M, A, D, R, n)
  BY Lists
<1>3. /\ D # {} /\ ListOK(D, h[t], Nexts, n) /\ ListOK(R, nx[t], Nexts, n)
      /\ IF R = {} THEN tail[t] = h[t] ELSE tail[t] \in R /\ Ends(R, n, tail[t])
  BY <1>1, <1>2 DEF Shape, ChainOf
<1>4. /\ M \cap A = {} /\ (M \cup A) \cap (D \cup R) = {} /\ D \cap R = {} /\ D \subseteq Entries
      /\ ListOK(M, freeValue, Nexts, n) /\ ListOK(A, freeValueAlt, Nexts, n)
  BY <1>2 DEF Shape
<1>5. h[t] \in D /\ ListOK(D \ {h[t]}, Nexts[h[t]], Nexts, n)
  BY <1>3, PopHead
<1>6. PICK v \in D : v = h[t]
  BY <1>5
<1>7. v \in Entries /\ v \in Handles /\ nx[t] \in MaybeHandle \cup {Value2}
  BY <1>0, <1>4 DEF TypeOK
<1>8. PICK x \in MaybeHandle \cup {Value2} : x = nx[t]
  BY <1>7
<1>9. PICK y : y = Nexts[v] /\ y = entry[v].next /\ y \in MaybeHandle \cup {Value2}
  BY <1>0, <1>7 DEF TypeOK, EntryType, Nexts
<1>10. CASE y # NULL
  <2>1. h' = [h EXCEPT ![t] = y] /\ nx' = [nx EXCEPT ![t] = v] /\ pc' = pc /\ cont' = cont
    BY <1>6, <1>9, <1>10 DEF ReverseEntry, INVALID, Set
  <2>2. D \ {v} # {} /\ y \in D
    BY <1>5, <1>6, <1>9, <1>10 DEF ListOK, Heads
  <2>3. Others(t)
    BY <1>0, <1>1, <2>1 DEF TypeOK, Others, Same
  <2>4. /\ OwnerStep(t) /\ GrowInv' /\ Entries' = Entries /\ entry' \in [Handles -> EntryType]
        /\ Nexts'[v] = x /\ \A u \in Handles \ {v} : Nexts'[u] = Nexts[u]
    BY <1>1, <1>6, <1>7, <1>8, <2>1, <2>3, OwnerLinks DEF Grows
  <2>5. TypeOK'
    <3>1. h' \in [Threads -> MaybeHandle] /\ nx' \in [Threads -> MaybeHandle \cup {Value2}]
      BY <1>0, <1>7, <2>1, <2>2 DEF TypeOK, MaybeHandle
    <3>2. count' \in [Threads -> Nat]
      BY <1>0, <1>1 DEF TypeOK
    <3> QED BY <1>0, <1>1, <2>1, <2>4, <3>1, <3>2 DEF TypeOK
  <2>6. pc'[t] = "reverse" /\ h'[t] = y /\ nx'[t] = v /\ tail'[t] = tail[t]
    BY <1>0, <1>1, <2>1 DEF TypeOK
  <2>7. ModeInv' /\ PointInv' /\ PopInv' /\ MineInv'
    BY <2>4, <2>6, OwnerRest
  <2>8. ListOK(R, x, Nexts', n)
    BY <1>3, <1>4, <1>8, <2>4, ListSame
  <2>9. v \in Handles \ R /\ Nexts'[v] = x
    BY <1>4, <1>7, <2>4
  <2>10. PICK m \in Ranks : /\ ListOK(R \cup {v}, v, Nexts', m) /\ (\A u \in Handles \ {v} : m[u] = n[u])
                            /\ \A u \in R : Ends(R, n, u) => Ends(R \cup {v}, m, u)
    BY <2>8, <2>9, PushHead
  <2>11. ListOK(D \ {v}, y, Nexts', m)
    BY <1>5, <1>6, <1>9, <2>4, <2>10, ListSame
  <2>12. ListOK(M, freeValue', Nexts', m) /\ ListOK(A, freeValueAlt', Nexts', m)
    BY <1>1, <1>4, <2>4, <2>10, ListSame
  <2>13. tail[t] \in R \cup {v} /\ Ends(R \cup {v}, m, tail[t])
    <3>1. Ends({v}, m, v)
      BY <1>7 DEF Ends, Ranks
    <3>2. R = {} => tail[t] = v /\ R \cup {v} = {v}
      BY <1>3, <1>6
    <3> QED BY <1>3, <2>10, <3>1, <3>2
  <2>14. PICK Q \in SUBSET Handles : Q = D \ {v}
    OBVIOUS
  <2>15. PICK P \in SUBSET Handles : P = R \cup {v}
    OBVIOUS
  <2>16. ChainOf(t, Q, P, m)'
    BY <2>2, <2>6, <2>10, <2>11, <2>13, <2>14, <2>15 DEF ChainOf
  <2>17. ASSUME NEW s \in Threads, Pops(s) PROVE h[s] \notin P /\ h[s] \notin Q
    BY <1>1, <1>2, <2>14, <2>15, <2>17 DEF Shape, PopOf
  <2>18. /\ M \cup A \cup Q \cup P = M \cup A \cup D \cup R \cup (Entries' \ Entries)
         /\ (M \cup A) \cap (Q \cup P) = {} /\ Q \cap P = {}
    BY <1>4, <2>4, <2>14, <2>15
  <2>19. \A u \in Entries \ (D \cup R) : Nexts'[u] = Nexts[u]
    BY <1>0, <2>4
  <2>20. owner' = NULL => Q = {} /\ P = {}
    BY <1>0, <1>1
  <2>21. Shape(M, A, Q, P, m)'
    BY <1>2, <1>4, <2>4, <2>12, <2>16, <2>17, <2>18, <2>19, <2>20, OwnerShape
  <2>22. ShapeInv'
    BY <2>21 DEF ShapeInv
  <2> QED BY <2>4, <2>5, <2>7, <2>22 DEF IInv
<1>11. CASE y = NULL
  <2>1. /\ h' = h /\ nx' = nx /\ pc' = [pc EXCEPT ![t] = "splice"]
        /\ \E c \in {"more", "allocLock"} : cont' = [cont EXCEPT ![t] = c]
    BY <1>6, <1>9, <1>11 DEF ReverseEntry, INVALID, Set, Goto
  <2>2. D = {v}
    BY <1>3, <1>6, <1>9, <1>11, Singleton
  <2>3. Others(t)
    BY <1>0, <1>1, <2>1 DEF TypeOK, Others, Same
  <2>6. pc'[t] = "splice" /\ h'[t] = v /\ tail'[t] = tail[t] /\ cont'[t] # "idle"
    BY <1>0, <1>1, <1>6, <2>1 DEF TypeOK
  <2>4. /\ OwnerStep(t) /\ GrowInv' /\ Entries' = Entries /\ entry' \in [Handles -> EntryType]
        /\ Nexts'[v] = x /\ \A u \in Handles \ {v} : Nexts'[u] = Nexts[u]
    BY <1>1, <1>6, <1>7, <1>8, <2>1, <2>3, <2>6, OwnerLinks DEF PointsGrowing
  <2>5. TypeOK'
    <3>1. pc' \in [Threads -> Points] /\ cont' \in [Threads -> {"idle", "more", "allocLock", "alloc"}]
      BY <1>0, <2>1 DEF TypeOK, Points, PointsGrowing
    <3>2. count' \in [Threads -> Nat]
      BY <1>0, <1>1 DEF TypeOK
    <3> QED BY <1>0, <1>1, <2>1, <2>4, <3>1, <3>2 DEF TypeOK
  <2>7. ModeInv' /\ PointInv' /\ PopInv' /\ MineInv'
    BY <2>4, <2>6, OwnerRest
  <2>8. ListOK(R, x, Nexts', n)
    BY <1>3, <1>4, <1>8, <2>4, ListSame
  <2>9. v \in Handles \ R /\ Nexts'[v] = x
    BY <1>4, <1>7, <2>4
  <2>10. PICK m \in Ranks : /\ ListOK(R \cup {v}, v, Nexts', m) /\ (\A u \in Handles \ {v} : m[u] = n[u])
                            /\ \A u \in R : Ends(R, n, u) => Ends(R \cup {v}, m, u)
    BY <2>8, <2>9, PushHead
  <2>12. ListOK(M, freeValue', Nexts', m) /\ ListOK(A, freeValueAlt', Nexts', m)
    BY <1>1, <1>4, <2>4, <2>10, ListSame
  <2>13. tail[t] \in R \cup {v} /\ Ends(R \cup {v}, m, tail[t])
    <3>1. Ends({v}, m, v)
      BY <1>7 DEF Ends, Ranks
    <3>2. R = {} => tail[t] = v /\ R \cup {v} = {v}
      BY <1>3, <1>6
    <3> QED BY <1>3, <2>10, <3>1, <3>2
  <2>14. SegmentOK(R \cup {v}, v, tail[t], Nexts', m)
    BY <2>10, <2>13, ListIsSegment
  <2>15. PICK P \in SUBSET Handles : P = R \cup {v}
    OBVIOUS
  <2>16. ChainOf(t, {}, P, m)'
    BY <2>6, <2>14, <2>15 DEF ChainOf
  <2>17. ASSUME NEW s \in Threads, Pops(s) PROVE h[s] \notin P
    BY <1>1, <1>2, <2>2, <2>15, <2>17 DEF Shape, PopOf
  <2>18. /\ M \cup A \cup {} \cup P = M \cup A \cup D \cup R \cup (Entries' \ Entries)
         /\ (M \cup A) \cap ({} \cup P) = {} /\ {} \cap P = {} /\ {} \in SUBSET Handles
    BY <1>4, <2>2, <2>4, <2>15
  <2>19. \A u \in Entries \ (D \cup R) : Nexts'[u] = Nexts[u]
    BY <1>0, <2>4
  <2>20. owner' = NULL => {} = {} /\ P = {}
    BY <1>0, <1>1
  <2>21. Shape(M, A, {}, P, m)'
    BY <1>2, <1>4, <2>4, <2>12, <2>16, <2>17, <2>18, <2>19, <2>20, OwnerShape
  <2>22. ShapeInv'
    BY <2>21 DEF ShapeInv
  <2> QED BY <2>4, <2>5, <2>7, <2>22 DEF IInv
<1> QED BY <1>10, <1>11

LEMMA SpliceStep == ASSUME IInv, NEW t \in Threads, Splice(t) PROVE IInv'
<1>0. TypeOK /\ NULL \notin Threads /\ GrowInv /\ Entries \subseteq Handles
  BY NoHandle, SizeFacts DEF IInv
<1>1. /\ pc[t] = "splice" /\ Grows(t) /\ owner = t /\ owner' = owner /\ popping' = popping /\ mode' = mode
      /\ tables' = tables /\ nextValue' = nextValue /\ freeValue' = freeValue /\ freeValueAlt' = freeValueAlt
      /\ strictFifo' = strictFifo /\ h' = h /\ tail' = tail /\ seen' = seen /\ cont' = cont /\ count' = count
      /\ pc' = [pc EXCEPT ![t] = "spliceCas"] /\ nx' = [nx EXCEPT ![t] = freeValue]
      /\ entry' = [entry EXCEPT ![tail[t]].next = freeValue]
  BY <1>0 DEF Splice, Grows, PointsGrowing, GrowInv, Set, Goto, lists
<1>2. PICK M \in SUBSET Handles, A \in SUBSET Handles, D \in SUBSET Handles, R \in SUBSET Handles, n \in Ranks :
        Shape(M, A, D, R, n)
  BY Lists
<1>3. D = {} /\ SegmentOK(R, h[t], tail[t], Nexts, n)
  BY <1>1, <1>2 DEF Shape, ChainOf
<1>4. /\ M \cap A = {} /\ (M \cup A) \cap (D \cup R) = {} /\ R \subseteq Entries
      /\ ListOK(M, freeValue, Nexts, n) /\ ListOK(A, freeValueAlt, Nexts, n)
  BY <1>2 DEF Shape
<1>5. PICK v \in R : v = tail[t]
  BY <1>3 DEF SegmentOK
<1>6. PICK x \in MaybeHandle \cup {Value2} : x = freeValue
  BY <1>0 DEF TypeOK
<1>7. Others(t)
  BY <1>0, <1>1 DEF TypeOK, Others, Same
<1>8. pc'[t] = "spliceCas" /\ nx'[t] = x /\ cont'[t] # "idle" /\ h'[t] = h[t] /\ tail'[t] = v
  BY <1>0, <1>1, <1>5, <1>6 DEF TypeOK, GrowInv
<1>9. v \in Entries /\ v \in Handles
  BY <1>0, <1>4
<1>10. /\ OwnerStep(t) /\ GrowInv' /\ Entries' = Entries /\ entry' \in [Handles -> EntryType]
       /\ Nexts'[v] = x /\ \A u \in Handles \ {v} : Nexts'[u] = Nexts[u]
  BY <1>1, <1>5, <1>6, <1>7, <1>8, <1>9, OwnerLinks DEF PointsGrowing
<1>11. TypeOK'
  <2>1. pc' \in [Threads -> Points]
    BY <1>0, <1>1 DEF TypeOK, Points, PointsGrowing
  <2>2. nx' \in [Threads -> MaybeHandle \cup {Value2}]
    BY <1>0, <1>1, <1>6 DEF TypeOK
  <2> QED BY <1>0, <1>1, <1>10, <2>1, <2>2 DEF TypeOK
<1>12. ModeInv' /\ PointInv' /\ PopInv' /\ MineInv'
  BY <1>8, <1>10, OwnerRest
<1>13. SegmentOK(R, h'[t], tail'[t], Nexts', n)
  BY <1>3, <1>5, <1>8, <1>10, SegmentSame
<1>14. ListOK(M, freeValue', Nexts', n) /\ ListOK(A, freeValueAlt', Nexts', n)
  BY <1>1, <1>4, <1>10, ListSame
<1>15. ChainOf(t, {}, R, n)'
  BY <1>8, <1>10, <1>13 DEF ChainOf
<1>16. ASSUME NEW s \in Threads, Pops(s) PROVE h[s] \notin R
  BY <1>2, <1>16 DEF Shape, PopOf
<1>17. /\ M \cup A \cup {} \cup R = M \cup A \cup D \cup R \cup (Entries' \ Entries)
       /\ (M \cup A) \cap ({} \cup R) = {} /\ {} \cap R = {} /\ {} \in SUBSET Handles
  BY <1>3, <1>4, <1>10
<1>18. \A u \in Entries \ (D \cup R) : Nexts'[u] = Nexts[u]
  BY <1>0, <1>10
<1>19. owner' = NULL => {} = {} /\ R = {}
  BY <1>0, <1>1
<1>20. Shape(M, A, {}, R, n)'
  BY <1>2, <1>4, <1>10, <1>14, <1>15, <1>16, <1>17, <1>18, <1>19, OwnerShape
<1>21. ShapeInv'
  BY <1>20 DEF ShapeInv
<1> QED BY <1>10, <1>11, <1>12, <1>21 DEF IInv

LEMMA SpliceCasStep == ASSUME IInv, NEW t \in Threads, SpliceCas(t) PROVE IInv'
<1>0. TypeOK /\ NULL \notin Threads /\ GrowInv /\ Entries \subseteq Handles
  BY NoHandle, SizeFacts DEF IInv
<1>1. /\ pc[t] = "spliceCas" /\ Grows(t) /\ owner = t /\ popping' = popping /\ mode' = mode /\ entry' = entry
      /\ tables' = tables /\ nextValue' = nextValue /\ freeValueAlt' = freeValueAlt /\ strictFifo' = strictFifo
      /\ h' = h /\ nx' = nx /\ tail' = tail /\ seen' = seen /\ cont' = cont /\ count' = count
  BY <1>0 DEF SpliceCas, Grows, PointsGrowing, GrowInv, locals
<1>2. PICK M \in SUBSET Handles, A \in SUBSET Handles, D \in SUBSET Handles, R \in SUBSET Handles, n \in Ranks :
        Shape(M, A, D, R, n)
  BY Lists
<1>3. D = {} /\ SegmentOK(R, h[t], tail[t], Nexts, n) /\ Nexts[tail[t]] = nx[t]
  BY <1>1, <1>2 DEF Shape, ChainOf
<1>4. /\ M \cap A = {} /\ (M \cup A) \cap (D \cup R) = {} /\ R \subseteq Entries
      /\ ListOK(M, freeValue, Nexts, n) /\ ListOK(A, freeValueAlt, Nexts, n)
  BY <1>2 DEF Shape
<1>5. h[t] \in R /\ h[t] \in Handles /\ cont[t] \in {"more", "allocLock", "alloc"}
  <2>1. h[t] \in R
    BY <1>3 DEF SegmentOK, Heads
  <2>2. cont[t] # "idle" /\ cont[t] \in {"idle", "more", "allocLock", "alloc"}
    BY <1>0, <1>1 DEF TypeOK, GrowInv
  <2> QED BY <2>1, <2>2
<1>6. ASSUME NEW s \in Threads, Pops(s) PROVE h[s] \notin R
  BY <1>2, <1>6 DEF Shape, PopOf
<1>7. CASE freeValue = nx[t]
  <2>1. /\ pc' = [pc EXCEPT ![t] = cont[t]] /\ freeValue' = h[t]
        /\ owner' = IF cont[t] = "more" THEN owner ELSE NULL
    BY <1>7 DEF SpliceCas, Goto
  <2>2. Others(t)
    BY <1>0, <1>1, <2>1 DEF TypeOK, Others, Same
  <2>3. pc'[t] = cont[t] /\ h'[t] = h[t]
    BY <1>0, <1>1, <2>1 DEF TypeOK
  <2>4. OwnerStep(t) /\ GrowInv' /\ Entries' = Entries /\ Nexts' = Nexts
    <3>1. pc'[t] \in PointsGrowing \cup {"allocLock", "alloc", "failed"} /\ pc'[t] \notin {"extend", "splice", "spliceCas"}
      BY <1>5, <2>3 DEF PointsGrowing
    <3>2. owner' = (IF pc'[t] \in PointsGrowing THEN t ELSE NULL)
      BY <1>1, <1>5, <2>1, <2>3 DEF PointsGrowing
    <3> QED BY <1>1, <2>2, <3>1, <3>2, OwnerPlain
  <2>5. TypeOK'
    <3>1. pc' \in [Threads -> Points]
      BY <1>0, <1>5, <2>1 DEF TypeOK, Points, PointsGrowing, PointsEntry, PointsOther
    <3>2. freeValue' \in MaybeHandle /\ owner' \in Threads \cup {NULL}
      BY <1>1, <1>5, <2>1 DEF MaybeHandle
    <3> QED BY <1>0, <1>1, <3>1, <3>2 DEF TypeOK
  <2>6. ModeInv' /\ PointInv' /\ PopInv' /\ MineInv'
    BY <1>4, <1>5, <2>3, <2>4, OwnerRest
  <2>7. PICK m \in Ranks : ListOK(R \cup M, h[t], Nexts, m) /\ (\A u \in Handles \ R : m[u] = n[u])
    <3>1. R \cap M = {} /\ Nexts[tail[t]] = freeValue
      BY <1>3, <1>4, <1>7
    <3>2. Joins(R, M, h[t], tail[t], freeValue, Nexts, n)
      BY <1>3, <1>4, <3>1 DEF Joins
    <3>3. \E m \in Ranks : ListOK(R \cup M, h[t], Nexts, m) /\ AsBefore(m, n, R)
      BY <3>2, ConcatLists
    <3> QED BY <3>3 DEF AsBefore
  <2>8. ListOK(A, freeValueAlt', Nexts', m)
    BY <1>1, <1>4, <2>4, <2>7, ListSame
  <2>9. PICK P \in SUBSET Handles : P = R \cup M
    OBVIOUS
  <2>10. ListOK(P, freeValue', Nexts', m)
    BY <2>1, <2>4, <2>7, <2>9
  <2>11. ChainOf(t, {}, {}, m)'
    BY <1>5, <2>3 DEF ChainOf
  <2>12. /\ P \cup A \cup {} \cup {} = M \cup A \cup D \cup R \cup (Entries' \ Entries)
         /\ P \cap A = {} /\ (P \cup A) \cap ({} \cup {}) = {} /\ {} \cap {} = {} /\ {} \in SUBSET Handles
    BY <1>3, <1>4, <2>4, <2>9
  <2>13. \A u \in Entries \ (D \cup R) : Nexts'[u] = Nexts[u]
    BY <2>4
  <2>14. \A s \in Threads : Pops(s) => (h[s] \in P => h[s] \in M)
    BY <1>6, <2>9
  <2>15. Shape(P, A, {}, {}, m)'
    BY <1>2, <2>4, <2>8, <2>10, <2>11, <2>12, <2>13, <2>14, OwnerShape
  <2>16. ShapeInv'
    BY <2>15 DEF ShapeInv
  <2> QED BY <2>4, <2>5, <2>6, <2>16 DEF IInv
<1>8. CASE freeValue # nx[t]
  <2>1. pc' = [pc EXCEPT ![t] = "splice"] /\ freeValue' = freeValue /\ owner' = owner
    BY <1>8 DEF SpliceCas, Goto
  <2>2. Others(t)
    BY <1>0, <1>1, <2>1 DEF TypeOK, Others, Same
  <2>3. pc'[t] = "splice" /\ h'[t] = h[t] /\ tail'[t] = tail[t] /\ cont'[t] # "idle"
    BY <1>0, <1>1, <1>5, <2>1 DEF TypeOK
  <2>4. OwnerStep(t) /\ GrowInv' /\ Entries' = Entries /\ Nexts' = Nexts
    <3>1. pc'[t] \in PointsGrowing
      BY <2>3 DEF PointsGrowing
    <3> QED BY <1>1, <2>1, <2>2, <2>3, <3>1, OwnerPlain
  <2>5. TypeOK'
    <3>1. pc' \in [Threads -> Points]
      BY <1>0, <2>1 DEF TypeOK, Points, PointsGrowing
    <3> QED BY <1>0, <1>1, <2>1, <3>1 DEF TypeOK
  <2>6. ModeInv' /\ PointInv' /\ PopInv' /\ MineInv'
    BY <2>3, <2>4, OwnerRest
  <2>8. ListOK(M, freeValue', Nexts', n) /\ ListOK(A, freeValueAlt', Nexts', n)
    BY <1>1, <1>4, <2>1, <2>4
  <2>11. ChainOf(t, {}, R, n)'
    BY <1>3, <2>3, <2>4 DEF ChainOf
  <2>12. /\ M \cup A \cup {} \cup R = M \cup A \cup D \cup R \cup (Entries' \ Entries)
         /\ (M \cup A) \cap ({} \cup R) = {} /\ {} \cap R = {} /\ {} \in SUBSET Handles
    BY <1>3, <1>4, <2>4
  <2>13. \A u \in Entries \ (D \cup R) : Nexts'[u] = Nexts[u]
    BY <2>4
  <2>14. owner' = NULL => {} = {} /\ R = {}
    BY <1>0, <1>1, <2>1
  <2>15. Shape(M, A, {}, R, n)'
    BY <1>2, <1>4, <1>6, <2>4, <2>8, <2>11, <2>12, <2>13, <2>14, OwnerShape
  <2>16. ShapeInv'
    BY <2>15 DEF ShapeInv
  <2> QED BY <2>4, <2>5, <2>6, <2>16 DEF IInv
<1> QED BY <1>7, <1>8

\* The table and the entries that More makes.
LEMMA NewTableFacts ==
    ASSUME TypeOK, GrowInv, tables < LevelEntries * LevelEntries,
           NEW x, NEW y, x = tables * LevelEntries, y = tables * LevelEntries + LevelEntries - 1
    PROVE  /\ x \in Nat /\ y \in Nat /\ x <= y /\ x..y \subseteq Handles /\ Entries = 0..(x - 1)
           /\ NewTable(entry, x) \in [Handles -> EntryType]
           /\ \A v \in x..y : ~NewTable(entry, x)[v].inUse
           /\ \A v \in x..(y - 1) : NewTable(entry, x)[v].next = v + 1
           /\ \A v \in Handles \ (x..y) : NewTable(entry, x)[v] = entry[v]
<1>1. /\ x \in Nat /\ y \in Nat /\ LevelEntries \in Nat /\ LevelEntries > 0 /\ y = x + LevelEntries - 1
      /\ x..y \subseteq Handles /\ Entries = 0..(x - 1)
  <2>1. LevelEntries \in Nat /\ LevelEntries > 0 /\ x \in Nat
    BY SizeFacts
  <2>2. x..y \subseteq Handles
    BY OneMore
  <2> QED BY <2>1, <2>2 DEF Entries
<1>2. \A v \in Handles : NewTable(entry, x)[v] = CASE v \in x..(y - 1) -> FreeEntry(v + 1)
                                                   [] v = y -> FreeEntry(NULL)
                                                   [] OTHER -> entry[v]
  <2>1. x + LevelEntries - 2 = y - 1
    BY <1>1
  <2> QED BY <1>1, <2>1 DEF NewTable, INVALID
<1>3. /\ \A v \in x..(y - 1) : NewTable(entry, x)[v] = FreeEntry(v + 1) /\ v + 1 \in Handles
      /\ NewTable(entry, x)[y] = FreeEntry(NULL)
      /\ \A v \in Handles \ (x..y) : NewTable(entry, x)[v] = entry[v]
  <2>1. \A v \in x..(y - 1) : v + 1 \in x..y /\ v \in x..y
    BY <1>1
  <2>2. y \in x..y /\ y \notin x..(y - 1)
    BY <1>1
  <2>3. \A v \in Handles \ (x..y) : v \notin x..(y - 1) /\ v # y
    BY <1>1, <2>2, <2>1
  <2> QED BY <1>1, <1>2, <2>1, <2>2, <2>3
<1>4. \A w \in MaybeHandle : FreeEntry(w) \in EntryType /\ ~FreeEntry(w).inUse /\ FreeEntry(w).next = w
  BY DEF FreeEntry, EntryType
<1>5. \A v \in x..y : v \in x..(y - 1) \/ v = y
  BY <1>1
<1>6. \A v \in Handles : NewTable(entry, x)[v] \in EntryType
  <2>1. \A v \in x..(y - 1) : NewTable(entry, x)[v] \in EntryType
    BY <1>3, <1>4 DEF MaybeHandle
  <2>2. NewTable(entry, x)[y] \in EntryType
    BY <1>3, <1>4 DEF MaybeHandle
  <2>3. \A v \in Handles \ (x..y) : NewTable(entry, x)[v] \in EntryType
    <3>1. \A v \in Handles : entry[v] \in EntryType
      BY DEF TypeOK
    <3> QED BY <1>3, <3>1
  <2> QED BY <1>5, <2>1, <2>2, <2>3
<1>7. NewTable(entry, x) \in [Handles -> EntryType]
  <2>1. NewTable(entry, x) = [v \in Handles |-> NewTable(entry, x)[v]]
    BY DEF NewTable
  <2> QED BY <1>6, <2>1
<1>8. \A v \in x..y : ~NewTable(entry, x)[v].inUse
  BY <1>3, <1>4, <1>5 DEF MaybeHandle
<1>9. \A v \in x..(y - 1) : NewTable(entry, x)[v].next = v + 1
  BY <1>3, <1>4 DEF MaybeHandle
<1>10. x <= y
  BY <1>1
<1> QED BY <1>1, <1>3, <1>7, <1>8, <1>9, <1>10

LEMMA MoreStep == ASSUME IInv, NEW t \in Threads, More(t) PROVE IInv'
<1>0. TypeOK /\ NULL \notin Threads /\ GrowInv /\ Entries \subseteq Handles /\ MineInv /\ PointInv
      /\ tables \in Nat /\ LevelEntries \in Nat /\ LevelEntries > 0
      /\ (tables + 1) * LevelEntries = tables * LevelEntries + LevelEntries
  BY NoHandle, SizeFacts DEF IInv, TypeOK
<1>1. /\ pc[t] = "more" /\ Grows(t) /\ owner = t /\ owner' = owner /\ popping' = popping /\ mode' = mode
      /\ tables' = tables + 1 /\ nextValue' = nextValue /\ freeValue' = freeValue /\ freeValueAlt' = freeValueAlt
      /\ strictFifo' = strictFifo /\ h' = h /\ nx' = nx /\ tail' = tail /\ seen' = seen /\ cont' = cont /\ count' = count
      /\ pc' = [pc EXCEPT ![t] = "extend"] /\ entry' = NewTable(entry, tables * LevelEntries)
      /\ tables < LevelEntries * LevelEntries
  BY <1>0 DEF More, Grows, PointsGrowing, GrowInv, Goto, locals
<1>2. PICK M \in SUBSET Handles, A \in SUBSET Handles, D \in SUBSET Handles, R \in SUBSET Handles, n \in Ranks :
        Shape(M, A, D, R, n)
  BY Lists
<1>3. D = {} /\ R = {}
  BY <1>1, <1>2 DEF Shape, ChainOf
<1>4. /\ M \cap A = {} /\ M \cup A \subseteq Entries
      /\ ListOK(M, freeValue, Nexts, n) /\ ListOK(A, freeValueAlt, Nexts, n)
  BY <1>2 DEF Shape
<1>5. PICK x : x = tables * LevelEntries
  OBVIOUS
<1>6. PICK y : y = tables * LevelEntries + LevelEntries - 1
  OBVIOUS
<1>7. /\ x \in Nat /\ y \in Nat /\ x <= y /\ x..y \subseteq Handles /\ Entries = 0..(x - 1)
      /\ entry' \in [Handles -> EntryType]
      /\ \A v \in x..y : ~entry'[v].inUse
      /\ \A v \in x..(y - 1) : entry'[v].next = v + 1
      /\ \A v \in Handles \ (x..y) : entry'[v] = entry[v]
  BY <1>0, <1>1, <1>5, <1>6, NewTableFacts
<1>8. Entries' = Entries \cup x..y /\ Entries \cap x..y = {} /\ nextValue = x /\ nextValue + LevelEntries - 1 = y
      /\ y = x + LevelEntries - 1
  <2>1. nextValue = x
    BY <1>0, <1>1, <1>5, OwnerSize
  <2>2. tables' * LevelEntries = x + LevelEntries
    BY <1>0, <1>1, <1>5
  <2>3. Entries' = 0..y
    <3>1. Entries' = 0..(tables' * LevelEntries - 1)
      BY DEF Entries
    <3>2. tables' * LevelEntries - 1 = y
      BY <1>0, <1>5, <1>6, <1>7, <2>2
    <3> QED BY <3>1, <3>2
  <2>4. y = x + LevelEntries - 1
    BY <1>5, <1>6
  <2>5. 0..y = (0..(x - 1)) \cup x..y /\ (0..(x - 1)) \cap x..y = {}
    BY <1>7
  <2> QED BY <1>7, <2>1, <2>3, <2>4, <2>5
<1>9. Others(t) /\ pc'[t] = "extend"
  BY <1>0, <1>1 DEF TypeOK, Others, Same
<1>10. OwnerStep(t)
  <2>1. \A v \in Entries : v \in Handles \ (x..y)
    BY <1>0, <1>8
  <2>2. \A v \in Entries : entry'[v].inUse = entry[v].inUse /\ entry'[v].unlocked = entry[v].unlocked
    BY <1>7, <2>1
  <2>3. \A v \in Handles \ Entries : ~entry'[v].inUse
    <3>1. \A v \in Handles \ Entries : ~entry[v].inUse
      BY <1>0 DEF MineInv, InUse
    <3> QED BY <1>7, <3>1
  <2> QED BY <1>0, <1>1, <1>8, <1>9, <2>2, <2>3 DEF OwnerStep, PointsGrowing
<1>11. GrowInv'
  <2>1. Grows(t)' /\ owner' = t
    BY <1>1, <1>9 DEF Grows, PointsGrowing
  <2>2. LevelEntries * LevelEntries \in Nat
    BY <1>0
  <2>3. 0 < tables' /\ tables' <= LevelEntries * LevelEntries
    BY <1>0, <1>1, <2>2
  <2>4. nextValue' + LevelEntries = tables' * LevelEntries
    BY <1>0, <1>1, <1>5, <1>8
  <2> QED BY <1>0, <1>9, <1>10, <2>1, <2>3, <2>4, OwnerGrow
<1>12. TypeOK'
  <2>1. pc' \in [Threads -> Points]
    BY <1>0, <1>1 DEF TypeOK, Points, PointsGrowing
  <2> QED BY <1>0, <1>1, <1>7, <2>1 DEF TypeOK
<1>13. ModeInv' /\ PointInv' /\ PopInv' /\ MineInv'
  BY <1>9, <1>10, OwnerRest
<1>14. Nexts' \in [Handles -> MaybeHandle \cup {Value2}] /\ (\A v \in x..(y - 1) : Nexts'[v] = v + 1)
       /\ \A v \in Handles \ (x..y) : Nexts'[v] = Nexts[v]
  <2>1. \A v \in Handles : Nexts'[v] = entry'[v].next
    BY DEF Nexts
  <2>2. \A v \in x..(y - 1) : v \in Handles
    BY <1>7
  <2>3. Nexts' \in [Handles -> MaybeHandle \cup {Value2}]
    BY <1>7 DEF Nexts, EntryType
  <2> QED BY <1>7, <2>1, <2>2, <2>3 DEF Nexts
<1>15. PICK m \in Ranks : SegmentOK(x..y, x, y, Nexts', m) /\ (\A u \in Handles \ (x..y) : m[u] = n[u])
  <2>1. \E m \in Ranks : SegmentOK(x..y, x, y, Nexts', m) /\ AsBefore(m, n, x..y)
    BY <1>7, <1>14, NewChain
  <2> QED BY <2>1 DEF AsBefore
<1>16. PICK P \in SUBSET Handles : P = x..y
  BY <1>7
<1>17. ListOK(M, freeValue', Nexts', m) /\ ListOK(A, freeValueAlt', Nexts', m)
  <2>1. \A v \in M \cup A : Nexts'[v] = Nexts[v] /\ m[v] = n[v]
    BY <1>0, <1>4, <1>8, <1>14, <1>15
  <2> QED BY <1>1, <1>4, <2>1, ListSame
<1>18. ChainOf(t, {}, P, m)'
  <2>1. P = nextValue'..(nextValue' + LevelEntries - 1) /\ SegmentOK(P, nextValue', nextValue' + LevelEntries - 1, Nexts', m)
    BY <1>1, <1>8, <1>15, <1>16
  <2> QED BY <1>9, <2>1 DEF ChainOf
<1>19. ASSUME NEW s \in Threads, Pops(s) PROVE h[s] \notin P
  BY <1>0, <1>8, <1>16, <1>19 DEF PointInv
<1>20. /\ M \cup A \cup {} \cup P = M \cup A \cup D \cup R \cup (Entries' \ Entries)
       /\ (M \cup A) \cap ({} \cup P) = {} /\ {} \cap P = {} /\ {} \in SUBSET Handles
  BY <1>3, <1>4, <1>8, <1>16
<1>21. \A u \in Entries \ (D \cup R) : Nexts'[u] = Nexts[u]
  BY <1>0, <1>8, <1>14
<1>22. owner' = NULL => {} = {} /\ P = {}
  BY <1>0, <1>1
<1>23. Shape(M, A, {}, P, m)'
  BY <1>2, <1>4, <1>10, <1>17, <1>18, <1>19, <1>20, <1>21, <1>22, OwnerShape
<1>24. ShapeInv'
  BY <1>23 DEF ShapeInv
<1> QED BY <1>11, <1>12, <1>13, <1>24 DEF IInv

LEMMA ExtendStep == ASSUME IInv, NEW t \in Threads, Extend(t) PROVE IInv'
<1>0. TypeOK /\ NULL \notin Threads /\ GrowInv /\ Entries \subseteq Handles /\ MineInv
      /\ tables \in Nat /\ nextValue \in Nat /\ LevelEntries \in Nat /\ LevelEntries > 0
  BY NoHandle, SizeFacts DEF IInv, TypeOK
<1>1. /\ pc[t] = "extend" /\ Grows(t) /\ owner = t /\ owner' = owner /\ popping' = popping /\ mode' = mode
      /\ tables' = tables /\ nextValue' = nextValue + LevelEntries /\ freeValue' = freeValue
      /\ freeValueAlt' = freeValueAlt /\ strictFifo' = strictFifo /\ nx' = nx /\ seen' = seen /\ count' = count
      /\ h' = [h EXCEPT ![t] = nextValue] /\ tail' = [tail EXCEPT ![t] = nextValue + LevelEntries - 1]
      /\ cont' = [cont EXCEPT ![t] = "alloc"] /\ pc' = [pc EXCEPT ![t] = "splice"] /\ entry' = entry
  BY <1>0 DEF Extend, Grows, PointsGrowing, GrowInv, Goto, Set
<1>2. PICK M \in SUBSET Handles, A \in SUBSET Handles, D \in SUBSET Handles, R \in SUBSET Handles, n \in Ranks :
        Shape(M, A, D, R, n)
  BY Lists
<1>3. D = {} /\ SegmentOK(R, nextValue, nextValue + LevelEntries - 1, Nexts, n) /\ nextValue \in R
  BY <1>1, <1>2 DEF Shape, ChainOf, SegmentOK, Heads
<1>4. /\ M \cap A = {} /\ (M \cup A) \cap (D \cup R) = {}
      /\ ListOK(M, freeValue, Nexts, n) /\ ListOK(A, freeValueAlt, Nexts, n)
  BY <1>2 DEF Shape
<1>5. Others(t)
  BY <1>0, <1>1 DEF TypeOK, Others, Same
<1>6. pc'[t] = "splice" /\ h'[t] = nextValue /\ tail'[t] = nextValue + LevelEntries - 1 /\ cont'[t] = "alloc"
  BY <1>0, <1>1 DEF TypeOK
<1>7. Entries' = Entries /\ Nexts' = Nexts
  BY <1>1 DEF Entries, Nexts
<1>8. OwnerStep(t)
  <2>1. \A v \in Handles \ Entries : ~entry'[v].inUse
    BY <1>0, <1>1 DEF MineInv, InUse
  <2> QED BY <1>1, <1>5, <1>6, <1>7, <2>1 DEF OwnerStep, PointsGrowing
<1>9. GrowInv'
  <2>1. Grows(t)' /\ owner' = t
    BY <1>1, <1>6 DEF Grows, PointsGrowing
  <2>2. nextValue' = tables' * LevelEntries
    BY <1>0, <1>1, OwnerSize
  <2> QED BY <1>0, <1>1, <1>6, <1>8, <2>1, <2>2, OwnerGrow DEF GrowInv
<1>10. TypeOK'
  <2>1. pc' \in [Threads -> Points] /\ cont' \in [Threads -> {"idle", "more", "allocLock", "alloc"}]
    BY <1>0, <1>1 DEF TypeOK, Points, PointsGrowing
  <2>2. h' \in [Threads -> MaybeHandle]
    BY <1>0, <1>1, <1>3 DEF TypeOK, MaybeHandle
  <2>3. tail' \in [Threads -> Int] /\ nextValue' \in Nat
    BY <1>0, <1>1 DEF TypeOK
  <2> QED BY <1>0, <1>1, <2>1, <2>2, <2>3 DEF TypeOK
<1>11. ModeInv' /\ PointInv' /\ PopInv' /\ MineInv'
  BY <1>6, <1>8, OwnerRest
<1>12. ListOK(M, freeValue', Nexts', n) /\ ListOK(A, freeValueAlt', Nexts', n)
  BY <1>1, <1>4, <1>7
<1>13. ChainOf(t, {}, R, n)'
  BY <1>3, <1>6, <1>7 DEF ChainOf
<1>14. ASSUME NEW s \in Threads, Pops(s) PROVE h[s] \notin R
  BY <1>2, <1>14 DEF Shape, PopOf
<1>15. /\ M \cup A \cup {} \cup R = M \cup A \cup D \cup R \cup (Entries' \ Entries)
       /\ (M \cup A) \cap ({} \cup R) = {} /\ {} \cap R = {} /\ {} \in SUBSET Handles
  BY <1>3, <1>4, <1>7
<1>16. \A u \in Entries \ (D \cup R) : Nexts'[u] = Nexts[u]
  BY <1>7
<1>17. owner' = NULL => {} = {} /\ R = {}
  BY <1>0, <1>1
<1>18. Shape(M, A, {}, R, n)'
  BY <1>2, <1>4, <1>8, <1>12, <1>13, <1>14, <1>15, <1>16, <1>17, OwnerShape
<1>19. ShapeInv'
  BY <1>18 DEF ShapeInv
<1> QED BY <1>9, <1>10, <1>11, <1>19 DEF IInv

LEMMA MoreFailsStep == ASSUME IInv, NEW t \in Threads, MoreFails(t) PROVE IInv'
<1>0. TypeOK /\ NULL \notin Threads /\ GrowInv
  BY NoHandle DEF IInv
<1>1. /\ pc[t] = "more" /\ Grows(t) /\ owner = t /\ owner' = NULL /\ pc' = [pc EXCEPT ![t] = "failed"]
  BY <1>0 DEF MoreFails, Grows, PointsGrowing, GrowInv, Goto
<1>2. PICK M \in SUBSET Handles, A \in SUBSET Handles, D \in SUBSET Handles, R \in SUBSET Handles, n \in Ranks :
        Shape(M, A, D, R, n)
  BY Lists
<1>3. D = {} /\ R = {}
  BY <1>1, <1>2 DEF Shape, ChainOf
<1>4. TypeOK'
  BY <1>0, <1>1 DEF MoreFails, lists, locals, TypeOK, Points, PointsOther
<1>5. Others(t) /\ pc'[t] = "failed"
  BY <1>0, <1>1 DEF MoreFails, locals, TypeOK, Others, Same
<1>6. OwnerStep(t) /\ GrowInv' /\ Entries' = Entries /\ Nexts' = Nexts
  BY <1>1, <1>5, OwnerPlain DEF MoreFails, PointsGrowing, lists
<1>7. ModeInv' /\ PointInv' /\ PopInv' /\ MineInv'
  BY <1>5, <1>6, OwnerRest
<1>8. ListOK(M, freeValue', Nexts', n) /\ ListOK(A, freeValueAlt', Nexts', n)
  BY <1>2, <1>6 DEF Shape, MoreFails, lists
<1>9. ChainOf(t, {}, {}, n)'
  BY <1>5 DEF ChainOf
<1>10. /\ M \cup A \cup {} \cup {} = M \cup A \cup D \cup R \cup (Entries' \ Entries)
       /\ M \cap A = {} /\ (M \cup A) \cap ({} \cup {}) = {} /\ {} \cap {} = {} /\ {} \in SUBSET Handles
  BY <1>2, <1>3, <1>6 DEF Shape
<1>11. \A u \in Entries \ (D \cup R) : Nexts'[u] = Nexts[u]
  BY <1>6
<1>12. Shape(M, A, {}, {}, n)'
  BY <1>2, <1>6, <1>8, <1>9, <1>10, <1>11, OwnerShape
<1>13. ShapeInv'
  BY <1>12 DEF ShapeInv
<1> QED BY <1>4, <1>6, <1>7, <1>13 DEF IInv

\* The table's lock is taken.
LEMMA GrowStep == ASSUME IInv, NEW t \in Threads, Grow(t), freeValue = NULL PROVE IInv'
<1>0. TypeOK /\ NULL \notin Threads /\ GrowInv /\ ModeInv /\ PointInv /\ PopInv /\ MineInv
  BY NoHandle DEF IInv
<1>1. /\ pc[t] = "grow" /\ owner = NULL /\ owner' = t /\ pc' = [pc EXCEPT ![t] = "move"] /\ h' = [h EXCEPT ![t] = NULL]
      /\ UNCHANGED <<freeValue, freeValueAlt, nextValue, strictFifo, tables, entry, popping, mode, nx, tail, seen, cont, count>>
  BY DEF Grow, Goto, Set, lists, INVALID
<1>2. TypeOK'
  BY <1>0, <1>1 DEF TypeOK, Points, PointsGrowing, MaybeHandle
<1>3. Others(t) /\ pc'[t] = "move" /\ mode'[t] = mode[t]
  BY <1>0, <1>1 DEF TypeOK, Others, Same
<1>4. /\ ~Mine(t) /\ ~Single(t) /\ ~Holds(t) /\ ~Pops(t) /\ ~Bars(t) /\ ~PushesMain(t)
      /\ ~Mine(t)' /\ ~Single(t)' /\ ~Holds(t)' /\ ~Pops(t)' /\ ~Bars(t)' /\ ~PushesMain(t)' /\ Grows(t)'
  BY <1>1, <1>3 DEF Mine, Single, Holds, Pops, Bars, Grows, PushesMain, PointsAlone, PointsHolding, PointsPopping, PointsBarring, PointsGrowing
<1>5. Entries' = Entries /\ Nexts' = Nexts /\ InUse' = InUse
  BY <1>1 DEF Entries, Nexts, InUse
<1>6. \A s \in Threads \ {t} : /\ (Single(s)' <=> Single(s)) /\ (Pops(s)' <=> Pops(s)) /\ (PushesMain(s)' <=> PushesMain(s))
                               /\ Same(s) /\ ~Grows(s) /\ ~Grows(s)'
  <2>1. \A s \in Threads : ~Grows(s)
    BY <1>0, <1>1 DEF GrowInv
  <2> QED BY <1>3, <2>1, SamePredicates DEF Others
<1>7. ModeInv'
  BY <1>0, <1>1, <1>3, OthersMode DEF ModeInv
<1>8. PointInv'
  <2>1. PointOf(t)'
    BY <1>3, <1>4 DEF PointOf, PointsEntry
  <2> QED BY <1>0, <1>3, <1>5, <2>1, OthersPoints
<1>9. PopInv'
  BY <1>0, <1>1, <1>3, <1>4, OthersPop
<1>10. MineInv'
  BY <1>0, <1>1, <1>3, <1>4, <1>5, OthersMine
<1>11. GrowInv'
  <2>1. \A s \in Threads \ {t} : pc'[s] \notin {"extend", "splice", "spliceCas"} /\ pc[s] \notin {"extend", "splice", "spliceCas"}
    BY <1>6 DEF Grows, PointsGrowing
  <2> QED BY <1>0, <1>1, <1>3, <1>4, <1>6, <2>1 DEF GrowInv
<1>12. PICK M \in SUBSET Handles, A \in SUBSET Handles, D \in SUBSET Handles, R \in SUBSET Handles, n \in Ranks :
        Shape(M, A, D, R, n)
  BY Lists
<1>13. D = {} /\ R = {}
  BY <1>1, <1>12 DEF Shape
<1>14. Shape(M, A, D, R, n)'
  <2>1. \A s \in Threads : ChainOf(s, D, R, n)'
    BY <1>3, <1>6, <1>13 DEF ChainOf, Grows, PointsGrowing
  <2>2. \A s \in Threads : Single(s)' => Single(s) /\ h'[s] = h[s]
    BY <1>4, <1>6 DEF Same
  <2>3. \A s \in Threads : Single(s) => Single(s)' /\ h'[s] = h[s]
    BY <1>4, <1>6 DEF Same
  <2>4. \A v \in M \cup A \cup D \cup R : ~entry'[v].inUse /\ \A s \in Threads : Single(s)' => h'[s] # v
    BY <1>1, <1>12, <2>2 DEF Shape
  <2>5. \A v \in Entries' : \/ v \in M \cup A \cup D \cup R \cup InUse'
                            \/ \E s \in Threads : Single(s)' /\ h'[s] = v
    BY <1>5, <1>12, <2>3 DEF Shape
  <2>6. \A s \in Threads : PopOf(s, M, D, R)'
    <3> TAKE s \in Threads
    <3> SUFFICES ASSUME Pops(s)'
                 PROVE  /\ pc'[s] = "allocCas" /\ h'[s] \in M => nx'[s] = Nexts'[h'[s]]
                        /\ \A u \in Threads : PushesMain(u)' => h'[u] # h'[s]
      BY <1>13 DEF PopOf
    <3>1. s # t /\ Pops(s) /\ Same(s)
      BY <1>4, <1>6
    <3>2. PopOf(s, M, D, R)
      BY <1>12 DEF Shape
    <3>3. \A u \in Threads : PushesMain(u)' => PushesMain(u) /\ Same(u)
      BY <1>4, <1>6
    <3> QED BY <1>5, <3>1, <3>2, <3>3 DEF PopOf, Same
  <2>7. \A s \in Threads : pc'[s] = "pushCas" => Nexts'[h'[s]] = nx'[s]
    BY <1>3, <1>5, <1>6, <1>12 DEF Shape, Same
  <2> QED BY <1>1, <1>5, <1>12, <1>13, <2>1, <2>4, <2>5, <2>6, <2>7 DEF Shape
<1>15. ShapeInv'
  BY <1>14 DEF ShapeInv
<1> QED BY <1>2, <1>7, <1>8, <1>9, <1>10, <1>11, <1>15 DEF IInv
-----------------------------------------------------------------------------
(* The steps of a thread that takes, fills, frees or returns the entry v. *)

EntryStep(t, v) ==
    /\ Others(t) /\ h' = h /\ h[t] = v /\ v \in Entries
    /\ nextValue' = nextValue /\ tables' = tables /\ owner' = owner
    /\ ~Grows(t) /\ ~Grows(t)' /\ ~Pops(t)' /\ (PushesMain(t)' => PushesMain(t))
    /\ \A u \in Handles \ {v} : entry'[u] = entry[u]
    /\ \A s \in Threads \ {t} : Mine(s) => h[s] # v

LEMMA EntryThreads ==
    ASSUME NEW t \in Threads, NEW v, EntryStep(t, v)
    PROVE  /\ \A s \in Threads \ {t} : /\ (Mine(s)' <=> Mine(s)) /\ (Single(s)' <=> Single(s))
                                       /\ (Holds(s)' <=> Holds(s)) /\ (Pops(s)' <=> Pops(s))
                                       /\ (PushesMain(s)' <=> PushesMain(s)) /\ (Grows(s)' <=> Grows(s)) /\ Same(s)
           /\ Entries' = Entries
<1>1. Entries' = Entries
  BY DEF EntryStep, Entries
<1> QED BY <1>1, SamePredicates DEF EntryStep, Others

LEMMA EntryRest ==
    ASSUME IInv, NEW t \in Threads, NEW v, EntryStep(t, v),
           Holds(t)' => entry'[v].inUse /\ ~entry'[v].unlocked,
           Single(t)' => ~entry'[v].inUse,
           pc'[t] \notin {"find", "table"}
    PROVE  GrowInv' /\ PointInv' /\ MineInv'
<1>0. TypeOK /\ GrowInv /\ PointInv /\ MineInv /\ Entries \subseteq Handles
  BY SizeFacts DEF IInv
<1>1. GrowInv'
  <2>1. \A s \in Threads : (Grows(s)' <=> Grows(s))
    BY EntryThreads DEF EntryStep
  <2>2. \A s \in Threads : pc'[s] \in PointsGrowing \/ pc[s] \in PointsGrowing => Same(s)
    BY EntryThreads DEF EntryStep, Grows
  <2>3. \A s \in Threads : pc'[s] \in {"splice", "spliceCas", "extend"} \/ pc[s] \in {"splice", "spliceCas", "extend"} => Same(s)
    BY <2>2 DEF PointsGrowing
  <2>4. /\ nextValue' = nextValue /\ tables' = tables /\ owner' = owner
    BY DEF EntryStep
  <2>5. \A s \in Threads : (pc'[s] = "extend" <=> pc[s] = "extend")
    BY <2>3 DEF Same
  <2>6. \A s \in Threads : pc'[s] \in {"splice", "spliceCas"} => pc[s] \in {"splice", "spliceCas"} /\ cont'[s] = cont[s]
    BY <2>3 DEF Same
  <2> QED BY <1>0, <2>1, <2>4, <2>5, <2>6 DEF GrowInv
<1>2. PointInv'
  <2>1. PointOf(t)'
    BY <1>0, EntryThreads DEF EntryStep, PointOf
  <2> QED BY <1>0, <2>1, EntryThreads, OthersPoints DEF EntryStep
<1>3. MineInv'
  <2>1. \A s \in Threads \ {t} : Mine(s) => h[s] \in Handles \ {v} /\ entry'[h[s]] = entry[h[s]]
    BY <1>0 DEF PointInv, EntryStep
  <2>2. \A s, u \in Threads : s # u /\ Mine(s)' /\ Mine(u)' => h'[s] # h'[u]
    BY <1>0, EntryThreads DEF MineInv, EntryStep
  <2>3. \A s \in Threads : Holds(s)' => entry'[h'[s]].inUse /\ ~entry'[h'[s]].unlocked
    BY <1>0, <2>1, EntryThreads DEF MineInv, EntryStep, Mine
  <2>4. \A s \in Threads : Single(s)' => ~entry'[h'[s]].inUse
    BY <1>0, <2>1, EntryThreads DEF MineInv, EntryStep, Mine
  <2>5. InUse' \subseteq Entries'
    BY <1>0, EntryThreads DEF MineInv, EntryStep, InUse
  <2> QED BY <2>2, <2>3, <2>4, <2>5 DEF MineInv
<1> QED BY <1>1, <1>2, <1>3

\* Where v is after the step.
Places(t, v, M, A, M2, A2) ==
    /\ M2 \ {v} = M \ {v} /\ A2 \ {v} = A \ {v} /\ M2 \cap A2 = {}
    /\ v \in M2 \cup A2 => ~entry'[v].inUse /\ ~Single(t)'
    /\ v \in M2 \cup A2 \/ v \in InUse' \/ Single(t)'
    /\ v \in M2 => \A s \in Threads : Pops(s) => h[s] # v

LEMMA EntryShape ==
    ASSUME IInv, NEW t \in Threads, NEW v, EntryStep(t, v),
           NEW M \in SUBSET Handles, NEW A \in SUBSET Handles, NEW D \in SUBSET Handles, NEW R \in SUBSET Handles,
           NEW n \in Ranks, Shape(M, A, D, R, n), v \notin D \cup R,
           NEW M2 \in SUBSET Handles, NEW A2 \in SUBSET Handles, NEW m \in Ranks, Places(t, v, M, A, M2, A2),
           ListOK(M2, freeValue', Nexts', m), ListOK(A2, freeValueAlt', Nexts', m),
           \A u \in D \cup R : m[u] = n[u],
           pc'[t] = "pushCas" => Nexts'[v] = nx'[t]
    PROVE  Shape(M2, A2, D, R, m)'
<1>0. TypeOK /\ GrowInv /\ PointInv /\ MineInv /\ Entries \subseteq Handles /\ Entries' = Entries /\ v \in Handles
  BY SizeFacts, EntryThreads DEF IInv, EntryStep
<1>1. \A u \in Handles \ {v} : entry'[u] = entry[u] /\ Nexts'[u] = Nexts[u]
  BY DEF EntryStep, Nexts
<1>2. \A s \in Threads \ {t} : Single(s)' => Single(s) /\ h'[s] = h[s] /\ h[s] # v
  BY EntryThreads DEF EntryStep, Mine
<1>3. \A s \in Threads \ {t} : Single(s) => Single(s)' /\ h'[s] = h[s]
  BY EntryThreads DEF EntryStep, Mine
<1>4. h'[t] = v /\ h[t] = v /\ h' = h
  BY DEF EntryStep
<1>5. /\ M2 \cup A2 \cup D \cup R \subseteq Entries'
      /\ M2 \cap A2 = {} /\ (M2 \cup A2) \cap (D \cup R) = {} /\ D \cap R = {}
      /\ owner' = NULL => D = {} /\ R = {}
  BY <1>0 DEF Shape, Places, EntryStep
<1>6. \A u \in M2 \cup A2 \cup D \cup R : ~entry'[u].inUse /\ \A s \in Threads : Single(s)' => h'[s] # u
  <2> TAKE u \in M2 \cup A2 \cup D \cup R
  <2>1. CASE u = v
    <3>1. ~entry'[v].inUse /\ ~Single(t)'
      BY <2>1 DEF Places
    <3> QED BY <1>2, <2>1, <3>1
  <2>2. CASE u # v
    <3>1. u \in M \cup A \cup D \cup R /\ u \in Handles \ {v}
      BY <2>2 DEF Places
    <3>2. ~entry[u].inUse /\ \A s \in Threads : Single(s) => h[s] # u
      BY <3>1 DEF Shape
    <3> QED BY <1>1, <1>2, <1>4, <2>2, <3>1, <3>2
  <2> QED BY <2>1, <2>2
<1>7. \A u \in Entries' : \/ u \in M2 \cup A2 \cup D \cup R \cup InUse'
                          \/ \E s \in Threads : Single(s)' /\ h'[s] = u
  <2> TAKE u \in Entries'
  <2>1. CASE u = v
    BY <1>4, <2>1 DEF Places
  <2>2. CASE u # v
    <3>1. u \in Entries /\ u \in Handles \ {v}
      BY <1>0, <2>2
    <3>2. \/ u \in M \cup A \cup D \cup R \cup InUse
          \/ \E s \in Threads : Single(s) /\ h[s] = u
      BY <3>1 DEF Shape
    <3>3. u \in InUse => u \in InUse'
      BY <1>1, <3>1 DEF InUse
    <3>4. ASSUME NEW s \in Threads, Single(s), h[s] = u PROVE Single(s)' /\ h'[s] = u
      BY <1>3, <1>4, <2>2, <3>4
    <3> QED BY <2>2, <3>2, <3>3, <3>4 DEF Places
  <2> QED BY <2>1, <2>2
<1>8. \A s \in Threads : ChainOf(s, D, R, m)'
  <2> TAKE s \in Threads
  <2>1. CASE s = t
    <3>1. ~Grows(s)'
      BY <2>1 DEF EntryStep
    <3> QED BY <3>1 DEF Grows, PointsGrowing, ChainOf
  <2>2. CASE s # t
    <3>1. \A u \in D \cup R : Nexts'[u] = Nexts[u] /\ m[u] = n[u]
      BY <1>1
    <3>2. ChainOf(s, D, R, n) /\ Same(s) /\ nextValue' = nextValue
      BY <2>2, EntryThreads DEF Shape, EntryStep
    <3> QED BY <3>1, <3>2, ChainKept
  <2> QED BY <2>1, <2>2
<1>9. \A s \in Threads : PopOf(s, M2, D, R)'
  <2> TAKE s \in Threads
  <2> SUFFICES ASSUME Pops(s)'
               PROVE  /\ pc'[s] = "allocCas" /\ h'[s] \in M2 => nx'[s] = Nexts'[h'[s]]
                      /\ h'[s] \notin R
                      /\ \A o \in Threads : h'[s] \in D /\ owner' = o => pc'[o] = "drain" /\ tail'[o] <= LockIndex(h'[s])
                      /\ \A u \in Threads : PushesMain(u)' => h'[u] # h'[s]
    BY DEF PopOf, LockIndex
  <2>1. s # t /\ Pops(s) /\ Same(s) /\ h'[s] = h[s] /\ PopOf(s, M, D, R)
    BY EntryThreads DEF EntryStep, Shape
  <2>2. ASSUME pc'[s] = "allocCas", h'[s] \in M2 PROVE nx'[s] = Nexts'[h'[s]]
    <3>1. h[s] # v /\ h[s] \in M /\ h[s] \in Handles \ {v}
      BY <2>1, <2>2 DEF Places
    <3> QED BY <1>1, <2>1, <2>2, <3>1 DEF PopOf, Same
  <2>3. h'[s] \notin R
    BY <2>1 DEF PopOf
  <2>4. ASSUME NEW o \in Threads, h'[s] \in D, owner' = o PROVE pc'[o] = "drain" /\ tail'[o] <= LockIndex(h'[s])
    <3>1. owner = o /\ pc[o] = "drain" /\ tail[o] <= LockIndex(h[s])
      BY <2>1, <2>4 DEF PopOf, EntryStep
    <3>2. o # t
      BY <3>1 DEF EntryStep, Grows, PointsGrowing
    <3> QED BY <2>1, <3>1, <3>2, EntryThreads DEF Same
  <2>5. ASSUME NEW u \in Threads, PushesMain(u)' PROVE h'[u] # h'[s]
    <3>1. PushesMain(u)
      BY <2>5, EntryThreads DEF EntryStep
    <3> QED BY <1>4, <2>1, <3>1 DEF PopOf
  <2> QED BY <2>2, <2>3, <2>4, <2>5
<1>10. \A s \in Threads : pc'[s] = "pushCas" => Nexts'[h'[s]] = nx'[s]
  <2> SUFFICES ASSUME NEW s \in Threads, pc'[s] = "pushCas" PROVE Nexts'[h'[s]] = nx'[s]
    OBVIOUS
  <2>1. CASE s = t
    BY <1>4, <2>1
  <2>2. CASE s # t
    <3>1. Same(s) /\ pc[s] = "pushCas" /\ Nexts[h[s]] = nx[s]
      BY <2>2, EntryThreads DEF Same, Shape
    <3>2. Mine(s)
      BY <3>1 DEF Mine, Single, PointsAlone
    <3>3. h[s] \in Handles \ {v}
      BY <1>0, <2>2, <3>2 DEF EntryStep, PointInv
    <3> QED BY <1>1, <3>1, <3>3 DEF Same
  <2> QED BY <2>1, <2>2
<1> QED BY <1>5, <1>6, <1>7, <1>8, <1>9, <1>10 DEF Shape

\* The handle that a thread has for itself is in no list.
LEMMA MineNotFree ==
    ASSUME IInv, NEW t \in Threads, Mine(t), NEW M, NEW A, NEW D, NEW R, NEW n, Shape(M, A, D, R, n)
    PROVE  /\ h[t] \in Entries /\ h[t] \in Handles /\ h[t] \notin M \cup A \cup D \cup R
           /\ \A s \in Threads \ {t} : Mine(s) => h[s] # h[t]
<1>0. TypeOK /\ GrowInv /\ PointInv /\ MineInv /\ Entries \subseteq Handles
  BY SizeFacts DEF IInv
<1>1. h[t] \in Entries
  BY <1>0 DEF PointInv
<1>2. h[t] \notin M \cup A \cup D \cup R
  BY <1>0 DEF Shape, MineInv, Mine
<1>3. \A s \in Threads \ {t} : Mine(s) => h[s] # h[t]
  BY <1>0 DEF MineInv
<1> QED BY <1>0, <1>1, <1>2, <1>3

LEMMA AllocCasStep == ASSUME IInv, NEW t \in Threads, AllocCas(t), freeValue = h[t] PROVE IInv'
<1>0. TypeOK /\ ModeInv /\ GrowInv /\ PointInv /\ MineInv /\ PopInv /\ Entries \subseteq Handles
  BY SizeFacts DEF IInv
<1>1. /\ pc[t] = "allocCas" /\ pc' = [pc EXCEPT ![t] = "allocated"] /\ freeValue' = nx[t]
      /\ UNCHANGED <<freeValueAlt, nextValue, strictFifo, tables, entry, popping, owner, mode, h, nx, tail, seen, count, cont>>
  BY DEF AllocCas, Goto, locals
<1>2. h[t] \in Entries /\ h[t] \in Handles /\ Pops(t) /\ h[t] # NULL
  BY <1>0, <1>1, NoHandle DEF PointInv, Pops, Bars, PointsPopping, PointsBarring
<1>3. PICK v \in Entries : v = h[t]
  BY <1>2
<1>4. PICK M \in SUBSET Handles, A \in SUBSET Handles, D \in SUBSET Handles, R \in SUBSET Handles, n \in Ranks :
        Shape(M, A, D, R, n)
  BY Lists
<1>5. ListOK(M, v, Nexts, n) /\ ListOK(A, freeValueAlt, Nexts, n) /\ M # {} /\ v \in M
  BY <1>2, <1>3, <1>4 DEF Shape, ListOK, Heads
<1>6. nx[t] = Nexts[v]
  BY <1>1, <1>2, <1>3, <1>4, <1>5 DEF Shape, PopOf
<1>7. ListOK(M \ {v}, nx[t], Nexts, n)
  BY <1>5, <1>6, PopHead
<1>8. nx[t] \in MaybeHandle
  BY <1>7 DEF ListOK, Heads, MaybeHandle
<1>9. Others(t) /\ pc'[t] = "allocated"
  BY <1>0, <1>1 DEF TypeOK, Others, Same
<1>10. TypeOK'
  <2>1. pc' \in [Threads -> Points]
    BY <1>0, <1>1 DEF TypeOK, Points, PointsAlone
  <2> QED BY <1>0, <1>1, <1>8, <2>1 DEF TypeOK
<1>11. /\ ~Grows(t) /\ ~Grows(t)' /\ ~Pops(t)' /\ Bars(t) /\ Bars(t)' /\ ~PushesMain(t)' /\ ~Holds(t)' /\ Single(t)'
  BY <1>1, <1>9 DEF Grows, Pops, Bars, PushesMain, Holds, Single, PointsAlone, PointsHolding, PointsPopping, PointsBarring, PointsGrowing
<1>12. ~entry[v].inUse /\ \A s \in Threads : Single(s) => h[s] # v
  BY <1>4, <1>5 DEF Shape
<1>13. EntryStep(t, v)
  <2>1. \A s \in Threads : Mine(s) => h[s] # v
    BY <1>0, <1>12 DEF MineInv, Mine
  <2> QED BY <1>1, <1>3, <1>9, <1>11, <2>1 DEF EntryStep
<1>14. GrowInv' /\ PointInv' /\ MineInv'
  BY <1>1, <1>9, <1>11, <1>12, <1>13, EntryRest
<1>15. ModeInv'
  BY <1>0, <1>1, <1>9, OthersMode DEF ModeInv, PointsPopping, PointsBarring
<1>16. PopInv'
  BY <1>0, <1>1, <1>2, <1>9, <1>11, OthersPop
<1>17. Nexts' = Nexts
  BY <1>1 DEF Nexts
<1>18. PICK P \in SUBSET Handles : P = M \ {v}
  OBVIOUS
<1>19. Places(t, v, M, A, P, A)
  BY <1>4, <1>5, <1>11, <1>18 DEF Places, Shape
<1>20. ListOK(P, freeValue', Nexts', n) /\ ListOK(A, freeValueAlt', Nexts', n)
  BY <1>1, <1>5, <1>7, <1>17, <1>18
<1>21. Shape(P, A, D, R, n)'
  <2>1. v \notin D \cup R
    BY <1>4, <1>5 DEF Shape
  <2> QED BY <1>4, <1>9, <1>13, <1>19, <1>20, <2>1, EntryShape
<1>22. ShapeInv'
  BY <1>21 DEF ShapeInv
<1> QED BY <1>10, <1>14, <1>15, <1>16, <1>22 DEF IInv

LEMMA FillStep == ASSUME IInv, NEW t \in Threads, Fill(t) PROVE IInv'
<1>0. TypeOK /\ ModeInv /\ PopInv
  BY DEF IInv
<1>1. /\ pc[t] = "fill" /\ pc' = [pc EXCEPT ![t] = "unlock"]
      /\ entry' = [entry EXCEPT ![h[t]] = [inUse |-> TRUE, unlocked |-> FALSE, object |-> t, next |-> Value2]]
      /\ UNCHANGED <<freeValue, freeValueAlt, nextValue, strictFifo, tables, popping, owner, mode, h, nx, tail, seen, count, cont>>
  BY DEF Fill, Goto, lists, locals
<1>2. Mine(t) /\ ~Pops(t) /\ ~Bars(t)
  BY <1>1 DEF Mine, Single, Pops, Bars, PointsAlone, PointsPopping, PointsBarring
<1>3. PICK M \in SUBSET Handles, A \in SUBSET Handles, D \in SUBSET Handles, R \in SUBSET Handles, n \in Ranks :
        Shape(M, A, D, R, n)
  BY Lists
<1>4. /\ h[t] \in Entries /\ h[t] \in Handles /\ h[t] \notin M \cup A \cup D \cup R
      /\ \A s \in Threads \ {t} : Mine(s) => h[s] # h[t]
  BY <1>2, <1>3, MineNotFree
<1>5. PICK v \in Handles : v = h[t]
  BY <1>4
<1>6. /\ entry' \in [Handles -> EntryType] /\ entry'[v].inUse /\ ~entry'[v].unlocked
      /\ \A u \in Handles \ {v} : entry'[u] = entry[u]
  <2>1. PICK e : e = [inUse |-> TRUE, unlocked |-> FALSE, object |-> t, next |-> Value2]
    OBVIOUS
  <2>2. e \in EntryType /\ e.inUse /\ ~e.unlocked
    BY <2>1 DEF EntryType
  <2>3. entry' = [entry EXCEPT ![v] = e]
    BY <1>1, <1>5, <2>1
  <2> QED BY <1>0, <2>2, <2>3, EntryUpdates DEF TypeOK
<1>7. Others(t) /\ pc'[t] = "unlock"
  BY <1>0, <1>1 DEF TypeOK, Others, Same
<1>8. TypeOK'
  <2>1. pc' \in [Threads -> Points]
    BY <1>0, <1>1 DEF TypeOK, Points, PointsHolding
  <2> QED BY <1>0, <1>1, <1>6, <2>1 DEF TypeOK
<1>9. /\ ~Grows(t) /\ ~Grows(t)' /\ ~Pops(t)' /\ ~Bars(t)' /\ ~PushesMain(t)' /\ Holds(t)' /\ ~Single(t)'
  BY <1>1, <1>7 DEF Grows, Pops, Bars, PushesMain, Holds, Single, PointsAlone, PointsHolding, PointsPopping, PointsBarring, PointsGrowing
<1>10. EntryStep(t, v)
  BY <1>1, <1>4, <1>5, <1>6, <1>7, <1>9 DEF EntryStep
<1>11. GrowInv' /\ PointInv' /\ MineInv'
  BY <1>6, <1>7, <1>9, <1>10, EntryRest
<1>12. ModeInv'
  BY <1>0, <1>1, <1>7, OthersMode DEF ModeInv, PointsPopping, PointsBarring, PointsGrowing
<1>13. PopInv'
  BY <1>0, <1>1, <1>2, <1>7, <1>9, OthersPop
<1>14. Places(t, v, M, A, M, A)
  BY <1>3, <1>4, <1>5, <1>6 DEF Places, Shape, InUse
<1>15. ListOK(M, freeValue', Nexts', n) /\ ListOK(A, freeValueAlt', Nexts', n)
  <2>1. \A u \in Handles \ {v} : Nexts'[u] = Nexts[u]
    BY <1>6 DEF Nexts
  <2>2. ListOK(M, freeValue, Nexts, n) /\ ListOK(A, freeValueAlt, Nexts, n) /\ \A u \in M \cup A : Nexts'[u] = Nexts[u]
    BY <1>3, <1>4, <1>5, <2>1 DEF Shape
  <2> QED BY <1>1, <2>2, ListSame
<1>16. Shape(M, A, D, R, n)'
  BY <1>3, <1>4, <1>5, <1>7, <1>10, <1>14, <1>15, EntryShape
<1>17. ShapeInv'
  BY <1>16 DEF ShapeInv
<1> QED BY <1>8, <1>11, <1>12, <1>13, <1>17 DEF IInv

LEMMA DestroyStep == ASSUME IInv, NEW t \in Threads, Destroy(t) PROVE IInv'
<1>0. TypeOK /\ ModeInv /\ PopInv
  BY DEF IInv
<1>1. /\ pc[t] = "destroy" /\ pc' = [pc EXCEPT ![t] = "wake"]
      /\ entry' = [entry EXCEPT ![h[t]] = FreeEntry(entry[h[t]].next)]
      /\ UNCHANGED <<freeValue, freeValueAlt, nextValue, strictFifo, tables, popping, owner, mode, h, nx, tail, seen, count, cont>>
  BY DEF Destroy, Goto, lists, locals
<1>2. Mine(t) /\ ~Pops(t) /\ ~Bars(t)
  BY <1>1 DEF Mine, Holds, Pops, Bars, PointsHolding, PointsPopping, PointsBarring
<1>3. PICK M \in SUBSET Handles, A \in SUBSET Handles, D \in SUBSET Handles, R \in SUBSET Handles, n \in Ranks :
        Shape(M, A, D, R, n)
  BY Lists
<1>4. /\ h[t] \in Entries /\ h[t] \in Handles /\ h[t] \notin M \cup A \cup D \cup R
      /\ \A s \in Threads \ {t} : Mine(s) => h[s] # h[t]
  BY <1>2, <1>3, MineNotFree
<1>5. PICK v \in Handles : v = h[t]
  BY <1>4
<1>6. /\ entry' \in [Handles -> EntryType] /\ ~entry'[v].inUse
      /\ \A u \in Handles \ {v} : entry'[u] = entry[u]
  <2>1. PICK e : e = FreeEntry(entry[v].next)
    OBVIOUS
  <2>2. e \in EntryType /\ ~e.inUse
    BY <1>0, <2>1 DEF EntryType, FreeEntry, TypeOK
  <2>3. entry' = [entry EXCEPT ![v] = e]
    BY <1>1, <1>5, <2>1
  <2> QED BY <1>0, <2>2, <2>3, EntryUpdates DEF TypeOK
<1>7. Others(t) /\ pc'[t] = "wake" /\ mode'[t] = "destroy"
  BY <1>0, <1>1 DEF TypeOK, Others, Same, ModeInv
<1>8. TypeOK'
  <2>1. pc' \in [Threads -> Points]
    BY <1>0, <1>1 DEF TypeOK, Points, PointsOther
  <2> QED BY <1>0, <1>1, <1>6, <2>1 DEF TypeOK
<1>9. /\ ~Grows(t) /\ ~Grows(t)' /\ ~Pops(t)' /\ ~Bars(t)' /\ ~PushesMain(t)' /\ ~Holds(t)' /\ Single(t)'
  BY <1>1, <1>7 DEF Grows, Pops, Bars, PushesMain, Holds, Single, PointsAlone, PointsHolding, PointsPopping, PointsBarring, PointsGrowing
<1>10. EntryStep(t, v)
  BY <1>1, <1>4, <1>5, <1>6, <1>7, <1>9 DEF EntryStep
<1>11. GrowInv' /\ PointInv' /\ MineInv'
  BY <1>6, <1>7, <1>9, <1>10, EntryRest
<1>12. ModeInv'
  BY <1>0, <1>1, <1>7, OthersMode DEF ModeInv, PointsPopping, PointsBarring, PointsGrowing
<1>13. PopInv'
  BY <1>0, <1>1, <1>2, <1>7, <1>9, OthersPop
<1>14. Places(t, v, M, A, M, A)
  BY <1>3, <1>4, <1>5, <1>9 DEF Places, Shape
<1>15. ListOK(M, freeValue', Nexts', n) /\ ListOK(A, freeValueAlt', Nexts', n)
  <2>1. \A u \in Handles \ {v} : Nexts'[u] = Nexts[u]
    BY <1>6 DEF Nexts
  <2>2. ListOK(M, freeValue, Nexts, n) /\ ListOK(A, freeValueAlt, Nexts, n) /\ \A u \in M \cup A : Nexts'[u] = Nexts[u]
    BY <1>3, <1>4, <1>5, <2>1 DEF Shape
  <2> QED BY <1>1, <2>2, ListSame
<1>16. Shape(M, A, D, R, n)'
  BY <1>3, <1>4, <1>5, <1>7, <1>10, <1>14, <1>15, EntryShape
<1>17. ShapeInv'
  BY <1>16 DEF ShapeInv
<1> QED BY <1>8, <1>11, <1>12, <1>13, <1>17 DEF IInv

LEMMA PushStep == ASSUME IInv, NEW t \in Threads, Push(t) PROVE IInv'
<1>0. TypeOK /\ ModeInv /\ PopInv /\ MineInv
  BY DEF IInv
<1>1. /\ pc[t] = "push" /\ pc' = [pc EXCEPT ![t] = "pushCas"] /\ nx' = [nx EXCEPT ![t] = FreeList(t)]
      /\ entry' = [entry EXCEPT ![h[t]].next = FreeList(t)]
      /\ UNCHANGED <<freeValue, freeValueAlt, nextValue, strictFifo, tables, popping, owner, mode, h, tail, seen, count, cont>>
  BY DEF Push, Goto, lists, Set
<1>2. Mine(t) /\ Single(t) /\ ~Pops(t) /\ ~Bars(t)
  BY <1>1 DEF Mine, Single, Pops, Bars, PointsAlone, PointsPopping, PointsBarring
<1>3. PICK M \in SUBSET Handles, A \in SUBSET Handles, D \in SUBSET Handles, R \in SUBSET Handles, n \in Ranks :
        Shape(M, A, D, R, n)
  BY Lists
<1>4. /\ h[t] \in Entries /\ h[t] \in Handles /\ h[t] \notin M \cup A \cup D \cup R
      /\ \A s \in Threads \ {t} : Mine(s) => h[s] # h[t]
  BY <1>2, <1>3, MineNotFree
<1>5. PICK v \in Handles : v = h[t]
  BY <1>4
<1>x. PICK x \in MaybeHandle \cup {Value2} : x = FreeList(t)
  BY <1>0 DEF FreeList, TypeOK
<1>6. /\ entry' \in [Handles -> EntryType] /\ ~entry'[v].inUse /\ entry'[v].next = x
      /\ \A u \in Handles \ {v} : entry'[u] = entry[u]
  <2>1. entry' = [entry EXCEPT ![v].next = x]
    BY <1>1, <1>5, <1>x
  <2>2. entry' \in [Handles -> EntryType]
    BY <1>0, <2>1, EntryUpdates DEF TypeOK
  <2>3. ~entry[v].inUse
    BY <1>0, <1>2, <1>5 DEF MineInv
  <2> QED BY <1>0, <2>1, <2>2, <2>3 DEF TypeOK, EntryType
<1>7. Others(t) /\ pc'[t] = "pushCas" /\ nx'[t] = x
  BY <1>0, <1>1, <1>x DEF TypeOK, Others, Same
<1>8. TypeOK'
  <2>1. pc' \in [Threads -> Points]
    BY <1>0, <1>1 DEF TypeOK, Points, PointsAlone
  <2>2. nx' \in [Threads -> MaybeHandle \cup {Value2}]
    BY <1>0, <1>1, <1>x DEF TypeOK
  <2> QED BY <1>0, <1>1, <1>6, <2>1, <2>2 DEF TypeOK
<1>9. /\ ~Grows(t) /\ ~Grows(t)' /\ ~Pops(t)' /\ ~Bars(t)' /\ (PushesMain(t)' => PushesMain(t)) /\ ~Holds(t)' /\ Single(t)'
  BY <1>1, <1>7 DEF Grows, Pops, Bars, PushesMain, Holds, Single, PointsAlone, PointsHolding, PointsPopping, PointsBarring, PointsGrowing
<1>10. EntryStep(t, v)
  BY <1>1, <1>4, <1>5, <1>6, <1>7, <1>9 DEF EntryStep
<1>11. GrowInv' /\ PointInv' /\ MineInv'
  BY <1>6, <1>7, <1>9, <1>10, EntryRest
<1>12. ModeInv'
  BY <1>0, <1>1, <1>7, OthersMode DEF ModeInv, PointsPopping, PointsBarring, PointsGrowing
<1>13. PopInv'
  BY <1>0, <1>1, <1>2, <1>7, <1>9, OthersPop
<1>14. Places(t, v, M, A, M, A)
  BY <1>3, <1>4, <1>5, <1>9 DEF Places, Shape
<1>n. Nexts'[v] = x /\ \A u \in Handles \ {v} : Nexts'[u] = Nexts[u]
  BY <1>6 DEF Nexts
<1>15. ListOK(M, freeValue', Nexts', n) /\ ListOK(A, freeValueAlt', Nexts', n)
  <2>2. ListOK(M, freeValue, Nexts, n) /\ ListOK(A, freeValueAlt, Nexts, n) /\ \A u \in M \cup A : Nexts'[u] = Nexts[u]
    BY <1>3, <1>4, <1>5, <1>n DEF Shape
  <2> QED BY <1>1, <2>2, ListSame
<1>16. Shape(M, A, D, R, n)'
  BY <1>3, <1>4, <1>5, <1>7, <1>10, <1>14, <1>15, <1>n, EntryShape
<1>17. ShapeInv'
  BY <1>16 DEF ShapeInv
<1> QED BY <1>8, <1>11, <1>12, <1>13, <1>17 DEF IInv

LEMMA PushCasStep == ASSUME IInv, NEW t \in Threads, PushCas(t), FreeList(t) = nx[t] PROVE IInv'
<1>0. TypeOK /\ ModeInv /\ PopInv /\ MineInv
  BY DEF IInv
<1>1. /\ pc[t] = "pushCas" /\ pc' = [pc EXCEPT ![t] = "idle"]
      /\ freeValue' = (IF seen[t] = "main" THEN h[t] ELSE freeValue)
      /\ freeValueAlt' = (IF seen[t] = "main" THEN freeValueAlt ELSE h[t])
      /\ UNCHANGED <<nextValue, strictFifo, tables, entry, popping, owner, mode, h, nx, tail, seen, count, cont>>
  BY DEF PushCas, Goto, locals
<1>2. Mine(t) /\ Single(t) /\ ~Pops(t) /\ ~Bars(t)
  BY <1>1 DEF Mine, Single, Pops, Bars, PointsAlone, PointsPopping, PointsBarring
<1>3. PICK M \in SUBSET Handles, A \in SUBSET Handles, D \in SUBSET Handles, R \in SUBSET Handles, n \in Ranks :
        Shape(M, A, D, R, n)
  BY Lists
<1>4. /\ h[t] \in Entries /\ h[t] \in Handles /\ h[t] \notin M \cup A \cup D \cup R
      /\ \A s \in Threads \ {t} : Mine(s) => h[s] # h[t]
  BY <1>2, <1>3, MineNotFree
<1>5. PICK v \in Handles : v = h[t]
  BY <1>4
<1>6. ~entry[v].inUse /\ entry' = entry /\ Nexts' = Nexts
  BY <1>0, <1>1, <1>2, <1>5 DEF MineInv, Nexts
<1>7. Others(t) /\ pc'[t] = "idle"
  BY <1>0, <1>1 DEF TypeOK, Others, Same
<1>8. TypeOK'
  <2>1. pc' \in [Threads -> Points]
    BY <1>0, <1>1 DEF TypeOK, Points, PointsOther
  <2>2. freeValue' \in MaybeHandle /\ freeValueAlt' \in MaybeHandle
    BY <1>0, <1>1, <1>4 DEF TypeOK, MaybeHandle
  <2> QED BY <1>0, <1>1, <2>1, <2>2 DEF TypeOK
<1>9. /\ ~Grows(t) /\ ~Grows(t)' /\ ~Pops(t)' /\ ~Bars(t)' /\ ~PushesMain(t)' /\ ~Holds(t)' /\ ~Single(t)'
  BY <1>1, <1>7 DEF Grows, Pops, Bars, PushesMain, Holds, Single, PointsAlone, PointsHolding, PointsPopping, PointsBarring, PointsGrowing
<1>10. EntryStep(t, v)
  BY <1>1, <1>4, <1>5, <1>6, <1>7, <1>9 DEF EntryStep
<1>11. GrowInv' /\ PointInv' /\ MineInv'
  BY <1>6, <1>7, <1>9, <1>10, EntryRest
<1>12. ModeInv'
  BY <1>0, <1>1, <1>7, OthersMode DEF ModeInv, PointsPopping, PointsBarring, PointsGrowing
<1>13. PopInv'
  BY <1>0, <1>1, <1>2, <1>7, <1>9, OthersPop
<1>14. ListOK(M, freeValue, Nexts, n) /\ ListOK(A, freeValueAlt, Nexts, n) /\ Nexts[v] = nx[t] /\ M \cap A = {}
  BY <1>1, <1>3, <1>5 DEF Shape
<1>15. v \in Handles \ M /\ v \in Handles \ A /\ v \notin D \cup R
  BY <1>4, <1>5
<1>16. CASE seen[t] = "main"
  <2>1. Nexts[v] = freeValue /\ freeValue' = v /\ freeValueAlt' = freeValueAlt
    BY <1>1, <1>5, <1>14, <1>16 DEF FreeList
  <2>2. PICK m \in Ranks : ListOK(M \cup {v}, v, Nexts, m) /\ (\A u \in Handles \ {v} : m[u] = n[u])
    <3>1. v \in Handles \ M /\ Nexts[v] = freeValue /\ ListOK(M, freeValue, Nexts, n)
      BY <1>14, <1>15, <2>1
    <3>2. \E m \in Ranks : /\ ListOK(M \cup {v}, v, Nexts, m) /\ (\A u \in Handles \ {v} : m[u] = n[u])
                           /\ \A u \in M : Ends(M, n, u) => Ends(M \cup {v}, m, u)
      BY <3>1, PushHead
    <3> QED BY <3>2
  <2>3. PICK P \in SUBSET Handles : P = M \cup {v}
    OBVIOUS
  <2>4. ListOK(A, freeValueAlt', Nexts', m)
    BY <1>6, <1>14, <1>15, <2>1, <2>2, ListSame
  <2>5. ListOK(P, freeValue', Nexts', m)
    BY <1>6, <2>1, <2>2, <2>3
  <2>6. \A s \in Threads : Pops(s) => h[s] # v
    <3>1. PushesMain(t)
      BY <1>1, <1>16 DEF PushesMain
    <3> QED BY <1>3, <1>5, <3>1 DEF Shape, PopOf
  <2>7. Places(t, v, M, A, P, A)
    BY <1>6, <1>9, <1>14, <1>15, <2>3, <2>6 DEF Places
  <2>8. \A u \in D \cup R : m[u] = n[u]
    BY <1>15, <2>2
  <2>9. Shape(P, A, D, R, m)'
    BY <1>3, <1>7, <1>10, <1>15, <2>4, <2>5, <2>7, <2>8, EntryShape
  <2>10. ShapeInv'
    BY <2>9 DEF ShapeInv
  <2> QED BY <1>8, <1>11, <1>12, <1>13, <2>10 DEF IInv
<1>17. CASE seen[t] # "main"
  <2>1. Nexts[v] = freeValueAlt /\ freeValue' = freeValue /\ freeValueAlt' = v
    BY <1>1, <1>5, <1>14, <1>17 DEF FreeList
  <2>2. PICK m \in Ranks : ListOK(A \cup {v}, v, Nexts, m) /\ (\A u \in Handles \ {v} : m[u] = n[u])
    <3>1. v \in Handles \ A /\ Nexts[v] = freeValueAlt /\ ListOK(A, freeValueAlt, Nexts, n)
      BY <1>14, <1>15, <2>1
    <3>2. \E m \in Ranks : /\ ListOK(A \cup {v}, v, Nexts, m) /\ (\A u \in Handles \ {v} : m[u] = n[u])
                           /\ \A u \in A : Ends(A, n, u) => Ends(A \cup {v}, m, u)
      BY <3>1, PushHead
    <3> QED BY <3>2
  <2>3. PICK P \in SUBSET Handles : P = A \cup {v}
    OBVIOUS
  <2>4. ListOK(M, freeValue', Nexts', m)
    BY <1>6, <1>14, <1>15, <2>1, <2>2, ListSame
  <2>5. ListOK(P, freeValueAlt', Nexts', m)
    BY <1>6, <2>1, <2>2, <2>3
  <2>7. Places(t, v, M, A, M, P)
    BY <1>6, <1>9, <1>14, <1>15, <2>3 DEF Places
  <2>8. \A u \in D \cup R : m[u] = n[u]
    BY <1>15, <2>2
  <2>9. Shape(M, P, D, R, m)'
    BY <1>3, <1>7, <1>10, <1>15, <2>4, <2>5, <2>7, <2>8, EntryShape
  <2>10. ShapeInv'
    BY <2>9 DEF ShapeInv
  <2> QED BY <1>8, <1>11, <1>12, <1>13, <2>10 DEF IInv
<1> QED BY <1>16, <1>17
-----------------------------------------------------------------------------
(* The invariant *)

LEMMA InitInv == Init => IInv
<1> SUFFICES ASSUME Init PROVE IInv
  OBVIOUS
<1>0. LevelEntries \in Nat /\ LevelEntries > 0 /\ Locks \in Nat /\ Locks > 0 /\ NULL \notin Threads
  BY HandleTableAssumption
<1>1. /\ freeValue = 0 /\ freeValueAlt = NULL /\ nextValue = LevelEntries /\ strictFifo \in BOOLEAN /\ tables = 1
      /\ entry = NewTable([v \in Handles |-> FreeEntry(NULL)], 0)
      /\ popping = [i \in 0..Locks - 1 |-> {}] /\ owner = NULL
      /\ pc = [t \in Threads |-> "idle"] /\ mode = [t \in Threads |-> "idle"]
      /\ h = [t \in Threads |-> 0] /\ nx = [t \in Threads |-> NULL] /\ tail = [t \in Threads |-> 0]
      /\ seen = [t \in Threads |-> NULL] /\ count = [t \in Threads |-> 0] /\ cont = [t \in Threads |-> "idle"]
  BY DEF Init, INVALID
<1>2. PICK y \in Nat : y = LevelEntries - 1
  BY <1>0
<1>3. 0 \in Handles /\ 0..y \subseteq Handles /\ Entries = 0..y /\ 1 <= LevelEntries * LevelEntries
  <2> DEFINE q == LevelEntries * LevelEntries
  <2>1. q \in Nat /\ 1 <= q
    BY <1>0
  <2>2. Handles = 0..(q * LevelEntries - 1)
    BY DEF Handles
  <2> HIDE DEF q
  <2>3. \A a, b, c \in Nat : a <= b => a * c <= b * c /\ a * c \in Nat
    OBVIOUS
  <2>4. 1 * LevelEntries <= q * LevelEntries /\ q * LevelEntries \in Nat
    BY <1>0, <2>1, <2>3
  <2>5. tables * LevelEntries = LevelEntries
    BY <1>0, <1>1
  <2>6. Entries = 0..y
    BY <1>2, <2>5 DEF Entries
  <2> QED BY <1>0, <1>2, <2>1, <2>2, <2>4, <2>6 DEF q
<1>4. \A v \in Handles : entry[v] = CASE v \in 0..(y - 1) -> FreeEntry(v + 1)
                                      [] OTHER -> FreeEntry(NULL)
  <2>1. 0 + LevelEntries - 2 = y - 1 /\ 0 + LevelEntries - 1 = y /\ y \notin 0..(y - 1)
    BY <1>0, <1>2
  <2> QED BY <1>1, <2>1 DEF NewTable, INVALID
<1>5. \A v \in 0..(y - 1) : v \in Handles /\ v + 1 \in Handles /\ v + 1 \in MaybeHandle
  <2>1. \A v \in 0..(y - 1) : v \in 0..y /\ v + 1 \in 0..y
    BY <1>2
  <2> QED BY <1>3, <2>1 DEF MaybeHandle
<1>6. \A w \in MaybeHandle : FreeEntry(w) \in EntryType /\ ~FreeEntry(w).inUse /\ FreeEntry(w).next = w
  BY DEF FreeEntry, EntryType
<1>7. \A v \in Handles : entry[v] \in EntryType /\ ~entry[v].inUse
  BY <1>4, <1>5, <1>6 DEF MaybeHandle
<1>8. entry \in [Handles -> EntryType]
  <2>1. entry = [v \in Handles |-> entry[v]]
    BY <1>1 DEF NewTable
  <2> QED BY <1>7, <2>1
<1>9. TypeOK
  <2>1. "idle" \in Points /\ 0 \in MaybeHandle /\ NULL \in MaybeHandle
    BY <1>3 DEF Points, PointsOther, MaybeHandle
  <2> QED BY <1>0, <1>1, <1>8, <2>1 DEF TypeOK
<1>10. \A t \in Threads : /\ pc[t] = "idle" /\ ~Mine(t) /\ ~Single(t) /\ ~Holds(t) /\ ~Pops(t) /\ ~Bars(t) /\ ~Grows(t)
                          /\ ~PushesMain(t)
  BY <1>1 DEF Mine, Single, Holds, Pops, Bars, Grows, PushesMain, PointsAlone, PointsHolding, PointsPopping, PointsBarring, PointsGrowing
<1>11. ModeInv /\ PointInv
  BY <1>10 DEF ModeInv, PointInv, PointsPopping, PointsBarring, PointsGrowing, PointsEntry
<1>12. GrowInv
  <2>1. nextValue = tables * LevelEntries
    BY <1>0, <1>1
  <2> QED BY <1>0, <1>1, <1>3, <1>10, <2>1 DEF GrowInv
<1>13. PopInv
  BY <1>1, <1>10 DEF PopInv
<1>14. MineInv
  BY <1>7, <1>10 DEF MineInv, InUse
<1>15. ShapeInv
  <2>1. (\A v \in 0..(y - 1) : Nexts[v] = v + 1) /\ Nexts[y] = NULL
    <3>1. y \in Handles /\ y \notin 0..(y - 1)
      BY <1>2, <1>3
    <3>2. \A v \in 0..(y - 1) : entry[v] = FreeEntry(v + 1)
      BY <1>4, <1>5
    <3>3. entry[y] = FreeEntry(NULL)
      BY <1>4, <3>1
    <3> QED BY <1>5, <1>6, <3>1, <3>2, <3>3 DEF Nexts, MaybeHandle
  <2>2. [v \in Handles |-> 0] \in Ranks
    BY DEF Ranks
  <2>3. \E m \in Ranks : SegmentOK(0..y, 0, y, Nexts, m)
    <3>1. 0 \in Nat /\ 0 <= y
      BY <1>2
    <3> QED BY <1>3, <2>1, <2>2, <3>1, NewChain
  <2>4. PICK n \in Ranks : SegmentOK(0..y, 0, y, Nexts, n)
    BY <2>3
  <2>5. ListOK(0..y, freeValue, Nexts, n)
    BY <1>1, <2>1, <2>4 DEF SegmentOK, ListOK
  <2>6. ListOK({}, freeValueAlt, Nexts, n)
    BY <1>1, EmptyList
  <2>7. PICK M \in SUBSET Handles : M = 0..y
    BY <1>3
  <2>8. \A t \in Threads : ChainOf(t, {}, {}, n) /\ PopOf(t, M, {}, {})
    BY <1>10, ChainOfNobody DEF PopOf
  <2>9. Shape(M, {}, {}, {}, n)
    BY <1>3, <1>7, <1>10, <2>5, <2>6, <2>7, <2>8 DEF Shape
  <2> QED BY <2>9 DEF ShapeInv
<1> QED BY <1>9, <1>11, <1>12, <1>13, <1>14, <1>15 DEF IInv

LEMMA StutterInv == ASSUME IInv, UNCHANGED vars PROVE IInv'
<1>1. UNCHANGED <<freeValue, freeValueAlt, nextValue, strictFifo, tables, entry, popping, owner, pc, mode, h, nx, tail, seen, count, cont>>
  BY DEF vars, lists, locals
<1>2. TypeOK' /\ Entries' = Entries /\ Nexts' = Nexts /\ InUse' = InUse
  BY <1>1 DEF IInv, TypeOK, Entries, Nexts, InUse
<1>3. \A t \in Threads : /\ (Mine(t)' <=> Mine(t)) /\ (Single(t)' <=> Single(t)) /\ (Holds(t)' <=> Holds(t))
                         /\ (Pops(t)' <=> Pops(t)) /\ (Bars(t)' <=> Bars(t)) /\ (Grows(t)' <=> Grows(t)) /\ (PushesMain(t)' <=> PushesMain(t)) /\ Same(t)
  <2>1. \A t \in Threads : Same(t)
    BY <1>1 DEF Same
  <2> QED BY <2>1, SamePredicates
<1>4. ModeInv' /\ GrowInv'
  BY <1>1, <1>3 DEF IInv, ModeInv, GrowInv
<1>5. PointInv' /\ PopInv' /\ MineInv'
  BY <1>1, <1>2, <1>3 DEF IInv, PointInv, PopInv, MineInv, LockIndex
<1>6. PICK M \in SUBSET Handles, A \in SUBSET Handles, D \in SUBSET Handles, R \in SUBSET Handles, n \in Ranks :
        Shape(M, A, D, R, n)
  BY Lists
<1>7. Shape(M, A, D, R, n)'
  <2>1. \A t \in Threads : (ChainOf(t, D, R, n)' <=> ChainOf(t, D, R, n)) /\ (PopOf(t, M, D, R)' <=> PopOf(t, M, D, R))
    BY <1>1, <1>2, <1>3 DEF ChainOf, PopOf, LockIndex
  <2> QED BY <1>1, <1>2, <1>3, <1>6, <2>1 DEF Shape
<1>8. ShapeInv'
  BY <1>7 DEF ShapeInv
<1> QED BY <1>2, <1>4, <1>5, <1>8 DEF IInv

LEMMA NextInv == IInv /\ [Next]_vars => IInv'
<1> SUFFICES ASSUME IInv, [Next]_vars PROVE IInv'
  OBVIOUS
<1>1. CASE UNCHANGED vars
  BY <1>1, StutterInv
<1>2. CASE Next
  <2>1. PICK t \in Threads : CreateHandle(t) \/ LookupHandle(t) \/ Allocating(t) \/ Using(t) \/ Freeing(t)
    BY <1>2 DEF Next
  <2>2. CASE CreateHandle(t) \/ LookupHandle(t)
    BY <2>2, CreateHandleStep, LookupHandleStep
  <2>3. CASE AllocRead(t) \/ AllocLock(t) \/ AllocCheck(t) \/ AllocNext(t) \/ AllocCas(t) \/ AllocUnlock(t) \/ Fill(t) \/ Grow(t)
    BY <2>3, AllocReadStep, AllocLockStep, AllocCheckStep, AllocNextStep, AllocUnlockStep, AllocCasStep, AllocCasFailsStep, FillStep, GrowStep, GrowFoundStep
  <2>4. CASE Move(t) \/ Drain(t) \/ Shortcut(t) \/ StartReverse(t) \/ ReverseEntry(t) \/ Splice(t) \/ SpliceCas(t)
    BY <2>4, MoveStep, DrainStep, ShortcutStep, StartReverseStep, ReverseEntryStep, SpliceStep, SpliceCasStep
  <2>5. CASE More(t) \/ Extend(t) \/ MoreFails(t) \/ Failed(t)
    BY <2>5, MoreStep, ExtendStep, MoreFailsStep, FailedStep
  <2>6. CASE Find(t) \/ FindTable(t) \/ LockRead(t) \/ LockCas(t) \/ QueueWakeEvent(t) \/ Recheck(t)
    BY <2>6, FindStep, FindTableStep, LockReadStep, LockCasStep, LockCasFailsStep, QueueStep, RecheckStep
  <2>7. CASE WakeUp(t) \/ Use(t) \/ Unlock(t) \/ Wake(t) \/ Destroy(t)
    BY <2>7, WakeUpStep, UseStep, UnlockStep, WakeStep, DestroyStep
  <2>8. CASE Free(t) \/ Push(t) \/ PushCas(t)
    BY <2>8, FreeStep, PushStep, PushCasStep, PushCasFailsStep
  <2> QED BY <2>1, <2>2, <2>3, <2>4, <2>5, <2>6, <2>7, <2>8 DEF Allocating, Using, Freeing
<1> QED BY <1>1, <1>2

\* The invariant that the two properties need, for any number of threads, entries per table and locks.
THEOREM Invariance == Spec => []IInv
BY InitInv, NextInv, PTL DEF Spec

\* handle.c: a caller that has locked an entry, or has just filled it, has it alone until it
\* unlocks or destroys it, and the entry stays in use meanwhile.
THEOREM LockedEntriesAreMine == Spec => []EntryIsMine
<1>1. IInv => EntryIsMine
  <2> SUFFICES ASSUME IInv PROVE EntryIsMine
    OBVIOUS
  <2>1. MineInv
    BY DEF IInv
  <2>2. \A t \in Threads : pc[t] \in {"locked", "unlock", "destroy"} => Holds(t) /\ Mine(t)
    BY DEF Holds, Mine, PointsHolding
  <2> QED BY <2>1, <2>2 DEF MineInv, EntryIsMine
<1> QED BY <1>1, Invariance, PTL

LEMMA PrivateIs ==
    ASSUME IInv, NEW M \in SUBSET Handles, NEW A \in SUBSET Handles, NEW D \in SUBSET Handles, NEW R \in SUBSET Handles,
           NEW n \in Ranks, Shape(M, A, D, R, n), NEW t \in Threads
    PROVE  /\ Single(t) => Private(t) = {h[t]}
           /\ Grows(t) => Private(t) = D \cup R
           /\ ~Single(t) /\ ~Grows(t) => Private(t) = {}
<1>0. TypeOK /\ GrowInv /\ Entries \subseteq Handles /\ D \in SUBSET Entries /\ R \in SUBSET Entries
  BY SizeFacts DEF IInv, Shape
<1>1. Single(t) => Private(t) = {h[t]}
  BY DEF Single, PointsAlone, Private
<1>2. ~Single(t) /\ ~Grows(t) => Private(t) = {}
  BY DEF Single, Grows, PointsAlone, PointsGrowing, Private
<1>3. ASSUME Grows(t) PROVE Private(t) = D \cup R
  <2>1. ChainOf(t, D, R, n)
    BY DEF Shape
  <2>2. CASE pc[t] \in {"move", "more"}
    BY <2>1, <2>2 DEF ChainOf, Private
  <2>3. CASE pc[t] \in {"drain", "moved"}
    <3>1. R = {} /\ ListOK(D, nx[t], Nexts, n)
      BY <2>1, <2>3 DEF ChainOf
    <3>2. Linked(nx[t], NULL) = D
      BY <1>0, <3>1, ListLinked
    <3> QED BY <2>3, <3>1, <3>2 DEF Private, INVALID
  <2>4. CASE pc[t] = "reverse"
    <3>1. ListOK(D, h[t], Nexts, n) /\ ListOK(R, nx[t], Nexts, n)
      BY <2>1, <2>4 DEF ChainOf
    <3>2. Linked(h[t], NULL) = D /\ Linked(nx[t], NULL) = R
      BY <1>0, <3>1, ListLinked
    <3> QED BY <2>4, <3>2 DEF Private, INVALID
  <2>5. CASE pc[t] = "extend"
    BY <2>1, <2>5 DEF ChainOf, Private
  <2>6. CASE pc[t] \in {"splice", "spliceCas"}
    <3>1. D = {} /\ SegmentOK(R, h[t], tail[t], Nexts, n)
      BY <2>1, <2>6 DEF ChainOf
    <3>2. Linked(h[t], tail[t]) = R
      BY <1>0, <3>1, SegmentLinked
    <3> QED BY <2>6, <3>1, <3>2 DEF Private
  <2> QED BY <1>3, <2>2, <2>3, <2>4, <2>5, <2>6 DEF Grows, PointsGrowing
<1> QED BY <1>1, <1>2, <1>3

LEMMA Apart == ASSUME IInv PROVE HandlesApart
<1>0. TypeOK /\ GrowInv /\ PointInv /\ MineInv /\ Entries \subseteq Handles /\ NULL \notin Threads
  BY SizeFacts, NoHandle DEF IInv
<1>1. PICK M \in SUBSET Handles, A \in SUBSET Handles, D \in SUBSET Handles, R \in SUBSET Handles, n \in Ranks :
        Shape(M, A, D, R, n)
  BY Lists
<1>2. FreeMain = M /\ FreeAlt = A
  <2>1. M \in SUBSET Entries /\ A \in SUBSET Entries /\ ListOK(M, freeValue, Nexts, n) /\ ListOK(A, freeValueAlt, Nexts, n)
    BY <1>1 DEF Shape
  <2> QED BY <1>0, <2>1, ListLinked DEF FreeMain, FreeAlt, INVALID
<1>3. \A t \in Threads : /\ Single(t) => Private(t) = {h[t]}
                         /\ Grows(t) => Private(t) = D \cup R
                         /\ ~Single(t) /\ ~Grows(t) => Private(t) = {}
  BY <1>1, PrivateIs
<1>4. \A t \in Threads : ~(Single(t) /\ Grows(t)) /\ (Grows(t) <=> owner = t)
  BY <1>0 DEF Single, Grows, PointsAlone, PointsGrowing, GrowInv
<1>5. /\ M \cup A \cup D \cup R \subseteq Entries
      /\ M \cap A = {} /\ (M \cup A) \cap (D \cup R) = {}
      /\ \A v \in M \cup A \cup D \cup R : v \notin InUse /\ \A t \in Threads : Single(t) => h[t] # v
      /\ \A v \in Entries : \/ v \in M \cup A \cup D \cup R \cup InUse
                            \/ \E t \in Threads : Single(t) /\ h[t] = v
      /\ owner = NULL => D = {} /\ R = {}
  BY <1>1 DEF Shape, InUse
<1>6. InUse \subseteq Entries /\ \A t \in Threads : Single(t) => h[t] \in Entries /\ h[t] \notin InUse
  BY <1>0 DEF MineInv, PointInv, Mine, InUse
<1>7. \A t \in Threads : Private(t) \cap (M \cup A \cup InUse) = {} /\ Private(t) \subseteq Entries
  <2> TAKE t \in Threads
  <2>1. CASE Single(t)
    BY <1>3, <1>5, <1>6, <2>1
  <2>2. CASE Grows(t)
    BY <1>3, <1>5, <2>2
  <2>3. CASE ~Single(t) /\ ~Grows(t)
    BY <1>3, <2>3
  <2> QED BY <2>1, <2>2, <2>3
<1>8. \A s, t \in Threads : s # t => Private(s) \cap Private(t) = {}
  <2> SUFFICES ASSUME NEW s \in Threads, NEW t \in Threads, s # t PROVE Private(s) \cap Private(t) = {}
    OBVIOUS
  <2>1. CASE Single(s) /\ Single(t)
    <3>1. h[s] # h[t]
      BY <1>0, <2>1 DEF MineInv, Mine
    <3> QED BY <1>3, <2>1, <3>1
  <2>2. CASE Single(s) /\ Grows(t)
    BY <1>3, <1>5, <2>2
  <2>3. CASE Grows(s) /\ Single(t)
    BY <1>3, <1>5, <2>3
  <2>4. ~(Grows(s) /\ Grows(t))
    BY <1>4
  <2>5. CASE (~Single(s) /\ ~Grows(s)) \/ (~Single(t) /\ ~Grows(t))
    BY <1>3, <2>5
  <2> QED BY <2>1, <2>2, <2>3, <2>4, <2>5
<1>9. \A v \in Entries : v \in M \cup A \cup InUse \/ \E t \in Threads : v \in Private(t)
  <2> TAKE v \in Entries
  <2>1. CASE v \in D \cup R
    <3>1. owner \in Threads /\ Grows(owner)
      BY <1>0, <1>4, <1>5, <2>1 DEF TypeOK
    <3> QED BY <1>3, <2>1, <3>1
  <2>2. CASE \E t \in Threads : Single(t) /\ h[t] = v
    BY <1>3, <2>2
  <2> QED BY <1>5, <2>1, <2>2
<1>10. \A t \in Threads : pc[t] = "table" => h[t] \in Entries
  BY <1>0 DEF PointInv
<1> DEFINE private == [t \in Threads |-> Private(t)]
<1>11. \A t \in Threads : private[t] = Private(t)
  OBVIOUS
<1>12. FreeMain \cup FreeAlt \cup InUse \cup UNION {private[t] : t \in Threads} = Entries
  <2> HIDE DEF private
  <2>1. \A v : v \in UNION {private[t] : t \in Threads} <=> \E t \in Threads : v \in Private(t)
    BY <1>11
  <2>2. \A v : v \in FreeMain \cup FreeAlt \cup InUse \cup UNION {private[t] : t \in Threads} <=> v \in Entries
    BY <1>2, <1>5, <1>6, <1>7, <1>9, <2>1
  <2> QED BY <2>2
<1>13. FreeMain \cap FreeAlt = {} /\ (FreeMain \cup FreeAlt) \cap InUse = {}
  BY <1>2, <1>5
<1>14. /\ \A t \in Threads : private[t] \cap (FreeMain \cup FreeAlt \cup InUse) = {}
       /\ \A s, t \in Threads : s # t => private[s] \cap private[t] = {}
  BY <1>2, <1>7, <1>8, <1>11
<1> QED BY <1>10, <1>12, <1>13, <1>14 DEF HandlesApart

\* handle.c:521-553: for any number of threads, entries per table and locks, every handle value
\* is in exactly one of the two free lists, in the hands of one thread or in use.
THEOREM HandlesStayApart == Spec => []HandlesApart
BY Apart, Invariance, PTL
-----------------------------------------------------------------------------
(***************************************************************************)
(* Rundown protection.  The inductive invariant says where the reference   *)
(* count is: in Value before rundown, afterwards in every wait block that a*)
(* releaser may still decrement, which never counts fewer users than there *)
(* are.                                                                    *)
(***************************************************************************)
Occupied == Cardinality(Holders)

\* Before rundown Value counts the holders; a rundown that installed no wait block
\* found none.
ValueCounts == /\ ~value.active => value.count = Occupied
               /\ value = Active(None) => Holders = {}

\* The block of a blocked waiter counts all holders, and while there are holders
\* the block that is installed is that of a blocked waiter.
BlockCounts == \A w \in Waiters : /\ point[w] = "wBlock" => blockCount[w] >= Occupied
                                  /\ value = Active(w) /\ Holders # {} => point[w] = "wBlock"

\* What each user knows at each control point.
UserKnows ==
    \A u \in Users :
        /\ point[u] \in {"acqCas", "relCas"} => ~lastRead[u].active
        /\ point[u] = "relDec" => /\ value.active /\ lastRead[u].block \in Waiters
                               /\ point[lastRead[u].block] = "wBlock"
        /\ point[u] = "setBit" => value.active /\ lastRead[u].block \in Waiters /\ Holders = {}

\* What each waiter knows at each control point.
WaiterKnows ==
    \A w \in Waiters :
        /\ point[w] = "wCas" => blockCount[w] = CountOf(lastRead[w])
        /\ point[w] = "wBlock" => value.active
        /\ point[w] = "done" => value.active /\ Holders = {}
        /\ signaled[w] => value.active /\ Holders = {}

RundownInv == RundownTypeOK /\ ValueCounts /\ BlockCounts /\ UserKnows /\ WaiterKnows

\* The thread that began the rundown: its block is the one every releaser uses.
FirstBlock ==
    \A w \in Waiters : point[w] = "wBlock" /\ ~lastRead[w].active /\ value = Active(w)
        => /\ blockCount[w] = Occupied
           /\ \A u \in Users : point[u] = "relDec" => lastRead[u].block = w
-----------------------------------------------------------------------------
\* What a member of Values looks like.
LEMMA ValueShape ==
    ASSUME NEW v \in Values
    PROVE  /\ v.active \in BOOLEAN /\ v.count \in Nat /\ v.block \in Waiters \cup {None}
           /\ ~v.active => v = References(v.count)
           /\ v.active => v = Active(v.block)
  <1>1. CASE v \in [active : {FALSE}, count : Nat, block : {None}]
    <2>1. v.active = FALSE /\ v.count \in Nat /\ v.block = None
      BY <1>1
    <2>2. v = [active |-> FALSE, count |-> v.count, block |-> None]
      BY <1>1, <2>1
    <2> QED
      BY <2>1, <2>2 DEF References
  <1>2. CASE v \in [active : {TRUE}, count : {0}, block : Waiters \cup {None}]
    <2>1. v.active = TRUE /\ v.count = 0 /\ v.block \in Waiters \cup {None}
      BY <1>2
    <2>2. v = [active |-> TRUE, count |-> 0, block |-> v.block]
      BY <1>2, <2>1
    <2>3. v = Active(v.block) /\ v.count \in Nat
      BY <2>1, <2>2 DEF Active
    <2> QED
      BY <2>1, <2>3, Zenon
  <1> QED
    BY <1>1, <1>2 DEF Values

\* References(n) and Active(b) are values, and are told apart.
LEMMA ValueForms ==
    /\ \A n \in Nat : /\ References(n) \in Values /\ ~References(n).active
                      /\ References(n).count = n
    /\ \A b \in Waiters \cup {None} : /\ Active(b) \in Values /\ Active(b).active
                                      /\ Active(b).block = b
  BY DEF Values, References, Active

\* The holders are finitely many, and fewer than an address reads as.
LEMMA HoldersFinite ==
    /\ IsFiniteSet(Holders) /\ Occupied \in Nat /\ Occupied < AddressCount
    /\ Occupied = 0 <=> Holders = {}
  <1>1. Holders \in SUBSET Users
    BY DEF Holders
  <1>2. IsFiniteSet(Users) /\ AddressCount \in Nat /\ AddressCount > Cardinality(Users)
    BY RundownAssumption
  <1>3. IsFiniteSet(Holders) /\ Cardinality(Holders) <= Cardinality(Users)
    BY <1>1, <1>2, FS_Subset
  <1>4. Cardinality(Holders) \in Nat /\ Cardinality(Users) \in Nat
    BY <1>2, <1>3, FS_CardinalityType
  <1>5. Cardinality(Holders) = 0 <=> Holders = {}
    BY <1>3, FS_EmptySet
  <1> QED
    BY <1>2, <1>3, <1>4, <1>5 DEF Occupied

\* A user that enters is counted once more.
LEMMA HolderEnters ==
    ASSUME NEW u \in Users, u \notin Holders, Holders' = Holders \cup {u}
    PROVE  Occupied' = Occupied + 1
  BY HoldersFinite, FS_AddElement DEF Occupied

\* A user that leaves is counted once less, and was counted.
LEMMA HolderLeaves ==
    ASSUME NEW u \in Holders, Holders' = Holders \ {u}
    PROVE  Occupied' = Occupied - 1 /\ Occupied >= 1 /\ (Occupied' = 0 <=> Holders' = {})
  <1>1. Occupied' = Occupied - 1 /\ IsFiniteSet(Holders')
    BY HoldersFinite, FS_RemoveElement DEF Occupied
  <1>2. Cardinality(Holders') = 0 <=> Holders' = {}
    BY <1>1, FS_EmptySet
  <1> QED
    BY <1>1, <1>2, HoldersFinite DEF Occupied

\* Users and waiters are different threads.
LEMMA Disjoint == \A u \in Users, w \in Waiters : u # w
  BY RundownAssumption
-----------------------------------------------------------------------------
\* Reading the value changes no holder.
LEMMA AcquireReadStep ==
    ASSUME RundownInv, NEW u \in Users, AcquireRead(u)
    PROVE  RundownInv'
  <1> USE DEF AcquireRead, Read, MoveTo
  <1>1. Holders' = Holders /\ Occupied' = Occupied
    BY DEF RundownInv, RundownTypeOK, Holders, Occupied, Callers
  <1>2. RundownTypeOK'
    BY Disjoint DEF RundownInv, RundownTypeOK, Callers, UserPoints, WaiterPoints
  <1>3. ValueCounts'
    BY <1>1 DEF RundownInv, ValueCounts
  <1>4. BlockCounts'
    BY <1>1, Disjoint DEF RundownInv, BlockCounts, RundownTypeOK, Callers
  <1>5. UserKnows'
    BY <1>1 DEF RundownInv, UserKnows, RundownTypeOK, Callers, Refuses
  <1>6. WaiterKnows'
    BY <1>1, Disjoint DEF RundownInv, WaiterKnows, RundownTypeOK, Callers, CountOf, AddressOf
  <1> QED
    BY <1>2, <1>3, <1>4, <1>5, <1>6 DEF RundownInv

\* Acquiring by CAS: only while the value is the count that was read.
LEMMA AcquireCasStep ==
    ASSUME RundownInv, NEW u \in Users, AcquireCas(u)
    PROVE  RundownInv'
  <1> USE DEF AcquireCas, MoveTo
  <1>1. CASE value # lastRead[u]
    <2>1. Holders' = Holders /\ Occupied' = Occupied
      BY <1>1 DEF RundownInv, RundownTypeOK, Holders, Occupied, Callers
    <2>2. RundownTypeOK'
      BY <1>1, Disjoint DEF RundownInv, RundownTypeOK, Callers, UserPoints, WaiterPoints
    <2>3. ValueCounts'
      BY <1>1, <2>1 DEF RundownInv, ValueCounts
    <2>4. BlockCounts'
      BY <1>1, <2>1, Disjoint DEF RundownInv, BlockCounts, RundownTypeOK, Callers
    <2>5. UserKnows'
      BY <1>1, <2>1 DEF RundownInv, UserKnows, RundownTypeOK, Callers
    <2>6. WaiterKnows'
      BY <1>1, <2>1, Disjoint DEF RundownInv, WaiterKnows, RundownTypeOK, Callers, CountOf, AddressOf
    <2> QED
      BY <2>2, <2>3, <2>4, <2>5, <2>6 DEF RundownInv
  <1>2. CASE value = lastRead[u]
    <2>1. ~value.active /\ value.count \in Nat /\ value.count = Occupied
      BY <1>2, ValueShape DEF RundownInv, UserKnows, ValueCounts, RundownTypeOK
    <2>2. value' = References(value.count + 1) /\ point' = [point EXCEPT ![u] = "held"]
      BY <1>2
    <2>3. Holders' = Holders \cup {u} /\ u \notin Holders
      BY <2>2 DEF RundownInv, RundownTypeOK, Holders, Callers
    <2>4. Occupied' = Occupied + 1
      BY <2>3, HolderEnters
    <2>5. value' \in Values /\ ~value'.active /\ value'.count = Occupied'
      BY <2>1, <2>2, <2>4, ValueForms
    <2>6. RundownTypeOK'
      BY <2>2, <2>5, Disjoint DEF RundownInv, RundownTypeOK, Callers, UserPoints, WaiterPoints
    <2>7. \A w \in Waiters : point[w] # "wBlock" /\ point[w] # "done" /\ ~signaled[w]
      BY <2>1 DEF RundownInv, WaiterKnows
    <2>8. \A x \in Users : point[x] # "relDec" /\ point[x] # "setBit"
      BY <2>1 DEF RundownInv, UserKnows
    <2>9. \A b \in Waiters \cup {None} : value' # Active(b)
      BY <2>5, ValueForms
    <2>10. ValueCounts'
      BY <2>5, <2>9 DEF ValueCounts
    <2>11. BlockCounts'
      BY <2>2, <2>7, <2>9, Disjoint DEF BlockCounts, RundownInv, RundownTypeOK, Callers
    <2>12. UserKnows'
      BY <2>2, <2>8 DEF UserKnows, RundownInv, RundownTypeOK, Callers
    <2>13. WaiterKnows'
      BY <2>2, <2>7, Disjoint DEF WaiterKnows, RundownInv, RundownTypeOK, Callers, CountOf, AddressOf
    <2> QED
      BY <2>6, <2>10, <2>11, <2>12, <2>13 DEF RundownInv
  <1> QED
    BY <1>1, <1>2

\* Reading the value to release: an active value names a waiter's block, because
\* the releaser is a holder and a rundown without block found none.
LEMMA ReleaseReadStep ==
    ASSUME RundownInv, NEW u \in Users, ReleaseRead(u)
    PROVE  RundownInv'
  <1> USE DEF ReleaseRead, Read, MoveTo
  <1>1. Holders' = Holders /\ Occupied' = Occupied /\ u \in Holders
    BY DEF RundownInv, RundownTypeOK, Holders, Occupied, Callers
  <1>2. RundownTypeOK'
    BY Disjoint DEF RundownInv, RundownTypeOK, Callers, UserPoints, WaiterPoints
  <1>3. ValueCounts'
    BY <1>1 DEF RundownInv, ValueCounts
  <1>4. BlockCounts'
    BY <1>1, Disjoint DEF RundownInv, BlockCounts, RundownTypeOK, Callers
  <1>5. value.active => value.block \in Waiters /\ point[value.block] = "wBlock"
    BY <1>1, ValueShape DEF RundownInv, ValueCounts, BlockCounts, RundownTypeOK
  <1>6. UserKnows'
    <2>1. value.active \in BOOLEAN
      BY ValueShape DEF RundownInv, RundownTypeOK
    <2>2. \A x \in Users : x # u => point'[x] = point[x] /\ lastRead'[x] = lastRead[x]
      BY DEF RundownInv, RundownTypeOK, Callers
    <2>3. lastRead'[u] = value /\ point'[u] = IF value.active THEN "relDec" ELSE "relCas"
      BY DEF RundownInv, RundownTypeOK, Callers
    <2> QED
      BY <1>1, <1>5, <2>1, <2>2, <2>3 DEF RundownInv, UserKnows
  <1>7. WaiterKnows'
    BY <1>1, Disjoint DEF RundownInv, WaiterKnows, RundownTypeOK, Callers, CountOf, AddressOf
  <1> QED
    BY <1>2, <1>3, <1>4, <1>6, <1>7 DEF RundownInv

\* Releasing by CAS: only while the value is the count that was read.
LEMMA ReleaseCasStep ==
    ASSUME RundownInv, NEW u \in Users, ReleaseCas(u)
    PROVE  RundownInv'
  <1> USE DEF ReleaseCas, MoveTo
  <1>1. CASE value # lastRead[u]
    <2>1. Holders' = Holders /\ Occupied' = Occupied
      BY <1>1 DEF RundownInv, RundownTypeOK, Holders, Occupied, Callers
    <2>2. RundownTypeOK'
      BY <1>1, Disjoint DEF RundownInv, RundownTypeOK, Callers, UserPoints, WaiterPoints
    <2>3. ValueCounts'
      BY <1>1, <2>1 DEF RundownInv, ValueCounts
    <2>4. BlockCounts'
      BY <1>1, <2>1, Disjoint DEF RundownInv, BlockCounts, RundownTypeOK, Callers
    <2>5. UserKnows'
      BY <1>1, <2>1 DEF RundownInv, UserKnows, RundownTypeOK, Callers
    <2>6. WaiterKnows'
      BY <1>1, <2>1, Disjoint DEF RundownInv, WaiterKnows, RundownTypeOK, Callers, CountOf, AddressOf
    <2> QED
      BY <2>2, <2>3, <2>4, <2>5, <2>6 DEF RundownInv
  <1>2. CASE value = lastRead[u]
    <2>1. ~value.active /\ value.count \in Nat /\ value.count = Occupied
      BY <1>2, ValueShape DEF RundownInv, UserKnows, ValueCounts, RundownTypeOK
    <2>2. value' = References(value.count - 1) /\ point' = [point EXCEPT ![u] = "idle"]
      BY <1>2
    <2>3. Holders' = Holders \ {u} /\ u \in Holders
      BY <2>2 DEF RundownInv, RundownTypeOK, Holders, Callers
    <2>4. Occupied' = Occupied - 1 /\ Occupied >= 1
      BY <2>3, HolderLeaves
    <2>5. value' \in Values /\ ~value'.active /\ value'.count = Occupied'
      BY <2>1, <2>2, <2>4, ValueForms
    <2>6. RundownTypeOK'
      BY <2>2, <2>5, Disjoint DEF RundownInv, RundownTypeOK, Callers, UserPoints, WaiterPoints
    <2>7. \A w \in Waiters : point[w] # "wBlock" /\ point[w] # "done" /\ ~signaled[w]
      BY <2>1 DEF RundownInv, WaiterKnows
    <2>8. \A x \in Users : point[x] # "relDec" /\ point[x] # "setBit"
      BY <2>1 DEF RundownInv, UserKnows
    <2>9. \A b \in Waiters \cup {None} : value' # Active(b)
      BY <2>5, ValueForms
    <2>10. ValueCounts'
      BY <2>5, <2>9 DEF ValueCounts
    <2>11. BlockCounts'
      BY <2>2, <2>7, <2>9, Disjoint DEF BlockCounts, RundownInv, RundownTypeOK, Callers
    <2>12. UserKnows'
      BY <2>2, <2>8 DEF UserKnows, RundownInv, RundownTypeOK, Callers
    <2>13. WaiterKnows'
      BY <2>2, <2>7, Disjoint DEF WaiterKnows, RundownInv, RundownTypeOK, Callers, CountOf, AddressOf
    <2> QED
      BY <2>6, <2>10, <2>11, <2>12, <2>13 DEF RundownInv
  <1> QED
    BY <1>1, <1>2

\* The decrement in the wait block: the block counted the releaser, so the count
\* stays natural, and it is 0 only when the releaser was the last holder.
LEMMA ReleaseDecrementStep ==
    ASSUME RundownInv, NEW u \in Users, ReleaseDecrement(u)
    PROVE  RundownInv'
  <1> DEFINE b == lastRead[u].block
  <1> USE DEF ReleaseDecrement, MoveTo
  <1>1. /\ value.active /\ b \in Waiters /\ point[b] = "wBlock" /\ point[u] = "relDec"
        /\ blockCount[b] \in Nat /\ blockCount[b] >= Occupied
    BY DEF RundownInv, UserKnows, BlockCounts, RundownTypeOK
  <1>2. Holders' = Holders \ {u} /\ u \in Holders
    BY <1>1 DEF RundownInv, RundownTypeOK, Holders, Callers, LastUser
  <1>3. Occupied' = Occupied - 1 /\ Occupied >= 1 /\ (Occupied' = 0 <=> Holders' = {})
    BY <1>2, HolderLeaves
  <1>4. Occupied \in Nat
    BY HoldersFinite
  <1>5. \A w \in Waiters : /\ blockCount'[w] = IF w = b THEN blockCount[b] - 1 ELSE blockCount[w]
                           /\ blockCount[w] >= Occupied => blockCount'[w] >= Occupied'
    BY <1>1, <1>3, <1>4 DEF RundownInv, RundownTypeOK
  <1>6. point'[u] = "setBit" => Holders' = {}
    BY <1>1, <1>3, <1>4 DEF RundownInv, RundownTypeOK, Callers, LastUser
  <1>7. /\ \A x \in Callers : x # u => point'[x] = point[x]
        /\ point'[u] \in {"setBit", "idle"}
    BY DEF RundownInv, RundownTypeOK, Callers, LastUser
  <1>8. RundownTypeOK'
    BY <1>1, <1>3, <1>4, <1>5, <1>7, Disjoint
       DEF RundownInv, RundownTypeOK, Callers, UserPoints, WaiterPoints, LastUser
  <1>9. ValueCounts'
    BY <1>1, <1>2 DEF RundownInv, ValueCounts
  <1>10. BlockCounts'
    BY <1>2, <1>5, <1>7, Disjoint DEF RundownInv, BlockCounts, Callers
  <1>11. UserKnows'
    BY <1>1, <1>2, <1>5, <1>6, <1>7 DEF RundownInv, UserKnows, Callers
  <1>12. WaiterKnows'
    BY <1>1, <1>2, <1>5, <1>7, Disjoint DEF RundownInv, WaiterKnows, Callers, CountOf, AddressOf
  <1> QED
    BY <1>8, <1>9, <1>10, <1>11, <1>12 DEF RundownInv

\* The set bit: a block is signalled only when nobody is inside any more.
LEMMA SetBitStep ==
    ASSUME RundownInv, NEW u \in Users, SetBit(u)
    PROVE  RundownInv'
  <1> USE DEF SetBit, MoveTo
  <1>1. value.active /\ lastRead[u].block \in Waiters /\ Holders = {}
    BY DEF RundownInv, UserKnows
  <1>2. Holders' = Holders /\ Occupied' = Occupied
    BY DEF RundownInv, RundownTypeOK, Holders, Occupied, Callers
  <1>3. RundownTypeOK'
    BY <1>1, Disjoint DEF RundownInv, RundownTypeOK, Callers, UserPoints, WaiterPoints
  <1>4. ValueCounts'
    BY <1>2 DEF RundownInv, ValueCounts
  <1>5. BlockCounts'
    BY <1>2, Disjoint DEF RundownInv, BlockCounts, RundownTypeOK, Callers
  <1>6. UserKnows'
    BY <1>2, Disjoint DEF RundownInv, UserKnows, RundownTypeOK, Callers
  <1>7. WaiterKnows'
    BY <1>1, <1>2, Disjoint DEF RundownInv, WaiterKnows, RundownTypeOK, Callers, CountOf, AddressOf
  <1> QED
    BY <1>3, <1>4, <1>5, <1>6, <1>7 DEF RundownInv

\* The end of PhfSetEvent touches nothing the invariant speaks of.
LEMMA SetRestStep ==
    ASSUME RundownInv, NEW u \in Users, SetRest(u)
    PROVE  RundownInv'
  <1> USE DEF SetRest, MoveTo
  <1>1. Holders' = Holders /\ Occupied' = Occupied
    BY DEF RundownInv, RundownTypeOK, Holders, Occupied, Callers
  <1>2. RundownTypeOK'
    BY Disjoint DEF RundownInv, RundownTypeOK, Callers, UserPoints, WaiterPoints
  <1>3. ValueCounts'
    BY <1>1 DEF RundownInv, ValueCounts
  <1>4. BlockCounts'
    BY <1>1, Disjoint DEF RundownInv, BlockCounts, RundownTypeOK, Callers
  <1>5. UserKnows'
    BY <1>1, Disjoint DEF RundownInv, UserKnows, RundownTypeOK, Callers
  <1>6. WaiterKnows'
    BY <1>1, Disjoint DEF RundownInv, WaiterKnows, RundownTypeOK, Callers, CountOf, AddressOf
  <1> QED
    BY <1>2, <1>3, <1>4, <1>5, <1>6 DEF RundownInv
-----------------------------------------------------------------------------
\* A step of a waiter moves no user.
LEMMA WaiterMoves ==
    ASSUME RundownTypeOK, NEW w \in Waiters, NEW l, MoveTo(w, l)
    PROVE  /\ Holders' = Holders /\ Occupied' = Occupied
           /\ \A u \in Users : point'[u] = point[u]
           /\ \A x \in Waiters : point'[x] = IF x = w THEN l ELSE point[x]
  <1>1. \A u \in Users : point'[u] = point[u]
    BY Disjoint DEF MoveTo, RundownTypeOK, Callers
  <1>2. Holders' = Holders
    BY <1>1 DEF Holders
  <1> QED
    BY <1>1, <1>2 DEF MoveTo, RundownTypeOK, Callers, Occupied

\* The fast path: the value 0 means that there are no holders.
LEMMA WaitFastStep ==
    ASSUME RundownInv, NEW w \in Waiters, WaitFast(w)
    PROVE  RundownInv'
  <1>1. CASE value \in {References(0), Active(None)}
    <2>1. value' = Active(None) /\ MoveTo(w, "done") /\ UNCHANGED <<lastRead, blockCount, signaled>>
      BY <1>1 DEF WaitFast
    <2>2. /\ Holders' = Holders /\ Occupied' = Occupied
          /\ \A u \in Users : point'[u] = point[u]
          /\ \A x \in Waiters : point'[x] = IF x = w THEN "done" ELSE point[x]
      BY <2>1, WaiterMoves DEF RundownInv
    <2>3. Holders = {}
      BY <1>1, HoldersFinite, ValueForms DEF RundownInv, ValueCounts
    <2>4. value' \in Values /\ value'.active
      BY <2>1, ValueForms
    <2>5. RundownTypeOK'
      BY <2>1, <2>2, <2>4 DEF WaitFast, MoveTo, RundownInv, RundownTypeOK, Callers, WaiterPoints, UserPoints
    <2>6. ValueCounts'
      BY <2>2, <2>3, <2>4 DEF ValueCounts
    <2>7. BlockCounts'
      BY <2>1, <2>2, <2>3 DEF RundownInv, BlockCounts
    <2>8. UserKnows'
      <3>1. \A u \in Users : point[u] # "relDec"
        BY <2>3 DEF Holders
      <3> QED
        BY <2>1, <2>2, <2>3, <2>4, <3>1 DEF RundownInv, UserKnows
    <2>9. WaiterKnows'
      BY <2>1, <2>2, <2>3, <2>4 DEF RundownInv, WaiterKnows, CountOf, AddressOf
    <2> QED
      BY <2>5, <2>6, <2>7, <2>8, <2>9 DEF RundownInv
  <1>2. CASE value \notin {References(0), Active(None)}
    <2> DEFINE l == IF point[w] = "wFast" THEN "wRead" ELSE "wFast"
    <2>1. MoveTo(w, l) /\ UNCHANGED <<value, lastRead, blockCount, signaled>>
      BY <1>2 DEF WaitFast
    <2>2. /\ Holders' = Holders /\ Occupied' = Occupied
          /\ \A u \in Users : point'[u] = point[u]
          /\ \A x \in Waiters : point'[x] = IF x = w THEN l ELSE point[x]
      BY <2>1, WaiterMoves DEF RundownInv
    <2>3. point[w] # "wBlock"
      BY DEF WaitFast
    <2>4. RundownTypeOK'
      BY <2>1, <2>2 DEF WaitFast, MoveTo, RundownInv, RundownTypeOK, Callers, WaiterPoints, UserPoints
    <2>5. ValueCounts'
      BY <2>1, <2>2 DEF RundownInv, ValueCounts
    <2>6. BlockCounts'
      BY <2>1, <2>2, <2>3 DEF RundownInv, BlockCounts
    <2>7. UserKnows'
      BY <2>1, <2>2, <2>3 DEF RundownInv, UserKnows
    <2>8. WaiterKnows'
      BY <2>1, <2>2 DEF RundownInv, WaiterKnows, CountOf, AddressOf
    <2> QED
      BY <2>4, <2>5, <2>6, <2>7, <2>8 DEF RundownInv
  <1> QED
    BY <1>1, <1>2

\* Reading the value and filling the wait block, which nobody can see yet.
LEMMA WaitReadStep ==
    ASSUME RundownInv, NEW w \in Waiters, WaitRead(w)
    PROVE  RundownInv'
  <1> USE DEF WaitRead, Read
  <1>1. /\ Holders' = Holders /\ Occupied' = Occupied
        /\ \A u \in Users : point'[u] = point[u] /\ lastRead'[u] = lastRead[u]
        /\ \A x \in Waiters : point'[x] = IF x = w THEN "wCas" ELSE point[x]
    BY WaiterMoves, Disjoint DEF RundownInv, RundownTypeOK, Callers
  <1>2. CountOf(value) \in Nat
    BY ValueShape, RundownAssumption DEF RundownInv, RundownTypeOK, CountOf, AddressOf
  <1>3. \A x \in Waiters : /\ blockCount'[x] = IF x = w THEN CountOf(value) ELSE blockCount[x]
                           /\ signaled'[x] = IF x = w THEN FALSE ELSE signaled[x]
                           /\ lastRead'[x] = IF x = w THEN value ELSE lastRead[x]
    BY DEF RundownInv, RundownTypeOK, Callers
  <1>4. RundownTypeOK'
    BY <1>1, <1>2 DEF MoveTo, RundownInv, RundownTypeOK, Callers, WaiterPoints, UserPoints
  <1>5. ValueCounts'
    BY <1>1 DEF RundownInv, ValueCounts
  <1>6. BlockCounts'
    BY <1>1, <1>3 DEF RundownInv, BlockCounts
  <1>7. UserKnows'
    BY <1>1 DEF RundownInv, UserKnows
  <1>8. WaiterKnows'
    <2> SUFFICES ASSUME NEW x \in Waiters
                 PROVE  /\ point'[x] = "wCas" => blockCount'[x] = CountOf(lastRead'[x])
                        /\ point'[x] = "wBlock" => value'.active
                        /\ point'[x] = "done" => value'.active /\ Holders' = {}
                        /\ signaled'[x] => value'.active /\ Holders' = {}
      BY DEF WaiterKnows, CountOf, AddressOf
    <2>1. CASE x = w
      BY <1>1, <1>3, <2>1
    <2>2. CASE x # w
      BY <1>1, <1>3, <2>2 DEF RundownInv, WaiterKnows
    <2> QED
      BY <2>1, <2>2
  <1> QED
    BY <1>4, <1>5, <1>6, <1>7, <1>8 DEF RundownInv

\* Installing the wait block: it takes over the count that Value held, or the
\* count an address reads as, which is larger than the number of users.
LEMMA WaitCasStep ==
    ASSUME RundownInv, NEW w \in Waiters, WaitCas(w)
    PROVE  RundownInv'
  <1>1. CASE value # lastRead[w]
    <2>1. MoveTo(w, "wRead") /\ UNCHANGED <<value, lastRead, blockCount, signaled, waits>>
      BY <1>1 DEF WaitCas
    <2>2. /\ Holders' = Holders /\ Occupied' = Occupied
          /\ \A u \in Users : point'[u] = point[u]
          /\ \A x \in Waiters : point'[x] = IF x = w THEN "wRead" ELSE point[x]
      BY <2>1, WaiterMoves DEF RundownInv
    <2>3. point[w] = "wCas"
      BY DEF WaitCas
    <2>4. RundownTypeOK'
      BY <2>1, <2>2 DEF MoveTo, RundownInv, RundownTypeOK, Callers, WaiterPoints, UserPoints
    <2>5. ValueCounts'
      BY <2>1, <2>2 DEF RundownInv, ValueCounts
    <2>6. BlockCounts'
      BY <2>1, <2>2, <2>3 DEF RundownInv, BlockCounts
    <2>7. UserKnows'
      BY <2>1, <2>2, <2>3 DEF RundownInv, UserKnows
    <2>8. WaiterKnows'
      BY <2>1, <2>2 DEF RundownInv, WaiterKnows, CountOf, AddressOf
    <2> QED
      BY <2>4, <2>5, <2>6, <2>7, <2>8 DEF RundownInv
  <1>2. CASE value = lastRead[w]
    <2> DEFINE l == IF CountOf(value) # 0 THEN "wBlock" ELSE "done"
    <2>1. /\ value' = Active(w) /\ MoveTo(w, l) /\ point[w] = "wCas"
          /\ UNCHANGED <<lastRead, blockCount, signaled, waits>>
      BY <1>2 DEF WaitCas
    <2>2. /\ Holders' = Holders /\ Occupied' = Occupied
          /\ \A u \in Users : point'[u] = point[u]
          /\ \A x \in Waiters : point'[x] = IF x = w THEN l ELSE point[x]
      BY <2>1, WaiterMoves DEF RundownInv
    <2>3. blockCount[w] = CountOf(value)
      BY <1>2, <2>1 DEF RundownInv, WaiterKnows
    <2>4. CountOf(value) >= Occupied
      <3>1. value.active \in BOOLEAN /\ (value.active => value = Active(value.block))
        BY ValueShape DEF RundownInv, RundownTypeOK
      <3>2. CASE ~value.active
        BY <3>2, HoldersFinite DEF RundownInv, ValueCounts, CountOf
      <3>3. CASE value.active /\ value.block = None
        BY <3>1, <3>3, HoldersFinite DEF RundownInv, ValueCounts, CountOf, AddressOf
      <3>4. CASE value.active /\ value.block # None
        BY <3>4, HoldersFinite, RundownAssumption DEF CountOf, AddressOf
      <3> QED
        BY <3>1, <3>2, <3>3, <3>4
    <2>5. CountOf(value) = 0 => Holders = {}
      BY <2>4, HoldersFinite
    <2>6. value' \in Values /\ value'.active /\ value' # Active(None)
      BY <2>1, ValueForms, RundownAssumption
    <2>7. \A x \in Waiters : value' = Active(x) => x = w
      BY <2>1, ValueForms
    <2>8. RundownTypeOK'
      BY <2>1, <2>2, <2>6 DEF MoveTo, RundownInv, RundownTypeOK, Callers, WaiterPoints, UserPoints
    <2>9. ValueCounts'
      BY <2>6 DEF ValueCounts
    <2>10. BlockCounts'
      BY <2>1, <2>2, <2>3, <2>4, <2>5, <2>7 DEF RundownInv, BlockCounts
    <2>11. UserKnows'
      BY <2>1, <2>2, <2>6 DEF RundownInv, UserKnows
    <2>12. WaiterKnows'
      BY <2>1, <2>2, <2>5, <2>6 DEF RundownInv, WaiterKnows, CountOf, AddressOf
    <2> QED
      BY <2>8, <2>9, <2>10, <2>11, <2>12 DEF RundownInv
  <1> QED
    BY <1>1, <1>2

\* The wait returns: the block was signalled, so nobody is inside.
LEMMA WaitBlockStep ==
    ASSUME RundownInv, NEW w \in Waiters, WaitBlock(w)
    PROVE  RundownInv'
  <1>1. /\ MoveTo(w, "done") /\ signaled[w]
        /\ UNCHANGED <<value, lastRead, blockCount, signaled, waits>>
    BY DEF WaitBlock
  <1>2. /\ Holders' = Holders /\ Occupied' = Occupied
        /\ \A u \in Users : point'[u] = point[u]
        /\ \A x \in Waiters : point'[x] = IF x = w THEN "done" ELSE point[x]
    BY <1>1, WaiterMoves DEF RundownInv
  <1>3. value.active /\ Holders = {}
    BY <1>1 DEF RundownInv, WaiterKnows
  <1>4. \A u \in Users : point[u] # "relDec"
    BY <1>3 DEF Holders
  <1>5. RundownTypeOK'
    BY <1>1, <1>2 DEF MoveTo, RundownInv, RundownTypeOK, Callers, WaiterPoints, UserPoints
  <1>6. ValueCounts'
    BY <1>1, <1>2 DEF RundownInv, ValueCounts
  <1>7. BlockCounts'
    BY <1>1, <1>2, <1>3 DEF RundownInv, BlockCounts
  <1>8. UserKnows'
    BY <1>1, <1>2, <1>4 DEF RundownInv, UserKnows
  <1>9. WaiterKnows'
    BY <1>1, <1>2, <1>3 DEF RundownInv, WaiterKnows, CountOf, AddressOf
  <1> QED
    BY <1>5, <1>6, <1>7, <1>8, <1>9 DEF RundownInv
-----------------------------------------------------------------------------
\* The initial state satisfies the invariant.
LEMMA RundownInitInv == RundownInit => RundownInv
  <1> SUFFICES ASSUME RundownInit PROVE RundownInv
    OBVIOUS
  <1>1. Holders = {} /\ Occupied = 0
    <2>1. Holders = {}
      BY DEF RundownInit, Holders, Callers
    <2> QED
      BY <2>1, HoldersFinite
  <1>2. value = References(0) /\ References(0) \in Values /\ ~value.active /\ value.count = 0
    BY ValueForms DEF RundownInit
  <1>3. RundownTypeOK
    BY <1>2 DEF RundownInit, RundownTypeOK, Callers, UserPoints, WaiterPoints
  <1>4. ValueCounts /\ BlockCounts
    BY <1>1, <1>2, ValueForms DEF RundownInit, ValueCounts, BlockCounts, Callers
  <1>5. UserKnows /\ WaiterKnows
    BY DEF RundownInit, UserKnows, WaiterKnows, Callers
  <1> QED
    BY <1>3, <1>4, <1>5 DEF RundownInv

\* Every step preserves the invariant.
LEMMA RundownNextInv == RundownInv /\ [RundownNext]_rundownVars => RundownInv'
  <1> SUFFICES ASSUME RundownInv, [RundownNext]_rundownVars PROVE RundownInv'
    OBVIOUS
  <1>1. CASE UNCHANGED rundownVars
    BY <1>1 DEF rundownVars, RundownInv, RundownTypeOK, ValueCounts, BlockCounts, UserKnows, WaiterKnows,
                Holders, Occupied, CountOf, AddressOf
  <1>2. ASSUME NEW u \in Users, Acquire(u) PROVE RundownInv'
    BY <1>2, AcquireReadStep, AcquireCasStep DEF Acquire
  <1>3. ASSUME NEW u \in Users, Release(u) PROVE RundownInv'
    BY <1>3, ReleaseReadStep, ReleaseCasStep, ReleaseDecrementStep, SetBitStep, SetRestStep
       DEF Release
  <1>4. ASSUME NEW w \in Waiters, Wait(w) PROVE RundownInv'
    BY <1>4, WaitFastStep, WaitReadStep, WaitCasStep, WaitBlockStep DEF Wait
  <1> QED
    BY <1>1, <1>2, <1>3, <1>4 DEF RundownNext

\* The invariant holds in every reachable state.
THEOREM RundownInvariance == RundownSpec => []RundownInv
  <1> QED
    BY RundownInitInv, RundownNextInv, PTL DEF RundownSpec

\* The state keeps its type: in particular no wait block counts below zero.
THEOREM TypeCorrect == RundownSpec => []RundownTypeOK
  <1>1. RundownInv => RundownTypeOK
    BY DEF RundownInv
  <1> QED
    BY <1>1, RundownInvariance, PTL

\* Once PhWaitForRundownProtection has returned nobody is inside and rundown stays
\* active, whatever the interleaving and however many threads call it.
THEOREM RundownIsComplete == RundownSpec => []RundownComplete
  <1>1. RundownInv => RundownComplete
    BY DEF RundownInv, WaiterKnows, RundownComplete
  <1> QED
    BY <1>1, RundownInvariance, PTL
-----------------------------------------------------------------------------
\* Once rundown is active nobody enters: every acquire in flight fails.
THEOREM NobodyEnters == RundownSpec => NoAcquireAfterRundown
  <1>1. ASSUME RundownInv, [RundownNext]_rundownVars, value.active PROVE Holders' \subseteq Holders
    <2>1. ASSUME NEW u \in Users, Acquire(u) PROVE Holders' \subseteq Holders
      <3>1. CASE AcquireRead(u)
        BY <3>1 DEF AcquireRead, MoveTo, RundownInv, RundownTypeOK, Callers, Holders
      <3>2. CASE AcquireCas(u)
        <4>1. value # lastRead[u]
          BY <1>1, <3>2 DEF AcquireCas, RundownInv, UserKnows
        <4> QED
          BY <1>1, <3>2, <4>1 DEF AcquireCas, MoveTo, RundownInv, RundownTypeOK, Callers, Holders
      <3> QED
        BY <2>1, <3>1, <3>2 DEF Acquire
    <2>2. ASSUME NEW u \in Users, Release(u) PROVE Holders' \subseteq Holders
      BY <1>1, <2>2 DEF Release, ReleaseRead, ReleaseCas, ReleaseDecrement, SetBit, SetRest,
                        MoveTo, LastUser, RundownInv, RundownTypeOK, Callers, Holders
    <2>3. ASSUME NEW w \in Waiters, Wait(w) PROVE Holders' \subseteq Holders
      <3>1. PICK l : MoveTo(w, l)
        BY <2>3 DEF Wait, WaitFast, WaitRead, WaitCas, WaitBlock
      <3> QED
        BY <1>1, <3>1, WaiterMoves DEF RundownInv
    <2>4. CASE UNCHANGED rundownVars
      BY <2>4 DEF rundownVars, Holders
    <2> QED
      BY <1>1, <2>1, <2>2, <2>3, <2>4 DEF RundownNext
  <1>2. RundownInv /\ [RundownNext]_rundownVars => [value.active => Holders' \subseteq Holders]_rundownVars
    BY <1>1
  <1> QED
    BY <1>2, RundownInvariance, PTL DEF RundownSpec, NoAcquireAfterRundown
-----------------------------------------------------------------------------
\* The user steps keep the first block's count exact.
LEMMA FirstBlockUser ==
    ASSUME RundownInv, FirstBlock, NEW u \in Users, Acquire(u) \/ Release(u)
    PROVE  FirstBlock'
  <1> DEFINE First(w) == point[w] = "wBlock" /\ ~lastRead[w].active /\ value = Active(w)
  <1> SUFFICES ASSUME NEW w \in Waiters, First(w)'
               PROVE  /\ blockCount'[w] = Occupied'
                      /\ \A x \in Users : point'[x] = "relDec" => lastRead'[x].block = w
    BY DEF FirstBlock
  <1>1. \A x \in Waiters : point'[x] = point[x] /\ lastRead'[x] = lastRead[x]
    BY Disjoint DEF Acquire, Release, AcquireRead, AcquireCas, ReleaseRead, ReleaseCas,
          ReleaseDecrement, SetBit, SetRest, MoveTo, Read, RundownInv, RundownTypeOK, Callers
  <1>2. \A x \in Users : x # u => point'[x] = point[x] /\ lastRead'[x] = lastRead[x]
    BY DEF Acquire, Release, AcquireRead, AcquireCas, ReleaseRead, ReleaseCas,
          ReleaseDecrement, SetBit, SetRest, MoveTo, Read, RundownInv, RundownTypeOK, Callers
  <1>3. value' = value
    <2>0. value'.active
      BY ValueForms
    <2>1. CASE value' = References(value.count + 1) /\ AcquireCas(u) /\ value = lastRead[u]
      <3>1. value.count + 1 \in Nat
        BY ValueShape DEF RundownInv, RundownTypeOK
      <3> QED
        BY <2>0, <2>1, <3>1, ValueForms, Zenon
    <2>2. CASE value' = References(value.count - 1) /\ ReleaseCas(u) /\ value = lastRead[u]
      <3>1. value.count - 1 \in Nat
        <4>1. u \in Holders /\ ~value.active
          BY <2>2 DEF ReleaseCas, Holders, RundownInv, UserKnows
        <4> QED
          BY <4>1, HoldersFinite DEF RundownInv, ValueCounts
      <3> QED
        BY <2>0, <2>2, <3>1, ValueForms, Zenon
    <2> QED
      BY <2>1, <2>2 DEF Acquire, Release, AcquireRead, AcquireCas, ReleaseRead, ReleaseCas,
            ReleaseDecrement, SetBit, SetRest
  <1>4. First(w) /\ value.active
    BY <1>1, <1>3, ValueForms
  <1>5. /\ blockCount[w] = Occupied /\ Occupied \in Nat
        /\ \A x \in Users : point[x] = "relDec" => lastRead[x].block = w
    BY <1>4, HoldersFinite DEF FirstBlock
  <1>6. CASE ReleaseDecrement(u)
    <2>1. Holders' = Holders \ {u} /\ u \in Holders
      BY <1>6 DEF ReleaseDecrement, MoveTo, LastUser, RundownInv, RundownTypeOK, Holders, Callers
    <2>2. Occupied' = Occupied - 1
      BY <2>1, HolderLeaves
    <2>3. blockCount'[w] = blockCount[w] - 1
      BY <1>5, <1>6 DEF ReleaseDecrement, RundownInv, RundownTypeOK
    <2>4. point'[u] # "relDec"
      BY <1>6 DEF ReleaseDecrement, MoveTo, LastUser, RundownInv, RundownTypeOK, Callers
    <2> QED
      BY <1>2, <1>5, <2>2, <2>3, <2>4
  <1>7. CASE ~ReleaseDecrement(u)
    <2>1. blockCount' = blockCount
      BY <1>7 DEF Acquire, Release, AcquireRead, AcquireCas, ReleaseRead, ReleaseCas,
            SetBit, SetRest
    <2>2. point'[u] = "relDec" => lastRead'[u] = value
      BY <1>7 DEF Acquire, Release, AcquireRead, AcquireCas, ReleaseRead, ReleaseCas,
            SetBit, SetRest, MoveTo, Read, RundownInv, RundownTypeOK, Callers
    <2>3. Holders' = Holders
      <3>1. ~(AcquireCas(u) /\ value = lastRead[u]) /\ ~(ReleaseCas(u) /\ value = lastRead[u])
        BY <1>4 DEF AcquireCas, ReleaseCas, RundownInv, UserKnows
      <3>2. u \in Holders' <=> u \in Holders
        BY <1>7, <3>1 DEF Acquire, Release, AcquireRead, AcquireCas, ReleaseRead, ReleaseCas,
              SetBit, SetRest, MoveTo, RundownInv, RundownTypeOK, Callers, Holders
      <3> QED
        BY <1>2, <3>2 DEF Holders
    <2>4. Occupied' = Occupied
      BY <2>3 DEF Occupied
    <2>5. value.block = w
      BY <1>4, ValueForms
    <2> QED
      BY <1>2, <1>5, <2>1, <2>2, <2>4, <2>5
  <1> QED
    BY <1>6, <1>7

\* The waiter steps: the count moves into the first block without loss.
LEMMA FirstBlockWaiter ==
    ASSUME RundownInv, FirstBlock, NEW w \in Waiters, Wait(w)
    PROVE  FirstBlock'
  <1> DEFINE First(x) == point[x] = "wBlock" /\ ~lastRead[x].active /\ value = Active(x)
  <1> SUFFICES ASSUME NEW x \in Waiters, First(x)'
               PROVE  /\ blockCount'[x] = Occupied'
                      /\ \A u \in Users : point'[u] = "relDec" => lastRead'[u].block = x
    BY DEF FirstBlock
  <1>1. PICK l : MoveTo(w, l)
    BY DEF Wait, WaitFast, WaitRead, WaitCas, WaitBlock
  <1>2. /\ Occupied' = Occupied
        /\ \A u \in Users : point'[u] = point[u] /\ lastRead'[u] = lastRead[u]
        /\ \A y \in Waiters : y # w => point'[y] = point[y]
    <2>1. \A u \in Users : lastRead'[u] = lastRead[u]
      BY Disjoint DEF Wait, WaitFast, WaitRead, WaitCas, WaitBlock, Read, RundownInv, RundownTypeOK, Callers
    <2> QED
      BY <1>1, <2>1, WaiterMoves DEF RundownInv
  <1>3. CASE x # w
    <2>1. value' = value
      <3>1. value' # Active(None) /\ value' # Active(w)
        BY <1>3, ValueForms, RundownAssumption
      <3> QED
        BY <3>1 DEF Wait, WaitFast, WaitRead, WaitCas, WaitBlock
    <2>2. lastRead'[x] = lastRead[x] /\ blockCount'[x] = blockCount[x]
      BY <1>3 DEF Wait, WaitFast, WaitRead, WaitCas, WaitBlock, Read, RundownInv, RundownTypeOK, Callers
    <2>3. First(x)
      BY <1>2, <1>3, <2>1, <2>2
    <2> QED
      BY <1>2, <2>2, <2>3 DEF FirstBlock
  <1>4. CASE x = w
    <2>1. WaitCas(w) /\ value = lastRead[w] /\ UNCHANGED <<lastRead, blockCount>>
      BY <1>4 DEF Wait, WaitFast, WaitRead, WaitCas, WaitBlock, MoveTo, RundownInv, RundownTypeOK, Callers
    <2>2. ~value.active
      BY <1>4, <2>1
    <2>3. blockCount[w] = Occupied
      BY <2>1, <2>2 DEF WaitCas, RundownInv, WaiterKnows, ValueCounts, CountOf
    <2>4. \A u \in Users : point[u] # "relDec"
      BY <2>2 DEF RundownInv, UserKnows
    <2> QED
      BY <1>2, <1>4, <2>1, <2>3, <2>4
  <1> QED
    BY <1>3, <1>4

\* No reference is lost or counted twice when the count moves into a wait block.
THEOREM CountIsConserved == RundownSpec => []CountConserved
  <1>1. RundownInit => FirstBlock
    BY DEF RundownInit, FirstBlock, Callers
  <1>2. RundownInv /\ FirstBlock /\ [RundownNext]_rundownVars => FirstBlock'
    <2> SUFFICES ASSUME RundownInv, FirstBlock, [RundownNext]_rundownVars PROVE FirstBlock'
      OBVIOUS
    <2>1. CASE UNCHANGED rundownVars
      BY <2>1 DEF rundownVars, FirstBlock, Holders, Occupied
    <2> QED
      BY <2>1, FirstBlockUser, FirstBlockWaiter DEF RundownNext
  <1>3. RundownInv /\ FirstBlock => CountConserved
    BY DEF RundownInv, ValueCounts, FirstBlock, CountConserved, Occupied
  <1> QED
    BY <1>1, <1>2, <1>3, RundownInvariance, PTL DEF RundownSpec
=============================================================================
