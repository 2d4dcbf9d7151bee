---------------------------- MODULE CidTableProofs ----------------------------
(***************************************************************************)
(* Proofs about the driver's CID table, for any number of actors, objects, *)
(* entries and calls.  First its reference counts: every reference is a    *)
(* token that an entry or an actor has; the lock bits of an entry count    *)
(* the actors that read it, so that the object of an entry cannot be given *)
(* up while somebody is about to reference it; and an object that lost its *)
(* last reference waits in one place until the worker frees it.  Then the  *)
(* unloading: an entry keeps its CID while the table grows, so that the    *)
(* unloader comes past every entry in use and leaves no object behind.     *)
(* Last the lookups: the tables are a tree, only the tracker of a CID      *)
(* stores to its entry, and a reader that must find a context is on its    *)
(* way to the entry that has it.                                           *)
(***************************************************************************)
EXTENDS CidTable, FiniteSetTheorems, FunctionTheorems, SequenceTheorems, TLAPS

Modes == {"none", "track", "untrack", "lookup", "enumerate", "rundown"}
SharePoints == {"read", "reference", "release"}
LockPoints == {"drain", "previous", "store", "unlock"}
StorePoints == {"exclusive", "drain", "previous", "store"}
EntryPoints == SharePoints \cup LockPoints \cup {"shared", "create", "assign", "exclusive"}
FreePoints == {"idle", "capture", "resolve", "lock", "expand", "visit", "shared", "read", "create"}
GetPoints == {"resolve", "lock", "expand"}
Points == EntryPoints \cup FreePoints \cup {"held", "drop", "replaced", "push", "queue"}

Addresses == 0..MaxTables - 1
Tables == [level : 0..2, address : Addresses]
LinkSlots == 0..(IF L1Count > L2Count THEN L1Count ELSE L2Count) - 1
AtomicRefs == [object : Objects \cup {NULL}, shared : Nat, exclusive : BOOLEAN]

\* The type of the state, as far as the references need it.
ObjectType ==
    /\ count \in [Objects -> Nat \cup {NULL}]
    /\ ref \in [Slots -> AtomicRefs]
    /\ deferred \in Seq(Objects) /\ item \in Nat /\ started \in Nat /\ flushed \in SUBSET Objects
    /\ pc \in [Actors -> Points] /\ slot \in [Actors -> Slots \cup {NULL}]
    /\ obj \in [Actors -> Objects \cup {NULL}] /\ old \in [Actors -> Objects \cup {NULL}]

TableType ==
    /\ root \in Tables /\ links \in [Addresses -> [LinkSlots -> Addresses \cup {NULL}]] /\ used \in Nat
    /\ mode \in [Actors -> Modes] /\ cid \in [Actors -> Nat] /\ top \in [Actors -> Tables]

TypeOK == ObjectType /\ TableType
-----------------------------------------------------------------------------
\* How many elements of D a function takes to v.
Number(f, D, v) == Cardinality({x \in D : f[x] = v})

\* The reference that an entry, or an actor in each of three roles, has; the entry that an
\* actor shares or has locked.
EntryOf == [s \in Slots |-> ref[s].object]
HeldBy == [a \in Actors |-> IF pc[a] # "reference" THEN obj[a] ELSE NULL]
StoredBy == [a \in Actors |-> IF mode[a] = "track" /\ pc[a] \in StorePoints THEN obj[a] ELSE NULL]
ReplacedBy == [a \in Actors |-> IF pc[a] \in {"unlock", "replaced"} THEN old[a] ELSE NULL]
SharedBy == [a \in Actors |-> IF pc[a] \in SharePoints THEN slot[a] ELSE NULL]
LockedBy == [a \in Actors |-> IF pc[a] \in LockPoints THEN slot[a] ELSE NULL]
QueuedBy == [a \in Actors |-> IF pc[a] = "queue" THEN "worker" ELSE "none"]

Total(o) == Number(EntryOf, Slots, o) + Number(HeldBy, Actors, o)
            + Number(StoredBy, Actors, o) + Number(ReplacedBy, Actors, o)

\* The count of an object is the number of its tokens.
CountInv == \A o \in Objects : Total(o) = IF count[o] = NULL THEN 0 ELSE count[o]

\* The bits of an entry count the actors that share it and the one that has locked it.
LockInv == \A s \in Slots : /\ ref[s].shared = Number(SharedBy, Actors, s)
                            /\ Number(LockedBy, Actors, s) = IF ref[s].exclusive THEN 1 ELSE 0

\* What an actor knows at each point.
ActorInv(a) ==
    /\ pc[a] \in EntryPoints => slot[a] \in Slots
    /\ pc[a] \in FreePoints => obj[a] = NULL
    /\ pc[a] \in {"reference", "assign", "held", "drop"} => obj[a] \in Objects
    /\ pc[a] \in StorePoints /\ mode[a] = "track" => obj[a] \in Objects
    /\ pc[a] \in {"create", "assign"} => mode[a] = "track"
    /\ pc[a] = "reference" => obj[a] = ref[slot[a]].object
    /\ pc[a] = "store" => old[a] = ref[slot[a]].object
    /\ pc[a] \in {"previous", "store", "unlock"} => ref[slot[a]].shared = 0
    /\ pc[a] \in {"replaced", "push"} => old[a] \in Objects
    /\ pc[a] \in GetPoints => ~Walks(a)
    /\ pc[a] \in GetPoints \cup {"capture"} /\ ~Walks(a) => cid[a] < MaxId(2)

Elements(s) == {s[i] : i \in DOMAIN s}

\* An object without references waits to be deleted in one place.
DeathInv ==
    /\ \A o \in flushed \cup Elements(deferred) : count[o] = 0
    /\ flushed \cap Elements(deferred) = {}
    /\ \A a \in Actors : pc[a] = "push" => count[old[a]] = 0 /\ old[a] \notin flushed \cup Elements(deferred)
    /\ \A a, b \in Actors : pc[a] = "push" /\ pc[b] = "push" /\ old[a] = old[b] => a = b

\* One worker is asked for, or runs, exactly when objects wait in the list.
WorkerInv == Number(QueuedBy, Actors, "worker") + item + started = IF deferred = <<>> THEN 0 ELSE 1

IInv == /\ TypeOK /\ CountInv /\ LockInv /\ DeathInv /\ WorkerInv
        /\ \A a \in Actors : ActorInv(a)
-----------------------------------------------------------------------------
(* Arithmetic *)

LEMMA Products ==
    ASSUME NEW m \in Nat, NEW n \in Nat
    PROVE  m * n \in Nat
  OBVIOUS

LEMMA Sizes ==
    /\ L0Count \in Nat \ {0} /\ L1Count \in Nat \ {0} /\ L2Count \in Nat \ {0} /\ MaxTables \in Nat \ {0}
    /\ MaxId(0) = L0Count /\ MaxId(1) = L1Count * L0Count /\ MaxId(2) = L2Count * L1Count * L0Count
  BY CidTableAssumption DEF MaxId

LEMMA DivBound ==
    ASSUME NEW id \in Nat, NEW n \in Nat \ {0}, NEW m \in Nat \ {0}, id < n * m
    PROVE  id \div m \in 0..(n - 1)
  <1>1. PICK q \in Int : q = id \div m
    OBVIOUS
  <1>2. PICK r \in Int : r = id % m /\ r >= 0 /\ r < m
    OBVIOUS
  <1>3. id = m * q + r
    BY <1>1, <1>2
  <1>4. q >= 0
    BY <1>2, <1>3
  <1>5. q < n
    BY <1>2, <1>3, <1>4
  <1> QED
    BY <1>1, <1>4, <1>5

LEMMA ModBound ==
    ASSUME NEW id \in Nat, NEW m \in Nat \ {0}
    PROVE  id % m \in 0..(m - 1) /\ id % m < m
  OBVIOUS

LEMMA EntryBound ==
    ASSUME NEW t, NEW n \in Nat \ {0}, NEW m \in Nat \ {0}, t \in 0..(n - 1), NEW r \in 0..(m - 1)
    PROVE  t * m + r \in 0..(n * m - 1)
  OBVIOUS

LEMMA Positive ==
    MaxId(0) \in Nat \ {0} /\ MaxId(1) \in Nat \ {0} /\ MaxId(2) \in Nat \ {0} /\ MaxId(2) = L2Count * MaxId(1)
  <1>1. L1Count * L0Count \in Nat \ {0}
    BY Sizes
  <1>2. L2Count * (L1Count * L0Count) \in Nat \ {0} /\ L2Count * (L1Count * L0Count) = L2Count * L1Count * L0Count
    BY Sizes, <1>1
  <1> QED
    BY <1>1, <1>2, Sizes

LEMMA Levels == \A t \in Tables : t.level = 0 \/ t.level = 1 \/ t.level = 2
  BY DEF Tables

LEMMA NullApart == NULL \notin Objects /\ NULL \notin Slots /\ NULL \notin Nat
  BY KphObjectAssumption

\* An index into a table of links is one of its entries.
LEMMA Indices ==
    ASSUME NEW id \in Nat
    PROVE  /\ id < MaxId(2) => id \div MaxId(1) \in LinkSlots
           /\ (id % MaxId(1)) \div L0Count \in LinkSlots
  <1>1. LinkSlots = 0..(IF L1Count > L2Count THEN L1Count ELSE L2Count) - 1
    BY DEF LinkSlots
  <1>2. id < MaxId(2) => id \div MaxId(1) \in 0..(L2Count - 1)
    BY DivBound, Positive, Sizes
  <1>3. PICK m \in Nat \ {0} : m = MaxId(1)
    BY Positive
  <1>4. id % m \in 0..(m - 1) /\ id % m < m
    BY ModBound
  <1>5. id % MaxId(1) \in Nat /\ id % MaxId(1) < L1Count * L0Count
    BY <1>3, <1>4, Sizes
  <1>6. (id % MaxId(1)) \div L0Count \in 0..(L1Count - 1)
    BY <1>5, DivBound, Sizes
  <1> QED
    BY <1>1, <1>2, <1>6, Sizes

\* A resolved CID is an entry of the table.
LEMMA ResolveType ==
    ASSUME TableType, NEW t \in Tables, NEW id \in Nat
    PROVE  Resolve(t, id) \in Slots \cup {NULL}
  <1>1. CASE id >= MaxId(t.level)
    BY <1>1 DEF Resolve
  <1>2. CASE id < MaxId(t.level)
    <2>1. ASSUME NEW leaf \in Addresses PROVE Entry(leaf, id) \in Slots
      <3>1. id % L0Count \in 0..(L0Count - 1)
        BY ModBound, Sizes
      <3>2. leaf * L0Count + (id % L0Count) \in 0..(MaxTables * L0Count - 1)
        BY <3>1, EntryBound, Sizes DEF Addresses
      <3> QED
        BY <3>2, CidTableAssumption DEF Entry
    <2> DEFINE via == IF t.level = 2 THEN links[t.address][id \div MaxId(1)] ELSE t.address
               leaf == IF t.level = 0 \/ via = NULL THEN via ELSE links[via][(id % MaxId(1)) \div L0Count]
    <2>2. t.address \in Addresses /\ (t.level = 2 => id < MaxId(2))
      BY <1>2 DEF Tables
    <2>3. via \in Addresses \cup {NULL}
      BY <2>2, Indices DEF TableType
    <2>4. leaf \in Addresses \cup {NULL}
      BY <2>3, Indices DEF TableType
    <2>5. Resolve(t, id) = IF leaf = NULL THEN NULL ELSE Entry(leaf, id)
      <3>1. ~(id >= MaxId(t.level))
        BY <1>2, Levels, Positive
      <3> QED
        BY <3>1 DEF Resolve
    <2> HIDE DEF leaf
    <2> QED
      BY <2>1, <2>4, <2>5
  <1> QED
    BY <1>1, <1>2, Levels, Positive

LEMMA SkipType ==
    ASSUME NEW t \in Tables, NEW id \in Nat
    PROVE  Skip(t, id) \in Nat
  <1>1. PICK size \in Nat \ {0} : Skip(t, id) = (id \div size + 1) * size
    BY Sizes, Positive DEF Skip
  <1>2. id \div size \in Nat
    OBVIOUS
  <1> QED
    BY <1>1, <1>2
-----------------------------------------------------------------------------
(* Counting *)

\* Changing a function at one place moves one element from one value to another.
LEMMA Counting ==
    ASSUME NEW D, IsFiniteSet(D), NEW f, f = [x \in D |-> f[x]], NEW a \in D, NEW v, NEW g,
           g = [f EXCEPT ![a] = v], NEW w
    PROVE  /\ Number(f, D, w) \in Nat
           /\ f[a] = w /\ v # w => Number(g, D, w) = Number(f, D, w) - 1
           /\ f[a] # w /\ v = w => Number(g, D, w) = Number(f, D, w) + 1
           /\ (f[a] = w <=> v = w) => Number(g, D, w) = Number(f, D, w)
           /\ f[a] = w => Number(f, D, w) >= 1
  <1> DEFINE F == {x \in D : f[x] = w}
             G == {x \in D : g[x] = w}
  <1>1. IsFiniteSet(F) /\ Cardinality(F) \in Nat
    BY FS_Subset, FS_CardinalityType
  <1>2. Number(f, D, w) = Cardinality(F) /\ Number(g, D, w) = Cardinality(G)
    BY DEF Number
  <1>3. g[a] = v /\ \A x \in D : x # a => g[x] = f[x]
    OBVIOUS
  <1>4. f[a] = w /\ v # w => G = F \ {a} /\ a \in F
    BY <1>3
  <1>5. f[a] # w /\ v = w => G = F \cup {a} /\ a \notin F
    BY <1>3
  <1>6. (f[a] = w <=> v = w) => G = F
    BY <1>3
  <1>7. a \in F => Cardinality(F \ {a}) = Cardinality(F) - 1
    BY <1>1, FS_RemoveElement
  <1>8. a \notin F => Cardinality(F \cup {a}) = Cardinality(F) + 1
    BY <1>1, FS_AddElement
  <1>9. a \in F => Cardinality(F) >= 1
    <2>1. F # {} => Cardinality(F) # 0
      BY <1>1, FS_EmptySet
    <2> QED
      BY <1>1, <2>1
  <1> HIDE DEF F, G
  <1>10. f[a] = w => a \in F
    BY DEF F
  <1> QED
    BY <1>1, <1>2, <1>4, <1>5, <1>6, <1>7, <1>8, <1>9, <1>10
-----------------------------------------------------------------------------
(* Steps of one actor *)

One(c) == IF c THEN 1 ELSE 0

Still(b) == /\ pc'[b] = pc[b] /\ slot'[b] = slot[b] /\ obj'[b] = obj[b] /\ old'[b] = old[b]
            /\ mode'[b] = mode[b] /\ cid'[b] = cid[b]
OthersStill(a) == \A b \in Actors : b # a => Still(b)

LEMMA CountingOne ==
    ASSUME NEW D, IsFiniteSet(D), NEW f, f = [x \in D |-> f[x]], NEW a \in D, NEW g,
           g = [f EXCEPT ![a] = g[a]], NEW w
    PROVE  /\ Number(f, D, w) \in Nat
           /\ Number(g, D, w) = Number(f, D, w) + One(g[a] = w) - One(f[a] = w)
           /\ f[a] = w => Number(f, D, w) >= 1
  BY Counting DEF One

LEMMA Moves ==
    ASSUME NEW a \in Actors, OthersStill(a)
    PROVE  /\ HeldBy' = [HeldBy EXCEPT ![a] = HeldBy'[a]]
           /\ StoredBy' = [StoredBy EXCEPT ![a] = StoredBy'[a]]
           /\ ReplacedBy' = [ReplacedBy EXCEPT ![a] = ReplacedBy'[a]]
           /\ SharedBy' = [SharedBy EXCEPT ![a] = SharedBy'[a]]
           /\ LockedBy' = [LockedBy EXCEPT ![a] = LockedBy'[a]]
           /\ QueuedBy' = [QueuedBy EXCEPT ![a] = QueuedBy'[a]]
  <1> USE DEF OthersStill, Still
  <1>1. HeldBy' = [HeldBy EXCEPT ![a] = HeldBy'[a]]
    BY DEF HeldBy
  <1>2. StoredBy' = [StoredBy EXCEPT ![a] = StoredBy'[a]]
    BY DEF StoredBy
  <1>3. ReplacedBy' = [ReplacedBy EXCEPT ![a] = ReplacedBy'[a]]
    BY DEF ReplacedBy
  <1>4. SharedBy' = [SharedBy EXCEPT ![a] = SharedBy'[a]]
    BY DEF SharedBy
  <1>5. LockedBy' = [LockedBy EXCEPT ![a] = LockedBy'[a]]
    BY DEF LockedBy
  <1>6. QueuedBy' = [QueuedBy EXCEPT ![a] = QueuedBy'[a]]
    BY DEF QueuedBy
  <1> QED
    BY <1>1, <1>2, <1>3, <1>4, <1>5, <1>6

\* The functions are functions, and every number of their arguments is one.
LEMMA NumbersAre ==
    ASSUME NEW a \in Actors, NEW w
    PROVE  /\ Number(HeldBy, Actors, w) \in Nat /\ (HeldBy[a] = w => Number(HeldBy, Actors, w) >= 1)
           /\ Number(StoredBy, Actors, w) \in Nat /\ (StoredBy[a] = w => Number(StoredBy, Actors, w) >= 1)
           /\ Number(ReplacedBy, Actors, w) \in Nat /\ (ReplacedBy[a] = w => Number(ReplacedBy, Actors, w) >= 1)
           /\ Number(SharedBy, Actors, w) \in Nat /\ (SharedBy[a] = w => Number(SharedBy, Actors, w) >= 1)
           /\ Number(LockedBy, Actors, w) \in Nat /\ (LockedBy[a] = w => Number(LockedBy, Actors, w) >= 1)
           /\ Number(QueuedBy, Actors, w) \in Nat /\ (QueuedBy[a] = w => Number(QueuedBy, Actors, w) >= 1)
  <1>1. ASSUME NEW f, f = [x \in Actors |-> f[x]]
        PROVE  Number(f, Actors, w) \in Nat /\ (f[a] = w => Number(f, Actors, w) >= 1)
    <2>1. f = [f EXCEPT ![a] = f[a]]
      BY <1>1
    <2> QED
      BY <1>1, <2>1, CountingOne, KphObjectAssumption
  <1>2. HeldBy = [x \in Actors |-> HeldBy[x]] /\ StoredBy = [x \in Actors |-> StoredBy[x]]
    BY DEF HeldBy, StoredBy
  <1>3. ReplacedBy = [x \in Actors |-> ReplacedBy[x]] /\ SharedBy = [x \in Actors |-> SharedBy[x]]
    BY DEF ReplacedBy, SharedBy
  <1>4. LockedBy = [x \in Actors |-> LockedBy[x]] /\ QueuedBy = [x \in Actors |-> QueuedBy[x]]
    BY DEF LockedBy, QueuedBy
  <1> QED
    BY <1>1, <1>2, <1>3, <1>4

LEMMA NumbersMove ==
    ASSUME NEW a \in Actors, OthersStill(a), NEW w
    PROVE  /\ Number(HeldBy', Actors, w) = Number(HeldBy, Actors, w) + One(HeldBy'[a] = w) - One(HeldBy[a] = w)
           /\ Number(StoredBy', Actors, w) = Number(StoredBy, Actors, w) + One(StoredBy'[a] = w) - One(StoredBy[a] = w)
           /\ Number(ReplacedBy', Actors, w) = Number(ReplacedBy, Actors, w) + One(ReplacedBy'[a] = w) - One(ReplacedBy[a] = w)
           /\ Number(SharedBy', Actors, w) = Number(SharedBy, Actors, w) + One(SharedBy'[a] = w) - One(SharedBy[a] = w)
           /\ Number(LockedBy', Actors, w) = Number(LockedBy, Actors, w) + One(LockedBy'[a] = w) - One(LockedBy[a] = w)
           /\ Number(QueuedBy', Actors, w) = Number(QueuedBy, Actors, w) + One(QueuedBy'[a] = w) - One(QueuedBy[a] = w)
  <1>1. ASSUME NEW f, f = [x \in Actors |-> f[x]], NEW g, g = [f EXCEPT ![a] = g[a]]
        PROVE  Number(g, Actors, w) = Number(f, Actors, w) + One(g[a] = w) - One(f[a] = w)
    BY <1>1, CountingOne, KphObjectAssumption
  <1>2. HeldBy = [x \in Actors |-> HeldBy[x]] /\ StoredBy = [x \in Actors |-> StoredBy[x]]
    BY DEF HeldBy, StoredBy
  <1>3. ReplacedBy = [x \in Actors |-> ReplacedBy[x]] /\ SharedBy = [x \in Actors |-> SharedBy[x]]
    BY DEF ReplacedBy, SharedBy
  <1>4. LockedBy = [x \in Actors |-> LockedBy[x]] /\ QueuedBy = [x \in Actors |-> QueuedBy[x]]
    BY DEF LockedBy, QueuedBy
  <1>5. Number(HeldBy', Actors, w) = Number(HeldBy, Actors, w) + One(HeldBy'[a] = w) - One(HeldBy[a] = w)
    BY <1>1, <1>2, Moves
  <1>6. Number(StoredBy', Actors, w) = Number(StoredBy, Actors, w) + One(StoredBy'[a] = w) - One(StoredBy[a] = w)
    BY <1>1, <1>2, Moves
  <1>7. Number(ReplacedBy', Actors, w) = Number(ReplacedBy, Actors, w) + One(ReplacedBy'[a] = w) - One(ReplacedBy[a] = w)
    BY <1>1, <1>3, Moves
  <1>8. Number(SharedBy', Actors, w) = Number(SharedBy, Actors, w) + One(SharedBy'[a] = w) - One(SharedBy[a] = w)
    BY <1>1, <1>3, Moves
  <1>9. Number(LockedBy', Actors, w) = Number(LockedBy, Actors, w) + One(LockedBy'[a] = w) - One(LockedBy[a] = w)
    BY <1>1, <1>4, Moves
  <1>10. Number(QueuedBy', Actors, w) = Number(QueuedBy, Actors, w) + One(QueuedBy'[a] = w) - One(QueuedBy[a] = w)
    BY <1>1, <1>4, Moves
  <1> QED
    BY <1>5, <1>6, <1>7, <1>8, <1>9, <1>10

Tokens(a, o) == One(HeldBy[a] = o) + One(StoredBy[a] = o) + One(ReplacedBy[a] = o)

LEMMA OneIs == \A c \in BOOLEAN : One(c) \in {0, 1} /\ (One(c) = 1 <=> c)
  BY DEF One

LEMMA EntryNumber ==
    ASSUME NEW s \in Slots, NEW w
    PROVE  Number(EntryOf, Slots, w) \in Nat /\ (EntryOf[s] = w => Number(EntryOf, Slots, w) >= 1)
  <1>1. EntryOf = [x \in Slots |-> EntryOf[x]] /\ EntryOf = [EntryOf EXCEPT ![s] = EntryOf[s]]
    BY DEF EntryOf
  <1> QED
    BY <1>1, CountingOne, KphObjectAssumption

LEMMA EntryNumberMoves ==
    ASSUME NEW s \in Slots, EntryOf' = [EntryOf EXCEPT ![s] = EntryOf'[s]], NEW w
    PROVE  Number(EntryOf', Slots, w) = Number(EntryOf, Slots, w) + One(EntryOf'[s] = w) - One(EntryOf[s] = w)
  <1>1. EntryOf = [x \in Slots |-> EntryOf[x]]
    BY DEF EntryOf
  <1> QED
    BY <1>1, CountingOne, KphObjectAssumption

LEMMA SlotsThere == 0 \in Slots
  <1>1. MaxTables * L0Count - 1 \in Nat
    BY Sizes
  <1> QED
    BY <1>1, CidTableAssumption

LEMMA TotalIs ==
    ASSUME NEW a \in Actors, NEW o
    PROVE  /\ Total(o) \in Nat
           /\ Tokens(a, o) >= 1 => Total(o) >= 1
           /\ \A s \in Slots : EntryOf[s] = o => Total(o) >= 1
  <1>1. Number(EntryOf, Slots, o) \in Nat
    BY SlotsThere, EntryNumber
  <1>2. \A s \in Slots : EntryOf[s] = o => Number(EntryOf, Slots, o) >= 1
    BY EntryNumber
  <1>3. /\ Number(HeldBy, Actors, o) \in Nat /\ (HeldBy[a] = o => Number(HeldBy, Actors, o) >= 1)
        /\ Number(StoredBy, Actors, o) \in Nat /\ (StoredBy[a] = o => Number(StoredBy, Actors, o) >= 1)
        /\ Number(ReplacedBy, Actors, o) \in Nat /\ (ReplacedBy[a] = o => Number(ReplacedBy, Actors, o) >= 1)
    BY NumbersAre
  <1>4. Tokens(a, o) >= 1 => HeldBy[a] = o \/ StoredBy[a] = o \/ ReplacedBy[a] = o
    BY DEF Tokens, One
  <1> QED
    BY <1>1, <1>2, <1>3, <1>4 DEF Total

\* What a step of actor a changes in the number of tokens.
LEMMA TotalMoves ==
    ASSUME NEW a \in Actors, OthersStill(a), EntryOf' = EntryOf, NEW o
    PROVE  Total(o)' = Total(o) + Tokens(a, o)' - Tokens(a, o)
  <1>1. Number(EntryOf, Slots, o) \in Nat
    BY SlotsThere, EntryNumber
  <1>2. /\ Number(HeldBy, Actors, o) \in Nat /\ Number(StoredBy, Actors, o) \in Nat
        /\ Number(ReplacedBy, Actors, o) \in Nat
    BY NumbersAre
  <1>3. /\ Number(HeldBy', Actors, o) = Number(HeldBy, Actors, o) + One(HeldBy'[a] = o) - One(HeldBy[a] = o)
        /\ Number(StoredBy', Actors, o) = Number(StoredBy, Actors, o) + One(StoredBy'[a] = o) - One(StoredBy[a] = o)
        /\ Number(ReplacedBy', Actors, o) = Number(ReplacedBy, Actors, o) + One(ReplacedBy'[a] = o) - One(ReplacedBy[a] = o)
    BY NumbersMove
  <1>4. Number(EntryOf', Slots, o) = Number(EntryOf, Slots, o)
    OBVIOUS
  <1>5. Total(o)' = Number(EntryOf', Slots, o) + Number(HeldBy', Actors, o)
                    + Number(StoredBy', Actors, o) + Number(ReplacedBy', Actors, o)
    BY DEF Total
  <1>6. Tokens(a, o)' = One(HeldBy'[a] = o) + One(StoredBy'[a] = o) + One(ReplacedBy'[a] = o)
    BY DEF Tokens
  <1>7. One(HeldBy'[a] = o) \in Int /\ One(StoredBy'[a] = o) \in Int /\ One(ReplacedBy'[a] = o) \in Int
    BY DEF One
  <1>8. One(HeldBy[a] = o) \in Int /\ One(StoredBy[a] = o) \in Int /\ One(ReplacedBy[a] = o) \in Int
    BY DEF One
  <1> QED
    BY <1>1, <1>2, <1>3, <1>4, <1>5, <1>6, <1>7, <1>8 DEF Total, Tokens

LEMMA TotalStores ==
    ASSUME NEW a \in Actors, OthersStill(a), NEW s \in Slots,
           EntryOf' = [EntryOf EXCEPT ![s] = EntryOf'[s]], NEW o
    PROVE  Total(o)' = Total(o) + Tokens(a, o)' - Tokens(a, o) + One(EntryOf'[s] = o) - One(EntryOf[s] = o)
  <1>1. Number(EntryOf, Slots, o) \in Nat
    BY EntryNumber
  <1>2. /\ Number(HeldBy, Actors, o) \in Nat /\ Number(StoredBy, Actors, o) \in Nat
        /\ Number(ReplacedBy, Actors, o) \in Nat
    BY NumbersAre
  <1>3. /\ Number(HeldBy', Actors, o) = Number(HeldBy, Actors, o) + One(HeldBy'[a] = o) - One(HeldBy[a] = o)
        /\ Number(StoredBy', Actors, o) = Number(StoredBy, Actors, o) + One(StoredBy'[a] = o) - One(StoredBy[a] = o)
        /\ Number(ReplacedBy', Actors, o) = Number(ReplacedBy, Actors, o) + One(ReplacedBy'[a] = o) - One(ReplacedBy[a] = o)
    BY NumbersMove
  <1>4. Number(EntryOf', Slots, o) = Number(EntryOf, Slots, o) + One(EntryOf'[s] = o) - One(EntryOf[s] = o)
    BY EntryNumberMoves
  <1>5. Total(o)' = Number(EntryOf', Slots, o) + Number(HeldBy', Actors, o)
                    + Number(StoredBy', Actors, o) + Number(ReplacedBy', Actors, o)
    BY DEF Total
  <1>6. Tokens(a, o)' = One(HeldBy'[a] = o) + One(StoredBy'[a] = o) + One(ReplacedBy'[a] = o)
    BY DEF Tokens
  <1>7. One(HeldBy'[a] = o) \in Int /\ One(StoredBy'[a] = o) \in Int /\ One(ReplacedBy'[a] = o) \in Int
    BY DEF One
  <1>8. One(HeldBy[a] = o) \in Int /\ One(StoredBy[a] = o) \in Int /\ One(ReplacedBy[a] = o) \in Int
    BY DEF One
  <1>9. One(EntryOf'[s] = o) \in Int /\ One(EntryOf[s] = o) \in Int
    BY DEF One
  <1> QED
    BY <1>1, <1>2, <1>3, <1>4, <1>5, <1>6, <1>7, <1>8, <1>9 DEF Total, Tokens
-----------------------------------------------------------------------------
(* What a step keeps *)

LEMMA LockFacts ==
    ASSUME IInv, NEW a \in Actors
    PROVE  /\ pc[a] \in SharePoints => slot[a] \in Slots /\ ref[slot[a]].shared >= 1
           /\ pc[a] \in LockPoints => slot[a] \in Slots /\ ref[slot[a]].exclusive
           /\ \A b \in Actors : b # a /\ pc[a] \in LockPoints /\ pc[b] \in LockPoints => slot[b] # slot[a]
  <1>1. pc[a] \in SharePoints \cup LockPoints => slot[a] \in Slots
    BY DEF IInv, ActorInv, EntryPoints
  <1>2. pc[a] \in SharePoints => ref[slot[a]].shared >= 1
    <2>1. pc[a] \in SharePoints => Number(SharedBy, Actors, slot[a]) >= 1
      BY NumbersAre DEF SharedBy
    <2> QED
      BY <1>1, <2>1 DEF IInv, LockInv
  <1>3. pc[a] \in LockPoints => ref[slot[a]].exclusive
    <2>1. pc[a] \in LockPoints => Number(LockedBy, Actors, slot[a]) >= 1
      BY NumbersAre DEF LockedBy
    <2> QED
      BY <1>1, <2>1 DEF IInv, LockInv
  <1>4. ASSUME NEW b \in Actors, b # a, pc[a] \in LockPoints, pc[b] \in LockPoints, slot[b] = slot[a] PROVE FALSE
    <2> DEFINE S == {x \in Actors : LockedBy[x] = slot[a]}
    <2>1. a \in S /\ b \in S
      BY <1>4 DEF LockedBy
    <2>2. Cardinality(S) = 1
      BY <1>1, <1>3, <1>4 DEF IInv, LockInv, Number
    <2>3. IsFiniteSet(S)
      BY KphObjectAssumption, FS_Subset
    <2> HIDE DEF S
    <2>4. PICK x : S = {x}
      BY <2>2, <2>3, FS_Singleton
    <2> QED
      BY <1>4, <2>1, <2>4
  <1> QED
    BY <1>1, <1>2, <1>3, <1>4

LEMMA OthersKept ==
    ASSUME IInv, NEW a \in Actors, OthersStill(a), NEW b \in Actors, b # a,
           pc[b] \in {"reference", "store"} => ref'[slot[b]].object = ref[slot[b]].object,
           pc[b] \in {"previous", "store", "unlock"} => ref'[slot[b]].shared = ref[slot[b]].shared
    PROVE  ActorInv(b)'
  <1>1. ActorInv(b) /\ Still(b)
    BY DEF IInv, OthersStill
  <1>2. Walks(b)' <=> Walks(b)
    BY <1>1 DEF Walks, Still
  <1> QED
    BY <1>1, <1>2 DEF ActorInv, Still

LEMMA OthersKeptAll ==
    ASSUME IInv, NEW a \in Actors, OthersStill(a), ref' = ref
    PROVE  \A b \in Actors : b # a => ActorInv(b)'
  BY OthersKept

LEMMA DeathKept ==
    ASSUME IInv, NEW a \in Actors, OthersStill(a), deferred' = deferred, flushed' = flushed,
           pc'[a] # "push", \A o \in Objects : count[o] = 0 => count'[o] = 0
    PROVE  DeathInv'
  <1>1. Elements(deferred) \subseteq Objects /\ flushed \subseteq Objects
    BY DEF IInv, TypeOK, ObjectType, Elements
  <1>2. Elements(deferred') = Elements(deferred)
    BY DEF Elements
  <1>3. \A b \in Actors : pc'[b] = "push" => b # a /\ pc[b] = "push" /\ old'[b] = old[b] /\ old[b] \in Objects
    BY DEF OthersStill, Still, IInv, ActorInv
  <1>4. \A o \in flushed \cup Elements(deferred) : count'[o] = 0
    BY <1>1 DEF IInv, DeathInv
  <1>5. \A b \in Actors : pc'[b] = "push" => count'[old'[b]] = 0 /\ old'[b] \notin flushed \cup Elements(deferred)
    BY <1>3 DEF IInv, DeathInv
  <1>6. \A b, c \in Actors : pc'[b] = "push" /\ pc'[c] = "push" /\ old'[b] = old'[c] => b = c
    BY <1>3 DEF IInv, DeathInv
  <1>7. flushed \cap Elements(deferred) = {}
    BY DEF IInv, DeathInv
  <1>8. Elements(deferred)' = Elements(deferred)
    BY DEF Elements
  <1> QED
    BY <1>4, <1>5, <1>6, <1>7, <1>8 DEF DeathInv

LEMMA WorkerKept ==
    ASSUME IInv, NEW a \in Actors, OthersStill(a), deferred' = deferred, item' = item, started' = started,
           pc[a] # "queue", pc'[a] # "queue"
    PROVE  WorkerInv'
  <1>1. QueuedBy[a] = "none" /\ QueuedBy'[a] = "none"
    BY DEF QueuedBy
  <1>2. QueuedBy' = [QueuedBy EXCEPT ![a] = QueuedBy'[a]]
    BY Moves
  <1>3. QueuedBy' = QueuedBy
    BY <1>1, <1>2 DEF QueuedBy
  <1> QED
    BY <1>3 DEF IInv, WorkerInv

LEMMA LockKept ==
    ASSUME IInv, NEW a \in Actors, OthersStill(a),
           \A s \in Slots : ref'[s].shared = ref[s].shared /\ ref'[s].exclusive = ref[s].exclusive,
           SharedBy'[a] = SharedBy[a], LockedBy'[a] = LockedBy[a]
    PROVE  LockInv'
  <1>1. SharedBy' = [SharedBy EXCEPT ![a] = SharedBy'[a]] /\ LockedBy' = [LockedBy EXCEPT ![a] = LockedBy'[a]]
    BY Moves
  <1>2. SharedBy' = SharedBy /\ LockedBy' = LockedBy
    BY <1>1 DEF SharedBy, LockedBy
  <1> QED
    BY <1>2 DEF IInv, LockInv

LEMMA CountKept ==
    ASSUME IInv, NEW a \in Actors, OthersStill(a), EntryOf' = EntryOf, count' = count,
           HeldBy'[a] = HeldBy[a], StoredBy'[a] = StoredBy[a], ReplacedBy'[a] = ReplacedBy[a]
    PROVE  CountInv'
  <1>1. HeldBy' = HeldBy
    BY Moves DEF HeldBy
  <1>2. StoredBy' = StoredBy
    <2>1. StoredBy' = [StoredBy EXCEPT ![a] = StoredBy'[a]]
      BY Moves
    <2>2. StoredBy = [x \in Actors |-> StoredBy[x]]
      BY DEF StoredBy
    <2> QED
      BY <2>1, <2>2
  <1>3. ReplacedBy' = ReplacedBy
    BY Moves DEF ReplacedBy
  <1>4. \A o : Total(o)' = Total(o)
    BY <1>1, <1>2, <1>3 DEF Total
  <1> QED
    BY <1>4 DEF IInv, CountInv

\* A step outside the entries and without an object changes nothing that is counted.
OutPoints == (FreePoints \ {"read"}) \cup {"exclusive"}

LEMMA QuietStep ==
    ASSUME IInv, NEW a \in Actors, OthersStill(a), TypeOK', ActorInv(a)', UNCHANGED <<objects, ref>>,
           pc[a] \in OutPoints, pc'[a] \in OutPoints, obj[a] = NULL, obj'[a] = NULL
    PROVE  IInv'
  <1>1. EntryOf' = EntryOf
    BY DEF EntryOf
  <1>2. HeldBy'[a] = HeldBy[a] /\ StoredBy'[a] = StoredBy[a] /\ ReplacedBy'[a] = ReplacedBy[a]
    BY DEF HeldBy, StoredBy, ReplacedBy, OutPoints, FreePoints
  <1>3. SharedBy'[a] = SharedBy[a] /\ LockedBy'[a] = LockedBy[a]
    BY DEF SharedBy, LockedBy, OutPoints, FreePoints, SharePoints, LockPoints
  <1>4. /\ count' = count /\ deferred' = deferred /\ flushed' = flushed /\ item' = item /\ started' = started
        /\ ref' = ref
    BY DEF objects
  <1>5. CountInv'
    BY <1>1, <1>2, <1>4, CountKept
  <1>6. LockInv'
    BY <1>3, <1>4, LockKept
  <1>7. pc[a] # "queue" /\ pc'[a] # "queue" /\ pc'[a] # "push"
    BY DEF OutPoints, FreePoints
  <1>8. DeathInv' /\ WorkerInv'
    BY <1>4, <1>7, DeathKept, WorkerKept
  <1>9. \A b \in Actors : b # a => ActorInv(b)'
    BY <1>4, OthersKeptAll
  <1> QED
    BY <1>5, <1>6, <1>8, <1>9 DEF IInv
-----------------------------------------------------------------------------
(* Calls and the table *)

LEMMA KeptCall ==
    ASSUME TableType, NEW a \in Actors, KeepCall(a)
    PROVE  /\ mode' \in [Actors -> Modes] /\ cid' \in [Actors -> Nat] /\ top' \in [Actors -> Tables]
           /\ \A b \in Actors : b # a => mode'[b] = mode[b] /\ cid'[b] = cid[b]
           /\ pc'[a] # "idle" => mode'[a] = mode[a] /\ cid'[a] = cid[a]
  <1>1. Table(0, 0) \in Tables
    BY Sizes DEF Table, Tables, Addresses
  <1>2. PICK o \in BOOLEAN : o = (pc'[a] = "idle")
    OBVIOUS
  <1>3. /\ cid' = [cid EXCEPT ![a] = IF o THEN 0 ELSE @]
        /\ top' = [top EXCEPT ![a] = IF o THEN Table(0, 0) ELSE @]
        /\ mode' = [mode EXCEPT ![a] = IF o /\ a \notin Trackers THEN "none" ELSE @]
    BY <1>2 DEF KeepCall
  <1>4. cid' \in [Actors -> Nat] /\ \A b \in Actors : b # a \/ ~o => cid'[b] = cid[b]
    BY <1>3 DEF TableType
  <1>5. top' \in [Actors -> Tables]
    BY <1>1, <1>3 DEF TableType
  <1>6. mode' \in [Actors -> Modes] /\ \A b \in Actors : b # a \/ ~o => mode'[b] = mode[b]
    BY <1>3 DEF TableType, Modes
  <1> QED
    BY <1>2, <1>4, <1>5, <1>6

LEMMA KeptObjects ==
    ASSUME ObjectType, NEW a \in Actors, KeepObjects(a)
    PROVE  /\ slot' \in [Actors -> Slots \cup {NULL}]
           /\ obj' \in [Actors -> Objects \cup {NULL}] /\ old' \in [Actors -> Objects \cup {NULL}]
           /\ \A b \in Actors : b # a => slot'[b] = slot[b] /\ obj'[b] = obj[b] /\ old'[b] = old[b]
           /\ pc'[a] # "idle" => slot'[a] = slot[a] /\ obj'[a] = obj[a] /\ old'[a] = old[a]
           /\ pc'[a] = "idle" => obj'[a] = NULL
  <1>1. CASE pc'[a] = "idle"
    <2>1. slot' = [slot EXCEPT ![a] = NULL] /\ obj' = [obj EXCEPT ![a] = NULL] /\ old' = [old EXCEPT ![a] = NULL]
      BY <1>1 DEF KeepObjects
    <2> QED
      BY <1>1, <2>1 DEF ObjectType
  <1>2. CASE pc'[a] # "idle"
    <2>1. slot' = slot /\ obj' = obj /\ old' = old
      BY <1>2 DEF KeepObjects
    <2> QED
      BY <1>2, <2>1 DEF ObjectType
  <1> QED
    BY <1>1, <1>2

LEMMA PcMoves ==
    ASSUME ObjectType, NEW a \in Actors, NEW p \in Points, Goto(a, p)
    PROVE  pc' \in [Actors -> Points] /\ pc'[a] = p /\ \A b \in Actors : b # a => pc'[b] = pc[b]
  BY DEF ObjectType, Goto

LEMMA BeginStep ==
    ASSUME IInv, NEW a \in Actors, NEW m \in Modes, NEW c \in Nat, NEW t, NEW e, Begin(a, m, c, t, e),
           m \in {"enumerate", "rundown"} \/ c < MaxId(2)
    PROVE  IInv'
  <1>1. /\ pc[a] = "idle" /\ Goto(a, "capture") /\ mode' = [mode EXCEPT ![a] = m] /\ cid' = [cid EXCEPT ![a] = c]
        /\ UNCHANGED <<objects, ref, objectLocals, tableVars, top>>
    BY DEF Begin
  <1>2. pc' \in [Actors -> Points] /\ pc'[a] = "capture" /\ \A b \in Actors : b # a => pc'[b] = pc[b]
    BY <1>1, PcMoves DEF IInv, TypeOK, Points, FreePoints
  <1>3. obj' = obj /\ old' = old /\ slot' = slot /\ obj[a] = NULL
    BY <1>1 DEF objectLocals, IInv, ActorInv, FreePoints
  <1>4. TypeOK'
    BY <1>1, <1>2, <1>3 DEF IInv, TypeOK, ObjectType, TableType, objects, tableVars
  <1>5. OthersStill(a)
    BY <1>1, <1>2, <1>3 DEF OthersStill, Still, IInv, TypeOK, TableType
  <1>6. mode'[a] = m /\ cid'[a] = c
    BY <1>1 DEF IInv, TypeOK, TableType
  <1>7. ActorInv(a)'
    <2>1. ~Walks(a)' => c < MaxId(2)
      BY <1>6 DEF Walks
    <2> QED
      BY <1>2, <1>3, <1>6, <2>1 DEF ActorInv, EntryPoints, SharePoints, LockPoints, FreePoints, StorePoints, GetPoints
  <1> QED
    BY <1>1, <1>2, <1>3, <1>4, <1>5, <1>7, QuietStep DEF OutPoints, FreePoints

LEMMA TrackersIn ==
    /\ \A a \in Trackers : a \in Actors /\ a \in Nat /\ a < MaxId(2)
    /\ \A c \in Cids : c \in Nat /\ c < MaxId(2)
    /\ Readers \subseteq Actors /\ Enumerators \subseteq Actors /\ Unloader \in Actors
  <1>1. PICK m \in Nat : m = MaxId(2)
    BY Positive
  <1>2. Trackers \cup Cids \subseteq 0..(m - 1)
    BY <1>1, CidTableAssumption
  <1>3. \A x \in 0..(m - 1) : x \in Nat /\ x < m
    OBVIOUS
  <1>4. \A x \in Trackers \cup Cids : x \in Nat /\ x < MaxId(2)
    BY <1>1, <1>2, <1>3
  <1> QED
    BY <1>4, CidTableAssumption

LEMMA CallSteps ==
    ASSUME IInv
    PROVE  /\ \A a \in Trackers : Track(a) \/ Untrack(a) => IInv'
           /\ \A a \in Readers : Lookup(a) => IInv'
           /\ \A a \in Enumerators : Enumerate(a) => IInv'
  <1> USE DEF Modes
  <1>1. ASSUME NEW a \in Trackers, Track(a) PROVE IInv'
    <2>1. PICK t \in TrackedTypes : Begin(a, "track", a, t, expect)
      BY <1>1 DEF Track
    <2> QED
      BY <2>1, TrackersIn, BeginStep
  <1>2. ASSUME NEW a \in Trackers, Untrack(a) PROVE IInv'
    <2>1. PICK e : Begin(a, "untrack", a, asked[a], e)
      BY <1>2 DEF Untrack
    <2> QED
      BY <2>1, TrackersIn, BeginStep
  <1>3. ASSUME NEW a \in Readers, Lookup(a) PROVE IInv'
    <2>1. PICK c \in Cids, t \in Types : Begin(a, "lookup", c, t, [expect EXCEPT ![a] =
             {tracked[k] : k \in {k \in Trackers : k = c /\ tracked[k] # NULL /\ type[tracked[k]] = t}}])
      BY <1>3 DEF Lookup
    <2>2. a \in Actors /\ c \in Nat /\ c < MaxId(2)
      BY TrackersIn
    <2> QED
      BY <2>1, <2>2, BeginStep
  <1>4. ASSUME NEW a \in Enumerators, Enumerate(a) PROVE IInv'
    <2>1. PICK e : Begin(a, "enumerate", 0, NULL, e)
      BY <1>4 DEF Enumerate
    <2>2. a \in Actors
      BY TrackersIn
    <2> QED
      BY <2>1, <2>2, BeginStep
  <1> QED
    BY <1>1, <1>2, <1>3, <1>4

LEMMA CleanUpStep == ASSUME IInv, NEW a \in Actors, CleanUp(a) PROVE IInv'
  <1>1. /\ pc[a] = "idle" /\ Goto(a, "capture") /\ mode' = [mode EXCEPT ![a] = "rundown"]
        /\ UNCHANGED <<objects, ref, objectLocals, tableVars, cid, top>>
    BY DEF CleanUp
  <1>2. pc' \in [Actors -> Points] /\ pc'[a] = "capture" /\ \A b \in Actors : b # a => pc'[b] = pc[b]
    BY <1>1, PcMoves DEF IInv, TypeOK, Points, FreePoints
  <1>3. obj' = obj /\ old' = old /\ slot' = slot /\ obj[a] = NULL
    BY <1>1 DEF objectLocals, IInv, ActorInv, FreePoints
  <1>4. TypeOK'
    BY <1>1, <1>2, <1>3 DEF IInv, TypeOK, ObjectType, TableType, objects, tableVars, Modes
  <1>5. OthersStill(a)
    BY <1>1, <1>2, <1>3 DEF OthersStill, Still, IInv, TypeOK, TableType
  <1>6. mode'[a] = "rundown" /\ Walks(a)'
    BY <1>1 DEF IInv, TypeOK, TableType, Walks
  <1>7. ActorInv(a)'
    BY <1>2, <1>3, <1>6 DEF ActorInv, EntryPoints, SharePoints, LockPoints, FreePoints, StorePoints, GetPoints
  <1> QED
    BY <1>1, <1>2, <1>3, <1>4, <1>5, <1>7, QuietStep DEF OutPoints, FreePoints

LEMMA CaptureStep == ASSUME IInv, NEW a \in Actors, Capture(a) PROVE IInv'
  <1>1. /\ pc[a] = "capture" /\ top' = [top EXCEPT ![a] = root]
        /\ Goto(a, IF Walks(a) THEN "visit" ELSE "resolve")
        /\ UNCHANGED <<objects, ref, objectLocals, tableVars, mode, cid>>
    BY DEF Capture
  <1>2. PICK p \in {"visit", "resolve"} : Goto(a, p) /\ (p = "resolve" => ~Walks(a))
    BY <1>1
  <1>3. pc' \in [Actors -> Points] /\ pc'[a] = p /\ \A b \in Actors : b # a => pc'[b] = pc[b]
    BY <1>2, PcMoves DEF IInv, TypeOK, Points, FreePoints
  <1>4. obj' = obj /\ old' = old /\ slot' = slot /\ obj[a] = NULL
    BY <1>1 DEF objectLocals, IInv, ActorInv, FreePoints
  <1>5. TypeOK'
    BY <1>1, <1>3, <1>4 DEF IInv, TypeOK, ObjectType, TableType, objects, tableVars
  <1>6. OthersStill(a)
    BY <1>1, <1>3, <1>4 DEF OthersStill, Still
  <1>7. ActorInv(a)'
    <2>1. (Walks(a)' <=> Walks(a)) /\ (~Walks(a) => cid'[a] < MaxId(2))
      BY <1>1 DEF Walks, IInv, ActorInv
    <2> QED
      BY <1>2, <1>3, <1>4, <2>1 DEF ActorInv, EntryPoints, SharePoints, LockPoints, FreePoints, StorePoints, GetPoints
  <1> QED
    BY <1>1, <1>2, <1>3, <1>4, <1>5, <1>6, <1>7, QuietStep DEF OutPoints, FreePoints

LEMMA LookupEntryStep == ASSUME IInv, NEW a \in Actors, LookupEntry(a) PROVE IInv'
  <1>1. /\ pc[a] = "resolve" /\ slot' = [slot EXCEPT ![a] = Resolve(top[a], cid[a])]
        /\ Goto(a, IF slot'[a] = NULL THEN "lock" ELSE "shared")
        /\ UNCHANGED <<objects, ref, obj, old, tableVars, callVars>>
    BY DEF LookupEntry
  <1>2. Resolve(top[a], cid[a]) \in Slots \cup {NULL}
    BY ResolveType DEF IInv, TypeOK, TableType
  <1>3. /\ slot' \in [Actors -> Slots \cup {NULL}]
        /\ \A b \in Actors : b # a => slot'[b] = slot[b]
    BY <1>1, <1>2 DEF IInv, TypeOK, ObjectType
  <1>4. PICK p \in {"lock", "shared"} : Goto(a, p) /\ (p = "shared" => slot'[a] \in Slots)
    BY <1>1, <1>3
  <1>5. pc' \in [Actors -> Points] /\ pc'[a] = p /\ \A b \in Actors : b # a => pc'[b] = pc[b]
    BY <1>4, PcMoves DEF IInv, TypeOK, Points, FreePoints
  <1>6. obj' = obj /\ old' = old /\ mode' = mode /\ cid' = cid /\ obj[a] = NULL
    BY <1>1 DEF callVars, IInv, ActorInv, FreePoints
  <1>7. TypeOK'
    BY <1>1, <1>3, <1>5, <1>6 DEF IInv, TypeOK, ObjectType, TableType, objects, tableVars, callVars
  <1>8. OthersStill(a)
    BY <1>3, <1>5, <1>6 DEF OthersStill, Still
  <1>9. ActorInv(a)'
    <2>1. (Walks(a)' <=> Walks(a)) /\ ~Walks(a) /\ cid'[a] < MaxId(2)
      BY <1>1, <1>6 DEF Walks, IInv, ActorInv, GetPoints
    <2> QED
      BY <1>4, <1>5, <1>6, <2>1 DEF ActorInv, EntryPoints, SharePoints, LockPoints, FreePoints, StorePoints, GetPoints
  <1> QED
    BY <1>1, <1>4, <1>5, <1>6, <1>7, <1>8, <1>9, QuietStep DEF OutPoints, FreePoints

LEMMA SpinStep == ASSUME IInv, NEW a \in Actors, AcquireSpinLock(a) PROVE IInv'
  <1>1. /\ pc[a] = "lock" /\ Goto(a, "expand")
        /\ UNCHANGED <<objects, ref, objectLocals, root, links, used, callVars>>
    BY DEF AcquireSpinLock
  <1>2. pc' \in [Actors -> Points] /\ pc'[a] = "expand" /\ \A b \in Actors : b # a => pc'[b] = pc[b]
    BY <1>1, PcMoves DEF IInv, TypeOK, Points, FreePoints
  <1>3. obj' = obj /\ old' = old /\ slot' = slot /\ mode' = mode /\ cid' = cid /\ obj[a] = NULL
    BY <1>1 DEF callVars, objectLocals, IInv, ActorInv, FreePoints
  <1>4. TypeOK'
    BY <1>1, <1>2, <1>3 DEF IInv, TypeOK, ObjectType, TableType, objects, callVars
  <1>5. OthersStill(a)
    BY <1>2, <1>3 DEF OthersStill, Still
  <1>6. ActorInv(a)'
    <2>1. (Walks(a)' <=> Walks(a)) /\ ~Walks(a) /\ cid'[a] < MaxId(2)
      BY <1>1, <1>3 DEF Walks, IInv, ActorInv, GetPoints
    <2> QED
      BY <1>2, <1>3, <2>1 DEF ActorInv, EntryPoints, SharePoints, LockPoints, FreePoints, StorePoints, GetPoints
  <1> QED
    BY <1>1, <1>2, <1>3, <1>4, <1>5, <1>6, QuietStep DEF OutPoints, FreePoints

LEMMA ExpandedStep == ASSUME IInv, NEW a \in Actors, Expanded(a) PROVE IInv'
  <1>1. /\ pc[a] = "expand" /\ Resolve(root, cid[a]) # NULL
        /\ slot' = [slot EXCEPT ![a] = Resolve(root, cid[a])] /\ Goto(a, "shared")
        /\ UNCHANGED <<objects, ref, obj, old, root, links, used, callVars>>
    BY DEF Expanded
  <1>2. Resolve(root, cid[a]) \in Slots
    BY <1>1, ResolveType DEF IInv, TypeOK, TableType
  <1>3. /\ slot' \in [Actors -> Slots \cup {NULL}] /\ slot'[a] \in Slots
        /\ \A b \in Actors : b # a => slot'[b] = slot[b]
    BY <1>1, <1>2 DEF IInv, TypeOK, ObjectType
  <1>4. pc' \in [Actors -> Points] /\ pc'[a] = "shared" /\ \A b \in Actors : b # a => pc'[b] = pc[b]
    BY <1>1, PcMoves DEF IInv, TypeOK, Points, FreePoints
  <1>5. obj' = obj /\ old' = old /\ mode' = mode /\ cid' = cid /\ obj[a] = NULL
    BY <1>1 DEF callVars, IInv, ActorInv, FreePoints
  <1>6. TypeOK'
    BY <1>1, <1>3, <1>4, <1>5 DEF IInv, TypeOK, ObjectType, TableType, objects, callVars
  <1>7. OthersStill(a)
    BY <1>3, <1>4, <1>5 DEF OthersStill, Still
  <1>8. ActorInv(a)'
    BY <1>3, <1>4, <1>5 DEF ActorInv, EntryPoints, SharePoints, LockPoints, FreePoints, StorePoints, GetPoints
  <1> QED
    BY <1>1, <1>4, <1>5, <1>6, <1>7, <1>8, QuietStep DEF OutPoints, FreePoints

\* The new table is one more, and the tables stay well formed.
LEMMA ExpandTables ==
    ASSUME IInv, NEW a \in Actors, Expand(a)
    PROVE  root' \in Tables /\ links' \in [Addresses -> [LinkSlots -> Addresses \cup {NULL}]] /\ used' \in Nat
  <1>1. pc[a] = "expand" /\ used < MaxTables /\ used' = used + 1
    BY DEF Expand
  <1>2. used \in Addresses /\ used' \in Nat
    BY <1>1, Sizes DEF IInv, TypeOK, TableType, Addresses
  <1>3. cid[a] < MaxId(2) /\ cid[a] \in Nat
    BY <1>1 DEF IInv, ActorInv, GetPoints, TypeOK, TableType
  <1> DEFINE id == cid[a]
             upper == IF root.level = 2 THEN links[root.address][id \div MaxId(1)] ELSE root.address
             L == [LinkSlots -> Addresses \cup {NULL}]
  <1>4. root \in Tables /\ links \in [Addresses -> L]
    BY DEF IInv, TypeOK, TableType
  <1>5. CASE id >= MaxId(root.level)
    <2>1. root' = Table(root.level + 1, used) /\ links' = [links EXCEPT ![used] = Adopted(root)]
      BY <1>5 DEF Expand
    <2>2. root.level # 2
      BY <1>3, <1>5, Positive
    <2>3. root.level + 1 \in 0..2
      BY <1>4, <2>2 DEF Tables
    <2>4. root' \in Tables
      BY <1>2, <2>1, <2>3 DEF Table, Tables
    <2>5. NoLinks \in L /\ root.address \in Addresses
      BY <1>4 DEF NoLinks, LinkSlots, Tables
    <2>6. Adopted(root) \in L
      BY <2>5 DEF Adopted
    <2>7. links' \in [Addresses -> L]
      BY <1>4, <2>1, <2>6
    <2> QED
      BY <1>2, <2>4, <2>7
  <1>6. CASE ~(id >= MaxId(root.level))
    <2>1. root' = root /\ links' = IF upper = NULL
                                   THEN [links EXCEPT ![root.address][id \div MaxId(1)] = used]
                                   ELSE [links EXCEPT ![upper][(id % MaxId(1)) \div L0Count] = used]
      BY <1>6 DEF Expand
    <2> HIDE DEF id, upper
    <2>2. ASSUME NEW x, NEW i PROVE [links EXCEPT ![x][i] = used] \in [Addresses -> L]
      <3>1. \A f \in L : [f EXCEPT ![i] = used] \in L
        BY <1>2
      <3>2. x \in Addresses => [links[x] EXCEPT ![i] = used] \in L
        BY <1>4, <3>1
      <3> QED
        BY <1>4, <3>2
    <2>3. links' \in [Addresses -> L]
      <3>1. [links EXCEPT ![root.address][id \div MaxId(1)] = used] \in [Addresses -> L]
        BY <2>2
      <3>2. [links EXCEPT ![upper][(id % MaxId(1)) \div L0Count] = used] \in [Addresses -> L]
        BY <2>2
      <3> QED
        BY <2>1, <3>1, <3>2
    <2> QED
      BY <1>2, <1>4, <2>1, <2>3
  <1> QED
    BY <1>5, <1>6

LEMMA ExpandStep == ASSUME IInv, NEW a \in Actors, Expand(a) PROVE IInv'
  <1>1. pc[a] = "expand" /\ UNCHANGED <<objects, ref, pc, objectLocals, spin, callVars>>
    BY DEF Expand
  <1>2. obj' = obj /\ old' = old /\ slot' = slot /\ mode' = mode /\ cid' = cid /\ top' = top /\ pc' = pc
    BY <1>1 DEF callVars, objectLocals
  <1>3. TypeOK'
    BY <1>1, <1>2, ExpandTables DEF IInv, TypeOK, ObjectType, TableType, objects
  <1>4. OthersStill(a)
    BY <1>2 DEF OthersStill, Still
  <1>5. ActorInv(a) /\ obj[a] = NULL /\ ref' = ref
    BY <1>1 DEF IInv, ActorInv, FreePoints
  <1>6. ActorInv(a)'
    BY <1>2, <1>5 DEF ActorInv, Walks
  <1> QED
    BY <1>1, <1>2, <1>3, <1>4, <1>5, <1>6, QuietStep DEF OutPoints, FreePoints

\* A call returns from a point without an object.
LEMMA ReturnStep ==
    ASSUME IInv, NEW a \in Actors, pc[a] \in OutPoints \ {"exclusive"}, Goto(a, "idle"), KeepObjects(a), KeepCall(a),
           UNCHANGED <<objects, ref, root, links>>, used' \in Nat
    PROVE  IInv'
  <1>1. ObjectType /\ TableType /\ obj[a] = NULL
    BY DEF IInv, TypeOK, ActorInv, OutPoints
  <1>2. pc' \in [Actors -> Points] /\ pc'[a] = "idle" /\ \A b \in Actors : b # a => pc'[b] = pc[b]
    BY <1>1, PcMoves DEF Points, FreePoints
  <1>3. /\ slot' \in [Actors -> Slots \cup {NULL}]
        /\ obj' \in [Actors -> Objects \cup {NULL}] /\ old' \in [Actors -> Objects \cup {NULL}]
        /\ \A b \in Actors : b # a => slot'[b] = slot[b] /\ obj'[b] = obj[b] /\ old'[b] = old[b]
        /\ obj'[a] = NULL
    BY <1>1, <1>2, KeptObjects
  <1>4. /\ mode' \in [Actors -> Modes] /\ cid' \in [Actors -> Nat] /\ top' \in [Actors -> Tables]
        /\ \A b \in Actors : b # a => mode'[b] = mode[b] /\ cid'[b] = cid[b]
    BY <1>1, KeptCall
  <1>5. TypeOK'
    BY <1>1, <1>2, <1>3, <1>4 DEF TypeOK, ObjectType, TableType, objects
  <1>6. OthersStill(a)
    BY <1>2, <1>3, <1>4 DEF OthersStill, Still
  <1>7. ActorInv(a)'
    BY <1>2, <1>3 DEF ActorInv, EntryPoints, SharePoints, LockPoints, FreePoints, StorePoints, GetPoints
  <1> QED
    BY <1>1, <1>2, <1>3, <1>5, <1>6, <1>7, QuietStep DEF OutPoints, FreePoints

LEMMA ReturnSteps ==
    ASSUME IInv, NEW a \in Actors
    PROVE  ExpandFails(a) \/ VisitedAll(a) => IInv'
  <1>1. ASSUME ExpandFails(a) PROVE IInv'
    <2>1. used' = used /\ used \in Nat
      BY <1>1 DEF ExpandFails, IInv, TypeOK, TableType
    <2> QED
      BY <1>1, <2>1, ReturnStep DEF ExpandFails, OutPoints, FreePoints
  <1>2. ASSUME VisitedAll(a) PROVE IInv'
    <2>1. used' \in Nat
      BY <1>2 DEF VisitedAll, IInv, TypeOK, TableType
    <2> QED
      BY <1>2, <2>1, ReturnStep DEF VisitedAll, OutPoints, FreePoints
  <1> QED
    BY <1>1, <1>2

LEMMA VisitStep == ASSUME IInv, NEW a \in Actors, Visit(a) PROVE IInv'
  <1>1. pc[a] = "visit" /\ UNCHANGED <<objects, ref, obj, old, tableVars, mode, top>>
    BY DEF Visit
  <1>2. ObjectType /\ TableType /\ obj[a] = NULL
    BY <1>1 DEF IInv, TypeOK, ActorInv, FreePoints
  <1>3. Resolve(top[a], cid[a]) \in Slots \cup {NULL} /\ Skip(top[a], cid[a]) \in Nat
    BY <1>2, ResolveType, SkipType DEF TableType
  <1>4. /\ cid' \in [Actors -> Nat] /\ pc' \in [Actors -> Points] /\ slot' \in [Actors -> Slots \cup {NULL}]
        /\ \A b \in Actors : b # a => cid'[b] = cid[b] /\ pc'[b] = pc[b] /\ slot'[b] = slot[b]
        /\ pc'[a] = "visit" \/ (pc'[a] = "shared" /\ slot'[a] \in Slots)
                            \/ (pc'[a] = "exclusive" /\ slot'[a] \in Slots /\ mode[a] = "rundown")
    <2>1. CASE Resolve(top[a], cid[a]) = NULL
      <3>1. cid' = [cid EXCEPT ![a] = Skip(top[a], @)] /\ pc' = pc /\ slot' = slot
        BY <2>1 DEF Visit
      <3> QED
        BY <1>1, <1>2, <1>3, <3>1 DEF ObjectType, TableType
    <2>2. CASE Resolve(top[a], cid[a]) # NULL
      <3>1. /\ cid' = [cid EXCEPT ![a] = @ + 1] /\ slot' = [slot EXCEPT ![a] = Resolve(top[a], cid[a])]
            /\ Goto(a, IF mode[a] = "rundown" THEN "exclusive" ELSE "shared")
        BY <2>2 DEF Visit
      <3>2. PICK p \in {"exclusive", "shared"} : Goto(a, p) /\ (p = "exclusive" => mode[a] = "rundown")
        BY <3>1
      <3>3. pc' \in [Actors -> Points] /\ pc'[a] = p /\ \A b \in Actors : b # a => pc'[b] = pc[b]
        BY <1>2, <3>2, PcMoves DEF Points, FreePoints, EntryPoints
      <3>4. cid' \in [Actors -> Nat] /\ \A b \in Actors : b # a => cid'[b] = cid[b]
        BY <1>2, <3>1 DEF TableType
      <3>5. slot' \in [Actors -> Slots \cup {NULL}] /\ slot'[a] \in Slots /\ \A b \in Actors : b # a => slot'[b] = slot[b]
        BY <1>2, <1>3, <2>2, <3>1 DEF ObjectType
      <3> QED
        BY <3>2, <3>3, <3>4, <3>5
    <2> QED
      BY <2>1, <2>2
  <1>5. TypeOK'
    BY <1>1, <1>2, <1>4 DEF TypeOK, ObjectType, TableType, objects, tableVars
  <1>6. OthersStill(a)
    BY <1>1, <1>4 DEF OthersStill, Still
  <1>7. ActorInv(a)'
    BY <1>1, <1>2, <1>4 DEF ActorInv, EntryPoints, SharePoints, LockPoints, FreePoints, StorePoints, GetPoints
  <1> QED
    BY <1>1, <1>2, <1>4, <1>5, <1>6, <1>7, QuietStep DEF OutPoints, FreePoints
-----------------------------------------------------------------------------
(* Counts and lock bits *)

LEMMA Referred ==
    ASSUME IInv, NEW a \in Actors, NEW o \in Objects,
           Tokens(a, o) >= 1 \/ \E s \in Slots : EntryOf[s] = o
    PROVE  count[o] \in Nat /\ count[o] >= 1 /\ count[o] # NULL
  <1>1. Total(o) >= 1 /\ Total(o) \in Nat
    BY TotalIs
  <1>2. Total(o) = IF count[o] = NULL THEN 0 ELSE count[o]
    BY DEF IInv, CountInv
  <1>3. count[o] \in Nat \cup {NULL}
    BY DEF IInv, TypeOK, ObjectType
  <1> QED
    BY <1>1, <1>2, <1>3

LEMMA CountUp ==
    ASSUME IInv, NEW a \in Actors, OthersStill(a), EntryOf' = EntryOf, NEW o \in Objects, count[o] \in Nat,
           count' = [count EXCEPT ![o] = @ + 1], \A w \in Objects : Tokens(a, w)' = Tokens(a, w) + One(w = o)
    PROVE  CountInv' /\ count' \in [Objects -> Nat \cup {NULL}]
  <1>1. ASSUME NEW w \in Objects PROVE Total(w)' = IF count'[w] = NULL THEN 0 ELSE count'[w]
    <2>1. Total(w)' = Total(w) + Tokens(a, w)' - Tokens(a, w)
      BY TotalMoves
    <2>2. Total(w) \in Nat /\ Total(w) = IF count[w] = NULL THEN 0 ELSE count[w]
      BY TotalIs DEF IInv, CountInv
    <2>3. Tokens(a, w) \in Int /\ One(w = o) \in Int
      BY DEF Tokens, One
    <2>4. Total(w)' = Total(w) + One(w = o)
      BY <2>1, <2>2, <2>3
    <2>5. CASE w = o
      <3>1. Total(w)' = count[o] + 1 /\ count'[w] = count[o] + 1 /\ count'[w] # NULL
        BY <2>2, <2>4, <2>5, NullApart DEF One, IInv, TypeOK, ObjectType
      <3> QED
        BY <3>1
    <2>6. CASE w # o
      <3>1. Total(w)' = Total(w) /\ count'[w] = count[w]
        BY <2>2, <2>4, <2>6 DEF One, IInv, TypeOK, ObjectType
      <3> QED
        BY <2>2, <3>1
    <2> QED
      BY <2>5, <2>6
  <1>2. count' \in [Objects -> Nat \cup {NULL}]
    BY DEF IInv, TypeOK, ObjectType
  <1> QED
    BY <1>1, <1>2 DEF CountInv

LEMMA CountDown ==
    ASSUME IInv, NEW a \in Actors, OthersStill(a), EntryOf' = EntryOf, NEW o \in Objects,
           count' = [count EXCEPT ![o] = @ - 1], \A w \in Objects : Tokens(a, w) = Tokens(a, w)' + One(w = o)
    PROVE  /\ CountInv' /\ count' \in [Objects -> Nat \cup {NULL}]
           /\ count[o] \in Nat /\ count[o] >= 1
  <1>1. Tokens(a, o) >= 1
    <2>1. Tokens(a, o)' \in Nat
      BY DEF Tokens, One
    <2> QED
      BY <2>1 DEF One
  <1>2. count[o] \in Nat /\ count[o] >= 1 /\ count[o] # NULL
    BY <1>1, Referred
  <1>3. ASSUME NEW w \in Objects PROVE Total(w)' = IF count'[w] = NULL THEN 0 ELSE count'[w]
    <2>1. Total(w)' = Total(w) + Tokens(a, w)' - Tokens(a, w)
      BY TotalMoves
    <2>2. Total(w) \in Nat /\ Total(w) = IF count[w] = NULL THEN 0 ELSE count[w]
      BY TotalIs DEF IInv, CountInv
    <2>3. Tokens(a, w)' \in Int /\ One(w = o) \in Int
      BY DEF Tokens, One
    <2>4. Total(w)' = Total(w) - One(w = o)
      BY <2>1, <2>2, <2>3
    <2>5. CASE w = o
      <3>1. Total(w)' = count[o] - 1 /\ count'[w] = count[o] - 1 /\ count'[w] # NULL
        BY <1>2, <2>2, <2>4, <2>5, NullApart DEF One, IInv, TypeOK, ObjectType
      <3> QED
        BY <3>1
    <2>6. CASE w # o
      <3>1. Total(w)' = Total(w) /\ count'[w] = count[w]
        BY <2>2, <2>4, <2>6 DEF One, IInv, TypeOK, ObjectType
      <3> QED
        BY <2>2, <3>1
    <2> QED
      BY <2>5, <2>6
  <1>4. count' \in [Objects -> Nat \cup {NULL}]
    BY <1>2 DEF IInv, TypeOK, ObjectType
  <1> QED
    BY <1>2, <1>3, <1>4 DEF CountInv

LEMMA LockMoves ==
    ASSUME IInv, NEW a \in Actors, OthersStill(a),
           \A s \in Slots : ref'[s].shared = ref[s].shared + One(SharedBy'[a] = s) - One(SharedBy[a] = s),
           \A s \in Slots : One(ref'[s].exclusive) = One(ref[s].exclusive) + One(LockedBy'[a] = s) - One(LockedBy[a] = s)
    PROVE  LockInv'
  <1>1. ASSUME NEW s \in Slots
        PROVE  /\ ref'[s].shared = Number(SharedBy', Actors, s)
               /\ Number(LockedBy', Actors, s) = IF ref'[s].exclusive THEN 1 ELSE 0
    <2>1. /\ Number(SharedBy', Actors, s) = Number(SharedBy, Actors, s) + One(SharedBy'[a] = s) - One(SharedBy[a] = s)
          /\ Number(LockedBy', Actors, s) = Number(LockedBy, Actors, s) + One(LockedBy'[a] = s) - One(LockedBy[a] = s)
      BY NumbersMove
    <2>2. ref[s].shared = Number(SharedBy, Actors, s) /\ Number(LockedBy, Actors, s) = One(ref[s].exclusive)
      BY DEF IInv, LockInv, One
    <2>3. One(ref'[s].exclusive) = IF ref'[s].exclusive THEN 1 ELSE 0
      BY DEF One
    <2> QED
      BY <2>1, <2>2, <2>3
  <1> QED
    BY <1>1 DEF LockInv
-----------------------------------------------------------------------------
(* Atomic references *)

Unmoved == UNCHANGED <<tableVars, callVars>>

\* A step that leaves the call and the table alone and changes pc, obj and old of one actor.
LEMMA AtomicMoves ==
    ASSUME IInv, NEW a \in Actors, NEW p \in Points, Goto(a, p), Unmoved, slot' = slot,
           obj' \in [Actors -> Objects \cup {NULL}], old' \in [Actors -> Objects \cup {NULL}],
           \A b \in Actors : b # a => obj'[b] = obj[b] /\ old'[b] = old[b]
    PROVE  /\ OthersStill(a) /\ pc'[a] = p /\ pc' \in [Actors -> Points]
           /\ mode' = mode /\ cid' = cid /\ TableType'
           /\ slot' \in [Actors -> Slots \cup {NULL}] /\ (Walks(a)' <=> Walks(a))
  <1>1. pc' \in [Actors -> Points] /\ pc'[a] = p /\ \A b \in Actors : b # a => pc'[b] = pc[b]
    BY PcMoves DEF IInv, TypeOK
  <1>2. mode' = mode /\ cid' = cid /\ TableType'
    BY DEF Unmoved, tableVars, callVars, IInv, TypeOK, TableType
  <1> QED
    BY <1>1, <1>2 DEF OthersStill, Still, Walks, IInv, TypeOK, ObjectType

LEMMA RefChange ==
    ASSUME ObjectType, NEW s \in Slots, NEW n \in Nat, ref' = [ref EXCEPT ![s].shared = n]
    PROVE  /\ ref' \in [Slots -> AtomicRefs] /\ EntryOf' = EntryOf /\ ref'[s].shared = n
           /\ \A r \in Slots : ref'[r].object = ref[r].object /\ ref'[r].exclusive = ref[r].exclusive
           /\ \A r \in Slots : r # s => ref'[r].shared = ref[r].shared
  <1>1. \A r \in Slots : ref[r] \in AtomicRefs
    BY DEF ObjectType
  <1>2. /\ ref' \in [Slots -> AtomicRefs] /\ ref'[s].shared = n
        /\ \A r \in Slots : ref'[r].object = ref[r].object /\ ref'[r].exclusive = ref[r].exclusive
        /\ \A r \in Slots : r # s => ref'[r].shared = ref[r].shared
    BY <1>1 DEF ObjectType, AtomicRefs
  <1> QED
    BY <1>2 DEF EntryOf

LEMMA BitChange ==
    ASSUME ObjectType, NEW s \in Slots, NEW x \in BOOLEAN, ref' = [ref EXCEPT ![s].exclusive = x]
    PROVE  /\ ref' \in [Slots -> AtomicRefs] /\ EntryOf' = EntryOf /\ ref'[s].exclusive = x
           /\ \A r \in Slots : ref'[r].object = ref[r].object /\ ref'[r].shared = ref[r].shared
           /\ \A r \in Slots : r # s => ref'[r].exclusive = ref[r].exclusive
  <1>1. \A r \in Slots : ref[r] \in AtomicRefs
    BY DEF ObjectType
  <1>2. /\ ref' \in [Slots -> AtomicRefs] /\ ref'[s].exclusive = x
        /\ \A r \in Slots : ref'[r].object = ref[r].object /\ ref'[r].shared = ref[r].shared
        /\ \A r \in Slots : r # s => ref'[r].exclusive = ref[r].exclusive
    BY <1>1 DEF ObjectType, AtomicRefs
  <1> QED
    BY <1>2 DEF EntryOf

LEMMA AcquireSharedStep == ASSUME IInv, NEW a \in Actors, AcquireShared(a), Unmoved PROVE IInv'
  <1>1. /\ pc[a] = "shared" /\ MayShare(slot[a]) /\ ref' = [ref EXCEPT ![slot[a]].shared = @ + 1]
        /\ Goto(a, "read") /\ UNCHANGED <<objects, objectLocals>>
    BY DEF AcquireShared
  <1>2. PICK s \in Slots : s = slot[a] /\ obj[a] = NULL
    BY <1>1 DEF IInv, ActorInv, EntryPoints, FreePoints
  <1>3. /\ obj' = obj /\ old' = old /\ slot' = slot
        /\ count' = count /\ deferred' = deferred /\ flushed' = flushed /\ item' = item /\ started' = started
    BY <1>1 DEF objects, objectLocals
  <1>4. /\ OthersStill(a) /\ pc'[a] = "read" /\ pc' \in [Actors -> Points]
        /\ mode' = mode /\ cid' = cid /\ TableType'
        /\ slot' \in [Actors -> Slots \cup {NULL}] /\ (Walks(a)' <=> Walks(a))
    BY <1>1, <1>3, AtomicMoves DEF IInv, TypeOK, ObjectType, Points, FreePoints
  <1>5. ref[s] \in AtomicRefs /\ ref[s].shared \in Nat
    BY DEF IInv, TypeOK, ObjectType, AtomicRefs
  <1>6. ~ref[s].exclusive
    <2>1. SharedMax \in Nat
      BY KphObjectAssumption
    <2> QED
      BY <1>1, <1>2, <1>5, <2>1 DEF MayShare, LockBits
  <1>7. PICK n \in Nat : n = ref[s].shared + 1
    BY <1>5
  <1>8. ref' = [ref EXCEPT ![s].shared = n]
    BY <1>1, <1>2, <1>7
  <1>9. /\ ref' \in [Slots -> AtomicRefs] /\ EntryOf' = EntryOf /\ ref'[s].shared = n
        /\ \A r \in Slots : ref'[r].object = ref[r].object /\ ref'[r].exclusive = ref[r].exclusive
        /\ \A r \in Slots : r # s => ref'[r].shared = ref[r].shared
    BY <1>8, RefChange DEF IInv, TypeOK
  <1>10. TypeOK'
    BY <1>3, <1>4, <1>9 DEF IInv, TypeOK, ObjectType
  <1>11. HeldBy'[a] = HeldBy[a] /\ StoredBy'[a] = StoredBy[a] /\ ReplacedBy'[a] = ReplacedBy[a]
    BY <1>1, <1>2, <1>3, <1>4 DEF HeldBy, StoredBy, ReplacedBy, StorePoints
  <1>12. CountInv'
    BY <1>3, <1>4, <1>9, <1>11, CountKept
  <1>13. SharedBy[a] = NULL /\ SharedBy'[a] = s /\ LockedBy[a] = NULL /\ LockedBy'[a] = NULL
    BY <1>1, <1>2, <1>3, <1>4 DEF SharedBy, LockedBy, SharePoints, LockPoints
  <1>14. LockInv'
    <2>1. ASSUME NEW r \in Slots PROVE ref'[r].shared = ref[r].shared + One(SharedBy'[a] = r) - One(SharedBy[a] = r)
      <3>1. ref[r].shared \in Nat /\ r # NULL
        BY NullApart DEF IInv, TypeOK, ObjectType, AtomicRefs
      <3> QED
        BY <1>7, <1>9, <1>13, <3>1 DEF One
    <2>2. ASSUME NEW r \in Slots
          PROVE  One(ref'[r].exclusive) = One(ref[r].exclusive) + One(LockedBy'[a] = r) - One(LockedBy[a] = r)
      BY <1>9, <1>13 DEF One
    <2> QED
      BY <1>4, <2>1, <2>2, LockMoves
  <1>15. DeathInv' /\ WorkerInv'
    BY <1>1, <1>3, <1>4, DeathKept, WorkerKept
  <1>16. ASSUME NEW b \in Actors, b # a PROVE ActorInv(b)'
    <2>1. pc[b] \in {"previous", "store", "unlock"} => slot[b] # s /\ slot[b] \in Slots
      BY <1>6, <1>2, LockFacts DEF LockPoints
    <2>2. pc[b] \in {"reference", "store"} => slot[b] \in Slots
      BY LockFacts DEF LockPoints, SharePoints
    <2> QED
      BY <1>4, <1>9, <1>16, <2>1, <2>2, OthersKept
  <1>17. ActorInv(a)'
    BY <1>2, <1>3, <1>4 DEF ActorInv, EntryPoints, SharePoints, LockPoints, FreePoints, StorePoints, GetPoints
  <1> QED
    BY <1>10, <1>12, <1>14, <1>15, <1>16, <1>17 DEF IInv

LEMMA ReadObjectStep == ASSUME IInv, NEW a \in Actors, ReadObject(a), Unmoved PROVE IInv'
  <1>1. /\ pc[a] = "read" /\ obj' = [obj EXCEPT ![a] = ref[slot[a]].object]
        /\ Goto(a, IF ref[slot[a]].object = NULL THEN "release" ELSE "reference")
        /\ UNCHANGED <<objects, ref, slot, old>>
    BY DEF ReadObject
  <1>2. PICK s \in Slots : s = slot[a] /\ obj[a] = NULL
    BY <1>1 DEF IInv, ActorInv, EntryPoints, SharePoints, FreePoints
  <1>3. PICK o \in Objects \cup {NULL} : o = ref[s].object
    BY DEF IInv, TypeOK, ObjectType, AtomicRefs
  <1>4. /\ obj' \in [Actors -> Objects \cup {NULL}] /\ obj'[a] = o /\ \A b \in Actors : b # a => obj'[b] = obj[b]
    BY <1>1, <1>2, <1>3 DEF IInv, TypeOK, ObjectType
  <1>5. PICK p \in {"release", "reference"} : Goto(a, p) /\ (p = "release" <=> o = NULL)
    BY <1>1, <1>2, <1>3
  <1>6. /\ OthersStill(a) /\ pc'[a] = p /\ pc' \in [Actors -> Points]
        /\ mode' = mode /\ cid' = cid /\ TableType'
        /\ slot' \in [Actors -> Slots \cup {NULL}] /\ (Walks(a)' <=> Walks(a))
    BY <1>1, <1>4, <1>5, AtomicMoves DEF IInv, TypeOK, ObjectType, Points, EntryPoints, SharePoints
  <1>7. /\ ref' = ref /\ slot' = slot /\ old' = old
        /\ count' = count /\ deferred' = deferred /\ flushed' = flushed /\ item' = item /\ started' = started
    BY <1>1 DEF objects
  <1>8. TypeOK'
    BY <1>4, <1>6, <1>7 DEF IInv, TypeOK, ObjectType
  <1>9. HeldBy'[a] = HeldBy[a] /\ StoredBy'[a] = StoredBy[a] /\ ReplacedBy'[a] = ReplacedBy[a]
    BY <1>1, <1>2, <1>4, <1>5, <1>6 DEF HeldBy, StoredBy, ReplacedBy, StorePoints
  <1>10. EntryOf' = EntryOf
    BY <1>7 DEF EntryOf
  <1>11. CountInv'
    BY <1>6, <1>7, <1>9, <1>10, CountKept
  <1>12. SharedBy'[a] = SharedBy[a] /\ LockedBy'[a] = LockedBy[a]
    BY <1>1, <1>6, <1>7 DEF SharedBy, LockedBy, SharePoints, LockPoints
  <1>13. LockInv'
    BY <1>6, <1>7, <1>12, LockKept
  <1>14. DeathInv' /\ WorkerInv'
    BY <1>1, <1>6, <1>7, DeathKept, WorkerKept
  <1>15. \A b \in Actors : b # a => ActorInv(b)'
    BY <1>6, <1>7, OthersKeptAll
  <1>16. ActorInv(a)'
    BY <1>2, <1>3, <1>4, <1>5, <1>6, <1>7 DEF ActorInv, EntryPoints, SharePoints, LockPoints, FreePoints, StorePoints, GetPoints
  <1> QED
    BY <1>8, <1>11, <1>13, <1>14, <1>15, <1>16 DEF IInv

LEMMA ReferenceObjectStep == ASSUME IInv, NEW a \in Actors, ReferenceObject(a), Unmoved PROVE IInv'
  <1>1. /\ pc[a] = "reference" /\ Increment(obj[a]) /\ Goto(a, "release")
        /\ UNCHANGED <<type, deferred, item, started, flushed, ref, objectLocals>>
    BY DEF ReferenceObject
  <1>2. PICK s \in Slots : s = slot[a]
    BY <1>1 DEF IInv, ActorInv, EntryPoints, SharePoints
  <1>3. PICK o \in Objects : o = obj[a] /\ o = ref[s].object
    BY <1>1, <1>2 DEF IInv, ActorInv
  <1>4. /\ obj' = obj /\ old' = old /\ slot' = slot /\ ref' = ref
        /\ deferred' = deferred /\ flushed' = flushed /\ item' = item /\ started' = started
    BY <1>1 DEF objectLocals
  <1>5. /\ OthersStill(a) /\ pc'[a] = "release" /\ pc' \in [Actors -> Points]
        /\ mode' = mode /\ cid' = cid /\ TableType'
        /\ slot' \in [Actors -> Slots \cup {NULL}] /\ (Walks(a)' <=> Walks(a))
    BY <1>1, <1>4, AtomicMoves DEF IInv, TypeOK, ObjectType, Points, EntryPoints, SharePoints
  <1>6. EntryOf' = EntryOf /\ EntryOf[s] = o
    BY <1>3, <1>4 DEF EntryOf
  <1>7. count[o] \in Nat /\ count[o] >= 1
    BY <1>6, Referred
  <1>8. count' = [count EXCEPT ![o] = @ + 1]
    BY <1>1, <1>3 DEF Increment
  <1>9. /\ HeldBy[a] = NULL /\ HeldBy'[a] = o /\ StoredBy'[a] = StoredBy[a] /\ ReplacedBy'[a] = ReplacedBy[a]
    BY <1>1, <1>3, <1>4, <1>5 DEF HeldBy, StoredBy, ReplacedBy, StorePoints
  <1>10. \A w \in Objects : Tokens(a, w)' = Tokens(a, w) + One(w = o)
    BY <1>9, NullApart DEF Tokens, One
  <1>11. CountInv' /\ count' \in [Objects -> Nat \cup {NULL}]
    BY <1>5, <1>6, <1>7, <1>8, <1>10, CountUp
  <1>12. TypeOK'
    BY <1>4, <1>5, <1>11 DEF IInv, TypeOK, ObjectType
  <1>13. SharedBy'[a] = SharedBy[a] /\ LockedBy'[a] = LockedBy[a]
    BY <1>1, <1>4, <1>5 DEF SharedBy, LockedBy, SharePoints, LockPoints
  <1>14. LockInv'
    BY <1>4, <1>5, <1>13, LockKept
  <1>15. \A w \in Objects : count[w] = 0 => count'[w] = 0
    BY <1>7, <1>8 DEF IInv, TypeOK, ObjectType
  <1>16. DeathInv' /\ WorkerInv'
    BY <1>1, <1>4, <1>5, <1>15, DeathKept, WorkerKept
  <1>17. \A b \in Actors : b # a => ActorInv(b)'
    BY <1>4, <1>5, OthersKeptAll
  <1>18. ActorInv(a)'
    BY <1>2, <1>3, <1>4, <1>5 DEF ActorInv, EntryPoints, SharePoints, LockPoints, FreePoints, StorePoints, GetPoints
  <1> QED
    BY <1>11, <1>12, <1>14, <1>16, <1>17, <1>18 DEF IInv

LEMMA AssignReferenceStep == ASSUME IInv, NEW a \in Actors, AssignReference(a), Unmoved PROVE IInv'
  <1>1. /\ pc[a] = "assign" /\ Increment(obj[a]) /\ Goto(a, "exclusive")
        /\ UNCHANGED <<type, deferred, item, started, flushed, ref, objectLocals>>
    BY DEF AssignReference
  <1>2. PICK o \in Objects : o = obj[a] /\ slot[a] \in Slots /\ mode[a] = "track"
    BY <1>1 DEF IInv, ActorInv, EntryPoints
  <1>3. /\ obj' = obj /\ old' = old /\ slot' = slot /\ ref' = ref
        /\ deferred' = deferred /\ flushed' = flushed /\ item' = item /\ started' = started
    BY <1>1 DEF objectLocals
  <1>4. /\ OthersStill(a) /\ pc'[a] = "exclusive" /\ pc' \in [Actors -> Points]
        /\ mode' = mode /\ cid' = cid /\ TableType'
        /\ slot' \in [Actors -> Slots \cup {NULL}] /\ (Walks(a)' <=> Walks(a))
    BY <1>1, <1>3, AtomicMoves DEF IInv, TypeOK, ObjectType, Points, EntryPoints
  <1>5. EntryOf' = EntryOf
    BY <1>3 DEF EntryOf
  <1>6. /\ HeldBy[a] = o /\ HeldBy'[a] = HeldBy[a] /\ StoredBy[a] = NULL /\ StoredBy'[a] = o
        /\ ReplacedBy'[a] = ReplacedBy[a]
    BY <1>1, <1>2, <1>3, <1>4 DEF HeldBy, StoredBy, ReplacedBy, StorePoints
  <1>7. count[o] \in Nat /\ count[o] >= 1
    <2>1. Tokens(a, o) >= 1
      BY <1>6 DEF Tokens, One
    <2> QED
      BY <2>1, Referred
  <1>8. count' = [count EXCEPT ![o] = @ + 1]
    BY <1>1, <1>2 DEF Increment
  <1>9. \A w \in Objects : Tokens(a, w)' = Tokens(a, w) + One(w = o)
    BY <1>6, NullApart DEF Tokens, One
  <1>10. CountInv' /\ count' \in [Objects -> Nat \cup {NULL}]
    BY <1>4, <1>5, <1>7, <1>8, <1>9, CountUp
  <1>11. TypeOK'
    BY <1>3, <1>4, <1>10 DEF IInv, TypeOK, ObjectType
  <1>12. SharedBy'[a] = SharedBy[a] /\ LockedBy'[a] = LockedBy[a]
    BY <1>1, <1>3, <1>4 DEF SharedBy, LockedBy, SharePoints, LockPoints
  <1>13. LockInv'
    BY <1>3, <1>4, <1>12, LockKept
  <1>14. \A w \in Objects : count[w] = 0 => count'[w] = 0
    BY <1>7, <1>8 DEF IInv, TypeOK, ObjectType
  <1>15. DeathInv' /\ WorkerInv'
    BY <1>1, <1>3, <1>4, <1>14, DeathKept, WorkerKept
  <1>16. \A b \in Actors : b # a => ActorInv(b)'
    BY <1>3, <1>4, OthersKeptAll
  <1>17. ActorInv(a)'
    BY <1>2, <1>3, <1>4 DEF ActorInv, EntryPoints, SharePoints, LockPoints, FreePoints, StorePoints, GetPoints
  <1> QED
    BY <1>10, <1>11, <1>13, <1>15, <1>16, <1>17 DEF IInv

LEMMA AcquireExclusiveStep == ASSUME IInv, NEW a \in Actors, AcquireExclusive(a), Unmoved PROVE IInv'
  <1>1. /\ pc[a] = "exclusive" /\ ~ref[slot[a]].exclusive /\ ref' = [ref EXCEPT ![slot[a]].exclusive = TRUE]
        /\ Goto(a, "drain") /\ UNCHANGED <<objects, objectLocals>>
    BY DEF AcquireExclusive
  <1>2. PICK s \in Slots : s = slot[a] /\ (mode[a] = "track" => obj[a] \in Objects)
    BY <1>1 DEF IInv, ActorInv, EntryPoints, StorePoints
  <1>3. /\ obj' = obj /\ old' = old /\ slot' = slot
        /\ count' = count /\ deferred' = deferred /\ flushed' = flushed /\ item' = item /\ started' = started
    BY <1>1 DEF objects, objectLocals
  <1>4. /\ OthersStill(a) /\ pc'[a] = "drain" /\ pc' \in [Actors -> Points]
        /\ mode' = mode /\ cid' = cid /\ TableType'
        /\ slot' \in [Actors -> Slots \cup {NULL}] /\ (Walks(a)' <=> Walks(a))
    BY <1>1, <1>3, AtomicMoves DEF IInv, TypeOK, ObjectType, Points, EntryPoints, LockPoints
  <1>5. ref' = [ref EXCEPT ![s].exclusive = TRUE] /\ ~ref[s].exclusive
    BY <1>1, <1>2
  <1>6. /\ ref' \in [Slots -> AtomicRefs] /\ EntryOf' = EntryOf /\ ref'[s].exclusive
        /\ \A r \in Slots : ref'[r].object = ref[r].object /\ ref'[r].shared = ref[r].shared
        /\ \A r \in Slots : r # s => ref'[r].exclusive = ref[r].exclusive
    BY <1>5, BitChange DEF IInv, TypeOK
  <1>7. TypeOK'
    BY <1>3, <1>4, <1>6 DEF IInv, TypeOK, ObjectType
  <1>8. HeldBy'[a] = HeldBy[a] /\ StoredBy'[a] = StoredBy[a] /\ ReplacedBy'[a] = ReplacedBy[a]
    BY <1>1, <1>3, <1>4 DEF HeldBy, StoredBy, ReplacedBy, StorePoints
  <1>9. CountInv'
    BY <1>3, <1>4, <1>6, <1>8, CountKept
  <1>10. SharedBy[a] = NULL /\ SharedBy'[a] = NULL /\ LockedBy[a] = NULL /\ LockedBy'[a] = s
    BY <1>1, <1>2, <1>3, <1>4 DEF SharedBy, LockedBy, SharePoints, LockPoints
  <1>11. LockInv'
    <2>1. ASSUME NEW r \in Slots PROVE ref'[r].shared = ref[r].shared + One(SharedBy'[a] = r) - One(SharedBy[a] = r)
      <3>1. ref[r].shared \in Nat
        BY DEF IInv, TypeOK, ObjectType, AtomicRefs
      <3> QED
        BY <1>6, <1>10, <3>1 DEF One
    <2>2. ASSUME NEW r \in Slots
          PROVE  One(ref'[r].exclusive) = One(ref[r].exclusive) + One(LockedBy'[a] = r) - One(LockedBy[a] = r)
      <3>1. r # NULL
        BY NullApart
      <3> QED
        BY <1>5, <1>6, <1>10, <3>1 DEF One
    <2> QED
      BY <1>4, <2>1, <2>2, LockMoves
  <1>12. DeathInv' /\ WorkerInv'
    BY <1>1, <1>3, <1>4, DeathKept, WorkerKept
  <1>13. ASSUME NEW b \in Actors, b # a PROVE ActorInv(b)'
    <2>1. pc[b] \in {"reference", "store", "previous", "unlock"} => slot[b] \in Slots
      BY LockFacts DEF LockPoints, SharePoints
    <2> QED
      BY <1>4, <1>6, <1>13, <2>1, OthersKept
  <1>14. ActorInv(a)'
    BY <1>2, <1>3, <1>4 DEF ActorInv, EntryPoints, SharePoints, LockPoints, FreePoints, StorePoints, GetPoints
  <1> QED
    BY <1>7, <1>9, <1>11, <1>12, <1>13, <1>14 DEF IInv

\* Inside the exclusive lock, before the entry is changed.
LEMMA LockedStep ==
    ASSUME IInv, NEW a \in Actors, Drain(a) \/ ReadPrevious(a), Unmoved
    PROVE  IInv'
  <1>1. PICK p \in {"previous", "store"} :
           /\ Goto(a, p) /\ UNCHANGED <<objects, ref, slot, obj>>
           /\ p = "previous" => pc[a] = "drain" /\ ref[slot[a]].shared = 0 /\ old' = old
           /\ p = "store" => pc[a] = "previous" /\ old' = [old EXCEPT ![a] = ref[slot[a]].object]
    BY DEF Drain, ReadPrevious, Drained, objectLocals
  <1>2. PICK s \in Slots : s = slot[a] /\ (mode[a] = "track" => obj[a] \in Objects)
    BY <1>1 DEF IInv, ActorInv, EntryPoints, LockPoints, StorePoints
  <1>3. ref[s].object \in Objects \cup {NULL} /\ ref[s].shared = 0
    BY <1>1, <1>2 DEF IInv, ActorInv, TypeOK, ObjectType, AtomicRefs
  <1>4. /\ old' \in [Actors -> Objects \cup {NULL}] /\ \A b \in Actors : b # a => old'[b] = old[b]
        /\ p = "store" => old'[a] = ref[s].object
    BY <1>1, <1>2, <1>3 DEF IInv, TypeOK, ObjectType
  <1>5. /\ obj' = obj /\ slot' = slot /\ ref' = ref
        /\ count' = count /\ deferred' = deferred /\ flushed' = flushed /\ item' = item /\ started' = started
    BY <1>1 DEF objects
  <1>6. /\ OthersStill(a) /\ pc'[a] = p /\ pc' \in [Actors -> Points]
        /\ mode' = mode /\ cid' = cid /\ TableType'
        /\ slot' \in [Actors -> Slots \cup {NULL}] /\ (Walks(a)' <=> Walks(a))
    BY <1>1, <1>4, <1>5, AtomicMoves DEF IInv, TypeOK, ObjectType, Points, EntryPoints, LockPoints
  <1>7. TypeOK'
    BY <1>4, <1>5, <1>6 DEF IInv, TypeOK, ObjectType
  <1>8. HeldBy'[a] = HeldBy[a] /\ StoredBy'[a] = StoredBy[a] /\ ReplacedBy'[a] = ReplacedBy[a]
    BY <1>1, <1>5, <1>6 DEF HeldBy, StoredBy, ReplacedBy, StorePoints
  <1>9. EntryOf' = EntryOf
    BY <1>5 DEF EntryOf
  <1>10. CountInv'
    BY <1>5, <1>6, <1>8, <1>9, CountKept
  <1>11. SharedBy'[a] = SharedBy[a] /\ LockedBy'[a] = LockedBy[a]
    BY <1>1, <1>5, <1>6 DEF SharedBy, LockedBy, SharePoints, LockPoints
  <1>12. LockInv'
    BY <1>5, <1>6, <1>11, LockKept
  <1>13. DeathInv' /\ WorkerInv'
    BY <1>1, <1>5, <1>6, DeathKept, WorkerKept
  <1>14. \A b \in Actors : b # a => ActorInv(b)'
    BY <1>5, <1>6, OthersKeptAll
  <1>15. ActorInv(a)'
    BY <1>2, <1>3, <1>4, <1>5, <1>6 DEF ActorInv, EntryPoints, SharePoints, LockPoints, FreePoints, StorePoints, GetPoints
  <1> QED
    BY <1>7, <1>10, <1>12, <1>13, <1>14, <1>15 DEF IInv

LEMMA StoreStep == ASSUME IInv, NEW a \in Actors, StoreContext(a) PROVE IInv'
  <1>1. PICK new : /\ new = IF mode[a] = "track" THEN obj[a] ELSE NULL
                   /\ pc[a] = "store" /\ Goto(a, "unlock") /\ UNCHANGED <<objects, objectLocals>> /\ Unmoved
                   /\ ref' = [ref EXCEPT ![slot[a]] = [object |-> new, shared |-> 0, exclusive |-> TRUE]]
    BY DEF StoreContext, Store, Unmoved
  <1>2. PICK s \in Slots : /\ s = slot[a] /\ (mode[a] = "track" => obj[a] \in Objects)
                           /\ old[a] = ref[s].object /\ ref[s].shared = 0
    BY <1>1 DEF IInv, ActorInv, EntryPoints, LockPoints, StorePoints
  <1>3. ref[s].exclusive
    BY <1>1, <1>2, LockFacts DEF LockPoints
  <1>4. /\ obj' = obj /\ old' = old /\ slot' = slot
        /\ count' = count /\ deferred' = deferred /\ flushed' = flushed /\ item' = item /\ started' = started
    BY <1>1 DEF objects, objectLocals
  <1>5. /\ OthersStill(a) /\ pc'[a] = "unlock" /\ pc' \in [Actors -> Points]
        /\ mode' = mode /\ cid' = cid /\ TableType'
        /\ slot' \in [Actors -> Slots \cup {NULL}] /\ (Walks(a)' <=> Walks(a))
    BY <1>1, <1>4, AtomicMoves DEF IInv, TypeOK, ObjectType, Points, EntryPoints, LockPoints
  <1>6. new \in Objects \cup {NULL}
    BY <1>1, <1>2
  <1>7. /\ ref' \in [Slots -> AtomicRefs] /\ ref'[s].shared = 0 /\ ref'[s].exclusive /\ ref'[s].object = new
        /\ \A r \in Slots : r # s => ref'[r] = ref[r]
    <2>1. [object |-> new, shared |-> 0, exclusive |-> TRUE] \in AtomicRefs
      BY <1>6 DEF AtomicRefs
    <2> QED
      BY <1>1, <1>2, <2>1 DEF IInv, TypeOK, ObjectType
  <1>8. TypeOK'
    BY <1>4, <1>5, <1>7 DEF IInv, TypeOK, ObjectType
  <1>9. EntryOf' = [EntryOf EXCEPT ![s] = EntryOf'[s]] /\ EntryOf'[s] = new /\ EntryOf[s] = old[a]
    BY <1>2, <1>7 DEF EntryOf
  <1>10. /\ HeldBy'[a] = HeldBy[a] /\ StoredBy[a] = new /\ StoredBy'[a] = NULL
         /\ ReplacedBy[a] = NULL /\ ReplacedBy'[a] = old[a]
    BY <1>1, <1>4, <1>5 DEF HeldBy, StoredBy, ReplacedBy, StorePoints
  <1>11. ASSUME NEW o \in Objects PROVE Total(o)' = Total(o)
    <2>1. Total(o)' = Total(o) + Tokens(a, o)' - Tokens(a, o) + One(EntryOf'[s] = o) - One(EntryOf[s] = o)
      BY <1>5, <1>9, TotalStores
    <2>2. Total(o) \in Nat /\ NULL # o
      BY TotalIs, NullApart
    <2>3. Tokens(a, o) = One(HeldBy[a] = o) + One(new = o)
      BY <1>10, <2>2 DEF Tokens, One
    <2>4. Tokens(a, o)' = One(HeldBy[a] = o) + One(old[a] = o)
      BY <1>10, <2>2 DEF Tokens, One
    <2>5. One(HeldBy[a] = o) \in Int /\ One(new = o) \in Int /\ One(old[a] = o) \in Int
      BY DEF One
    <2> QED
      BY <1>9, <2>1, <2>2, <2>3, <2>4, <2>5
  <1>12. CountInv'
    BY <1>4, <1>11 DEF IInv, CountInv
  <1>13. SharedBy'[a] = SharedBy[a] /\ LockedBy'[a] = LockedBy[a]
    BY <1>1, <1>4, <1>5 DEF SharedBy, LockedBy, SharePoints, LockPoints
  <1>14. LockInv'
    <2>1. ref[s].exclusive = ref'[s].exclusive
      BY <1>3, <1>7 DEF IInv, TypeOK, ObjectType, AtomicRefs
    <2> QED
      BY <1>2, <1>5, <1>7, <1>13, <2>1, LockKept
  <1>15. DeathInv' /\ WorkerInv'
    BY <1>1, <1>4, <1>5, DeathKept, WorkerKept
  <1>16. ASSUME NEW b \in Actors, b # a PROVE ActorInv(b)'
    <2>1. pc[b] \in {"reference", "store", "previous", "unlock"} => slot[b] \in Slots
      BY LockFacts DEF LockPoints, SharePoints
    <2>2. pc[b] \in {"store", "previous", "unlock"} => slot[b] # s
      BY <1>1, <1>2, <1>16, LockFacts DEF LockPoints
    <2>3. pc[b] = "reference" => slot[b] # s
      BY <1>2, LockFacts DEF SharePoints
    <2> QED
      BY <1>5, <1>7, <1>16, <2>1, <2>2, <2>3, OthersKept
  <1>17. ActorInv(a)'
    BY <1>2, <1>4, <1>5, <1>7 DEF ActorInv, EntryPoints, SharePoints, LockPoints, FreePoints, StorePoints, GetPoints
  <1> QED
    BY <1>8, <1>12, <1>14, <1>15, <1>16, <1>17 DEF IInv
-----------------------------------------------------------------------------
(* Giving up locks and references *)

\* A step that goes on with the call or returns.
LEMMA KeptMoves ==
    ASSUME IInv, NEW a \in Actors, NEW p \in Points, Goto(a, p), KeepCall(a), UNCHANGED tableVars,
           slot' \in [Actors -> Slots \cup {NULL}],
           obj' \in [Actors -> Objects \cup {NULL}], old' \in [Actors -> Objects \cup {NULL}],
           \A b \in Actors : b # a => slot'[b] = slot[b] /\ obj'[b] = obj[b] /\ old'[b] = old[b]
    PROVE  /\ OthersStill(a) /\ pc'[a] = p /\ pc' \in [Actors -> Points] /\ TableType'
           /\ p # "idle" => mode'[a] = mode[a] /\ cid'[a] = cid[a]
  <1>1. pc' \in [Actors -> Points] /\ pc'[a] = p /\ \A b \in Actors : b # a => pc'[b] = pc[b]
    BY PcMoves DEF IInv, TypeOK
  <1>2. /\ mode' \in [Actors -> Modes] /\ cid' \in [Actors -> Nat] /\ top' \in [Actors -> Tables]
        /\ \A b \in Actors : b # a => mode'[b] = mode[b] /\ cid'[b] = cid[b]
        /\ pc'[a] # "idle" => mode'[a] = mode[a] /\ cid'[a] = cid[a]
    BY KeptCall DEF IInv, TypeOK
  <1> QED
    BY <1>1, <1>2 DEF OthersStill, Still, IInv, TypeOK, TableType, tableVars

LEMMA AfterReferenceIs ==
    ASSUME IInv, NEW a \in Actors
    PROVE  LET p == AfterReference(a) IN
           /\ p \in {"held", "visit", "drop", "exclusive", "create", "idle"}
           /\ p \in {"held", "drop"} => obj[a] # NULL
           /\ p \in {"visit", "create", "idle"} => obj[a] = NULL
           /\ p = "exclusive" => mode[a] = "untrack"
           /\ p = "create" => mode[a] = "track"
  BY DEF AfterReference

LEMMA ReferencedStep == ASSUME IInv, NEW a \in Actors, Referenced(a) PROVE IInv'
  <1>1. PICK p \in {"held", "visit", "drop", "exclusive", "create", "idle"} :
           /\ ReleaseShared(a, p)
           /\ p \in {"held", "drop"} => obj[a] # NULL
           /\ p \in {"visit", "create", "idle"} => obj[a] = NULL
           /\ p = "exclusive" => mode[a] = "untrack"
           /\ p = "create" => mode[a] = "track"
    BY AfterReferenceIs DEF Referenced
  <1>2. /\ pc[a] = "release" /\ ref' = [ref EXCEPT ![slot[a]].shared = @ - 1]
        /\ Goto(a, p) /\ UNCHANGED objects /\ KeepObjects(a)
    BY <1>1 DEF ReleaseShared
  <1>3. KeepCall(a) /\ UNCHANGED tableVars
    BY DEF Referenced
  <1>4. p \in Points
    BY DEF Points, FreePoints, EntryPoints
  <1>5. PICK s \in Slots : s = slot[a] /\ ref[s].shared >= 1
    BY <1>2, LockFacts DEF SharePoints
  <1>6. /\ slot' \in [Actors -> Slots \cup {NULL}]
        /\ obj' \in [Actors -> Objects \cup {NULL}] /\ old' \in [Actors -> Objects \cup {NULL}]
        /\ \A b \in Actors : b # a => slot'[b] = slot[b] /\ obj'[b] = obj[b] /\ old'[b] = old[b]
        /\ pc'[a] # "idle" => slot'[a] = slot[a] /\ obj'[a] = obj[a] /\ old'[a] = old[a]
        /\ pc'[a] = "idle" => obj'[a] = NULL
    BY <1>2, KeptObjects DEF IInv, TypeOK
  <1>7. /\ OthersStill(a) /\ pc'[a] = p /\ pc' \in [Actors -> Points] /\ TableType'
        /\ p # "idle" => mode'[a] = mode[a] /\ cid'[a] = cid[a]
    BY <1>2, <1>3, <1>4, <1>6, KeptMoves
  <1>8. count' = count /\ deferred' = deferred /\ flushed' = flushed /\ item' = item /\ started' = started
    BY <1>2 DEF objects
  <1>9. obj'[a] = obj[a] /\ obj[a] \in Objects \cup {NULL}
    BY <1>1, <1>6, <1>7 DEF IInv, TypeOK, ObjectType
  <1>10. ref[s].shared \in Nat
    BY DEF IInv, TypeOK, ObjectType, AtomicRefs
  <1>11. PICK n \in Nat : n = ref[s].shared - 1 /\ ref[s].shared \in Nat
    BY <1>5, <1>10
  <1>12. ref' = [ref EXCEPT ![s].shared = n]
    BY <1>2, <1>5, <1>11
  <1>13. /\ ref' \in [Slots -> AtomicRefs] /\ EntryOf' = EntryOf /\ ref'[s].shared = n
         /\ \A r \in Slots : ref'[r].object = ref[r].object /\ ref'[r].exclusive = ref[r].exclusive
         /\ \A r \in Slots : r # s => ref'[r].shared = ref[r].shared
    BY <1>12, RefChange DEF IInv, TypeOK
  <1>14. TypeOK'
    BY <1>6, <1>7, <1>8, <1>13 DEF IInv, TypeOK, ObjectType
  <1>15. HeldBy'[a] = HeldBy[a] /\ ReplacedBy'[a] = ReplacedBy[a]
    BY <1>2, <1>7, <1>9 DEF HeldBy, ReplacedBy
  <1>16. StoredBy'[a] = StoredBy[a]
    <2>1. StoredBy[a] = NULL
      BY <1>2 DEF StoredBy, StorePoints
    <2>2. p = "exclusive" => mode'[a] # "track"
      BY <1>1, <1>7
    <2>3. ~(mode'[a] = "track" /\ pc'[a] \in StorePoints)
      BY <1>7, <2>2 DEF StorePoints
    <2> QED
      BY <2>1, <2>3 DEF StoredBy
  <1>17. CountInv'
    BY <1>7, <1>8, <1>13, <1>15, <1>16, CountKept
  <1>18. SharedBy[a] = s /\ SharedBy'[a] = NULL /\ LockedBy[a] = NULL /\ LockedBy'[a] = NULL
    BY <1>2, <1>5, <1>7 DEF SharedBy, LockedBy, SharePoints, LockPoints
  <1>19. LockInv'
    <2>1. ASSUME NEW r \in Slots PROVE ref'[r].shared = ref[r].shared + One(SharedBy'[a] = r) - One(SharedBy[a] = r)
      <3>1. ref[r].shared \in Nat /\ r # NULL
        BY NullApart DEF IInv, TypeOK, ObjectType, AtomicRefs
      <3> QED
        BY <1>11, <1>13, <1>18, <3>1 DEF One
    <2>2. ASSUME NEW r \in Slots
          PROVE  One(ref'[r].exclusive) = One(ref[r].exclusive) + One(LockedBy'[a] = r) - One(LockedBy[a] = r)
      BY <1>13, <1>18 DEF One
    <2> QED
      BY <1>7, <2>1, <2>2, LockMoves
  <1>20. DeathInv' /\ WorkerInv'
    BY <1>2, <1>7, <1>8, DeathKept, WorkerKept
  <1>21. ASSUME NEW b \in Actors, b # a PROVE ActorInv(b)'
    <2>1. pc[b] \in {"previous", "store", "unlock"} => slot[b] # s /\ slot[b] \in Slots
      <3>1. pc[b] \in {"previous", "store", "unlock"} => ref[slot[b]].shared = 0 /\ slot[b] \in Slots
        BY LockFacts DEF IInv, ActorInv, LockPoints
      <3> QED
        BY <1>5, <3>1
    <2>2. pc[b] \in {"reference", "store"} => slot[b] \in Slots
      BY LockFacts DEF LockPoints, SharePoints
    <2> QED
      BY <1>7, <1>13, <1>21, <2>1, <2>2, OthersKept
  <1>22. ActorInv(a)'
    <2>1. p # "idle" => slot'[a] = s
      BY <1>5, <1>6, <1>7
    <2> QED
      BY <1>1, <1>7, <1>9, <2>1 DEF ActorInv, EntryPoints, SharePoints, LockPoints, FreePoints, StorePoints, GetPoints
  <1> QED
    BY <1>14, <1>17, <1>19, <1>20, <1>21, <1>22 DEF IInv

LEMMA AfterIs ==
    ASSUME NEW a \in Actors
    PROVE  /\ After(a) \in {"held", "visit", "idle"}
           /\ After(a) = "held" => obj[a] # NULL
           /\ After(a) \in {"visit", "idle"} => obj[a] = NULL
  BY DEF After

LEMMA StoredStep == ASSUME IInv, NEW a \in Actors, Stored(a) PROVE IInv'
  <1>1. PICK p \in {"replaced", "held", "visit", "idle"} :
           /\ ReleaseExclusive(a, p)
           /\ p = "replaced" <=> old[a] # NULL
           /\ p = "held" => obj[a] # NULL
           /\ p \in {"visit", "idle"} => obj[a] = NULL
    BY AfterIs DEF Stored, Replaced
  <1>2. /\ pc[a] = "unlock" /\ ref' = [ref EXCEPT ![slot[a]].exclusive = FALSE]
        /\ Goto(a, p) /\ UNCHANGED objects /\ KeepObjects(a)
    BY <1>1 DEF ReleaseExclusive
  <1>3. KeepCall(a) /\ UNCHANGED tableVars
    BY DEF Stored
  <1>4. p \in Points
    BY DEF Points, FreePoints
  <1>5. PICK s \in Slots : s = slot[a] /\ ref[s].exclusive
    BY <1>2, LockFacts DEF LockPoints
  <1>6. /\ slot' \in [Actors -> Slots \cup {NULL}]
        /\ obj' \in [Actors -> Objects \cup {NULL}] /\ old' \in [Actors -> Objects \cup {NULL}]
        /\ \A b \in Actors : b # a => slot'[b] = slot[b] /\ obj'[b] = obj[b] /\ old'[b] = old[b]
        /\ pc'[a] # "idle" => slot'[a] = slot[a] /\ obj'[a] = obj[a] /\ old'[a] = old[a]
        /\ pc'[a] = "idle" => obj'[a] = NULL
    BY <1>2, KeptObjects DEF IInv, TypeOK
  <1>7. /\ OthersStill(a) /\ pc'[a] = p /\ pc' \in [Actors -> Points] /\ TableType'
        /\ p # "idle" => mode'[a] = mode[a] /\ cid'[a] = cid[a]
    BY <1>2, <1>3, <1>4, <1>6, KeptMoves
  <1>8. count' = count /\ deferred' = deferred /\ flushed' = flushed /\ item' = item /\ started' = started
    BY <1>2 DEF objects
  <1>9. obj'[a] = obj[a] /\ obj[a] \in Objects \cup {NULL} /\ old[a] \in Objects \cup {NULL}
    BY <1>1, <1>6, <1>7 DEF IInv, TypeOK, ObjectType
  <1>10. ref' = [ref EXCEPT ![s].exclusive = FALSE]
    BY <1>2, <1>5
  <1>11. /\ ref' \in [Slots -> AtomicRefs] /\ EntryOf' = EntryOf /\ ref'[s].exclusive = FALSE
         /\ \A r \in Slots : ref'[r].object = ref[r].object /\ ref'[r].shared = ref[r].shared
         /\ \A r \in Slots : r # s => ref'[r].exclusive = ref[r].exclusive
    BY <1>10, BitChange DEF IInv, TypeOK
  <1>12. TypeOK'
    BY <1>6, <1>7, <1>8, <1>11 DEF IInv, TypeOK, ObjectType
  <1>13. HeldBy'[a] = HeldBy[a]
    BY <1>2, <1>7, <1>9 DEF HeldBy
  <1>14. StoredBy'[a] = StoredBy[a]
    BY <1>2, <1>7 DEF StoredBy, StorePoints
  <1>15. ReplacedBy'[a] = ReplacedBy[a]
    BY <1>1, <1>2, <1>6, <1>7 DEF ReplacedBy
  <1>16. CountInv'
    BY <1>7, <1>8, <1>11, <1>13, <1>14, <1>15, CountKept
  <1>17. SharedBy[a] = NULL /\ SharedBy'[a] = NULL /\ LockedBy[a] = s /\ LockedBy'[a] = NULL
    BY <1>2, <1>5, <1>7 DEF SharedBy, LockedBy, SharePoints, LockPoints
  <1>18. LockInv'
    <2>1. ASSUME NEW r \in Slots PROVE ref'[r].shared = ref[r].shared + One(SharedBy'[a] = r) - One(SharedBy[a] = r)
      <3>1. ref[r].shared \in Nat
        BY DEF IInv, TypeOK, ObjectType, AtomicRefs
      <3> QED
        BY <1>11, <1>17, <3>1 DEF One
    <2>2. ASSUME NEW r \in Slots
          PROVE  One(ref'[r].exclusive) = One(ref[r].exclusive) + One(LockedBy'[a] = r) - One(LockedBy[a] = r)
      <3>1. r # NULL
        BY NullApart
      <3> QED
        BY <1>5, <1>11, <1>17, <3>1 DEF One
    <2> QED
      BY <1>7, <2>1, <2>2, LockMoves
  <1>19. DeathInv' /\ WorkerInv'
    BY <1>2, <1>7, <1>8, DeathKept, WorkerKept
  <1>20. ASSUME NEW b \in Actors, b # a PROVE ActorInv(b)'
    <2>1. pc[b] \in {"reference", "store", "previous", "unlock"} => slot[b] \in Slots
      BY LockFacts DEF LockPoints, SharePoints
    <2> QED
      BY <1>7, <1>11, <1>20, <2>1, OthersKept
  <1>21. ActorInv(a)'
    <2>1. p = "replaced" => old'[a] \in Objects
      BY <1>1, <1>6, <1>7, <1>9
    <2> QED
      BY <1>1, <1>7, <1>9, <2>1 DEF ActorInv, EntryPoints, SharePoints, LockPoints, FreePoints, StorePoints, GetPoints
  <1> QED
    BY <1>12, <1>16, <1>18, <1>19, <1>20, <1>21 DEF IInv

LEMMA CreateStep == ASSUME IInv, NEW a \in Actors, Create(a) PROVE IInv'
  <1>1. pc[a] = "create" /\ KeepCall(a) /\ UNCHANGED tableVars /\ obj[a] = NULL /\ mode[a] = "track" /\ slot[a] \in Slots
    BY DEF Create, IInv, ActorInv, FreePoints, EntryPoints
  <1>2. CASE Goto(a, "idle") /\ KeepObjects(a) /\ UNCHANGED <<objects, ref>>
    <2>1. used' \in Nat
      BY <1>1 DEF IInv, TypeOK, TableType, tableVars
    <2> QED
      BY <1>1, <1>2, <2>1, ReturnStep DEF OutPoints, FreePoints, tableVars
  <1>3. CASE CreateObject(a, asked[a]) /\ Goto(a, "assign")
    <2>1. PICK o \in Objects :
             /\ count[o] = NULL /\ count' = [count EXCEPT ![o] = 1] /\ obj' = [obj EXCEPT ![a] = o]
             /\ UNCHANGED <<deferred, item, started, flushed, ref, slot, old>>
      BY <1>3 DEF CreateObject
    <2>2. obj' \in [Actors -> Objects \cup {NULL}] /\ obj'[a] = o /\ \A b \in Actors : b # a => obj'[b] = obj[b]
      BY <2>1 DEF IInv, TypeOK, ObjectType
    <2>3. /\ OthersStill(a) /\ pc'[a] = "assign" /\ pc' \in [Actors -> Points] /\ TableType'
          /\ mode'[a] = mode[a] /\ cid'[a] = cid[a]
      BY <1>1, <1>3, <2>1, <2>2, KeptMoves DEF IInv, TypeOK, ObjectType, Points, EntryPoints
    <2>4. EntryOf' = EntryOf
      BY <2>1 DEF EntryOf
    <2>5. HeldBy[a] = NULL /\ HeldBy'[a] = o /\ StoredBy'[a] = StoredBy[a] /\ ReplacedBy'[a] = ReplacedBy[a]
      BY <1>1, <2>2, <2>3 DEF HeldBy, StoredBy, ReplacedBy, StorePoints
    <2>6. ASSUME NEW w \in Objects PROVE Total(w)' = IF count'[w] = NULL THEN 0 ELSE count'[w]
      <3>1. Total(w)' = Total(w) + Tokens(a, w)' - Tokens(a, w)
        BY <2>3, <2>4, TotalMoves
      <3>2. Total(w) \in Nat /\ Total(w) = IF count[w] = NULL THEN 0 ELSE count[w]
        BY TotalIs DEF IInv, CountInv
      <3>3. Tokens(a, w)' = Tokens(a, w) + One(w = o)
        BY <2>5, NullApart DEF Tokens, One
      <3>4. Tokens(a, w) \in Int /\ One(w = o) \in Int
        BY DEF Tokens, One
      <3>5. Total(w)' = Total(w) + One(w = o)
        BY <3>1, <3>2, <3>3, <3>4
      <3>6. count'[w] = IF w = o THEN 1 ELSE count[w]
        BY <2>1 DEF IInv, TypeOK, ObjectType
      <3> QED
        BY <2>1, <3>2, <3>5, <3>6, NullApart DEF One
    <2>7. CountInv'
      BY <2>6 DEF CountInv
    <2>8. count' \in [Objects -> Nat \cup {NULL}]
      BY <2>1 DEF IInv, TypeOK, ObjectType
    <2>9. TypeOK'
      BY <2>1, <2>2, <2>3, <2>8 DEF IInv, TypeOK, ObjectType
    <2>10. SharedBy'[a] = SharedBy[a] /\ LockedBy'[a] = LockedBy[a]
      BY <1>1, <2>3 DEF SharedBy, LockedBy, SharePoints, LockPoints
    <2>11. LockInv'
      BY <2>1, <2>3, <2>10, LockKept
    <2>12. \A w \in Objects : count[w] = 0 => count'[w] = 0
      BY <2>1, NullApart DEF IInv, TypeOK, ObjectType
    <2>13. DeathInv' /\ WorkerInv'
      BY <1>1, <2>1, <2>3, <2>12, DeathKept, WorkerKept
    <2>14. \A b \in Actors : b # a => ActorInv(b)'
      BY <2>1, <2>3, OthersKeptAll
    <2>15. ActorInv(a)'
      BY <1>1, <2>1, <2>2, <2>3 DEF ActorInv, EntryPoints, SharePoints, LockPoints, FreePoints, StorePoints, GetPoints
    <2> QED
      BY <2>7, <2>9, <2>11, <2>13, <2>14, <2>15 DEF IInv
  <1> QED
    BY <1>2, <1>3 DEF Create

\* The reference to o, which only actor a has in one of its roles, is given up.
LEMMA DereferenceStep ==
    ASSUME IInv, NEW a \in Actors, NEW o \in Objects, NEW p \in {"held", "visit", "idle"}, Dereference(a, o, p),
           pc[a] \in {"replaced", "held", "drop"}, TableType',
           \A b \in Actors : b # a => mode'[b] = mode[b] /\ cid'[b] = cid[b] /\ obj'[b] = obj[b],
           obj' \in [Actors -> Objects \cup {NULL}],
           HeldBy[a] = obj[a],
           \/ pc[a] = "replaced" /\ o = old[a] /\ obj'[a] = obj[a]
           \/ pc[a] # "replaced" /\ o = obj[a] /\ obj'[a] = NULL,
           p = "held" => obj'[a] # NULL, p # "held" => obj'[a] = NULL
    PROVE  IInv'
  <1>1. /\ count' = [count EXCEPT ![o] = @ - 1] /\ Goto(a, IF count[o] - 1 > 0 THEN p ELSE "push")
        /\ old' = [old EXCEPT ![a] = IF pc'[a] = "push" THEN o ELSE NULL]
        /\ slot' = [slot EXCEPT ![a] = NULL]
        /\ deferred' = deferred /\ item' = item /\ started' = started /\ flushed' = flushed /\ ref' = ref
    BY DEF Dereference
  <1>2. PICK q \in {"held", "visit", "idle", "push"} :
           Goto(a, q) /\ (q = "push" <=> ~(count[o] - 1 > 0)) /\ (q # "push" => q = p)
    BY <1>1
  <1>3. pc' \in [Actors -> Points] /\ pc'[a] = q /\ \A b \in Actors : b # a => pc'[b] = pc[b]
    BY <1>2, PcMoves DEF IInv, TypeOK, Points, FreePoints
  <1>4. /\ old' \in [Actors -> Objects \cup {NULL}] /\ old'[a] = (IF q = "push" THEN o ELSE NULL)
        /\ \A b \in Actors : b # a => old'[b] = old[b]
    BY <1>1, <1>3 DEF IInv, TypeOK, ObjectType
  <1>5. slot' \in [Actors -> Slots \cup {NULL}] /\ \A b \in Actors : b # a => slot'[b] = slot[b]
    BY <1>1 DEF IInv, TypeOK, ObjectType
  <1>6. OthersStill(a)
    BY <1>3, <1>4, <1>5 DEF OthersStill, Still
  <1>7. EntryOf' = EntryOf
    BY <1>1 DEF EntryOf
  <1>8. HeldBy'[a] = obj'[a] /\ StoredBy[a] = NULL /\ StoredBy'[a] = NULL /\ ReplacedBy'[a] = NULL
    BY <1>3 DEF HeldBy, StoredBy, ReplacedBy, StorePoints
  <1>9. ReplacedBy[a] = IF pc[a] = "replaced" THEN old[a] ELSE NULL
    BY DEF ReplacedBy
  <1>10. \A w \in Objects : Tokens(a, w) = Tokens(a, w)' + One(w = o)
    <2>1. ASSUME NEW w \in Objects PROVE Tokens(a, w) = Tokens(a, w)' + One(w = o)
      <3>1. w # NULL
        BY NullApart
      <3>2. CASE pc[a] = "replaced"
        BY <1>8, <1>9, <3>1, <3>2 DEF Tokens, One
      <3>3. CASE pc[a] # "replaced"
        BY <1>8, <1>9, <3>1, <3>3 DEF Tokens, One
      <3> QED
        BY <3>2, <3>3
    <2> QED
      BY <2>1
  <1>11. CountInv' /\ count' \in [Objects -> Nat \cup {NULL}] /\ count[o] \in Nat /\ count[o] >= 1
    BY <1>1, <1>6, <1>7, <1>10, CountDown
  <1>12. TypeOK'
    BY <1>1, <1>3, <1>4, <1>5, <1>11 DEF IInv, TypeOK, ObjectType
  <1>13. SharedBy'[a] = SharedBy[a] /\ LockedBy'[a] = LockedBy[a]
    BY <1>3 DEF SharedBy, LockedBy, SharePoints, LockPoints
  <1>14. LockInv'
    BY <1>1, <1>6, <1>13, LockKept
  <1>15. WorkerInv'
    BY <1>1, <1>3, <1>6, WorkerKept
  <1>16. /\ \A w \in Objects : count[w] = 0 => w # o /\ count'[w] = 0
         /\ q = "push" => count'[o] = 0
    BY <1>1, <1>2, <1>11 DEF IInv, TypeOK, ObjectType
  <1>17. DeathInv'
    <2>1. CASE q # "push"
      BY <1>1, <1>3, <1>6, <1>16, <2>1, DeathKept
    <2>2. CASE q = "push"
      <3>1. Elements(deferred) \subseteq Objects /\ flushed \subseteq Objects /\ Elements(deferred)' = Elements(deferred)
        BY <1>1 DEF IInv, TypeOK, ObjectType, Elements
      <3>2. /\ \A w \in flushed \cup Elements(deferred) : w # o /\ count'[w] = 0
            /\ flushed \cap Elements(deferred) = {}
        BY <1>16, <3>1 DEF IInv, DeathInv
      <3>3. \A b \in Actors : b # a /\ pc'[b] = "push" => /\ pc[b] = "push" /\ old'[b] = old[b] /\ old[b] \in Objects
                                                          /\ count[old[b]] = 0 /\ old[b] \notin flushed \cup Elements(deferred)
        BY <1>3, <1>4 DEF IInv, ActorInv, DeathInv
      <3>4. \A b \in Actors : b # a /\ pc'[b] = "push" => old'[b] # o /\ count'[old'[b]] = 0
        BY <1>16, <3>3
      <3>5. old'[a] = o /\ count'[o] = 0
        BY <1>4, <1>16, <2>2
      <3>6. \A b \in Actors : pc'[b] = "push" => count'[old'[b]] = 0 /\ old'[b] \notin flushed \cup Elements(deferred)
        BY <3>2, <3>3, <3>4, <3>5
      <3>7. \A b, c \in Actors : b # a /\ c # a /\ pc'[b] = "push" /\ pc'[c] = "push" /\ old'[b] = old'[c] => b = c
        BY <3>3 DEF IInv, DeathInv
      <3>8. \A b, c \in Actors : pc'[b] = "push" /\ pc'[c] = "push" /\ old'[b] = old'[c] => b = c
        BY <3>4, <3>5, <3>7
      <3> QED
        BY <1>1, <3>1, <3>2, <3>6, <3>8 DEF DeathInv
    <2> QED
      BY <2>1, <2>2
  <1>18. \A b \in Actors : b # a => ActorInv(b)'
    BY <1>1, <1>6, OthersKeptAll
  <1>19. ActorInv(a)'
    <2>1. obj'[a] \in Objects \cup {NULL}
      OBVIOUS
    <2>2. q \in {"held", "visit", "idle"} => (q = "held" => obj'[a] \in Objects) /\ (q # "held" => obj'[a] = NULL)
      BY <1>2, <2>1
    <2>3. q = "push" => old'[a] \in Objects
      BY <1>4
    <2> QED
      BY <1>3, <2>2, <2>3 DEF ActorInv, EntryPoints, SharePoints, LockPoints, FreePoints, StorePoints, GetPoints
  <1> QED
    BY <1>11, <1>12, <1>14, <1>15, <1>17, <1>18, <1>19 DEF IInv

LEMMA GiveUpPreviousStep == ASSUME IInv, NEW a \in Actors, GiveUpPrevious(a) PROVE IInv'
  <1>1. pc[a] = "replaced" /\ Dereference(a, old[a], After(a)) /\ KeepCall(a) /\ obj' = obj /\ UNCHANGED tableVars
    BY DEF GiveUpPrevious
  <1>2. PICK o \in Objects : o = old[a]
    BY <1>1 DEF IInv, ActorInv
  <1>3. PICK p \in {"held", "visit", "idle"} : p = After(a) /\ (p = "held" => obj[a] # NULL) /\ (p # "held" => obj[a] = NULL)
    BY AfterIs
  <1>4. HeldBy[a] = obj[a]
    BY <1>1 DEF HeldBy
  <1>5. /\ TableType' /\ \A b \in Actors : b # a => mode'[b] = mode[b] /\ cid'[b] = cid[b]
    BY <1>1, KeptCall DEF IInv, TypeOK, TableType, tableVars
  <1>6. obj' \in [Actors -> Objects \cup {NULL}]
    BY <1>1 DEF IInv, TypeOK, ObjectType
  <1> QED
    BY <1>1, <1>2, <1>3, <1>4, <1>5, <1>6, DereferenceStep

LEMMA GiveUpStep == ASSUME IInv, NEW a \in Actors, GiveUp(a) PROVE IInv'
  <1>1. /\ pc[a] \in {"held", "drop"} /\ obj' = [obj EXCEPT ![a] = NULL] /\ UNCHANGED tableVars
        /\ Dereference(a, obj[a], IF Walks(a) THEN "visit" ELSE "idle")
    BY DEF GiveUp
  <1>2. PICK o \in Objects : o = obj[a]
    BY <1>1 DEF IInv, ActorInv
  <1>3. PICK p \in {"visit", "idle"} : Dereference(a, o, p)
    BY <1>1, <1>2
  <1>4. HeldBy[a] = obj[a]
    BY <1>1 DEF HeldBy
  <1>5. /\ TableType' /\ \A b \in Actors : b # a => mode'[b] = mode[b] /\ cid'[b] = cid[b]
    <2>1. CASE KeepCall(a)
      BY <1>1, <2>1, KeptCall DEF IInv, TypeOK, TableType, tableVars
    <2>2. CASE cid' = [cid EXCEPT ![a] = MaxId(2)] /\ UNCHANGED <<mode, asked, top>>
      <3>1. MaxId(2) \in Nat
        BY Positive
      <3> QED
        BY <1>1, <2>2, <3>1 DEF IInv, TypeOK, TableType, tableVars
    <2> QED
      BY <2>1, <2>2 DEF GiveUp
  <1>6. obj' \in [Actors -> Objects \cup {NULL}] /\ obj'[a] = NULL /\ \A b \in Actors : b # a => obj'[b] = obj[b]
    BY <1>1 DEF IInv, TypeOK, ObjectType
  <1> QED
    BY <1>1, <1>2, <1>3, <1>4, <1>5, <1>6, DereferenceStep
-----------------------------------------------------------------------------
(* Deletion *)

\* Deferring a deletion moves no token and no lock.
LEMMA DeferKept ==
    ASSUME IInv, NEW a \in Actors, NEW p \in {"queue", "held", "visit", "idle"}, Goto(a, p), KeepObjects(a),
           KeepCall(a), UNCHANGED <<tableVars, count, started, flushed, ref>>, pc[a] \in {"push", "queue"},
           p = "held" => obj[a] # NULL, p \in {"visit", "idle"} => obj[a] = NULL,
           deferred' \in Seq(Objects), item' \in Nat
    PROVE  /\ OthersStill(a) /\ pc'[a] = p
           /\ TypeOK' /\ CountInv' /\ LockInv' /\ \A b \in Actors : ActorInv(b)'
  <1>1. p \in Points
    BY DEF Points, FreePoints
  <1>2. /\ slot' \in [Actors -> Slots \cup {NULL}]
        /\ obj' \in [Actors -> Objects \cup {NULL}] /\ old' \in [Actors -> Objects \cup {NULL}]
        /\ \A b \in Actors : b # a => slot'[b] = slot[b] /\ obj'[b] = obj[b] /\ old'[b] = old[b]
        /\ pc'[a] # "idle" => slot'[a] = slot[a] /\ obj'[a] = obj[a] /\ old'[a] = old[a]
        /\ pc'[a] = "idle" => obj'[a] = NULL
    BY KeptObjects DEF IInv, TypeOK
  <1>3. /\ OthersStill(a) /\ pc'[a] = p /\ pc' \in [Actors -> Points] /\ TableType'
        /\ p # "idle" => mode'[a] = mode[a] /\ cid'[a] = cid[a]
    BY <1>1, <1>2, KeptMoves
  <1>4. TypeOK'
    BY <1>2, <1>3 DEF IInv, TypeOK, ObjectType
  <1>5. obj'[a] = obj[a] /\ obj[a] \in Objects \cup {NULL}
    BY <1>2, <1>3 DEF IInv, TypeOK, ObjectType
  <1>6. EntryOf' = EntryOf
    BY DEF EntryOf
  <1>7. HeldBy'[a] = HeldBy[a] /\ StoredBy'[a] = StoredBy[a] /\ ReplacedBy'[a] = ReplacedBy[a]
    BY <1>3, <1>5 DEF HeldBy, StoredBy, ReplacedBy, StorePoints
  <1>8. CountInv'
    BY <1>3, <1>6, <1>7, CountKept
  <1>9. SharedBy'[a] = SharedBy[a] /\ LockedBy'[a] = LockedBy[a]
    BY <1>3 DEF SharedBy, LockedBy, SharePoints, LockPoints
  <1>10. LockInv'
    BY <1>3, <1>9, LockKept
  <1>11. \A b \in Actors : b # a => ActorInv(b)'
    BY <1>3, OthersKeptAll
  <1>12. ActorInv(a)'
    BY <1>3, <1>5 DEF ActorInv, EntryPoints, SharePoints, LockPoints, FreePoints, StorePoints, GetPoints
  <1> QED
    BY <1>3, <1>4, <1>8, <1>10, <1>11, <1>12

LEMMA PushIs ==
    ASSUME NEW s \in Seq(Objects), NEW o \in Objects
    PROVE  /\ <<o>> \o s \in Seq(Objects) /\ <<o>> \o s # <<>>
           /\ Elements(<<o>> \o s) = {o} \cup Elements(s)
  <1> DEFINE t == <<o>> \o s
  <1>1. /\ t \in Seq(Objects) /\ Len(t) = Len(s) + 1 /\ t[1] = o /\ Len(s) \in Nat
        /\ \A i \in 1..Len(s) : t[i + 1] = s[i]
    OBVIOUS
  <1>2. DOMAIN t = 1..(Len(s) + 1) /\ DOMAIN s = 1..Len(s)
    BY <1>1
  <1> HIDE DEF t
  <1>3. ASSUME NEW i \in 1..(Len(s) + 1) PROVE t[i] \in {o} \cup Elements(s)
    <2>1. CASE i = 1
      BY <1>1, <2>1
    <2>2. CASE i # 1
      <3>1. PICK j \in 1..Len(s) : i = j + 1
        <4>1. i - 1 \in 1..Len(s) /\ i = (i - 1) + 1
          BY <1>1, <2>2
        <4> QED
          BY <4>1
      <3>2. t[i] = s[j] /\ j \in DOMAIN s
        BY <1>1, <1>2, <3>1
      <3> QED
        BY <3>2 DEF Elements
    <2> QED
      BY <2>1, <2>2
  <1>4. Elements(t) \subseteq {o} \cup Elements(s)
    <2>1. \A x \in Elements(t) : \E i \in DOMAIN t : x = t[i]
      BY DEF Elements
    <2> QED
      BY <1>2, <1>3, <2>1
  <1>5. o \in Elements(t)
    BY <1>1, <1>2 DEF Elements
  <1>6. ASSUME NEW i \in 1..Len(s) PROVE s[i] \in Elements(t)
    <2>1. i + 1 \in DOMAIN t /\ t[i + 1] = s[i]
      BY <1>1, <1>2
    <2> QED
      BY <2>1 DEF Elements
  <1>7. Elements(s) \subseteq Elements(t)
    BY <1>2, <1>6 DEF Elements
  <1>8. t # <<>>
    BY <1>1
  <1> QED
    BY <1>1, <1>4, <1>5, <1>7, <1>8 DEF t

LEMMA DeferDeleteStep == ASSUME IInv, NEW a \in Actors, DeferDelete(a) PROVE IInv'
  <1>1. KeepCall(a) /\ UNCHANGED tableVars
    BY DEF DeferDelete
  <1>2. PICK p \in {"held", "visit", "idle"} :
           p = After(a) /\ (p = "held" => obj[a] # NULL) /\ (p # "held" => obj[a] = NULL)
    BY AfterIs
  <1>3. deferred \in Seq(Objects) /\ item \in Nat /\ started \in Nat /\ Number(QueuedBy, Actors, "worker") \in Nat
    BY NumbersAre DEF IInv, TypeOK, ObjectType
  <1>4. CASE Push(a, After(a))
    <2>1. PICK o \in Objects : o = old[a]
      BY <1>4 DEF Push, IInv, ActorInv
    <2>2. PICK q \in {"queue", "held", "visit", "idle"} : q = IF deferred = <<>> THEN "queue" ELSE p
      OBVIOUS
    <2>3. /\ pc[a] = "push" /\ deferred' = <<o>> \o deferred /\ Goto(a, q) /\ KeepObjects(a)
          /\ UNCHANGED <<count, item, started, flushed, ref>>
      BY <1>2, <1>4, <2>1, <2>2 DEF Push, WasEmpty
    <2>4. deferred' \in Seq(Objects) /\ deferred' # <<>> /\ Elements(deferred') = {o} \cup Elements(deferred)
      BY <1>3, <2>3, PushIs
    <2>5. q = "held" => obj[a] # NULL
      BY <1>2, <2>2
    <2>6. q \in {"visit", "idle"} => obj[a] = NULL
      BY <1>2, <2>2
    <2>7. item' \in Nat
      BY <1>3, <2>3
    <2>8. /\ OthersStill(a) /\ pc'[a] = q
          /\ TypeOK' /\ CountInv' /\ LockInv' /\ \A b \in Actors : ActorInv(b)'
      BY <1>1, <2>3, <2>4, <2>5, <2>6, <2>7, DeferKept
    <2>9. WorkerInv'
      <3>1. Number(QueuedBy', Actors, "worker") = Number(QueuedBy, Actors, "worker")
                + One(QueuedBy'[a] = "worker") - One(QueuedBy[a] = "worker")
        BY <2>8, NumbersMove
      <3>2. One(QueuedBy'[a] = "worker") = (IF deferred = <<>> THEN 1 ELSE 0) /\ One(QueuedBy[a] = "worker") = 0
        BY <2>2, <2>3, <2>8 DEF QueuedBy, One
      <3>3. Number(QueuedBy, Actors, "worker") + item + started = IF deferred = <<>> THEN 0 ELSE 1
        BY DEF IInv, WorkerInv
      <3>4. Number(QueuedBy', Actors, "worker") + item' + started' = 1
        BY <1>3, <2>3, <3>1, <3>2, <3>3
      <3> QED
        BY <2>4, <3>4 DEF WorkerInv
    <2>10. DeathInv'
      <3>1. count[o] = 0 /\ o \notin flushed \cup Elements(deferred)
        BY <2>1, <2>3 DEF IInv, DeathInv
      <3>2. Elements(deferred)' = {o} \cup Elements(deferred)
        BY <2>4 DEF Elements
      <3>3. /\ \A w \in flushed \cup Elements(deferred) : count[w] = 0
            /\ flushed \cap Elements(deferred) = {}
        BY DEF IInv, DeathInv
      <3>4. ASSUME NEW b \in Actors, pc'[b] = "push"
            PROVE  /\ b # a /\ pc[b] = "push" /\ old'[b] = old[b] /\ old[b] # o
                   /\ count[old[b]] = 0 /\ old[b] \notin flushed \cup Elements(deferred)
        <4>1. b # a
          BY <2>8, <3>4
        <4>2. pc[b] = "push" /\ old'[b] = old[b]
          BY <2>8, <3>4, <4>1 DEF OthersStill, Still
        <4> QED
          BY <2>1, <2>3, <4>1, <4>2 DEF IInv, DeathInv
      <3>5. \A b, c \in Actors : pc'[b] = "push" /\ pc'[c] = "push" /\ old'[b] = old'[c] => b = c
        BY <3>4 DEF IInv, DeathInv
      <3>6. flushed' = flushed /\ count' = count
        BY <2>3
      <3>7. \A w \in flushed' \cup Elements(deferred)' : count'[w] = 0
        BY <3>1, <3>2, <3>3, <3>6
      <3>8. flushed' \cap Elements(deferred)' = {}
        BY <3>1, <3>2, <3>3, <3>6
      <3>9. \A b \in Actors : pc'[b] = "push" => count'[old'[b]] = 0 /\ old'[b] \notin flushed' \cup Elements(deferred)'
        BY <3>2, <3>4, <3>6
      <3> QED
        BY <3>5, <3>7, <3>8, <3>9 DEF DeathInv
    <2> QED
      BY <2>8, <2>9, <2>10 DEF IInv
  <1>5. CASE Queue(a, After(a))
    <2>1. /\ pc[a] = "queue" /\ item' = item + 1 /\ Goto(a, p) /\ KeepObjects(a)
          /\ UNCHANGED <<count, deferred, started, flushed, ref>>
      BY <1>2, <1>5 DEF Queue
    <2>2. deferred' \in Seq(Objects) /\ item' \in Nat
      BY <1>3, <2>1
    <2>3. /\ OthersStill(a) /\ pc'[a] = p
          /\ TypeOK' /\ CountInv' /\ LockInv' /\ \A b \in Actors : ActorInv(b)'
      BY <1>1, <1>2, <2>1, <2>2, DeferKept
    <2>4. DeathInv'
      BY <2>1, <2>3, DeathKept
    <2>5. WorkerInv'
      <3>1. Number(QueuedBy', Actors, "worker") = Number(QueuedBy, Actors, "worker")
                + One(QueuedBy'[a] = "worker") - One(QueuedBy[a] = "worker")
        BY <2>3, NumbersMove
      <3>2. One(QueuedBy'[a] = "worker") = 0 /\ One(QueuedBy[a] = "worker") = 1
        BY <2>1, <2>3 DEF QueuedBy, One
      <3>3. Number(QueuedBy, Actors, "worker") + item + started = IF deferred = <<>> THEN 0 ELSE 1
        BY DEF IInv, WorkerInv
      <3>4. Number(QueuedBy', Actors, "worker") + item' + started' = Number(QueuedBy, Actors, "worker") + item + started
        BY <1>3, <2>1, <3>1, <3>2
      <3> QED
        BY <2>1, <3>3, <3>4 DEF WorkerInv
    <2> QED
      BY <2>3, <2>4, <2>5 DEF IInv
  <1> QED
    BY <1>4, <1>5 DEF DeferDelete

\* A step of the worker leaves the actors, the entries and the tables alone.
LEMMA WorkerMoves ==
    ASSUME IInv, Unmoved, UNCHANGED <<ref, pc, objectLocals>>
    PROVE  /\ TableType' /\ LockInv' /\ \A b \in Actors : ActorInv(b)'
           /\ EntryOf' = EntryOf /\ QueuedBy' = QueuedBy /\ \A o : Total(o)' = Total(o)
  <1>1. /\ mode' = mode /\ cid' = cid /\ top' = top /\ root' = root /\ links' = links /\ used' = used
        /\ slot' = slot /\ obj' = obj /\ old' = old /\ ref' = ref /\ pc' = pc
    BY DEF Unmoved, tableVars, callVars, objectLocals
  <1>2. EntryOf' = EntryOf /\ HeldBy' = HeldBy /\ StoredBy' = StoredBy /\ ReplacedBy' = ReplacedBy
    BY <1>1 DEF EntryOf, HeldBy, StoredBy, ReplacedBy
  <1>3. SharedBy' = SharedBy /\ LockedBy' = LockedBy /\ QueuedBy' = QueuedBy
    BY <1>1 DEF SharedBy, LockedBy, QueuedBy
  <1>4. \A o : Total(o)' = Total(o)
    BY <1>2 DEF Total
  <1>5. LockInv'
    BY <1>1, <1>3 DEF IInv, LockInv
  <1>6. \A b \in Actors : ActorInv(b)'
    <2>1. ASSUME NEW b \in Actors PROVE Walks(b)' <=> Walks(b)
      BY <1>1 DEF Walks
    <2> QED
      BY <1>1, <2>1 DEF IInv, ActorInv
  <1>7. TableType'
    BY <1>1 DEF IInv, TypeOK, TableType
  <1> QED
    BY <1>2, <1>3, <1>4, <1>5, <1>6, <1>7

LEMMA WorkerStep == ASSUME IInv, Worker, Unmoved PROVE IInv'
  <1>1. Unloader \in Actors
    BY CidTableAssumption
  <1>2. /\ deferred \in Seq(Objects) /\ flushed \in SUBSET Objects /\ item \in Nat /\ started \in Nat
        /\ Number(QueuedBy, Actors, "worker") \in Nat
    BY <1>1, NumbersAre DEF IInv, TypeOK, ObjectType
  <1>3. Number(QueuedBy, Actors, "worker") + item + started = IF deferred = <<>> THEN 0 ELSE 1
    BY DEF IInv, WorkerInv
  <1>4. UNCHANGED <<ref, pc, objectLocals>>
    BY DEF Worker, WorkerStarts, WorkerFlushes, WorkerDeletes
  <1>5. /\ TableType' /\ LockInv' /\ \A b \in Actors : ActorInv(b)'
        /\ QueuedBy' = QueuedBy /\ \A o : Total(o)' = Total(o)
    BY <1>4, WorkerMoves
  <1>6. ref' = ref /\ pc' = pc /\ slot' = slot /\ obj' = obj /\ old' = old
    BY <1>4 DEF objectLocals
  <1>7. CASE WorkerStarts
    <2>1. /\ item > 0 /\ item' = item - 1 /\ started' = started + 1
          /\ count' = count /\ deferred' = deferred /\ flushed' = flushed
      BY <1>7 DEF WorkerStarts
    <2>2. item' \in Nat /\ started' \in Nat /\ item' + started' = item + started
      BY <1>2, <2>1
    <2>3. TypeOK'
      BY <1>5, <1>6, <2>1, <2>2 DEF IInv, TypeOK, ObjectType
    <2>4. CountInv'
      BY <1>5, <2>1 DEF IInv, CountInv
    <2>5. DeathInv'
      BY <1>6, <2>1 DEF IInv, DeathInv, Elements
    <2>6. Number(QueuedBy', Actors, "worker") + item' + started' = IF deferred' = <<>> THEN 0 ELSE 1
      BY <1>2, <1>3, <1>5, <2>1
    <2> QED
      BY <1>5, <2>3, <2>4, <2>5, <2>6 DEF IInv, WorkerInv
  <1>8. CASE WorkerFlushes
    <2>1. /\ started > 0 /\ started' = started - 1 /\ flushed' = flushed \cup Elements(deferred) /\ deferred' = <<>>
          /\ count' = count /\ item' = item
      BY <1>8 DEF WorkerFlushes, Elements
    <2>2. Elements(deferred) \subseteq Objects /\ Elements(deferred)' = {}
      BY <1>2, <2>1 DEF Elements
    <2>3. started' \in Nat /\ deferred' \in Seq(Objects)
      BY <1>2, <2>1
    <2>4. TypeOK'
      BY <1>2, <1>5, <1>6, <2>1, <2>2, <2>3 DEF IInv, TypeOK, ObjectType
    <2>5. CountInv'
      BY <1>5, <2>1 DEF IInv, CountInv
    <2>6. DeathInv'
      BY <1>6, <2>1, <2>2 DEF IInv, DeathInv
    <2>7. Number(QueuedBy', Actors, "worker") + item' + started' = 0
      BY <1>2, <1>3, <1>5, <2>1
    <2> QED
      BY <1>5, <2>1, <2>4, <2>5, <2>6, <2>7 DEF IInv, WorkerInv
  <1>9. CASE WorkerDeletes
    <2>1. PICK o \in flushed : flushed' = flushed \ {o} /\ count' = [count EXCEPT ![o] = NULL]
      BY <1>9 DEF WorkerDeletes
    <2>2. deferred' = deferred /\ item' = item /\ started' = started
      BY <1>9 DEF WorkerDeletes
    <2>3. o \in Objects /\ count[o] = 0 /\ \A w \in Objects : w # o => count'[w] = count[w]
      BY <1>2, <2>1 DEF IInv, DeathInv, TypeOK, ObjectType
    <2>4. count' \in [Objects -> Nat \cup {NULL}] /\ count'[o] = NULL
      BY <2>1, <2>3 DEF IInv, TypeOK, ObjectType
    <2>5. TypeOK'
      BY <1>2, <1>5, <1>6, <2>1, <2>2, <2>4 DEF IInv, TypeOK, ObjectType
    <2>6. ASSUME NEW w \in Objects PROVE Total(w)' = IF count'[w] = NULL THEN 0 ELSE count'[w]
      <3>1. Total(w) = IF count[w] = NULL THEN 0 ELSE count[w]
        BY DEF IInv, CountInv
      <3> QED
        BY <1>5, <2>3, <2>4, <3>1, NullApart
    <2>7. CountInv'
      BY <2>6 DEF CountInv
    <2>8. Elements(deferred) \subseteq Objects /\ Elements(deferred)' = Elements(deferred) /\ o \notin Elements(deferred)
      BY <1>2, <2>1, <2>2 DEF Elements, IInv, DeathInv
    <2>9. \A b \in Actors : pc[b] = "push" => old[b] # o /\ old[b] \in Objects
      BY <2>1 DEF IInv, DeathInv, ActorInv
    <2>10. DeathInv'
      BY <1>2, <1>6, <2>1, <2>3, <2>8, <2>9 DEF IInv, DeathInv
    <2>11. WorkerInv'
      BY <1>3, <1>5, <2>2 DEF WorkerInv
    <2> QED
      BY <1>5, <2>5, <2>7, <2>10, <2>11 DEF IInv
  <1> QED
    BY <1>7, <1>8, <1>9 DEF Worker
-----------------------------------------------------------------------------
(* The invariant *)

LEMMA NoneIs ==
    ASSUME NEW f, NEW D, NEW w, \A x \in D : f[x] # w
    PROVE  Number(f, D, w) = 0
  <1>1. {x \in D : f[x] = w} = {}
    OBVIOUS
  <1> QED
    BY <1>1, FS_EmptySet DEF Number

LEMMA InitIInv == Init => IInv
  <1> SUFFICES ASSUME Init PROVE IInv
    OBVIOUS
  <1>1. /\ count = [o \in Objects |-> NULL] /\ ref = [s \in Slots |-> Empty]
        /\ deferred = <<>> /\ item = 0 /\ started = 0 /\ flushed = {}
        /\ pc = [a \in Actors |-> "idle"] /\ slot = [a \in Actors |-> NULL]
        /\ obj = [a \in Actors |-> NULL] /\ old = [a \in Actors |-> NULL]
    BY DEF Init, ObjectInit
  <1>2. /\ root = Table(0, 0) /\ links = [t \in 0..MaxTables - 1 |-> NoLinks] /\ used = 1
        /\ mode = [a \in Actors |-> "none"] /\ cid = [a \in Actors |-> 0] /\ top = [a \in Actors |-> Table(0, 0)]
    BY DEF Init
  <1>3. TableType
    <2>1. Table(0, 0) \in Tables
      BY Sizes DEF Table, Tables, Addresses
    <2>2. NoLinks \in [LinkSlots -> Addresses \cup {NULL}]
      BY DEF NoLinks, LinkSlots
    <2> QED
      BY <1>2, <2>1, <2>2 DEF TableType, Modes, Addresses
  <1>4. ObjectType
    <2>1. Empty \in AtomicRefs
      BY DEF Empty, AtomicRefs
    <2>2. "idle" \in Points
      BY DEF Points, FreePoints
    <2> QED
      BY <1>1, <2>1, <2>2 DEF ObjectType
  <1>5. CountInv
    <2>1. ASSUME NEW o \in Objects PROVE Total(o) = IF count[o] = NULL THEN 0 ELSE count[o]
      <3>1. o # NULL
        BY NullApart
      <3>2. Number(EntryOf, Slots, o) = 0
        BY <1>1, <3>1, NoneIs DEF EntryOf, Empty
      <3>3. Number(HeldBy, Actors, o) = 0
        BY <1>1, <3>1, NoneIs DEF HeldBy
      <3>4. Number(StoredBy, Actors, o) = 0
        BY <1>1, <3>1, NoneIs DEF StoredBy
      <3>5. Number(ReplacedBy, Actors, o) = 0
        BY <1>1, <3>1, NoneIs DEF ReplacedBy
      <3> QED
        BY <1>1, <3>2, <3>3, <3>4, <3>5 DEF Total
    <2> QED
      BY <2>1 DEF CountInv
  <1>6. LockInv
    <2>1. ASSUME NEW s \in Slots
          PROVE  /\ ref[s].shared = Number(SharedBy, Actors, s)
                 /\ Number(LockedBy, Actors, s) = IF ref[s].exclusive THEN 1 ELSE 0
      <3>1. s # NULL
        BY NullApart
      <3>2. Number(SharedBy, Actors, s) = 0
        BY <1>1, <3>1, NoneIs DEF SharedBy
      <3>3. Number(LockedBy, Actors, s) = 0
        BY <1>1, <3>1, NoneIs DEF LockedBy
      <3> QED
        BY <1>1, <3>2, <3>3 DEF Empty
    <2> QED
      BY <2>1 DEF LockInv
  <1>7. DeathInv
    BY <1>1 DEF DeathInv, Elements
  <1>8. WorkerInv
    <2>1. Number(QueuedBy, Actors, "worker") = 0
      BY <1>1, NoneIs DEF QueuedBy
    <2> QED
      BY <1>1, <2>1 DEF WorkerInv
  <1>9. \A a \in Actors : ActorInv(a)
    BY <1>1 DEF ActorInv, EntryPoints, SharePoints, LockPoints, FreePoints, StorePoints, GetPoints
  <1> QED
    BY <1>3, <1>4, <1>5, <1>6, <1>7, <1>8, <1>9 DEF IInv, TypeOK

LEMMA StutterStep == ASSUME IInv, UNCHANGED vars PROVE IInv'
  <1>1. Unmoved /\ UNCHANGED <<ref, pc, objectLocals>>
    BY DEF vars, objectVars, Unmoved, tableVars, callVars, objectLocals
  <1>2. count' = count /\ deferred' = deferred /\ item' = item /\ started' = started /\ flushed' = flushed
    BY DEF vars, objectVars, objects
  <1>3. /\ TableType' /\ LockInv' /\ \A b \in Actors : ActorInv(b)'
        /\ QueuedBy' = QueuedBy /\ \A o : Total(o)' = Total(o)
    BY <1>1, WorkerMoves
  <1>4. ref' = ref /\ pc' = pc /\ slot' = slot /\ obj' = obj /\ old' = old
    BY <1>1 DEF objectLocals
  <1>5. TypeOK'
    BY <1>2, <1>3, <1>4 DEF IInv, TypeOK, ObjectType
  <1>6. CountInv'
    BY <1>2, <1>3 DEF IInv, CountInv
  <1>7. DeathInv'
    BY <1>2, <1>4 DEF IInv, DeathInv, Elements
  <1>8. WorkerInv'
    BY <1>2, <1>3 DEF IInv, WorkerInv
  <1> QED
    BY <1>3, <1>5, <1>6, <1>7, <1>8 DEF IInv

LEMMA AtomicStepsStep == ASSUME IInv, NEW a \in Actors, AtomicSteps(a), Unmoved PROVE IInv'
  BY AcquireSharedStep, ReadObjectStep, ReferenceObjectStep, AssignReferenceStep, AcquireExclusiveStep, LockedStep
  DEF AtomicSteps

LEMMA ActorStep == ASSUME IInv, NEW a \in Actors, Step(a) PROVE IInv'
  <1>1. CASE AtomicSteps(a) /\ UNCHANGED <<tableVars, callVars, control>>
    BY <1>1, AtomicStepsStep DEF Unmoved
  <1>2. CASE Capture(a) \/ LookupEntry(a) \/ AcquireSpinLock(a) \/ Expanded(a) \/ Expand(a)
    BY <1>2, CaptureStep, LookupEntryStep, SpinStep, ExpandedStep, ExpandStep
  <1>3. CASE ExpandFails(a) \/ Visit(a) \/ VisitedAll(a)
    BY <1>3, ReturnSteps, VisitStep
  <1>4. CASE Referenced(a) \/ Create(a) \/ StoreContext(a) \/ Stored(a)
    BY <1>4, ReferencedStep, CreateStep, StoreStep, StoredStep
  <1>5. CASE GiveUpPrevious(a) \/ GiveUp(a) \/ DeferDelete(a)
    BY <1>5, GiveUpPreviousStep, GiveUpStep, DeferDeleteStep
  <1> QED
    BY <1>1, <1>2, <1>3, <1>4, <1>5 DEF Step

LEMMA NextIInv == IInv /\ [Next]_vars => IInv'
  <1> SUFFICES ASSUME IInv, [Next]_vars PROVE IInv'
    OBVIOUS
  <1>1. CASE UNCHANGED vars
    BY <1>1, StutterStep
  <1>2. CASE \E a \in Actors : Step(a)
    BY <1>2, ActorStep
  <1>3. CASE CleanUp(Unloader)
    BY <1>3, CleanUpStep, CidTableAssumption
  <1>4. CASE WorkItem
    BY <1>4, WorkerStep DEF WorkItem, Unmoved
  <1>5. CASE (\E a \in Trackers : Track(a) \/ Untrack(a)) \/ (\E a \in Readers : Lookup(a)) \/ (\E a \in Enumerators : Enumerate(a))
    BY <1>5, CallSteps, TrackersIn
  <1> QED
    BY <1>1, <1>2, <1>3, <1>4, <1>5 DEF Next

\* The counts, the lock bits and the places of the objects agree in every state of the
\* driver: cid_table.c and kphobject.c keep the inductive invariant.
THEOREM Invariance == Spec => []IInv
  BY InitIInv, NextIInv, PTL DEF Spec
-----------------------------------------------------------------------------
(* What the invariant says of the code *)

\* References of one kind are as many as those who have them.
LEMMA Tagged ==
    ASSUME NEW k, NEW S, IsFiniteSet(S)
    PROVE  IsFiniteSet({<<k, x>> : x \in S}) /\ Cardinality({<<k, x>> : x \in S}) = Cardinality(S)
  <1> DEFINE T == {<<k, x>> : x \in S}
             f == [x \in S |-> <<k, x>>]
  <1>1. f \in [S -> T] /\ \A x, y \in S : f[x] = f[y] => x = y
    OBVIOUS
  <1>2. \A t \in T : \E x \in S : f[x] = t
    OBVIOUS
  <1> HIDE DEF T, f
  <1>3. f \in Bijection(S, T)
    BY <1>1, <1>2, Fun_IsBij
  <1>4. ExistsBijection(S, T)
    BY <1>3 DEF ExistsBijection
  <1> QED
    BY <1>4, FS_Bijection DEF T

LEMMA Disjoint ==
    ASSUME NEW S, NEW T, IsFiniteSet(S), IsFiniteSet(T), S \cap T = {}
    PROVE  IsFiniteSet(S \cup T) /\ Cardinality(S \cup T) = Cardinality(S) + Cardinality(T)
  <1>1. Cardinality(S \cap T) = 0
    BY FS_EmptySet
  <1>2. Cardinality(S) \in Nat /\ Cardinality(T) \in Nat
    BY FS_CardinalityType
  <1>3. /\ IsFiniteSet(S \cup T)
        /\ Cardinality(S \cup T) = Cardinality(S) + Cardinality(T) - Cardinality(S \cap T)
    BY FS_Union, Zenon
  <1>4. Cardinality(S) + Cardinality(T) - Cardinality(S \cap T) = Cardinality(S) + Cardinality(T)
    BY <1>1, <1>2
  <1> QED
    BY <1>3, <1>4, Zenon

\* The references of an object are its tokens.
LEMMA ReferencesAre ==
    ASSUME NEW o \in Objects
    PROVE  Cardinality(References(o)) = Total(o)
  <1> DEFINE S1 == {s \in Slots : ref[s].object = o}
             S2 == {a \in Actors : obj[a] = o /\ pc[a] # "reference"}
             S3 == {a \in Actors : /\ obj[a] = o /\ mode[a] = "track"
                                   /\ pc[a] \in {"exclusive", "drain", "previous", "store"}}
             S4 == {a \in Actors : old[a] = o /\ pc[a] \in {"unlock", "replaced"}}
             T1 == {<<"entry", s>> : s \in S1}
             T2 == {<<"held", a>> : a \in S2}
             T3 == {<<"stored", a>> : a \in S3}
             T4 == {<<"replaced", a>> : a \in S4}
  <1>1. References(o) = ((T1 \cup T2) \cup T3) \cup T4
    BY DEF References
  <1>2. o # NULL
    BY NullApart
  <1>3. Number(EntryOf, Slots, o) = Cardinality(S1)
    <2>1. {x \in Slots : EntryOf[x] = o} = S1
      BY DEF EntryOf
    <2> QED
      BY <2>1 DEF Number
  <1>4. Number(HeldBy, Actors, o) = Cardinality(S2)
    <2>1. {x \in Actors : HeldBy[x] = o} = S2
      BY <1>2 DEF HeldBy
    <2> QED
      BY <2>1 DEF Number
  <1>5. Number(StoredBy, Actors, o) = Cardinality(S3)
    <2>1. {x \in Actors : StoredBy[x] = o} = S3
      BY <1>2 DEF StoredBy, StorePoints
    <2> QED
      BY <2>1 DEF Number
  <1>6. Number(ReplacedBy, Actors, o) = Cardinality(S4)
    <2>1. {x \in Actors : ReplacedBy[x] = o} = S4
      BY <1>2 DEF ReplacedBy
    <2> QED
      BY <2>1 DEF Number
  <1>7. IsFiniteSet(S1) /\ IsFiniteSet(S2) /\ IsFiniteSet(S3) /\ IsFiniteSet(S4)
    BY KphObjectAssumption, FS_Subset
  <1>8. T1 \cap T2 = {} /\ (T1 \cup T2) \cap T3 = {}
    OBVIOUS
  <1>9. ((T1 \cup T2) \cup T3) \cap T4 = {}
    OBVIOUS
  <1> HIDE DEF S1, S2, S3, S4
  <1>10. IsFiniteSet(T1) /\ Cardinality(T1) = Cardinality(S1)
    BY <1>7, Tagged
  <1>11. IsFiniteSet(T2) /\ Cardinality(T2) = Cardinality(S2)
    BY <1>7, Tagged
  <1>12. IsFiniteSet(T3) /\ Cardinality(T3) = Cardinality(S3)
    BY <1>7, Tagged
  <1>13. IsFiniteSet(T4) /\ Cardinality(T4) = Cardinality(S4)
    BY <1>7, Tagged
  <1> HIDE DEF T1, T2, T3, T4
  <1>14. IsFiniteSet(T1 \cup T2) /\ Cardinality(T1 \cup T2) = Cardinality(S1) + Cardinality(S2)
    BY <1>8, <1>10, <1>11, Disjoint
  <1>15. /\ IsFiniteSet((T1 \cup T2) \cup T3)
         /\ Cardinality((T1 \cup T2) \cup T3) = Cardinality(S1) + Cardinality(S2) + Cardinality(S3)
    BY <1>8, <1>12, <1>14, Disjoint
  <1>16. Cardinality(((T1 \cup T2) \cup T3) \cup T4) = Cardinality(S1) + Cardinality(S2) + Cardinality(S3) + Cardinality(S4)
    BY <1>9, <1>13, <1>15, Disjoint
  <1> QED
    BY <1>1, <1>3, <1>4, <1>5, <1>6, <1>16 DEF Total

\* No use after free and no leaked count in kphobject.c, for any number of threads, CIDs
\* and objects: every count is the number of references, and an actor that is about to
\* take a reference finds the object alive.
THEOREM CountsAreExact == Spec => []ReferencesExact
  <1>1. IInv => ReferencesExact
    <2> SUFFICES ASSUME IInv PROVE ReferencesExact
      OBVIOUS
    <2>1. \A o \in Objects : Cardinality(References(o)) = IF count[o] = NULL THEN 0 ELSE count[o]
      BY ReferencesAre DEF IInv, CountInv
    <2>2. ASSUME NEW a \in Actors, pc[a] = "reference" PROVE count[obj[a]] \notin {NULL, 0}
      <3>1. PICK o \in Objects : o = obj[a]
        BY <2>2 DEF IInv, ActorInv
      <3>2. slot[a] \in Slots /\ EntryOf[slot[a]] = o
        BY <2>2, <3>1 DEF IInv, ActorInv, EntryPoints, SharePoints, EntryOf
      <3>3. count[o] \in Nat /\ count[o] >= 1 /\ count[o] # NULL
        BY <3>2, Referred
      <3> QED
        BY <3>1, <3>3
    <2> QED
      BY <2>1, <2>2 DEF ReferencesExact
  <1> QED
    BY <1>1, Invariance, PTL

\* The work item of KphpObjectDeferDelete is queued once for the objects that wait, and
\* objects that wait always have a worker to come.
THEOREM DeletionsAreCovered == Spec => []DeferredCovered
  <1>1. IInv => DeferredCovered
    <2> SUFFICES ASSUME IInv PROVE DeferredCovered
      OBVIOUS
    <2>1. Unloader \in Actors
      BY CidTableAssumption
    <2>2. item \in Nat /\ started \in Nat /\ Number(QueuedBy, Actors, "worker") \in Nat
      BY <2>1, NumbersAre DEF IInv, TypeOK, ObjectType
    <2>3. Number(QueuedBy, Actors, "worker") + item + started = IF deferred = <<>> THEN 0 ELSE 1
      BY DEF IInv, WorkerInv
    <2>4. (\A a \in Actors : pc[a] # "queue") => Number(QueuedBy, Actors, "worker") = 0
      <3>1. (\A a \in Actors : pc[a] # "queue") => \A a \in Actors : QueuedBy[a] # "worker"
        BY DEF QueuedBy
      <3> QED
        BY <3>1, NoneIs
    <2>5. item + started <= 1
      BY <2>2, <2>3
    <2>6. deferred # <<>> => item + started = 1 \/ \E a \in Actors : pc[a] = "queue"
      BY <2>2, <2>3, <2>4
    <2> QED
      BY <2>5, <2>6 DEF DeferredCovered
  <1> QED
    BY <1>1, Invariance, PTL
-----------------------------------------------------------------------------
(* What the unloading leaves *)

\* An object without references is on its way to the worker.
LostInv == \A o \in Objects : count[o] = 0 =>
               o \in flushed \cup Elements(deferred) \cup {old[a] : a \in {b \in Actors : pc[b] = "push"}}

\* The next table that is allocated is not in use.
FreshInv == used # 0 => /\ root.address < used
                        /\ \A t \in Addresses, i \in LinkSlots : links[t][i] # NULL => links[t][i] < used

\* A table that was the root is the first one below the root.
Under(t) == \/ t = root
            \/ t.level = root.level - 1 /\ links[root.address][0] = t.address
            \/ /\ t.level = 0 /\ root.level = 2 /\ links[root.address][0] # NULL
               /\ links[links[root.address][0]][0] = t.address
UnderInv == Under(Table(0, 0)) /\ \A a \in Actors : Under(top[a])

\* Every entry that is or may be stored to is the entry of some CID.
Reached(s) == \E c \in Nat : Resolve(root, c) = s
ReachInv == /\ \A s \in Slots : EntryOf[s] # NULL => Reached(s)
            /\ \A a \in Actors : pc[a] \in EntryPoints => Reached(slot[a])

RundownPoints == StorePoints \cup {"capture", "visit", "unlock", "replaced", "push", "queue"}

\* The unloader is alone, and the entries that it has passed are empty.
Passed(c) == \/ EntryOf[Resolve(root, c)] = NULL
             \/ pc[Unloader] \in StorePoints /\ slot[Unloader] = Resolve(root, c)
Alone == \A a \in Actors : a # Unloader => pc[a] = "idle"
Over == used = 0 /\ pc[Unloader] = "idle" /\ \A s \in Slots : EntryOf[s] = NULL
Walking == /\ used # 0 /\ pc[Unloader] \in RundownPoints /\ mode[Unloader] = "rundown" /\ obj[Unloader] = NULL
           /\ pc[Unloader] = "capture" => cid[Unloader] = 0
           /\ pc[Unloader] # "capture" =>
                 /\ top[Unloader] = root
                 /\ \A c \in Nat : c < cid[Unloader] /\ Resolve(root, c) # NULL => Passed(c)
StopInv == /\ \A a \in Actors : pc[a] = "idle" => cid[a] = 0
           /\ ~stopping => used # 0 /\ \A a \in Actors : mode[a] # "rundown"
           /\ stopping => Alone /\ (Over \/ Walking)

JInv == LostInv /\ FreshInv /\ UnderInv /\ ReachInv /\ StopInv
-----------------------------------------------------------------------------
(* Resolving a CID *)

Via(t, c) == IF t.level = 2 THEN links[t.address][c \div MaxId(1)] ELSE t.address
Leaf(t, c) == IF t.level = 0 \/ Via(t, c) = NULL THEN Via(t, c)
              ELSE links[Via(t, c)][(c % MaxId(1)) \div L0Count]

LEMMA ResolveIs ==
    ASSUME TableType, NEW t \in Tables, NEW c \in Nat
    PROVE  /\ Resolve(t, c) # NULL <=> c < MaxId(t.level) /\ Leaf(t, c) # NULL
           /\ Resolve(t, c) # NULL => Resolve(t, c) = Entry(Leaf(t, c), c)
           /\ c < MaxId(t.level) => Leaf(t, c) \in Addresses \cup {NULL} /\ Via(t, c) \in Addresses \cup {NULL}
  <1>1. Resolve(t, c) = IF c >= MaxId(t.level) \/ Leaf(t, c) = NULL THEN NULL ELSE Entry(Leaf(t, c), c)
    BY DEF Resolve, Leaf, Via
  <1>2. MaxId(t.level) \in Nat /\ t.address \in Addresses /\ (t.level = 0 \/ t.level = 1 \/ t.level = 2)
    BY Levels, Positive DEF Tables
  <1>3. ASSUME c < MaxId(t.level) PROVE Via(t, c) \in Addresses \cup {NULL}
    <2>1. t.level = 2 => c \div MaxId(1) \in LinkSlots
      BY <1>3, Indices
    <2> QED
      BY <1>2, <2>1 DEF Via, TableType
  <1>4. ASSUME c < MaxId(t.level) PROVE Leaf(t, c) \in Addresses \cup {NULL}
    <2>1. (c % MaxId(1)) \div L0Count \in LinkSlots
      BY Indices
    <2> QED
      BY <1>3, <1>4, <2>1 DEF Leaf, TableType
  <1>5. ASSUME c < MaxId(t.level), Leaf(t, c) # NULL PROVE Entry(Leaf(t, c), c) # NULL
    <2>1. Leaf(t, c) \in Nat /\ L0Count \in Nat \ {0} /\ c % L0Count \in Nat
      BY <1>4, <1>5, Sizes, ModBound DEF Addresses
    <2>2. Entry(Leaf(t, c), c) \in Nat
      BY <2>1 DEF Entry
    <2> QED
      BY <2>2, NullApart
  <1> QED
    BY <1>1, <1>2, <1>3, <1>4, <1>5

\* CIDs of the first table of a level have their entry in the first slots above it.
LEMMA FirstIndices ==
    ASSUME NEW c \in Nat
    PROVE  /\ c < MaxId(0) => c < MaxId(1) /\ (c % MaxId(1)) \div L0Count = 0
           /\ c < MaxId(1) => c < MaxId(2) /\ c \div MaxId(1) = 0
  <1>1. PICK l \in Nat \ {0} : l = L0Count /\ l = MaxId(0)
    BY Sizes
  <1>2. PICK m \in Nat \ {0} : m = MaxId(1)
    BY Positive
  <1>3. m = L1Count * l /\ MaxId(2) = L2Count * m /\ L1Count \in Nat \ {0} /\ L2Count \in Nat \ {0}
    BY <1>1, <1>2, Sizes, Positive
  <1>4. m >= l /\ MaxId(2) >= m
    BY <1>3
  <1>5. ASSUME NEW n \in Nat \ {0}, NEW x \in Nat, x < n PROVE x % n = x /\ x \div n = 0
    BY <1>5
  <1>6. MaxId(2) \in Nat
    BY Positive
  <1>7. c < l => c < m /\ c % m = c /\ c \div l = 0
    BY <1>4, <1>5
  <1>8. c < m => c \div m = 0 /\ c < MaxId(2)
    BY <1>4, <1>5, <1>6
  <1> QED
    BY <1>1, <1>2, <1>7, <1>8

\* A CID resolves below the root as it does below a table that was the root.
LEMMA UnderResolves ==
    ASSUME TableType, NEW t \in Tables, Under(t), NEW c \in Nat, Resolve(t, c) # NULL
    PROVE  Resolve(root, c) = Resolve(t, c)
  <1>1. root \in Tables /\ c < MaxId(t.level) /\ Leaf(t, c) # NULL /\ Resolve(t, c) = Entry(Leaf(t, c), c)
    BY ResolveIs DEF TableType
  <1>2. t.address # NULL /\ root.address # NULL
    BY <1>1, NullApart DEF Tables, Addresses
  <1>3. CASE t = root
    BY <1>3
  <1>4. CASE t.level = 0 /\ root.level = 1 /\ links[root.address][0] = t.address
    <2>1. c < MaxId(1) /\ (c % MaxId(1)) \div L0Count = 0
      BY <1>1, <1>4, FirstIndices
    <2>2. Leaf(root, c) = t.address /\ Leaf(t, c) = t.address
      BY <1>2, <1>4, <2>1 DEF Leaf, Via
    <2> QED
      BY <1>1, <1>4, <2>1, <2>2, <1>2, ResolveIs
  <1>5. CASE t.level = 1 /\ root.level = 2 /\ links[root.address][0] = t.address
    <2>1. c < MaxId(2) /\ c \div MaxId(1) = 0
      BY <1>1, <1>5, FirstIndices
    <2>2. Leaf(root, c) = Leaf(t, c)
      BY <1>2, <1>5, <2>1 DEF Leaf, Via
    <2> QED
      BY <1>1, <1>5, <2>1, <2>2, ResolveIs
  <1>6. CASE /\ t.level = 0 /\ root.level = 2 /\ links[root.address][0] # NULL
             /\ links[links[root.address][0]][0] = t.address
    <2>1. c < MaxId(1) /\ (c % MaxId(1)) \div L0Count = 0
      BY <1>1, <1>6, FirstIndices
    <2>2. c < MaxId(2) /\ c \div MaxId(1) = 0
      BY <2>1, FirstIndices
    <2>3. Leaf(root, c) = t.address /\ Leaf(t, c) = t.address
      BY <1>2, <1>6, <2>1, <2>2 DEF Leaf, Via
    <2> QED
      BY <1>1, <1>2, <1>6, <2>2, <2>3, ResolveIs
  <1> QED
    <2>1. t.level \in 0..2 /\ root.level \in 0..2
      BY <1>1 DEF Tables
    <2> QED
      BY <1>3, <1>4, <1>5, <1>6, <2>1 DEF Under

\* What Expand changes: a link that was not there, or the root, which moves up by one.
Grown == /\ \A t \in Addresses, i \in LinkSlots : t # used /\ links[t][i] # NULL => links'[t][i] = links[t][i]
         /\ \A t \in Addresses, i \in LinkSlots : links'[t][i] \in {NULL, links[t][i], used, root.address}
         /\ \/ root' = root
            \/ /\ root.level < 2 /\ root' = Table(root.level + 1, used)
               /\ links'[used][0] = root.address

LEMMA ZeroIndex == 0 \in LinkSlots
  BY Sizes DEF LinkSlots

\* The table that Expand makes is the new root above the old one, or is linked where nothing was.
LEMMA ExpandIs ==
    ASSUME IInv, NEW a \in Actors, Expand(a)
    PROVE  /\ used \in Addresses /\ used' = used + 1
           /\ \/ /\ root.level < 2 /\ root' = Table(root.level + 1, used)
                 /\ links'[used][0] = root.address /\ \A i \in LinkSlots : i # 0 => links'[used][i] = NULL
                 /\ \A t \in Addresses : t # used => links'[t] = links[t]
              \/ root' = root /\ \E x \in Addresses, i \in LinkSlots : links[x][i] = NULL
                    /\ \A t \in Addresses, j \in LinkSlots : links'[t][j] = IF t = x /\ j = i THEN used ELSE links[t][j]
  <1>1. pc[a] = "expand" /\ Resolve(root, cid[a]) = NULL /\ used < MaxTables /\ used' = used + 1
    BY DEF Expand
  <1>2. used \in Addresses
    BY <1>1, Sizes DEF IInv, TypeOK, TableType, Addresses
  <1>3. PICK id \in Nat : id = cid[a] /\ id < MaxId(2)
    BY <1>1 DEF IInv, ActorInv, GetPoints, TypeOK, TableType
  <1>4. root \in Tables /\ links \in [Addresses -> [LinkSlots -> Addresses \cup {NULL}]] /\ root.address \in Addresses
    BY DEF IInv, TypeOK, TableType, Tables
  <1>5. MaxId(root.level) \in Nat /\ (root.level = 0 \/ root.level = 1 \/ root.level = 2)
    BY <1>4, Levels, Positive
  <1>6. CASE id >= MaxId(root.level)
    <2>1. root' = Table(root.level + 1, used) /\ links' = [links EXCEPT ![used] = Adopted(root)]
      BY <1>3, <1>6 DEF Expand
    <2>2. root.level < 2
      BY <1>3, <1>5, <1>6, Positive
    <2>3. Adopted(root)[0] = root.address /\ \A i \in LinkSlots : i # 0 => Adopted(root)[i] = NULL
      BY ZeroIndex DEF Adopted, NoLinks, LinkSlots
    <2>4. /\ links'[used] = Adopted(root) /\ \A t \in Addresses : t # used => links'[t] = links[t]
      BY <1>2, <1>4, <2>1
    <2> QED
      BY <1>1, <1>2, <2>1, <2>2, <2>3, <2>4
  <1>7. CASE ~(id >= MaxId(root.level))
    <2>1. PICK x \in Addresses, i \in LinkSlots :
             root' = root /\ links' = [links EXCEPT ![x][i] = used] /\ links[x][i] = NULL
      <3>1. id < MaxId(root.level) /\ Leaf(root, id) = NULL /\ Via(root, id) \in Addresses \cup {NULL}
        BY <1>1, <1>3, <1>4, <1>5, <1>7, ResolveIs DEF IInv, TypeOK
      <3>2. root' = root /\ links' = IF Via(root, id) = NULL
                                     THEN [links EXCEPT ![root.address][id \div MaxId(1)] = used]
                                     ELSE [links EXCEPT ![Via(root, id)][(id % MaxId(1)) \div L0Count] = used]
        BY <1>3, <1>7 DEF Expand, Via
      <3>3. id \div MaxId(1) \in LinkSlots /\ (id % MaxId(1)) \div L0Count \in LinkSlots
        BY <1>3, Indices
      <3>4. CASE Via(root, id) = NULL
        <4>1. links[root.address][id \div MaxId(1)] = NULL
          BY <1>4, <3>4, NullApart DEF Via, Addresses
        <4> QED
          BY <1>4, <3>2, <3>3, <3>4, <4>1
      <3>5. CASE Via(root, id) # NULL
        <4>1. links[Via(root, id)][(id % MaxId(1)) \div L0Count] = NULL
          BY <3>1, <3>5 DEF Leaf
        <4> QED
          BY <3>1, <3>2, <3>3, <3>5, <4>1
      <3> QED
        BY <3>4, <3>5
    <2>2. \A t \in Addresses, j \in LinkSlots : links'[t][j] = IF t = x /\ j = i THEN used ELSE links[t][j]
      BY <1>4, <2>1
    <2> QED
      BY <1>1, <1>2, <2>1, <2>2
  <1> QED
    BY <1>6, <1>7

LEMMA ExpandGrows ==
    ASSUME IInv, NEW a \in Actors, Expand(a)
    PROVE  Grown /\ used \in Addresses /\ used' = used + 1
  <1>1. links \in [Addresses -> [LinkSlots -> Addresses \cup {NULL}]]
    BY DEF IInv, TypeOK, TableType
  <1>2. CASE /\ root.level < 2 /\ root' = Table(root.level + 1, used)
             /\ links'[used][0] = root.address /\ \A i \in LinkSlots : i # 0 => links'[used][i] = NULL
             /\ \A t \in Addresses : t # used => links'[t] = links[t]
    BY <1>2, ExpandIs DEF Grown
  <1>3. CASE root' = root /\ \E x \in Addresses, i \in LinkSlots : links[x][i] = NULL
                /\ \A t \in Addresses, j \in LinkSlots : links'[t][j] = IF t = x /\ j = i THEN used ELSE links[t][j]
    BY <1>3, ExpandIs DEF Grown
  <1> QED
    BY <1>2, <1>3, ExpandIs

\* A CID that has an entry keeps it.
LEMMA GrownResolves ==
    ASSUME TableType, TableType', FreshInv, used # 0, Grown, NEW c \in Nat, Resolve(root, c) # NULL
    PROVE  Resolve(root, c)' = Resolve(root, c)
  <1>1. root \in Tables /\ root' \in Tables
    BY DEF TableType
  <1>2. /\ c < MaxId(root.level) /\ Leaf(root, c) # NULL /\ Resolve(root, c) = Entry(Leaf(root, c), c)
        /\ Leaf(root, c) \in Addresses /\ Via(root, c) \in Addresses \cup {NULL}
    BY <1>1, ResolveIs
  <1>3. Via(root, c) # NULL /\ Via(root, c) \in Addresses
    BY <1>2 DEF Leaf
  <1>4. root.address \in Addresses /\ root.address < used /\ used \in Nat
    BY <1>1 DEF FreshInv, Tables, TableType
  <1>5. root.level = 2 => c \div MaxId(1) \in LinkSlots
    BY <1>2, Indices
  <1>6. Via(root, c) < used
    BY <1>3, <1>4, <1>5 DEF Via, FreshInv
  <1>7. (c % MaxId(1)) \div L0Count \in LinkSlots
    BY Indices
  <1>8. root.level # 0 => links'[Via(root, c)][(c % MaxId(1)) \div L0Count] = Leaf(root, c)
    <2>1. root.level # 0 => Leaf(root, c) = links[Via(root, c)][(c % MaxId(1)) \div L0Count]
      BY <1>3 DEF Leaf
    <2>2. Via(root, c) # used
      BY <1>3, <1>4, <1>6 DEF Addresses
    <2> QED
      BY <1>2, <1>3, <1>7, <2>1, <2>2 DEF Grown
  <1>9. CASE root' = root
    <2>1. Via(root, c)' = Via(root, c)
      <3>1. CASE root.level = 2
        <4>1. Via(root, c) = links[root.address][c \div MaxId(1)] /\ Via(root, c)' = links'[root.address][c \div MaxId(1)]
          BY <1>9, <3>1 DEF Via
        <4>2. root.address # used
          BY <1>4 DEF Addresses
        <4> QED
          BY <1>3, <1>4, <1>5, <3>1, <4>1, <4>2 DEF Grown
      <3>2. CASE root.level # 2
        BY <1>9, <3>2 DEF Via
      <3> QED
        BY <3>1, <3>2
    <2>2. Leaf(root, c)' = Leaf(root, c)
      BY <1>3, <1>8, <1>9, <2>1 DEF Leaf
    <2>3. Resolve(root, c)' = IF c >= MaxId(root'.level) \/ Leaf(root, c)' = NULL THEN NULL ELSE Entry(Leaf(root, c)', c)
      BY DEF Resolve, Leaf, Via
    <2> QED
      BY <1>1, <1>2, <1>9, <2>2, <2>3, Levels, Positive
  <1>10. CASE /\ root.level < 2 /\ root' = Table(root.level + 1, used)
              /\ links'[used][0] = root.address
    <2>1. root'.level = root.level + 1 /\ root'.address = used
      BY <1>10 DEF Table
    <2>2. Resolve(root, c)' = IF c >= MaxId(root'.level) \/ Leaf(root, c)' = NULL THEN NULL ELSE Entry(Leaf(root, c)', c)
      BY DEF Resolve, Leaf, Via
    <2>3. root.address # NULL /\ used # NULL
      BY <1>4, NullApart DEF Addresses
    <2>4. c < MaxId(root'.level) /\ Leaf(root, c)' = Leaf(root, c)
      <3>1. CASE root.level = 0
        <4>1. c < MaxId(1) /\ (c % MaxId(1)) \div L0Count = 0
          BY <1>2, <3>1, FirstIndices
        <4>2. Via(root, c)' = used /\ Leaf(root, c)' = links'[used][0]
          BY <2>1, <2>3, <3>1, <4>1 DEF Leaf, Via
        <4> QED
          BY <1>10, <2>1, <3>1, <4>1, <4>2 DEF Leaf, Via
      <3>2. CASE root.level = 1
        <4>1. c < MaxId(2) /\ c \div MaxId(1) = 0
          BY <1>2, <3>2, FirstIndices
        <4>2. Via(root, c)' = root.address /\ Via(root, c) = root.address
          BY <1>10, <2>1, <3>2, <4>1 DEF Via
        <4>3. Leaf(root, c)' = links'[root.address][(c % MaxId(1)) \div L0Count]
          BY <2>1, <2>3, <3>2, <4>2 DEF Leaf
        <4> QED
          BY <1>8, <2>1, <3>2, <4>1, <4>2, <4>3
      <3> QED
        BY <1>1, <1>10, <3>1, <3>2, Levels
    <2> QED
      BY <1>1, <1>2, <2>2, <2>4, Levels, Positive
  <1> QED
    BY <1>9, <1>10 DEF Grown

\* A table that was the root stays the first one below the root.
LEMMA GrownUnder ==
    ASSUME TableType, FreshInv, used # 0, Grown, NEW t \in Tables, Under(t)
    PROVE  Under(t)'
  <1>1. root \in Tables /\ root.address \in Addresses /\ t.address \in Addresses /\ used \in Nat
    BY DEF TableType, Tables
  <1>2. root.address < used /\ root.address # used /\ t.address # NULL /\ root.address # NULL
    BY <1>1, NullApart DEF FreshInv, Addresses
  <1>3. \A x \in Addresses : x < used /\ links[x][0] # NULL => links'[x][0] = links[x][0]
    BY <1>1, ZeroIndex DEF Grown, Addresses
  <1>4. links[root.address][0] # NULL =>
           links[root.address][0] \in Addresses /\ links[root.address][0] < used /\ links'[root.address][0] = links[root.address][0]
    BY <1>1, <1>2, <1>3, ZeroIndex DEF FreshInv, TableType
  <1>5. t.level \in 0..2 /\ root.level \in 0..2
    BY <1>1 DEF Tables
  <1>6. CASE root' = root
    BY <1>2, <1>3, <1>4, <1>6 DEF Under
  <1>7. CASE /\ root.level < 2 /\ root' = Table(root.level + 1, used)
             /\ links'[used][0] = root.address
    <2>1. root'.level = root.level + 1 /\ root'.address = used
      BY <1>7 DEF Table
    <2>2. CASE t = root
      BY <1>5, <1>7, <2>1, <2>2 DEF Under
    <2>3. CASE t # root
      <3>1. t.level = 0 /\ root.level = 1 /\ links[root.address][0] = t.address
        BY <1>5, <1>7, <2>3 DEF Under
      <3>2. links'[links'[used][0]][0] = t.address
        BY <1>2, <1>4, <1>7, <3>1
      <3> QED
        BY <1>2, <1>7, <2>1, <3>1, <3>2 DEF Under
    <2> QED
      BY <2>2, <2>3
  <1> QED
    BY <1>6, <1>7 DEF Grown

LEMMA GrownFresh ==
    ASSUME TableType, TableType', FreshInv, used # 0, Grown, used' = used + 1
    PROVE  FreshInv'
  <1>1. used \in Nat /\ root.address \in Addresses /\ root.address < used
    BY DEF TableType, FreshInv, Tables
  <1>2. root'.address < used'
    BY <1>1 DEF Grown, Table, Addresses
  <1>3. ASSUME NEW t \in Addresses, NEW i \in LinkSlots, links'[t][i] # NULL PROVE links'[t][i] < used'
    <2>1. links'[t][i] \in {links[t][i], used, root.address} /\ links[t][i] \in Addresses \cup {NULL}
      BY <1>3 DEF Grown, TableType
    <2>2. links[t][i] # NULL => links[t][i] < used /\ links[t][i] \in Nat
      BY <2>1 DEF FreshInv, Addresses
    <2> QED
      BY <1>1, <1>3, <2>1, <2>2 DEF Addresses
  <1> QED
    BY <1>2, <1>3 DEF FreshInv

\* CIDs between a CID and the end of its block have the same index.
LEMMA SameBlock ==
    ASSUME NEW c \in Nat, NEW id \in Nat, NEW n \in Nat \ {0}, id <= c, c < (id \div n + 1) * n
    PROVE  c \div n = id \div n
  <1>1. PICK q \in Nat : q = id \div n
    OBVIOUS
  <1>2. PICK p \in Nat : p = c \div n
    OBVIOUS
  <1>3. PICK r \in 0..(n - 1) : r = id % n
    BY ModBound
  <1>4. PICK u \in 0..(n - 1) : u = c % n
    BY ModBound
  <1>5. id = n * q + r /\ c = n * p + u
    BY <1>1, <1>2, <1>3, <1>4
  <1>6. n * p + u < (q + 1) * n /\ n * q + r <= n * p + u
    BY <1>1, <1>5
  <1>7. ~(p >= q + 1)
    BY <1>6
  <1>8. ~(q >= p + 1)
    BY <1>6
  <1> QED
    BY <1>1, <1>2, <1>7, <1>8

LEMMA DivMod ==
    ASSUME NEW x \in Nat, NEW n \in Nat \ {0}
    PROVE  x = n * (x \div n) + (x % n) /\ x \div n \in Nat
  <1>1. PICK q \in Nat : q = x \div n
    OBVIOUS
  <1>2. PICK r \in 0..(n - 1) : r = x % n
    BY ModBound
  <1>3. x = n * q + r
    BY <1>1, <1>2
  <1>4. x = n * (x \div n) + (x % n)
    BY <1>1, <1>2, <1>3
  <1> QED
    BY <1>1, <1>4

\* The block of a CID is a table of links and an index into it.
LEMMA BlockIs ==
    ASSUME NEW x \in Nat
    PROVE  /\ x \div MaxId(1) \in Nat /\ (x % MaxId(1)) \div L0Count \in 0..(L1Count - 1)
           /\ x \div L0Count = (x \div MaxId(1)) * L1Count + (x % MaxId(1)) \div L0Count
  <1>1. PICK l \in Nat \ {0} : l = L0Count
    BY Sizes
  <1>2. PICK k \in Nat \ {0} : k = L1Count
    BY Sizes
  <1>3. PICK m \in Nat \ {0} : m = MaxId(1) /\ m = k * l
    BY <1>1, <1>2, Sizes, Positive
  <1>4. /\ x \div m \in Nat /\ (x % m) \div l \in 0..(k - 1)
        /\ x \div l = (x \div m) * k + (x % m) \div l
    <2>1. PICK q \in Nat : q = x \div m
      OBVIOUS
    <2>2. PICK r \in 0..(m - 1) : r = x % m
      BY ModBound
    <2>3. r \in Nat /\ r < k * l
      BY <1>3
    <2>4. PICK j \in 0..(k - 1) : j = r \div l
      BY <2>3, DivBound
    <2>5. PICK u \in 0..(l - 1) : u = r % l
      BY <2>3, ModBound
    <2>6. x = m * q + r /\ r = l * j + u
      <3>1. x = m * q + r
        BY <2>1, <2>2, DivMod
      <3>2. r = l * j + u
        BY <2>3, <2>4, <2>5, DivMod
      <3> QED
        BY <3>1, <3>2
    <2>7. x = l * (q * k + j) + u
      BY <1>3, <2>6
    <2>8. PICK y \in Nat : y = q * k + j
      OBVIOUS
    <2>9. x = l * y + u
      BY <2>7, <2>8
    <2>10. x \div l = y
      <3>1. PICK p \in Nat : p = x \div l
        OBVIOUS
      <3>2. PICK v \in 0..(l - 1) : v = x % l
        BY ModBound
      <3>3. x = l * p + v
        BY <3>1, <3>2
      <3>4. ~(p >= y + 1) /\ ~(y >= p + 1)
        BY <2>9, <3>3
      <3> QED
        BY <3>1, <3>4
    <2> QED
      BY <2>1, <2>2, <2>4, <2>8, <2>10
  <1> QED
    BY <1>1, <1>2, <1>3, <1>4

\* The index of a CID in its lowest table of links, and that table, depend on its block of L0Count.
LEMMA SameIndices ==
    ASSUME NEW c \in Nat, NEW id \in Nat, c \div L0Count = id \div L0Count
    PROVE  c \div MaxId(1) = id \div MaxId(1) /\ (c % MaxId(1)) \div L0Count = (id % MaxId(1)) \div L0Count
  <1>1. PICK l \in Nat \ {0} : l = L0Count
    BY Sizes
  <1>2. PICK k \in Nat \ {0} : k = L1Count
    BY Sizes
  <1>3. PICK m \in Nat \ {0} : m = MaxId(1) /\ m = k * l
    BY <1>1, <1>2, Sizes, Positive
  <1>4. ASSUME NEW x \in Nat
        PROVE  /\ x \div m \in Nat /\ (x % m) \div l \in 0..(k - 1)
               /\ x \div l = (x \div m) * k + (x % m) \div l
    BY <1>1, <1>2, <1>3, BlockIs
  <1>5. PICK p \in Nat : p = c \div m
    OBVIOUS
  <1>6. PICK q \in Nat : q = id \div m
    OBVIOUS
  <1>7. PICK i \in 0..(k - 1) : i = (c % m) \div l
    BY <1>4
  <1>8. PICK j \in 0..(k - 1) : j = (id % m) \div l
    BY <1>4
  <1>9. p * k + i = q * k + j
    BY <1>1, <1>4, <1>5, <1>6, <1>7, <1>8
  <1>10. ~(p >= q + 1) /\ ~(q >= p + 1)
    BY <1>9
  <1>11. p = q /\ i = j
    BY <1>9, <1>10
  <1> QED
    BY <1>1, <1>3, <1>5, <1>6, <1>7, <1>8, <1>11

\* The tables that an enumeration passes over have no entry.
LEMMA SkipResolves ==
    ASSUME TableType, NEW t \in Tables, NEW id \in Nat, id < MaxId(t.level), Resolve(t, id) = NULL,
           NEW c \in Nat, id <= c, c < Skip(t, id)
    PROVE  Resolve(t, c) = NULL
  <1>1. Leaf(t, id) = NULL /\ t.address # NULL
    BY ResolveIs, NullApart DEF Tables, Addresses
  <1>2. SUFFICES ASSUME c < MaxId(t.level) PROVE Leaf(t, c) = NULL
    BY ResolveIs
  <1>3. t.level = 1 \/ t.level = 2
    BY <1>1, Levels DEF Leaf, Via
  <1>4. CASE t.level = 2 /\ links[t.address][id \div MaxId(1)] = NULL
    <2>1. Skip(t, id) = (id \div MaxId(1) + 1) * MaxId(1)
      BY <1>4 DEF Skip
    <2>2. c \div MaxId(1) = id \div MaxId(1)
      BY <2>1, SameBlock, Positive
    <2> QED
      BY <1>4, <2>2 DEF Leaf, Via
  <1>5. CASE ~(t.level = 2 /\ links[t.address][id \div MaxId(1)] = NULL)
    <2>1. Skip(t, id) = (id \div L0Count + 1) * L0Count
      BY <1>5 DEF Skip
    <2>2. c \div L0Count = id \div L0Count
      BY <2>1, SameBlock, Sizes
    <2>3. c \div MaxId(1) = id \div MaxId(1) /\ (c % MaxId(1)) \div L0Count = (id % MaxId(1)) \div L0Count
      BY <2>2, SameIndices
    <2>4. Via(t, c) = Via(t, id)
      BY <2>3 DEF Via
    <2>5. Leaf(t, c) = Leaf(t, id)
      BY <2>3, <2>4 DEF Leaf
    <2> QED
      BY <1>1, <2>5
  <1> QED
    BY <1>4, <1>5
-----------------------------------------------------------------------------
(* Steps that leave the tables and the objects of the entries alone *)

Plain(a) ==
    /\ OthersStill(a) /\ UNCHANGED <<root, links, used, stopping>> /\ EntryOf' = EntryOf
    /\ pc[a] \notin {"idle", "capture"}
    /\ \A b \in Actors : b # a => top'[b] = top[b]
    /\ pc'[a] = "idle" => cid'[a] = 0 /\ top'[a] = Table(0, 0) /\ mode'[a] \in {mode[a], "none"}
    /\ pc'[a] # "idle" => top'[a] = top[a] /\ mode'[a] = mode[a] /\ (mode[a] = "rundown" => cid'[a] = cid[a])
    /\ pc'[a] \in EntryPoints => (pc[a] \in EntryPoints /\ slot'[a] = slot[a]) \/ Reached(slot'[a])
    /\ pc[a] \in StorePoints => pc'[a] \in StorePoints /\ slot'[a] = slot[a]
    /\ mode[a] = "rundown" /\ obj[a] = NULL /\ pc[a] \in RundownPoints =>
          pc'[a] \in RundownPoints \ {"capture"} /\ obj'[a] = NULL

LEMMA SameTables ==
    ASSUME root' = root, links' = links
    PROVE  /\ \A t, c : Resolve(t, c)' = Resolve(t, c)
           /\ \A c : Resolve(root, c)' = Resolve(root, c)
           /\ \A s : Reached(s)' <=> Reached(s)
           /\ \A t : Under(t)' <=> Under(t)
  <1>1. \A t, c : Resolve(t, c)' = Resolve(t, c)
    BY DEF Resolve
  <1>2. \A c : Resolve(root, c)' = Resolve(root, c)
    BY DEF Resolve
  <1>3. \A s : Reached(s)' <=> Reached(s)
    BY <1>2 DEF Reached
  <1>4. \A t : Under(t)' <=> Under(t)
    BY DEF Under
  <1> QED
    BY <1>1, <1>2, <1>3, <1>4

LEMMA PointsApart ==
    /\ StorePoints \subseteq EntryPoints /\ StorePoints \subseteq RundownPoints
    /\ "idle" \notin EntryPoints \cup RundownPoints /\ "capture" \notin EntryPoints
  BY DEF StorePoints, EntryPoints, SharePoints, LockPoints, RundownPoints

\* An actor that takes a step while the driver is unloaded is the unloader.
LEMMA OnlyUnloader ==
    ASSUME JInv, NEW a \in Actors, stopping, pc[a] # "idle"
    PROVE  a = Unloader /\ Walking
  BY DEF JInv, StopInv, Alone, Over

\* The tables as they were.
LEMMA TablesKept ==
    ASSUME JInv, NEW a \in Actors, OthersStill(a), root' = root, links' = links, used' = used \/ used' = 0,
           \A b \in Actors : b # a => top'[b] = top[b], top'[a] \in {top[a], root, Table(0, 0)}
    PROVE  FreshInv' /\ UnderInv'
  <1>1. \A t : Under(t)' <=> Under(t)
    BY SameTables
  <1>2. FreshInv'
    BY DEF JInv, FreshInv
  <1>3. ASSUME NEW b \in Actors PROVE Under(top[b])'
    <2>1. Under(root)
      BY DEF Under
    <2>2. PICK t : t = top'[b] /\ Under(t)
      BY <2>1 DEF JInv, UnderInv
    <2>3. Under(t)'
      BY <1>1, <2>2
    <2> QED
      BY <2>2, <2>3 DEF Under
  <1>4. Under(Table(0, 0))'
    BY <1>1 DEF JInv, UnderInv
  <1> QED
    BY <1>2, <1>3, <1>4 DEF UnderInv

LEMMA ReachKept ==
    ASSUME JInv, NEW a \in Actors, OthersStill(a), root' = root, links' = links,
           \A s \in Slots : EntryOf'[s] # NULL => EntryOf[s] # NULL \/ Reached(s),
           pc'[a] \in EntryPoints => (pc[a] \in EntryPoints /\ slot'[a] = slot[a]) \/ Reached(slot'[a])
    PROVE  ReachInv'
  <1>1. \A s : Reached(s)' <=> Reached(s)
    BY SameTables
  <1>2. \A s \in Slots : EntryOf'[s] # NULL => Reached(s)'
    BY <1>1 DEF JInv, ReachInv
  <1>3. ASSUME NEW b \in Actors, pc'[b] \in EntryPoints PROVE Reached(slot[b])'
    <2>1. (pc[b] \in EntryPoints /\ slot'[b] = slot[b]) \/ Reached(slot'[b])
      BY <1>3 DEF OthersStill, Still
    <2>2. PICK s : s = slot'[b] /\ Reached(s)
      BY <2>1 DEF JInv, ReachInv
    <2>3. Reached(s)'
      BY <1>1, <2>2
    <2> QED
      BY <2>2, <2>3 DEF Reached
  <1> QED
    BY <1>2, <1>3 DEF ReachInv

LEMMA PlainKeeps ==
    ASSUME IInv, JInv, NEW a \in Actors, Plain(a), LostInv'
    PROVE  JInv'
  <1>1. /\ OthersStill(a) /\ root' = root /\ links' = links /\ used' = used /\ stopping' = stopping
        /\ EntryOf' = EntryOf /\ pc[a] # "idle" /\ pc[a] # "capture"
        /\ \A b \in Actors : b # a => top'[b] = top[b]
    BY DEF Plain
  <1>2. \A c : Resolve(root, c)' = Resolve(root, c)
    BY <1>1, SameTables
  <1>3. FreshInv' /\ UnderInv'
    BY <1>1, TablesKept DEF Plain
  <1>4. ReachInv'
    BY <1>1, ReachKept DEF Plain
  <1>5. StopInv'
    <2>1. \A b \in Actors : pc'[b] = "idle" => cid'[b] = 0
      BY <1>1 DEF JInv, StopInv, Plain, OthersStill, Still
    <2>2. CASE ~stopping
      <3>1. \A b \in Actors : mode'[b] # "rundown"
        BY <1>1, <2>2 DEF JInv, StopInv, Plain, OthersStill, Still
      <3> QED
        BY <1>1, <2>1, <2>2, <3>1 DEF JInv, StopInv
    <2>3. CASE stopping
      <3>1. a = Unloader /\ Walking
        BY <1>1, <2>3, OnlyUnloader
      <3>2. Alone'
        BY <1>1, <2>3, <3>1 DEF JInv, StopInv, Alone, OthersStill, Still
      <3>3. /\ used # 0 /\ pc[a] \in RundownPoints /\ mode[a] = "rundown" /\ obj[a] = NULL /\ top[a] = root
            /\ \A c \in Nat : c < cid[a] /\ Resolve(root, c) # NULL => Passed(c)
        BY <1>1, <3>1 DEF Walking
      <3>4. pc'[a] \in RundownPoints \ {"capture"} /\ obj'[a] = NULL
        BY <3>3 DEF Plain
      <3>5. top'[a] = root' /\ mode'[a] = "rundown" /\ cid'[a] = cid[a]
        BY <1>1, <3>3, <3>4, PointsApart DEF Plain
      <3>6. ASSUME NEW c \in Nat, Passed(c) PROVE Passed(c)'
        <4>1. PICK s : s = Resolve(root, c)
          OBVIOUS
        <4>2. Resolve(root, c)' = s
          BY <1>2, <4>1
        <4>3. CASE EntryOf[s] = NULL
          BY <1>1, <4>2, <4>3 DEF Passed
        <4>4. CASE pc[a] \in StorePoints /\ slot[a] = s
          <5>1. pc'[a] \in StorePoints /\ slot'[a] = s
            BY <4>4 DEF Plain
          <5> QED
            BY <3>1, <4>2, <5>1 DEF Passed
        <4> QED
          BY <3>1, <3>6, <4>1, <4>3, <4>4 DEF Passed
      <3>7. \A c \in Nat : c < cid'[a] /\ Resolve(root, c)' # NULL => Passed(c)'
        BY <1>2, <3>3, <3>5, <3>6
      <3>8. Walking'
        BY <1>1, <3>1, <3>3, <3>4, <3>5, <3>7 DEF Walking
      <3> QED
        BY <1>1, <2>1, <2>3, <3>2, <3>8 DEF StopInv
    <2> QED
      BY <2>2, <2>3
  <1> QED
    BY <1>3, <1>4, <1>5 DEF JInv

LEMMA LostKept ==
    ASSUME LostInv, NEW a \in Actors, OthersStill(a), flushed' = flushed, deferred' = deferred, pc[a] # "push",
           \A w \in Objects : count'[w] = 0 => count[w] = 0 \/ (pc'[a] = "push" /\ old'[a] = w)
    PROVE  LostInv'
  <1>1. ASSUME NEW w \in Objects, count'[w] = 0
        PROVE  w \in flushed' \cup Elements(deferred)' \/ \E b \in Actors : pc'[b] = "push" /\ old'[b] = w
    <2>1. CASE pc'[a] = "push" /\ old'[a] = w
      BY <2>1
    <2>2. CASE count[w] = 0
      <3>1. w \in flushed \cup Elements(deferred) \/ \E b \in Actors : pc[b] = "push" /\ old[b] = w
        BY <2>2 DEF LostInv
      <3>2. flushed' \cup Elements(deferred)' = flushed \cup Elements(deferred)
        BY DEF Elements
      <3>3. \A b \in Actors : pc[b] = "push" /\ old[b] = w => pc'[b] = "push" /\ old'[b] = w
        BY DEF OthersStill, Still
      <3> QED
        BY <3>1, <3>2, <3>3
    <2> QED
      BY <1>1, <2>1, <2>2
  <1> QED
    BY <1>1 DEF LostInv

LEMMA MovesTo ==
    ASSUME IInv, NEW a \in Actors, NEW p, Goto(a, p)
    PROVE  pc'[a] = p /\ \A b \in Actors : b # a => pc'[b] = pc[b]
  BY DEF IInv, TypeOK, ObjectType, Goto

LEMMA CallKept ==
    ASSUME IInv, NEW a \in Actors, KeepCall(a)
    PROVE  /\ \A b \in Actors : b # a => top'[b] = top[b] /\ mode'[b] = mode[b] /\ cid'[b] = cid[b]
           /\ pc'[a] = "idle" => cid'[a] = 0 /\ top'[a] = Table(0, 0) /\ mode'[a] \in {mode[a], "none"}
           /\ pc'[a] # "idle" => cid'[a] = cid[a] /\ top'[a] = top[a] /\ mode'[a] = mode[a]
  <1>1. PICK o \in BOOLEAN : o = (pc'[a] = "idle")
    OBVIOUS
  <1>2. /\ cid' = [cid EXCEPT ![a] = IF o THEN 0 ELSE @]
        /\ top' = [top EXCEPT ![a] = IF o THEN Table(0, 0) ELSE @]
        /\ mode' = [mode EXCEPT ![a] = IF o /\ a \notin Trackers THEN "none" ELSE @]
    BY <1>1 DEF KeepCall
  <1>3. /\ \A b \in Actors : b # a => top'[b] = top[b]
        /\ top'[a] = IF o THEN Table(0, 0) ELSE top[a]
    BY <1>2 DEF IInv, TypeOK, TableType
  <1>4. /\ \A b \in Actors : b # a => cid'[b] = cid[b]
        /\ cid'[a] = IF o THEN 0 ELSE cid[a]
    BY <1>2 DEF IInv, TypeOK, TableType
  <1>5. /\ \A b \in Actors : b # a => mode'[b] = mode[b]
        /\ mode'[a] = IF o /\ a \notin Trackers THEN "none" ELSE mode[a]
    BY <1>2 DEF IInv, TypeOK, TableType
  <1> QED
    BY <1>1, <1>3, <1>4, <1>5

\* The lock bits of an entry are apart from its object.
LEMMA BitsApart ==
    ASSUME IInv, NEW s, NEW v,
           ref' = [ref EXCEPT ![s].shared = v] \/ ref' = [ref EXCEPT ![s].exclusive = v]
    PROVE  EntryOf' = EntryOf
  <1>1. \A r \in Slots : ref[r] \in AtomicRefs
    BY DEF IInv, TypeOK, ObjectType
  <1>2. DOMAIN ref = Slots
    BY DEF IInv, TypeOK, ObjectType
  <1>3. ASSUME NEW r \in Slots PROVE ref'[r].object = ref[r].object
    <2>1. ref[r] = [object |-> ref[r].object, shared |-> ref[r].shared, exclusive |-> ref[r].exclusive]
      BY <1>1 DEF AtomicRefs
    <2>2. ref'[r] = ref[r] \/ ref'[r] = [ref[r] EXCEPT !.shared = v] \/ ref'[r] = [ref[r] EXCEPT !.exclusive = v]
      BY <1>2
    <2> QED
      BY <2>1, <2>2
  <1> QED
    BY <1>3 DEF EntryOf

LEMMA AtomicPlain ==
    ASSUME IInv, JInv, NEW a \in Actors, AtomicSteps(a), UNCHANGED <<tableVars, callVars, control>>
    PROVE  Plain(a) /\ LostInv'
  <1>1. /\ root' = root /\ links' = links /\ used' = used /\ stopping' = stopping
        /\ mode' = mode /\ cid' = cid /\ top' = top
    BY DEF tableVars, callVars, control
  <1>2. slot' = slot /\ deferred' = deferred /\ flushed' = flushed
    BY DEF AtomicSteps, AcquireShared, ReadObject, ReferenceObject, AssignReference, AcquireExclusive, Drain,
           ReadPrevious, objects, objectLocals
  <1>3. EntryOf' = EntryOf
    <2>1. CASE AcquireShared(a) \/ AcquireExclusive(a)
      <3>1. \E s, v : ref' = [ref EXCEPT ![s].shared = v] \/ ref' = [ref EXCEPT ![s].exclusive = v]
        BY <2>1 DEF AcquireShared, AcquireExclusive
      <3> QED
        BY <3>1, BitsApart
    <2>2. CASE ~(AcquireShared(a) \/ AcquireExclusive(a))
      <3>1. ref' = ref
        BY <2>2 DEF AtomicSteps, ReadObject, ReferenceObject, AssignReference, Drain, ReadPrevious
      <3> QED
        BY <3>1 DEF EntryOf
    <2> QED
      BY <2>1, <2>2
  <1>4. PICK p : Goto(a, p) /\ <<pc[a], p>> \in {<<"shared", "read">>, <<"read", "release">>, <<"read", "reference">>,
           <<"reference", "release">>, <<"assign", "exclusive">>, <<"exclusive", "drain">>, <<"drain", "previous">>,
           <<"previous", "store">>}
    BY DEF AtomicSteps, AcquireShared, ReadObject, ReferenceObject, AssignReference, AcquireExclusive, Drain, ReadPrevious
  <1>5. pc'[a] = p /\ \A b \in Actors : b # a => pc'[b] = pc[b]
    BY <1>4, MovesTo
  <1>6. (pc[a] # "read" => obj' = obj) /\ (pc[a] # "previous" => old' = old)
    BY DEF AtomicSteps, AcquireShared, ReadObject, ReferenceObject, AssignReference, AcquireExclusive, Drain,
           ReadPrevious, objectLocals
  <1>7. \A b \in Actors : b # a => obj'[b] = obj[b] /\ old'[b] = old[b]
    BY DEF AtomicSteps, AcquireShared, ReadObject, ReferenceObject, AssignReference, AcquireExclusive, Drain,
           ReadPrevious, objectLocals, IInv, TypeOK, ObjectType
  <1>8. OthersStill(a)
    BY <1>1, <1>2, <1>5, <1>7 DEF OthersStill, Still
  <1>9. pc'[a] \in EntryPoints /\ pc[a] \in EntryPoints /\ pc'[a] # "idle"
    BY <1>4, <1>5 DEF EntryPoints, SharePoints, LockPoints
  <1>10. pc[a] \in StorePoints => pc'[a] \in StorePoints
    BY <1>4, <1>5 DEF StorePoints
  <1>11. pc[a] \in RundownPoints => pc'[a] \in RundownPoints \ {"capture"} /\ pc[a] # "read"
    BY <1>4, <1>5 DEF RundownPoints, StorePoints
  <1>12. Plain(a)
    BY <1>1, <1>2, <1>3, <1>4, <1>6, <1>8, <1>9, <1>10, <1>11 DEF Plain
  <1>13. ASSUME NEW w \in Objects, count'[w] = 0 PROVE count[w] = 0
    <2>1. CASE ~(ReferenceObject(a) \/ AssignReference(a))
      BY <1>13, <2>1 DEF AtomicSteps, AcquireShared, ReadObject, AcquireExclusive, Drain, ReadPrevious, objects
    <2>2. CASE ReferenceObject(a) \/ AssignReference(a)
      <3>1. pc[a] \in {"reference", "assign"} /\ count' = [count EXCEPT ![obj[a]] = @ + 1]
        BY <2>2 DEF ReferenceObject, AssignReference, Increment
      <3>2. PICK o \in Objects : o = obj[a]
        BY <3>1 DEF IInv, ActorInv
      <3>3. pc[a] = "reference" => slot[a] \in Slots /\ EntryOf[slot[a]] = o
        BY <3>2 DEF IInv, ActorInv, EntryPoints, SharePoints, EntryOf
      <3>4. pc[a] = "assign" => Tokens(a, o) >= 1
        BY <3>2 DEF Tokens, HeldBy, One
      <3>5. count[o] \in Nat
        BY <3>1, <3>3, <3>4, Referred
      <3> QED
        BY <1>13, <3>1, <3>2, <3>5 DEF IInv, TypeOK, ObjectType
    <2> QED
      BY <2>1, <2>2
  <1>14. LostInv'
    BY <1>2, <1>4, <1>8, <1>13, LostKept DEF JInv
  <1> QED
    BY <1>12, <1>14

LEMMA KeptPlain ==
    ASSUME IInv, NEW a \in Actors, NEW p, Goto(a, p), KeepObjects(a), KeepCall(a),
           UNCHANGED <<root, links, used, stopping>>, EntryOf' = EntryOf, pc[a] \notin {"idle", "capture"},
           p \in EntryPoints => pc[a] \in EntryPoints, pc[a] \notin StorePoints,
           mode[a] = "rundown" /\ obj[a] = NULL /\ pc[a] \in RundownPoints => p \in RundownPoints \ {"capture"}
    PROVE  Plain(a) /\ pc'[a] = p
  <1>1. pc'[a] = p /\ \A b \in Actors : b # a => pc'[b] = pc[b]
    BY MovesTo
  <1>2. /\ \A b \in Actors : b # a => slot'[b] = slot[b] /\ obj'[b] = obj[b] /\ old'[b] = old[b]
        /\ pc'[a] # "idle" => slot'[a] = slot[a] /\ obj'[a] = obj[a] /\ old'[a] = old[a]
        /\ pc'[a] = "idle" => obj'[a] = NULL
    BY KeptObjects DEF IInv, TypeOK
  <1>3. /\ \A b \in Actors : b # a => top'[b] = top[b] /\ mode'[b] = mode[b] /\ cid'[b] = cid[b]
        /\ pc'[a] = "idle" => cid'[a] = 0 /\ top'[a] = Table(0, 0) /\ mode'[a] \in {mode[a], "none"}
        /\ pc'[a] # "idle" => cid'[a] = cid[a] /\ top'[a] = top[a] /\ mode'[a] = mode[a]
    BY CallKept
  <1>4. OthersStill(a)
    BY <1>1, <1>2, <1>3 DEF OthersStill, Still
  <1>5. pc'[a] \in EntryPoints => pc[a] \in EntryPoints /\ slot'[a] = slot[a]
    BY <1>1, <1>2, PointsApart
  <1>6. mode[a] = "rundown" /\ obj[a] = NULL /\ pc[a] \in RundownPoints =>
           pc'[a] \in RundownPoints \ {"capture"} /\ obj'[a] = NULL
    BY <1>1, <1>2, PointsApart
  <1> QED
    BY <1>1, <1>3, <1>4, <1>5, <1>6 DEF Plain

LEMMA ReturnPlain ==
    ASSUME IInv, JInv, NEW a \in Actors, ExpandFails(a) \/ Referenced(a) \/ Stored(a)
    PROVE  Plain(a) /\ LostInv'
  <1>1. /\ KeepObjects(a) /\ KeepCall(a) /\ root' = root /\ links' = links /\ used' = used /\ stopping' = stopping
        /\ count' = count /\ deferred' = deferred /\ flushed' = flushed
    BY DEF ExpandFails, Referenced, Stored, ReleaseShared, ReleaseExclusive, tableVars, control, objects
  <1>2. EntryOf' = EntryOf
    <2>1. CASE ExpandFails(a)
      BY <2>1 DEF ExpandFails, EntryOf
    <2>2. CASE Referenced(a) \/ Stored(a)
      <3>1. \E s, v : ref' = [ref EXCEPT ![s].shared = v] \/ ref' = [ref EXCEPT ![s].exclusive = v]
        BY <2>2 DEF Referenced, Stored, ReleaseShared, ReleaseExclusive
      <3> QED
        BY <3>1, BitsApart
    <2> QED
      BY <2>1, <2>2
  <1>3. PICK p : /\ Goto(a, p)
                 /\ \/ pc[a] = "expand" /\ p = "idle"
                    \/ pc[a] = "release" /\ p \in {"held", "visit", "drop", "exclusive", "create", "idle"}
                    \/ /\ pc[a] = "unlock" /\ p \in {"replaced", "held", "visit", "idle"}
                       /\ mode[a] = "rundown" /\ obj[a] = NULL => p \in {"replaced", "visit"}
    <2>1. CASE ExpandFails(a)
      BY <2>1 DEF ExpandFails
    <2>2. CASE Referenced(a)
      BY <2>2, AfterReferenceIs DEF Referenced, ReleaseShared
    <2>3. CASE Stored(a)
      BY <2>3 DEF Stored, ReleaseExclusive, Replaced, After, Walks
    <2> QED
      BY <2>1, <2>2, <2>3
  <1>4. pc[a] \notin {"idle", "capture"} /\ pc[a] \notin StorePoints /\ pc[a] # "push" /\ p # "push"
    BY <1>3 DEF StorePoints
  <1>5. p \in EntryPoints => pc[a] \in EntryPoints
    BY <1>3 DEF EntryPoints, SharePoints, LockPoints
  <1>6. mode[a] = "rundown" /\ obj[a] = NULL /\ pc[a] \in RundownPoints => p \in RundownPoints \ {"capture"}
    BY <1>3 DEF RundownPoints, StorePoints
  <1>7. Plain(a)
    BY <1>1, <1>2, <1>3, <1>4, <1>5, <1>6, KeptPlain
  <1>8. LostInv'
    BY <1>1, <1>4, <1>7, LostKept DEF Plain, JInv
  <1> QED
    BY <1>7, <1>8

LEMMA CreatePlain ==
    ASSUME IInv, JInv, NEW a \in Actors, Create(a)
    PROVE  Plain(a) /\ LostInv'
  <1>1. /\ pc[a] = "create" /\ KeepCall(a) /\ root' = root /\ links' = links /\ used' = used /\ stopping' = stopping
    BY DEF Create, tableVars, control
  <1>2. pc[a] \in EntryPoints /\ pc[a] \notin StorePoints /\ pc[a] \notin RundownPoints
    BY <1>1 DEF EntryPoints, StorePoints, RundownPoints
  <1>3. CASE Goto(a, "idle") /\ KeepObjects(a) /\ UNCHANGED <<objects, ref>>
    <2>1. EntryOf' = EntryOf /\ count' = count /\ deferred' = deferred /\ flushed' = flushed
      BY <1>3 DEF EntryOf, objects
    <2>2. Plain(a)
      BY <1>1, <1>2, <1>3, <2>1, KeptPlain
    <2>3. LostInv'
      BY <1>1, <2>1, <2>2, LostKept DEF Plain, JInv
    <2> QED
      BY <2>2, <2>3
  <1>4. CASE CreateObject(a, asked[a]) /\ Goto(a, "assign")
    <2>1. PICK o \in Objects :
             /\ count[o] = NULL /\ count' = [count EXCEPT ![o] = 1] /\ obj' = [obj EXCEPT ![a] = o]
             /\ UNCHANGED <<deferred, item, started, flushed, ref, slot, old>>
      BY <1>4 DEF CreateObject
    <2>2. pc'[a] = "assign" /\ \A b \in Actors : b # a => pc'[b] = pc[b]
      BY <1>4, MovesTo
    <2>3. /\ \A b \in Actors : b # a => top'[b] = top[b] /\ mode'[b] = mode[b] /\ cid'[b] = cid[b]
          /\ cid'[a] = cid[a] /\ top'[a] = top[a] /\ mode'[a] = mode[a]
      BY <1>1, <2>2, CallKept
    <2>4. OthersStill(a)
      BY <2>1, <2>2, <2>3 DEF OthersStill, Still, IInv, TypeOK, ObjectType
    <2>5. EntryOf' = EntryOf
      BY <2>1 DEF EntryOf
    <2>6. Plain(a)
      BY <1>1, <1>2, <2>1, <2>2, <2>3, <2>4, <2>5 DEF Plain
    <2>7. \A w \in Objects : count'[w] = 0 => count[w] = 0
      BY <2>1 DEF IInv, TypeOK, ObjectType
    <2>8. LostInv'
      BY <1>1, <2>1, <2>4, <2>7, LostKept DEF JInv
    <2> QED
      BY <2>6, <2>8
  <1> QED
    BY <1>3, <1>4 DEF Create

LEMMA DereferencePlain ==
    ASSUME IInv, JInv, NEW a \in Actors, NEW o, NEW p \in {"held", "visit", "idle"}, Dereference(a, o, p),
           pc[a] \in {"replaced", "held", "drop"}, root' = root, links' = links, used' = used, stopping' = stopping,
           \A b \in Actors : b # a => top'[b] = top[b] /\ mode'[b] = mode[b] /\ cid'[b] = cid[b] /\ obj'[b] = obj[b],
           pc'[a] = "idle" => cid'[a] = 0 /\ top'[a] = Table(0, 0) /\ mode'[a] \in {mode[a], "none"},
           pc'[a] # "idle" => top'[a] = top[a] /\ mode'[a] = mode[a] /\ (mode[a] = "rundown" => cid'[a] = cid[a]),
           mode[a] = "rundown" /\ obj[a] = NULL => p = "visit" /\ obj'[a] = NULL,
           count[o] \in Nat, o \in Objects
    PROVE  Plain(a) /\ LostInv'
  <1>1. /\ count' = [count EXCEPT ![o] = @ - 1] /\ Goto(a, IF count[o] - 1 > 0 THEN p ELSE "push")
        /\ old' = [old EXCEPT ![a] = IF pc'[a] = "push" THEN o ELSE NULL]
        /\ slot' = [slot EXCEPT ![a] = NULL]
        /\ deferred' = deferred /\ flushed' = flushed /\ ref' = ref
    BY DEF Dereference
  <1>2. PICK q \in {"held", "visit", "idle", "push"} :
           Goto(a, q) /\ (q = "push" <=> ~(count[o] - 1 > 0)) /\ (q # "push" => q = p)
    BY <1>1
  <1>3. pc'[a] = q /\ \A b \in Actors : b # a => pc'[b] = pc[b]
    BY <1>2, MovesTo
  <1>4. /\ \A b \in Actors : b # a => old'[b] = old[b] /\ slot'[b] = slot[b]
        /\ q = "push" => old'[a] = o
    BY <1>1, <1>3 DEF IInv, TypeOK, ObjectType
  <1>5. OthersStill(a)
    BY <1>3, <1>4 DEF OthersStill, Still
  <1>6. EntryOf' = EntryOf
    BY <1>1 DEF EntryOf
  <1>7. pc'[a] \notin EntryPoints /\ pc[a] \notin StorePoints
    BY <1>3 DEF EntryPoints, SharePoints, LockPoints, StorePoints
  <1>8. mode[a] = "rundown" /\ obj[a] = NULL => pc'[a] \in RundownPoints \ {"capture"} /\ obj'[a] = NULL
    BY <1>2, <1>3 DEF RundownPoints
  <1>9. Plain(a)
    BY <1>3, <1>5, <1>6, <1>7, <1>8 DEF Plain
  <1>10. ASSUME NEW w \in Objects, count'[w] = 0 PROVE count[w] = 0 \/ (pc'[a] = "push" /\ old'[a] = w)
    BY <1>1, <1>2, <1>3, <1>4, <1>10 DEF IInv, TypeOK, ObjectType
  <1>11. LostInv'
    BY <1>1, <1>5, <1>10, LostKept DEF JInv
  <1> QED
    BY <1>9, <1>11

LEMMA GiveUpPlain ==
    ASSUME IInv, JInv, NEW a \in Actors, GiveUp(a) \/ GiveUpPrevious(a)
    PROVE  Plain(a) /\ LostInv'
  <1>1. root' = root /\ links' = links /\ used' = used /\ stopping' = stopping
    BY DEF GiveUp, GiveUpPrevious, tableVars, control
  <1>2. CASE GiveUpPrevious(a)
    <2>1. pc[a] = "replaced" /\ Dereference(a, old[a], After(a)) /\ KeepCall(a) /\ obj' = obj
      BY <1>2 DEF GiveUpPrevious
    <2>2. PICK o \in Objects : o = old[a]
      BY <2>1 DEF IInv, ActorInv
    <2>3. Tokens(a, o) >= 1
      BY <2>1, <2>2 DEF Tokens, ReplacedBy, One
    <2>4. count[o] \in Nat
      BY <2>3, Referred
    <2>5. PICK p \in {"held", "visit", "idle"} : p = After(a)
      BY AfterIs
    <2>6. mode[a] = "rundown" /\ obj[a] = NULL => p = "visit"
      BY <2>5 DEF After, Walks
    <2>7. /\ \A b \in Actors : b # a => top'[b] = top[b] /\ mode'[b] = mode[b] /\ cid'[b] = cid[b]
          /\ pc'[a] = "idle" => cid'[a] = 0 /\ top'[a] = Table(0, 0) /\ mode'[a] \in {mode[a], "none"}
          /\ pc'[a] # "idle" => cid'[a] = cid[a] /\ top'[a] = top[a] /\ mode'[a] = mode[a]
      BY <2>1, CallKept
    <2>8. Dereference(a, o, p)
      BY <2>1, <2>2, <2>5
    <2> QED
      BY <1>1, <2>1, <2>4, <2>6, <2>7, <2>8, DereferencePlain
  <1>3. CASE GiveUp(a)
    <2>1. /\ pc[a] \in {"held", "drop"} /\ obj' = [obj EXCEPT ![a] = NULL]
          /\ Dereference(a, obj[a], IF Walks(a) THEN "visit" ELSE "idle")
      BY <1>3 DEF GiveUp
    <2>2. PICK o \in Objects : o = obj[a]
      BY <2>1 DEF IInv, ActorInv
    <2>3. Tokens(a, o) >= 1 /\ o # NULL
      BY <2>1, <2>2, NullApart DEF Tokens, HeldBy, One
    <2>4. count[o] \in Nat
      BY <2>3, Referred
    <2>5. PICK p \in {"visit", "idle"} : Dereference(a, o, p) /\ (Walks(a) => p = "visit")
      BY <2>1, <2>2
    <2>6. \A b \in Actors : b # a => obj'[b] = obj[b]
      BY <2>1 DEF IInv, TypeOK, ObjectType
    <2>7. CASE KeepCall(a)
      <3>1. /\ \A b \in Actors : b # a => top'[b] = top[b] /\ mode'[b] = mode[b] /\ cid'[b] = cid[b]
            /\ pc'[a] = "idle" => cid'[a] = 0 /\ top'[a] = Table(0, 0) /\ mode'[a] \in {mode[a], "none"}
            /\ pc'[a] # "idle" => cid'[a] = cid[a] /\ top'[a] = top[a] /\ mode'[a] = mode[a]
        BY <2>7, CallKept
      <3> QED
        BY <1>1, <2>1, <2>2, <2>3, <2>4, <2>5, <2>6, <3>1, DereferencePlain
    <2>8. CASE mode[a] = "enumerate" /\ cid' = [cid EXCEPT ![a] = MaxId(2)] /\ UNCHANGED <<mode, asked, top>>
      <3>1. p = "visit" /\ mode[a] # "rundown"
        BY <2>5, <2>8 DEF Walks
      <3>2. Goto(a, IF count[o] - 1 > 0 THEN "visit" ELSE "push")
        BY <2>5, <3>1 DEF Dereference
      <3>3. pc'[a] = IF count[o] - 1 > 0 THEN "visit" ELSE "push"
        BY <3>2, MovesTo
      <3>4. pc'[a] # "idle"
        BY <3>3
      <3>5. /\ \A b \in Actors : b # a => top'[b] = top[b] /\ mode'[b] = mode[b] /\ cid'[b] = cid[b]
            /\ top'[a] = top[a] /\ mode'[a] = mode[a]
        BY <2>8 DEF IInv, TypeOK, TableType
      <3> QED
        BY <1>1, <2>1, <2>2, <2>3, <2>4, <2>5, <2>6, <3>1, <3>4, <3>5, DereferencePlain
    <2> QED
      BY <1>3, <2>7, <2>8 DEF GiveUp
  <1> QED
    BY <1>2, <1>3

LEMMA DeferDeletePlain ==
    ASSUME IInv, JInv, NEW a \in Actors, DeferDelete(a)
    PROVE  Plain(a) /\ LostInv'
  <1>1. /\ KeepObjects(a) /\ KeepCall(a) /\ root' = root /\ links' = links /\ used' = used /\ stopping' = stopping
        /\ count' = count /\ flushed' = flushed /\ ref' = ref
    BY DEF DeferDelete, Push, Queue, tableVars, control
  <1>2. PICK p \in {"queue", "held", "visit", "idle"} :
           Goto(a, p) /\ (mode[a] = "rundown" /\ obj[a] = NULL => p \in {"queue", "visit"})
    BY DEF DeferDelete, Push, Queue, After, Walks
  <1>3. pc[a] \in {"push", "queue"}
    BY DEF DeferDelete, Push, Queue
  <1>4. EntryOf' = EntryOf
    BY <1>1 DEF EntryOf
  <1>5. p \notin EntryPoints /\ pc[a] \notin StorePoints
    BY <1>3 DEF EntryPoints, SharePoints, LockPoints, StorePoints
  <1>6. mode[a] = "rundown" /\ obj[a] = NULL /\ pc[a] \in RundownPoints => p \in RundownPoints \ {"capture"}
    BY <1>2 DEF RundownPoints
  <1>7. Plain(a) /\ pc'[a] = p
    BY <1>1, <1>2, <1>3, <1>4, <1>5, <1>6, KeptPlain
  <1>8. CASE Push(a, After(a))
    <2>1. deferred' = <<old[a]>> \o deferred /\ pc[a] = "push"
      BY <1>8 DEF Push
    <2>2. deferred \in Seq(Objects) /\ old[a] \in Objects
      BY <2>1 DEF IInv, TypeOK, ObjectType, ActorInv
    <2>3. Elements(deferred') = {old[a]} \cup Elements(deferred)
      BY <2>1, <2>2, PushIs
    <2>4. Elements(deferred)' = {old[a]} \cup Elements(deferred)
      BY <2>3 DEF Elements
    <2>5. \A b \in Actors : b # a => pc'[b] = pc[b] /\ old'[b] = old[b]
      BY <1>7 DEF Plain, OthersStill, Still
    <2>6. ASSUME NEW w \in Objects, count'[w] = 0
          PROVE  w \in flushed' \cup Elements(deferred)' \/ \E b \in Actors : pc'[b] = "push" /\ old'[b] = w
      <3>1. w \in flushed \cup Elements(deferred) \/ \E b \in Actors : pc[b] = "push" /\ old[b] = w
        BY <1>1, <2>6 DEF JInv, LostInv
      <3>2. CASE w \in flushed \cup Elements(deferred)
        BY <1>1, <2>4, <3>2
      <3>3. CASE \E b \in Actors : pc[b] = "push" /\ old[b] = w
        <4>1. PICK b \in Actors : pc[b] = "push" /\ old[b] = w
          BY <3>3
        <4> QED
          BY <2>4, <2>5, <4>1
      <3> QED
        BY <3>1, <3>2, <3>3
    <2>7. LostInv'
      BY <2>6 DEF LostInv
    <2> QED
      BY <1>7, <2>7
  <1>9. CASE Queue(a, After(a))
    <2>1. deferred' = deferred /\ pc[a] = "queue"
      BY <1>9 DEF Queue
    <2>2. LostInv'
      BY <1>1, <1>7, <2>1, LostKept DEF Plain, JInv
    <2> QED
      BY <1>7, <2>2
  <1> QED
    BY <1>8, <1>9 DEF DeferDelete

\* The tops are tables, and what resolves below one of them has an entry.
LEMMA TopResolves ==
    ASSUME IInv, JInv, NEW a \in Actors, NEW c \in Nat, Resolve(top[a], c) # NULL
    PROVE  Resolve(root, c) = Resolve(top[a], c) /\ Reached(Resolve(top[a], c))
  <1>1. top[a] \in Tables /\ TableType /\ Under(top[a])
    BY DEF IInv, TypeOK, TableType, JInv, UnderInv
  <1>2. Resolve(root, c) = Resolve(top[a], c)
    BY <1>1, UnderResolves
  <1> QED
    BY <1>2 DEF Reached

LEMMA FindPlain ==
    ASSUME IInv, JInv, NEW a \in Actors, AcquireSpinLock(a) \/ LookupEntry(a) \/ Expanded(a)
    PROVE  Plain(a) /\ LostInv'
  <1>1. /\ root' = root /\ links' = links /\ used' = used /\ stopping' = stopping /\ count' = count
        /\ deferred' = deferred /\ flushed' = flushed /\ ref' = ref /\ mode' = mode /\ cid' = cid /\ top' = top
        /\ obj' = obj /\ old' = old
    BY DEF AcquireSpinLock, LookupEntry, Expanded, tableVars, callVars, control, objects, objectLocals
  <1>2. EntryOf' = EntryOf
    BY <1>1 DEF EntryOf
  <1>3. pc[a] \in GetPoints
    BY DEF AcquireSpinLock, LookupEntry, Expanded, GetPoints
  <1>4. PICK p : Goto(a, p) /\ p \in {"expand", "shared", "lock"}
    BY DEF AcquireSpinLock, LookupEntry, Expanded
  <1>5. pc'[a] = p /\ \A b \in Actors : b # a => pc'[b] = pc[b]
    BY <1>4, MovesTo
  <1>6. \A b \in Actors : b # a => slot'[b] = slot[b]
    BY DEF AcquireSpinLock, LookupEntry, Expanded, objectLocals, IInv, TypeOK, ObjectType
  <1>7. p = "shared" => Reached(slot'[a])
    <2>1. cid[a] \in Nat /\ slot \in [Actors -> Slots \cup {NULL}]
      BY DEF IInv, TypeOK, TableType, ObjectType
    <2>2. CASE AcquireSpinLock(a)
      <3>1. Goto(a, "expand")
        BY <2>2 DEF AcquireSpinLock
      <3>2. pc'[a] = "expand"
        BY <3>1, MovesTo
      <3> QED
        BY <1>5, <3>2
    <2>3. CASE LookupEntry(a)
      <3>1. slot'[a] = Resolve(top[a], cid[a]) /\ Goto(a, IF slot'[a] = NULL THEN "lock" ELSE "shared")
        BY <2>1, <2>3 DEF LookupEntry
      <3>2. pc'[a] = IF slot'[a] = NULL THEN "lock" ELSE "shared"
        BY <3>1, MovesTo
      <3> QED
        BY <1>5, <2>1, <3>1, <3>2, TopResolves
    <2>4. CASE Expanded(a)
      <3>1. slot'[a] = Resolve(root, cid[a])
        BY <2>1, <2>4 DEF Expanded
      <3> QED
        BY <2>1, <3>1 DEF Reached
    <2> QED
      BY <2>2, <2>3, <2>4
  <1>8. OthersStill(a)
    BY <1>1, <1>5, <1>6 DEF OthersStill, Still
  <1>9. mode[a] # "rundown"
    BY <1>3 DEF IInv, ActorInv, Walks
  <1>10. pc[a] \notin {"idle", "capture"} /\ pc[a] \notin StorePoints /\ pc[a] # "push" /\ p # "idle"
    BY <1>3, <1>4 DEF GetPoints, StorePoints
  <1>11. p \in EntryPoints => p = "shared"
    BY <1>4 DEF EntryPoints, SharePoints, LockPoints
  <1>12. Plain(a)
    BY <1>1, <1>2, <1>5, <1>7, <1>8, <1>9, <1>10, <1>11 DEF Plain
  <1>13. LostInv'
    BY <1>1, <1>8, <1>10, LostKept DEF JInv
  <1> QED
    BY <1>12, <1>13
-----------------------------------------------------------------------------
(* Steps that change the tables, the entries or the walk *)

\* While the driver is not unloaded, nothing but the tables and the entries is at stake.
LEMMA RunningKeeps ==
    ASSUME JInv, NEW a \in Actors, OthersStill(a), ~stopping, ~stopping', used' # 0,
           pc'[a] = "idle" => cid'[a] = 0, mode'[a] # "rundown"
    PROVE  StopInv'
  BY DEF JInv, StopInv, OthersStill, Still

LEMMA WalkingKeeps ==
    ASSUME JInv, stopping, stopping', OthersStill(Unloader), Walking' \/ Over', pc'[Unloader] = "idle" => cid'[Unloader] = 0
    PROVE  StopInv'
  BY DEF JInv, StopInv, Alone, OthersStill, Still

LEMMA BeginKeeps ==
    ASSUME IInv, JInv, NEW a \in Actors, NEW m, m # "rundown", NEW c, NEW t, NEW e, Begin(a, m, c, t, e)
    PROVE  JInv'
  <1>1. /\ pc[a] = "idle" /\ ~stopping /\ Goto(a, "capture") /\ mode' = [mode EXCEPT ![a] = m] /\ cid' = [cid EXCEPT ![a] = c]
        /\ count' = count /\ deferred' = deferred /\ flushed' = flushed /\ ref' = ref /\ slot' = slot /\ obj' = obj
        /\ old' = old /\ root' = root /\ links' = links /\ used' = used /\ top' = top /\ stopping' = stopping
    BY DEF Begin, objects, objectLocals, tableVars
  <1>2. pc'[a] = "capture" /\ \A b \in Actors : b # a => pc'[b] = pc[b]
    BY <1>1, MovesTo
  <1>3. mode'[a] = m /\ OthersStill(a)
    BY <1>1, <1>2 DEF OthersStill, Still, IInv, TypeOK, TableType
  <1>4. LostInv'
    BY <1>1, <1>3, LostKept DEF JInv
  <1>5. FreshInv' /\ UnderInv'
    BY <1>1, <1>3, TablesKept
  <1>6. ReachInv'
    BY <1>1, <1>2, <1>3, ReachKept, PointsApart DEF EntryOf
  <1>7. StopInv'
    <2>1. used # 0
      BY <1>1 DEF JInv, StopInv
    <2> QED
      BY <1>1, <1>2, <1>3, <2>1, RunningKeeps
  <1> QED
    BY <1>4, <1>5, <1>6, <1>7 DEF JInv

LEMMA CleanUpKeeps == ASSUME IInv, JInv, CleanUp(Unloader) PROVE JInv'
  <1>1. /\ ~stopping /\ stopping' /\ \A b \in Actors : pc[b] = "idle"
        /\ mode' = [mode EXCEPT ![Unloader] = "rundown"] /\ Goto(Unloader, "capture")
        /\ count' = count /\ deferred' = deferred /\ flushed' = flushed /\ ref' = ref /\ slot' = slot /\ obj' = obj
        /\ old' = old /\ root' = root /\ links' = links /\ used' = used /\ top' = top /\ cid' = cid
    BY DEF CleanUp, objects, objectLocals, tableVars
  <1>2. Unloader \in Actors
    BY TrackersIn
  <1>3. pc'[Unloader] = "capture" /\ \A b \in Actors : b # Unloader => pc'[b] = pc[b]
    BY <1>1, <1>2, MovesTo
  <1>4. mode'[Unloader] = "rundown" /\ OthersStill(Unloader)
    BY <1>1, <1>2, <1>3 DEF OthersStill, Still, IInv, TypeOK, TableType
  <1>5. LostInv'
    BY <1>1, <1>2, <1>4, LostKept DEF JInv
  <1>6. FreshInv' /\ UnderInv'
    BY <1>1, <1>2, <1>4, TablesKept
  <1>7. ReachInv'
    BY <1>1, <1>2, <1>3, <1>4, ReachKept, PointsApart DEF EntryOf
  <1>8. StopInv'
    <2>1. used # 0 /\ obj[Unloader] = NULL /\ cid[Unloader] = 0
      BY <1>1, <1>2 DEF JInv, StopInv, IInv, ActorInv, FreePoints
    <2>2. Walking'
      BY <1>1, <1>3, <1>4, <2>1 DEF Walking, RundownPoints
    <2>3. Alone'
      BY <1>1, <1>3 DEF Alone
    <2>4. \A b \in Actors : pc'[b] = "idle" => cid'[b] = 0
      BY <1>1, <1>3 DEF JInv, StopInv
    <2> QED
      BY <1>1, <2>2, <2>3, <2>4 DEF StopInv
  <1> QED
    BY <1>5, <1>6, <1>7, <1>8 DEF JInv

LEMMA CaptureKeeps == ASSUME IInv, JInv, NEW a \in Actors, Capture(a) PROVE JInv'
  <1>1. /\ pc[a] = "capture" /\ top' = [top EXCEPT ![a] = root] /\ Goto(a, IF Walks(a) THEN "visit" ELSE "resolve")
        /\ count' = count /\ deferred' = deferred /\ flushed' = flushed /\ ref' = ref /\ slot' = slot /\ obj' = obj
        /\ old' = old /\ root' = root /\ links' = links /\ used' = used /\ mode' = mode /\ cid' = cid /\ stopping' = stopping
    BY DEF Capture, objects, objectLocals, tableVars, control
  <1>2. /\ pc'[a] = (IF Walks(a) THEN "visit" ELSE "resolve") /\ \A b \in Actors : b # a => pc'[b] = pc[b]
    BY <1>1, MovesTo
  <1>3. top'[a] = root /\ \A b \in Actors : b # a => top'[b] = top[b]
    BY <1>1 DEF IInv, TypeOK, TableType
  <1>4. OthersStill(a)
    BY <1>1, <1>2 DEF OthersStill, Still
  <1>5. pc'[a] \notin EntryPoints /\ pc'[a] # "idle"
    BY <1>2 DEF EntryPoints, SharePoints, LockPoints
  <1>6. LostInv'
    BY <1>1, <1>4, LostKept DEF JInv
  <1>7. FreshInv' /\ UnderInv'
    BY <1>1, <1>3, <1>4, TablesKept
  <1>8. ReachInv'
    BY <1>1, <1>4, <1>5, ReachKept DEF EntryOf
  <1>9. StopInv'
    <2>1. CASE ~stopping
      BY <1>1, <1>4, <1>5, <2>1, RunningKeeps DEF JInv, StopInv
    <2>2. CASE stopping
      <3>1. a = Unloader /\ Walking
        BY <1>1, <2>2, OnlyUnloader
      <3>2. cid[a] = 0 /\ mode[a] = "rundown" /\ obj[a] = NULL /\ used # 0
        BY <1>1, <3>1 DEF Walking
      <3>3. pc'[a] = "visit"
        BY <1>2, <3>2 DEF Walks
      <3>4. Walking'
        BY <1>1, <1>3, <3>1, <3>2, <3>3 DEF Walking, RundownPoints
      <3> QED
        BY <1>1, <1>4, <1>5, <2>2, <3>1, <3>4, WalkingKeeps
    <2> QED
      BY <2>1, <2>2
  <1> QED
    BY <1>6, <1>7, <1>8, <1>9 DEF JInv

LEMMA ExpandKeeps == ASSUME IInv, JInv, NEW a \in Actors, Expand(a), TableType' PROVE JInv'
  <1>1. /\ pc[a] = "expand" /\ pc' = pc
        /\ count' = count /\ deferred' = deferred /\ flushed' = flushed /\ ref' = ref /\ slot' = slot /\ obj' = obj
        /\ old' = old /\ top' = top /\ mode' = mode /\ cid' = cid /\ stopping' = stopping
    BY DEF Expand, objects, objectLocals, callVars, control
  <1>2. Grown /\ used \in Addresses /\ used' = used + 1
    BY ExpandGrows
  <1>3. ~stopping
    <2>1. mode[a] # "rundown"
      BY <1>1 DEF IInv, ActorInv, GetPoints, Walks
    <2> QED
      BY <1>1, <2>1, OnlyUnloader DEF Walking
  <1>4. used # 0
    BY <1>3 DEF JInv, StopInv
  <1>5. TableType /\ FreshInv /\ \A b \in Actors : top[b] \in Tables
    BY DEF IInv, TypeOK, TableType, JInv
  <1>6. OthersStill(a)
    BY <1>1 DEF OthersStill, Still
  <1>7. LostInv'
    BY <1>1, <1>6, LostKept DEF JInv
  <1>8. FreshInv'
    BY <1>2, <1>4, <1>5, GrownFresh
  <1>9. UnderInv'
    <2>1. Table(0, 0) \in Tables
      BY Sizes DEF Table, Tables, Addresses
    <2>2. \A t \in Tables : Under(t) => Under(t)'
      BY <1>2, <1>4, <1>5, GrownUnder
    <2>3. Under(Table(0, 0))'
      BY <2>1, <2>2 DEF JInv, UnderInv
    <2>4. ASSUME NEW b \in Actors PROVE Under(top[b])'
      <3>1. PICK t \in Tables : t = top[b] /\ Under(t)
        BY <1>5 DEF JInv, UnderInv
      <3>2. Under(t)'
        BY <2>2, <3>1
      <3> QED
        BY <1>1, <3>1, <3>2 DEF Under
    <2> QED
      BY <2>3, <2>4 DEF UnderInv
  <1>10. ReachInv'
    <2>1. ASSUME NEW s \in Slots, Reached(s) PROVE Reached(s)'
      <3>1. PICK c \in Nat : Resolve(root, c) = s
        BY <2>1 DEF Reached
      <3>2. Resolve(root, c)' = s
        BY <1>2, <1>4, <1>5, <3>1, GrownResolves, NullApart
      <3> QED
        BY <3>2 DEF Reached
    <2>2. \A s \in Slots : EntryOf'[s] # NULL => Reached(s)'
      BY <1>1, <2>1 DEF JInv, ReachInv, EntryOf
    <2>3. ASSUME NEW b \in Actors, pc'[b] \in EntryPoints PROVE Reached(slot[b])'
      <3>1. PICK s \in Slots : s = slot[b] /\ Reached(s)
        BY <1>1, <2>3 DEF JInv, ReachInv, IInv, ActorInv
      <3>2. Reached(s)'
        BY <2>1, <3>1
      <3> QED
        BY <1>1, <3>1, <3>2 DEF Reached
    <2> QED
      BY <2>2, <2>3 DEF ReachInv
  <1>11. StopInv'
    <2>1. used' # 0 /\ mode'[a] # "rundown"
      BY <1>1, <1>2, <1>3 DEF Addresses, JInv, StopInv
    <2> QED
      BY <1>1, <1>3, <1>6, <2>1, RunningKeeps
  <1> QED
    BY <1>7, <1>8, <1>9, <1>10, <1>11 DEF JInv

LEMMA VisitKeeps == ASSUME IInv, JInv, NEW a \in Actors, Visit(a), cid' \in [Actors -> Nat] PROVE JInv'
  <1>1. /\ pc[a] = "visit" /\ cid[a] < MaxId(top[a].level)
        /\ count' = count /\ deferred' = deferred /\ flushed' = flushed /\ ref' = ref /\ obj' = obj
        /\ old' = old /\ root' = root /\ links' = links /\ used' = used /\ mode' = mode /\ top' = top /\ stopping' = stopping
    BY DEF Visit, objects, tableVars, control
  <1>2. PICK id \in Nat : id = cid[a]
    BY DEF IInv, TypeOK, TableType
  <1>3. PICK s : s = Resolve(top[a], id)
    OBVIOUS
  <1>4. /\ s = NULL => pc' = pc /\ slot' = slot /\ cid'[a] = Skip(top[a], id)
        /\ s # NULL => /\ cid'[a] = id + 1 /\ slot'[a] = s
                       /\ pc'[a] = IF mode[a] = "rundown" THEN "exclusive" ELSE "shared"
    BY <1>2, <1>3 DEF Visit, Goto, IInv, TypeOK, TableType, ObjectType
  <1>5. \A b \in Actors : b # a => cid'[b] = cid[b] /\ slot'[b] = slot[b] /\ pc'[b] = pc[b]
    BY DEF Visit, Goto, IInv, TypeOK, TableType, ObjectType
  <1>6. OthersStill(a)
    BY <1>1, <1>5 DEF OthersStill, Still
  <1>7. s # NULL => Resolve(root, id) = s /\ Reached(slot'[a])
    BY <1>2, <1>3, <1>4, TopResolves
  <1>8. pc'[a] # "idle" /\ (s = NULL => pc'[a] \notin EntryPoints)
    BY <1>1, <1>4 DEF EntryPoints, SharePoints, LockPoints
  <1>9. LostInv'
    BY <1>1, <1>6, LostKept DEF JInv
  <1>10. FreshInv' /\ UnderInv'
    BY <1>1, <1>6, TablesKept
  <1>11. ReachInv'
    BY <1>1, <1>6, <1>7, <1>8, ReachKept DEF EntryOf
  <1>12. StopInv'
    <2>1. CASE ~stopping
      BY <1>1, <1>6, <1>8, <2>1, RunningKeeps DEF JInv, StopInv
    <2>2. CASE stopping
      <3>1. a = Unloader /\ Walking
        BY <1>1, <2>2, OnlyUnloader
      <3>2. /\ used # 0 /\ mode[a] = "rundown" /\ obj[a] = NULL /\ top[a] = root
            /\ \A c \in Nat : c < id /\ Resolve(root, c) # NULL => EntryOf[Resolve(root, c)] = NULL
        BY <1>1, <1>2, <3>1 DEF Walking, Passed, StorePoints
      <3>3. EntryOf' = EntryOf /\ \A c : Resolve(root, c)' = Resolve(root, c)
        BY <1>1, SameTables DEF EntryOf
      <3>4. ASSUME NEW c \in Nat, c < cid'[a], Resolve(root, c) # NULL
            PROVE  \/ EntryOf[Resolve(root, c)] = NULL
                   \/ pc'[a] \in StorePoints /\ slot'[a] = Resolve(root, c)
        <4>1. CASE c < id
          BY <3>2, <3>4, <4>1
        <4>2. CASE c >= id /\ s = NULL
          <5>1. top[a] \in Tables /\ TableType /\ Resolve(top[a], id) = NULL /\ id < MaxId(top[a].level) /\ c < Skip(top[a], id)
            BY <1>1, <1>2, <1>3, <1>4, <3>4, <4>2 DEF IInv, TypeOK, TableType
          <5>2. Resolve(top[a], c) = NULL
            BY <4>2, <5>1, SkipResolves
          <5> QED
            BY <3>2, <3>4, <5>2
        <4>3. CASE c >= id /\ s # NULL
          <5>1. c = id /\ pc'[a] = "exclusive" /\ slot'[a] = s /\ Resolve(root, c) = s
            BY <1>4, <1>7, <3>2, <3>4, <4>3
          <5> QED
            BY <5>1 DEF StorePoints
        <4> QED
          BY <4>1, <4>2, <4>3
      <3>5. \A c \in Nat : c < cid'[a] /\ Resolve(root, c)' # NULL => Passed(c)'
        BY <3>1, <3>3, <3>4 DEF Passed
      <3>6. pc'[a] \in RundownPoints \ {"capture"}
        BY <1>1, <1>4, <3>2 DEF RundownPoints, StorePoints
      <3>7. Walking'
        BY <1>1, <3>1, <3>2, <3>5, <3>6 DEF Walking
      <3> QED
        BY <1>1, <1>6, <1>8, <2>2, <3>1, <3>7, WalkingKeeps
    <2> QED
      BY <2>1, <2>2
  <1> QED
    BY <1>9, <1>10, <1>11, <1>12 DEF JInv

LEMMA VisitedAllKeeps == ASSUME IInv, JInv, NEW a \in Actors, VisitedAll(a) PROVE JInv'
  <1>1. /\ pc[a] = "visit" /\ cid[a] >= MaxId(top[a].level) /\ Goto(a, "idle") /\ KeepObjects(a) /\ KeepCall(a)
        /\ used' = (IF mode[a] = "rundown" THEN 0 ELSE used)
        /\ count' = count /\ deferred' = deferred /\ flushed' = flushed /\ ref' = ref
        /\ root' = root /\ links' = links /\ stopping' = stopping
    BY DEF VisitedAll, objects, control
  <1>2. pc'[a] = "idle" /\ \A b \in Actors : b # a => pc'[b] = pc[b]
    BY <1>1, MovesTo
  <1>3. \A b \in Actors : b # a => slot'[b] = slot[b] /\ obj'[b] = obj[b] /\ old'[b] = old[b]
    BY <1>1, KeptObjects DEF IInv, TypeOK
  <1>4. /\ \A b \in Actors : b # a => top'[b] = top[b] /\ mode'[b] = mode[b] /\ cid'[b] = cid[b]
        /\ cid'[a] = 0 /\ top'[a] = Table(0, 0) /\ mode'[a] \in {mode[a], "none"}
    BY <1>1, <1>2, CallKept
  <1>5. OthersStill(a)
    BY <1>2, <1>3, <1>4 DEF OthersStill, Still
  <1>6. LostInv'
    BY <1>1, <1>5, LostKept DEF JInv
  <1>7. FreshInv' /\ UnderInv'
    BY <1>1, <1>4, <1>5, TablesKept
  <1>8. ReachInv'
    BY <1>1, <1>2, <1>5, ReachKept, PointsApart DEF EntryOf
  <1>9. StopInv'
    <2>1. CASE ~stopping
      <3>1. mode[a] # "rundown" /\ used # 0
        BY <2>1 DEF JInv, StopInv
      <3> QED
        BY <1>1, <1>4, <1>5, <2>1, <3>1, RunningKeeps
    <2>2. CASE stopping
      <3>1. a = Unloader /\ Walking
        BY <1>1, <2>2, OnlyUnloader
      <3>2. /\ mode[a] = "rundown" /\ top[a] = root
            /\ \A c \in Nat : c < cid[a] /\ Resolve(root, c) # NULL => EntryOf[Resolve(root, c)] = NULL
        BY <1>1, <3>1 DEF Walking, Passed, StorePoints
      <3>3. ASSUME NEW s \in Slots PROVE EntryOf[s] = NULL
        <4>1. SUFFICES ASSUME EntryOf[s] # NULL PROVE FALSE
          OBVIOUS
        <4>2. PICK c \in Nat : Resolve(root, c) = s
          BY <4>1 DEF JInv, ReachInv, Reached
        <4>3. TableType /\ root \in Tables /\ Resolve(root, c) # NULL /\ cid[a] \in Nat
          BY <4>2, NullApart DEF IInv, TypeOK, TableType
        <4>4. c < MaxId(root.level)
          BY <4>3, ResolveIs
        <4>5. MaxId(root.level) \in Nat
          BY <4>3, Levels, Positive
        <4>6. c < cid[a]
          BY <1>1, <3>2, <4>3, <4>4, <4>5
        <4> QED
          BY <3>2, <4>1, <4>2, <4>3, <4>6
      <3>4. Over'
        BY <1>1, <1>2, <3>1, <3>2, <3>3 DEF Over, EntryOf
      <3> QED
        BY <1>1, <1>4, <1>5, <2>2, <3>1, <3>4, WalkingKeeps
    <2> QED
      BY <2>1, <2>2
  <1> QED
    BY <1>6, <1>7, <1>8, <1>9 DEF JInv

LEMMA StoreKeeps == ASSUME IInv, JInv, NEW a \in Actors, StoreContext(a) PROVE JInv'
  <1>1. /\ pc[a] = "store" /\ Goto(a, "unlock")
        /\ ref' = [ref EXCEPT ![slot[a]] = [object |-> IF mode[a] = "track" THEN obj[a] ELSE NULL,
                                            shared |-> 0, exclusive |-> TRUE]]
        /\ count' = count /\ deferred' = deferred /\ flushed' = flushed /\ slot' = slot /\ obj' = obj /\ old' = old
        /\ root' = root /\ links' = links /\ used' = used /\ mode' = mode /\ cid' = cid /\ top' = top /\ stopping' = stopping
    BY DEF StoreContext, Store, objects, objectLocals, tableVars, callVars, control
  <1>2. pc'[a] = "unlock" /\ \A b \in Actors : b # a => pc'[b] = pc[b]
    BY <1>1, MovesTo
  <1>3. PICK s \in Slots : s = slot[a] /\ Reached(s)
    BY <1>1 DEF IInv, ActorInv, EntryPoints, LockPoints, JInv, ReachInv
  <1>4. OthersStill(a)
    BY <1>1, <1>2 DEF OthersStill, Still
  <1>5. \A r \in Slots : EntryOf'[r] = IF r = s THEN IF mode[a] = "track" THEN obj[a] ELSE NULL ELSE EntryOf[r]
    BY <1>1, <1>3 DEF EntryOf, IInv, TypeOK, ObjectType
  <1>6. LostInv'
    BY <1>1, <1>4, LostKept DEF JInv
  <1>7. FreshInv' /\ UnderInv'
    BY <1>1, <1>4, TablesKept
  <1>8. ReachInv'
    <2>1. \A r \in Slots : EntryOf'[r] # NULL => EntryOf[r] # NULL \/ Reached(r)
      BY <1>3, <1>5
    <2>2. pc[a] \in EntryPoints /\ slot'[a] = slot[a]
      BY <1>1 DEF EntryPoints, LockPoints
    <2> QED
      BY <1>1, <1>4, <2>1, <2>2, ReachKept
  <1>9. StopInv'
    <2>1. CASE ~stopping
      BY <1>1, <1>2, <1>4, <2>1, RunningKeeps DEF JInv, StopInv
    <2>2. CASE stopping
      <3>1. a = Unloader /\ Walking
        BY <1>1, <2>2, OnlyUnloader
      <3>2. /\ used # 0 /\ mode[a] = "rundown" /\ obj[a] = NULL /\ top[a] = root
            /\ \A c \in Nat : c < cid[a] /\ Resolve(root, c) # NULL => Passed(c)
        BY <1>1, <3>1 DEF Walking
      <3>3. \A c : Resolve(root, c)' = Resolve(root, c)
        BY <1>1, SameTables
      <3>4. ASSUME NEW c \in Nat, c < cid[a], Resolve(root, c) # NULL PROVE Passed(c)'
        <4>1. PICK r \in Slots : r = Resolve(root, c)
          BY <3>4, ResolveType DEF IInv, TypeOK, TableType
        <4>2. EntryOf[r] = NULL \/ r = s
          BY <1>3, <3>1, <3>2, <3>4, <4>1 DEF Passed
        <4>3. EntryOf'[r] = NULL
          BY <1>5, <3>2, <4>2
        <4> QED
          BY <3>3, <4>1, <4>3 DEF Passed
      <3>5. Walking'
        BY <1>1, <1>2, <3>1, <3>2, <3>3, <3>4 DEF Walking, RundownPoints
      <3> QED
        BY <1>1, <1>2, <1>4, <2>2, <3>1, <3>5, WalkingKeeps
    <2> QED
      BY <2>1, <2>2
  <1> QED
    BY <1>6, <1>7, <1>8, <1>9 DEF JInv

LEMMA NothingMoves ==
    ASSUME JInv, UNCHANGED <<ref, pc, objectLocals, tableVars, callVars, control>>, LostInv'
    PROVE  JInv'
  <1>1. /\ ref' = ref /\ pc' = pc /\ slot' = slot /\ obj' = obj /\ old' = old /\ root' = root /\ links' = links
        /\ used' = used /\ mode' = mode /\ cid' = cid /\ top' = top /\ stopping' = stopping
    BY DEF objectLocals, tableVars, callVars, control
  <1>2. Unloader \in Actors /\ OthersStill(Unloader)
    BY <1>1, TrackersIn DEF OthersStill, Still
  <1>3. FreshInv' /\ UnderInv'
    BY <1>1, <1>2, TablesKept
  <1>4. EntryOf' = EntryOf
    BY <1>1 DEF EntryOf
  <1>5. ReachInv'
    <2>1. pc'[Unloader] \in EntryPoints => pc[Unloader] \in EntryPoints /\ slot'[Unloader] = slot[Unloader]
      BY <1>1
    <2> QED
      BY <1>1, <1>2, <1>4, <2>1, ReachKept
  <1>6. \A c : Resolve(root, c)' = Resolve(root, c)
    BY <1>1, SameTables
  <1>7. (Walking' <=> Walking) /\ (Over' <=> Over) /\ (Alone' <=> Alone)
    BY <1>1, <1>4, <1>6 DEF Walking, Over, Alone, Passed
  <1>8. StopInv'
    BY <1>1, <1>7 DEF JInv, StopInv
  <1> QED
    BY <1>3, <1>5, <1>8 DEF JInv

LEMMA WorkerKeeps == ASSUME IInv, JInv, WorkItem PROVE JInv'
  <1>1. Worker /\ UNCHANGED <<ref, pc, objectLocals, tableVars, callVars, control>>
    BY DEF WorkItem, Worker, WorkerStarts, WorkerFlushes, WorkerDeletes
  <1>2. pc' = pc /\ old' = old
    BY <1>1 DEF objectLocals
  <1>3. ASSUME NEW w \in Objects, count'[w] = 0
        PROVE  w \in flushed' \cup Elements(deferred)' \/ \E b \in Actors : pc'[b] = "push" /\ old'[b] = w
    <2>1. CASE WorkerStarts
      <3>1. count' = count /\ flushed' = flushed /\ deferred' = deferred
        BY <2>1 DEF WorkerStarts
      <3> QED
        BY <1>2, <1>3, <3>1 DEF JInv, LostInv, Elements
    <2>2. CASE WorkerFlushes
      <3>1. count' = count /\ flushed' = flushed \cup Elements(deferred)
        BY <2>2 DEF WorkerFlushes, Elements
      <3> QED
        BY <1>2, <1>3, <3>1 DEF JInv, LostInv
    <2>3. CASE WorkerDeletes
      <3>1. PICK o \in flushed : flushed' = flushed \ {o} /\ count' = [count EXCEPT ![o] = NULL] /\ deferred' = deferred
        BY <2>3 DEF WorkerDeletes
      <3>2. w # o /\ count[w] = 0 /\ Elements(deferred)' = Elements(deferred)
        BY <1>3, <3>1, NullApart DEF IInv, TypeOK, ObjectType, Elements
      <3> QED
        BY <1>2, <3>1, <3>2 DEF JInv, LostInv
    <2> QED
      BY <1>1, <2>1, <2>2, <2>3 DEF Worker
  <1>4. LostInv'
    BY <1>3 DEF LostInv
  <1> QED
    BY <1>1, <1>4, NothingMoves

LEMMA StutterKeeps == ASSUME JInv, UNCHANGED vars PROVE JInv'
  <1>1. UNCHANGED <<ref, pc, objectLocals, tableVars, callVars, control>>
    BY DEF vars, objectVars
  <1>2. count' = count /\ deferred' = deferred /\ flushed' = flushed /\ pc' = pc /\ old' = old
    BY DEF vars, objectVars, objects, objectLocals
  <1>3. LostInv'
    BY <1>2 DEF JInv, LostInv, Elements
  <1> QED
    BY <1>1, <1>3, NothingMoves

LEMMA InitJInv == Init => JInv
  <1> SUFFICES ASSUME Init PROVE JInv
    OBVIOUS
  <1>1. /\ count = [o \in Objects |-> NULL] /\ ref = [s \in Slots |-> Empty]
        /\ pc = [a \in Actors |-> "idle"] /\ root = Table(0, 0) /\ links = [t \in 0..MaxTables - 1 |-> NoLinks]
        /\ used = 1 /\ mode = [a \in Actors |-> "none"] /\ cid = [a \in Actors |-> 0]
        /\ top = [a \in Actors |-> Table(0, 0)] /\ stopping = FALSE
    BY DEF Init, ObjectInit
  <1>2. LostInv
    BY <1>1, NullApart DEF LostInv
  <1>3. FreshInv
    <2>1. root.address = 0
      BY <1>1 DEF Table
    <2>2. \A t \in Addresses, i \in LinkSlots : links[t][i] = NULL
      BY <1>1 DEF Addresses, LinkSlots, NoLinks
    <2>3. 0 < used
      BY <1>1
    <2> QED
      BY <2>1, <2>2, <2>3 DEF FreshInv
  <1>4. UnderInv
    BY <1>1 DEF UnderInv, Under
  <1>5. ReachInv
    BY <1>1, PointsApart DEF ReachInv, EntryOf, Empty
  <1>6. StopInv
    BY <1>1 DEF StopInv
  <1> QED
    BY <1>2, <1>3, <1>4, <1>5, <1>6 DEF JInv

LEMMA NextJInv == IInv /\ IInv' /\ JInv /\ [Next]_vars => JInv'
  <1> SUFFICES ASSUME IInv, IInv', JInv, [Next]_vars PROVE JInv'
    OBVIOUS
  <1>1. TableType' /\ cid' \in [Actors -> Nat]
    BY DEF IInv, TypeOK, TableType
  <1>2. ASSUME NEW a \in Actors, Step(a) PROVE JInv'
    <2>1. CASE AtomicSteps(a) /\ UNCHANGED <<tableVars, callVars, control>>
      BY <2>1, AtomicPlain, PlainKeeps
    <2>2. CASE AcquireSpinLock(a) \/ LookupEntry(a) \/ Expanded(a)
      BY <2>2, FindPlain, PlainKeeps
    <2>3. CASE ExpandFails(a) \/ Referenced(a) \/ Stored(a)
      BY <2>3, ReturnPlain, PlainKeeps
    <2>4. CASE Create(a)
      BY <2>4, CreatePlain, PlainKeeps
    <2>5. CASE GiveUp(a) \/ GiveUpPrevious(a)
      BY <2>5, GiveUpPlain, PlainKeeps
    <2>6. CASE DeferDelete(a)
      BY <2>6, DeferDeletePlain, PlainKeeps
    <2>7. CASE Capture(a) \/ Expand(a) \/ Visit(a) \/ VisitedAll(a) \/ StoreContext(a)
      BY <1>1, <2>7, CaptureKeeps, ExpandKeeps, VisitKeeps, VisitedAllKeeps, StoreKeeps
    <2> QED
      BY <1>2, <2>1, <2>2, <2>3, <2>4, <2>5, <2>6, <2>7 DEF Step
  <1>3. ASSUME NEW a \in Trackers, Track(a) \/ Untrack(a) PROVE JInv'
    <2>1. a \in Actors
      BY TrackersIn
    <2>2. CASE Track(a)
      <3>1. PICK t \in TrackedTypes : Begin(a, "track", a, t, expect)
        BY <2>2 DEF Track
      <3> QED
        BY <2>1, <3>1, BeginKeeps
    <2>3. CASE Untrack(a)
      <3>1. PICK e : Begin(a, "untrack", a, asked[a], e)
        BY <2>3 DEF Untrack
      <3> QED
        BY <2>1, <3>1, BeginKeeps
    <2> QED
      BY <1>3, <2>2, <2>3
  <1>4. ASSUME NEW a \in Readers, Lookup(a) PROVE JInv'
    <2>1. PICK c \in Cids, t \in Types : Begin(a, "lookup", c, t, [expect EXCEPT ![a] =
             {tracked[k] : k \in {k \in Trackers : k = c /\ tracked[k] # NULL /\ type[tracked[k]] = t}}])
      BY <1>4 DEF Lookup
    <2>2. a \in Actors
      BY TrackersIn
    <2> QED
      BY <2>1, <2>2, BeginKeeps
  <1>5. ASSUME NEW a \in Enumerators, Enumerate(a) PROVE JInv'
    <2>1. PICK e : Begin(a, "enumerate", 0, NULL, e)
      BY <1>5 DEF Enumerate
    <2>2. a \in Actors
      BY TrackersIn
    <2> QED
      BY <2>1, <2>2, BeginKeeps
  <1> QED
    BY <1>2, <1>3, <1>4, <1>5, CleanUpKeeps, WorkerKeeps, StutterKeeps DEF Next

\* What the unloading relies on: entries stay where they are while the table grows, every
\* entry in use belongs to a CID, and the unloader passes every CID of the table alone.
THEOREM Unloading == Spec => []JInv
  <1>1. Init => JInv
    BY InitJInv
  <1>2. IInv /\ IInv' /\ JInv /\ [Next]_vars => JInv'
    BY NextJInv
  <1> QED
    BY <1>1, <1>2, Invariance, PTL DEF Spec

\* No context leaks: KphCidCleanup leaves no reference in the table, and once the deletion
\* worker has run every context is freed.
THEOREM UnloadingFreesAll == Spec => []EverythingFreed
  <1>1. IInv /\ JInv /\ Finished => \A o \in Objects : count[o] = NULL
    <2> SUFFICES ASSUME IInv, JInv, Finished, NEW o \in Objects PROVE count[o] = NULL
      OBVIOUS
    <2>1. used = 0 /\ item + started = 0 /\ flushed = {} /\ pc[Unloader] = "idle"
      BY DEF Finished
    <2>2. Unloader \in Actors
      BY TrackersIn
    <2>3. Alone /\ Over
      BY <2>1, PointsApart DEF JInv, StopInv, Walking
    <2>4. \A a \in Actors : pc[a] = "idle" /\ obj[a] = NULL
      BY <2>3 DEF Alone, Over, IInv, ActorInv, FreePoints
    <2>5. o # NULL
      BY NullApart
    <2>6. Number(EntryOf, Slots, o) = 0
      BY <2>3, <2>5, NoneIs DEF Over
    <2>7. Number(HeldBy, Actors, o) = 0
      BY <2>4, <2>5, NoneIs DEF HeldBy
    <2>8. Number(StoredBy, Actors, o) = 0
      BY <2>4, <2>5, NoneIs DEF StoredBy
    <2>9. Number(ReplacedBy, Actors, o) = 0
      BY <2>4, <2>5, NoneIs DEF ReplacedBy
    <2>10. Total(o) = 0
      BY <2>6, <2>7, <2>8, <2>9 DEF Total
    <2>11. count[o] = NULL \/ count[o] = 0
      BY <2>10 DEF IInv, CountInv
    <2>12. Number(QueuedBy, Actors, "worker") = 0
      BY <2>4, NoneIs DEF QueuedBy
    <2>13. item \in Nat /\ started \in Nat
      BY DEF IInv, TypeOK, ObjectType
    <2>14. deferred = <<>>
      <3>1. Number(QueuedBy, Actors, "worker") + item + started = IF deferred = <<>> THEN 0 ELSE 1
        BY DEF IInv, WorkerInv
      <3> QED
        BY <2>1, <2>12, <2>13, <3>1
    <2>15. count[o] # 0
      BY <2>1, <2>4, <2>14 DEF JInv, LostInv, Elements
    <2> QED
      BY <2>11, <2>15
  <1>2. IInv /\ JInv /\ DeferredCovered => EverythingFreed
    BY <1>1 DEF EverythingFreed
  <1> QED
    BY <1>2, Invariance, Unloading, DeletionsAreCovered, PTL
-----------------------------------------------------------------------------
(* What lookups and enumerations find *)

\* The tables are a tree: each is linked from one place, the root from none.
TreeInv ==
    /\ \A t, u \in Addresses, i, j \in LinkSlots : links[t][i] # NULL /\ links[t][i] = links[u][j] => t = u /\ i = j
    /\ \A t \in Addresses, i \in LinkSlots : links[t][i] # root.address

Has(k, o) == Resolve(root, k) # NULL /\ EntryOf[Resolve(root, k)] = o

\* Only the tracker of a CID stores to its entry, until the driver is unloaded.
CallInv(a) ==
    /\ mode[a] \in {"track", "untrack"} => a \in Trackers /\ (pc[a] # "idle" => cid[a] = a)
    /\ mode[a] \in {"track", "untrack"} /\ pc[a] \in EntryPoints => slot[a] = Resolve(root, a)
    /\ pc[a] \in StorePoints => mode[a] \in {"track", "untrack", "rundown"}
    /\ pc[a] = "visit" => Walks(a)

\* What a tracker found or stored is in its entry.
HeldInv(a) == mode[a] = "track" /\ obj[a] # NULL /\ pc[a] \notin {"assign"} \cup StorePoints => Has(a, obj[a])

\* A tracked context is in its entry, and nobody is about to replace it.
TrackInv(k) == tracked[k] # NULL =>
    /\ Has(k, tracked[k]) /\ mode[k] # "untrack" /\ ~stopping
    /\ mode[k] = "track" => pc[k] \notin {"create", "assign"} \cup StorePoints /\ (pc[k] = "release" => obj[k] # NULL)

\* Where a reader is that has still to find o, the context of k.
Here(a, o, k) == /\ pc[a] \in {"shared"} \cup SharePoints /\ slot[a] = Resolve(root, k)
                 /\ pc[a] \in {"reference", "release"} => obj[a] = o
Looks(a, o, k) == /\ mode[a] = "lookup" /\ cid[a] = k /\ type[o] = asked[a]
                  /\ pc[a] = "capture" \/ (pc[a] = "resolve" /\ Resolve(top[a], k) # NULL) \/ Here(a, o, k)
Scans(a, o, k) == /\ mode[a] = "enumerate" /\ pc[a] # "idle"
                  /\ \/ pc[a] = "capture" /\ cid[a] = 0
                     \/ /\ pc[a] # "capture" /\ Resolve(top[a], k) # NULL
                        /\ cid[a] <= k \/ (cid[a] = k + 1 /\ Here(a, o, k))
ExpectInv(a) == \A o \in expect[a] : \E k \in Trackers : tracked[k] = o /\ (Looks(a, o, k) \/ Scans(a, o, k))

FindType == /\ type = [o \in Objects |-> type[o]] /\ tracked \in [Trackers -> Objects \cup {NULL}]
            /\ expect \in [Actors -> SUBSET Objects] /\ asked = [a \in Actors |-> asked[a]]

KInv == /\ FindType /\ TreeInv /\ \A k \in Trackers : TrackInv(k)
        /\ \A a \in Actors : CallInv(a) /\ HeldInv(a) /\ ExpectInv(a)
-----------------------------------------------------------------------------
(* CIDs have entries of their own *)

LEMMA EntryApart ==
    ASSUME NEW t \in Nat, NEW u \in Nat, NEW c \in Nat, NEW d \in Nat, Entry(t, c) = Entry(u, d)
    PROVE  t = u /\ c % L0Count = d % L0Count
  <1>1. PICK l \in Nat \ {0} : l = L0Count
    BY Sizes
  <1>2. PICK r \in 0..(l - 1) : r = c % l
    BY ModBound
  <1>3. PICK s \in 0..(l - 1) : s = d % l
    BY ModBound
  <1>4. t * l + r = u * l + s
    BY <1>1, <1>2, <1>3 DEF Entry
  <1>5. ~(t >= u + 1) /\ ~(u >= t + 1)
    BY <1>4
  <1>6. t = u /\ r = s
    BY <1>4, <1>5
  <1> QED
    BY <1>1, <1>2, <1>3, <1>6

LEMMA DigitsApart ==
    ASSUME NEW c \in Nat, NEW d \in Nat, c % L0Count = d % L0Count, c \div MaxId(1) = d \div MaxId(1),
           (c % MaxId(1)) \div L0Count = (d % MaxId(1)) \div L0Count
    PROVE  c = d
  <1>1. c \div L0Count = d \div L0Count
    BY BlockIs
  <1>2. PICK l \in Nat \ {0} : l = L0Count
    BY Sizes
  <1>3. c = l * (c \div l) + (c % l) /\ d = l * (d \div l) + (d % l)
    BY DivMod
  <1> QED
    BY <1>1, <1>2, <1>3

LEMMA EntriesApart ==
    ASSUME TableType, TreeInv, NEW c \in Nat, NEW d \in Nat, Resolve(root, c) # NULL, Resolve(root, d) = Resolve(root, c)
    PROVE  c = d
  <1>1. root \in Tables /\ root.address \in Addresses
    BY DEF TableType, Tables
  <1>2. /\ c < MaxId(root.level) /\ Leaf(root, c) # NULL /\ Resolve(root, c) = Entry(Leaf(root, c), c)
        /\ Leaf(root, c) \in Addresses /\ Via(root, c) \in Addresses \cup {NULL}
    BY <1>1, ResolveIs
  <1>3. /\ d < MaxId(root.level) /\ Leaf(root, d) # NULL /\ Resolve(root, d) = Entry(Leaf(root, d), d)
        /\ Leaf(root, d) \in Addresses /\ Via(root, d) \in Addresses \cup {NULL}
    BY <1>1, ResolveIs
  <1>4. Leaf(root, c) = Leaf(root, d) /\ c % L0Count = d % L0Count
    <2>1. Leaf(root, c) \in Nat /\ Leaf(root, d) \in Nat
      BY <1>2, <1>3 DEF Addresses
    <2>2. PICK t \in Nat, u \in Nat : t = Leaf(root, c) /\ u = Leaf(root, d)
      BY <2>1
    <2>3. Entry(t, c) = Entry(u, d)
      BY <1>2, <1>3, <2>2
    <2> QED
      BY <2>2, <2>3, EntryApart
  <1>5. Via(root, c) \in Addresses /\ Via(root, d) \in Addresses /\ Via(root, c) # NULL /\ Via(root, d) # NULL
    BY <1>2, <1>3 DEF Leaf
  <1>6. (c % MaxId(1)) \div L0Count \in LinkSlots /\ (d % MaxId(1)) \div L0Count \in LinkSlots
    BY Indices
  <1>7. CASE root.level = 0
    <2>1. c < MaxId(1) /\ (c % MaxId(1)) \div L0Count = 0 /\ d < MaxId(1) /\ (d % MaxId(1)) \div L0Count = 0
      BY <1>2, <1>3, <1>7, FirstIndices
    <2>2. c \div MaxId(1) = 0 /\ d \div MaxId(1) = 0
      BY <2>1, FirstIndices
    <2> QED
      BY <1>4, <2>1, <2>2, DigitsApart
  <1>8. CASE root.level # 0
    <2>1. /\ Leaf(root, c) = links[Via(root, c)][(c % MaxId(1)) \div L0Count]
          /\ Leaf(root, d) = links[Via(root, d)][(d % MaxId(1)) \div L0Count]
      BY <1>5, <1>8 DEF Leaf
    <2>2. Via(root, c) = Via(root, d) /\ (c % MaxId(1)) \div L0Count = (d % MaxId(1)) \div L0Count
      <3>1. PICK i \in LinkSlots : i = (c % MaxId(1)) \div L0Count
        BY <1>6
      <3>2. PICK j \in LinkSlots : j = (d % MaxId(1)) \div L0Count
        BY <1>6
      <3>3. links[Via(root, c)][i] # NULL /\ links[Via(root, c)][i] = links[Via(root, d)][j]
        BY <1>2, <1>4, <2>1, <3>1, <3>2
      <3> QED
        BY <1>5, <3>1, <3>2, <3>3 DEF TreeInv
    <2>3. c \div MaxId(1) = d \div MaxId(1)
      <3>1. CASE root.level = 1
        BY <1>2, <1>3, <3>1, FirstIndices
      <3>2. CASE root.level = 2
        <4>1. c \div MaxId(1) \in LinkSlots /\ d \div MaxId(1) \in LinkSlots
          BY <1>2, <1>3, <3>2, Indices
        <4>2. links[root.address][c \div MaxId(1)] = Via(root, c) /\ links[root.address][d \div MaxId(1)] = Via(root, d)
          BY <3>2 DEF Via
        <4> QED
          BY <1>1, <1>5, <2>2, <4>1, <4>2 DEF TreeInv
      <3> QED
        BY <1>1, <1>8, <3>1, <3>2, Levels
    <2> QED
      BY <1>4, <2>2, <2>3, DigitsApart
  <1> QED
    BY <1>7, <1>8
-----------------------------------------------------------------------------
(* Entries stay *)

LEMMA GrownStays ==
    ASSUME TableType, FreshInv, used # 0, Grown, NEW t \in Tables, t.address < used, NEW c \in Nat, Resolve(t, c) # NULL
    PROVE  Resolve(t, c)' = Resolve(t, c)
  <1>1. /\ c < MaxId(t.level) /\ Leaf(t, c) # NULL /\ Resolve(t, c) = Entry(Leaf(t, c), c)
        /\ Leaf(t, c) \in Addresses /\ Via(t, c) \in Addresses \cup {NULL}
    BY ResolveIs
  <1>2. Via(t, c) # NULL /\ Via(t, c) \in Addresses /\ t.address \in Addresses /\ used \in Nat
    BY <1>1 DEF Leaf, Tables, TableType
  <1>3. t.level = 2 => c \div MaxId(1) \in LinkSlots
    BY <1>1, Indices
  <1>4. (c % MaxId(1)) \div L0Count \in LinkSlots
    BY Indices
  <1>5. Via(t, c) < used /\ Via(t, c) # used /\ t.address # used
    BY <1>2, <1>3 DEF Via, FreshInv, Addresses
  <1>6. Via(t, c)' = Via(t, c)
    BY <1>2, <1>3, <1>5 DEF Via, Grown
  <1>7. Leaf(t, c)' = Leaf(t, c)
    <2>1. CASE t.level = 0
      BY <1>6, <2>1 DEF Leaf
    <2>2. CASE t.level # 0
      <3>1. Leaf(t, c) = links[Via(t, c)][(c % MaxId(1)) \div L0Count]
        BY <1>2, <2>2 DEF Leaf
      <3>2. links'[Via(t, c)][(c % MaxId(1)) \div L0Count] = Leaf(t, c)
        BY <1>1, <1>2, <1>4, <1>5, <3>1 DEF Grown
      <3> QED
        BY <1>2, <1>6, <2>2, <3>2 DEF Leaf
    <2> QED
      BY <2>1, <2>2
  <1>8. Resolve(t, c)' = IF c >= MaxId(t.level) \/ Leaf(t, c)' = NULL THEN NULL ELSE Entry(Leaf(t, c)', c)
    BY DEF Resolve, Leaf, Via
  <1> QED
    BY <1>1, <1>7, <1>8, Levels, Positive

\* What a reader and a tracker rely on while the table grows.
Stays == /\ \A t \in Tables, c \in Nat : Under(t) /\ Resolve(t, c) # NULL => Resolve(t, c)' = Resolve(t, c)
         /\ \A c \in Nat : Resolve(root, c) # NULL => Resolve(root, c)' = Resolve(root, c)

LEMMA UnderUsed ==
    ASSUME TableType, FreshInv, used # 0, NEW t \in Tables, Under(t)
    PROVE  t.address < used
  <1>1. root.address \in Addresses /\ root.address < used /\ t.address # NULL
    BY NullApart DEF TableType, Tables, FreshInv, Addresses
  <1>2. links[root.address][0] # NULL => links[root.address][0] \in Addresses /\ links[root.address][0] < used
    BY <1>1, ZeroIndex DEF FreshInv, TableType
  <1> QED
    BY <1>1, <1>2, ZeroIndex DEF Under, FreshInv

LEMMA GrownKeeps ==
    ASSUME TableType, TableType', FreshInv, used # 0, Grown
    PROVE  Stays
  <1>1. ASSUME NEW t \in Tables, NEW c \in Nat, Under(t), Resolve(t, c) # NULL PROVE Resolve(t, c)' = Resolve(t, c)
    BY <1>1, UnderUsed, GrownStays
  <1>2. ASSUME NEW c \in Nat, Resolve(root, c) # NULL PROVE Resolve(root, c)' = Resolve(root, c)
    BY <1>2, GrownResolves
  <1> QED
    BY <1>1, <1>2 DEF Stays

LEMMA SameStays ==
    ASSUME root' = root, links' = links
    PROVE  Stays /\ (TreeInv => TreeInv')
  <1>1. Stays
    BY SameTables DEF Stays
  <1> QED
    BY <1>1 DEF TreeInv

LEMMA ExpandTree ==
    ASSUME IInv, JInv, TreeInv, used # 0, NEW a \in Actors, Expand(a)
    PROVE  TreeInv'
  <1>1. /\ used \in Addresses /\ links \in [Addresses -> [LinkSlots -> Addresses \cup {NULL}]] /\ root.address \in Addresses
        /\ root.address < used /\ \A t \in Addresses, i \in LinkSlots : links[t][i] # NULL => links[t][i] < used
        /\ used # NULL /\ root.address # NULL /\ used # root.address
    BY ExpandIs, NullApart DEF IInv, TypeOK, TableType, Tables, JInv, FreshInv, Addresses
  <1>2. \A t \in Addresses, i \in LinkSlots : links[t][i] # used
    BY <1>1 DEF Addresses
  <1>3. CASE /\ root' = Table(root.level + 1, used)
             /\ links'[used][0] = root.address /\ \A i \in LinkSlots : i # 0 => links'[used][i] = NULL
             /\ \A t \in Addresses : t # used => links'[t] = links[t]
    <2>1. root'.address = used
      BY <1>3 DEF Table
    <2>2. \A t \in Addresses, i \in LinkSlots :
             links'[t][i] = IF t = used THEN IF i = 0 THEN root.address ELSE NULL ELSE links[t][i]
      BY <1>3
    <2>3. \A t \in Addresses, i \in LinkSlots : links'[t][i] # root'.address
      BY <1>1, <1>2, <2>1, <2>2
    <2>4. \A t, u \in Addresses, i, j \in LinkSlots :
             links'[t][i] # NULL /\ links'[t][i] = links'[u][j] => t = u /\ i = j
      BY <1>1, <2>2 DEF TreeInv
    <2> QED
      BY <2>3, <2>4 DEF TreeInv
  <1>4. CASE root' = root /\ \E x \in Addresses, i \in LinkSlots : links[x][i] = NULL
                /\ \A t \in Addresses, j \in LinkSlots : links'[t][j] = IF t = x /\ j = i THEN used ELSE links[t][j]
    <2>1. PICK x \in Addresses, n \in LinkSlots :
             \A t \in Addresses, j \in LinkSlots : links'[t][j] = IF t = x /\ j = n THEN used ELSE links[t][j]
      BY <1>4
    <2>2. \A t \in Addresses, i \in LinkSlots : links'[t][i] # root'.address
      BY <1>1, <1>4, <2>1 DEF TreeInv
    <2>3. \A t, u \in Addresses, i, j \in LinkSlots :
             links'[t][i] # NULL /\ links'[t][i] = links'[u][j] => t = u /\ i = j
      BY <1>1, <1>2, <2>1 DEF TreeInv
    <2> QED
      BY <2>2, <2>3 DEF TreeInv
  <1> QED
    BY <1>3, <1>4, ExpandIs
-----------------------------------------------------------------------------
(* Actors that do not move *)

LEMMA Cid == Trackers \subseteq Nat /\ Trackers \subseteq Actors
  <1>1. MaxId(2) \in Nat \ {0}
    BY Positive
  <1> QED
    BY <1>1, CidTableAssumption

\* The top of an actor that keeps it.
LEMMA TopKept ==
    ASSUME NEW b, NEW t, top'[b] = t, NEW k
    PROVE  Resolve(top[b], k)' = Resolve(t, k)'
  BY DEF Resolve

\* The context of a CID has a reference: the entry's.
LEMMA TrackedAlive ==
    ASSUME IInv, KInv, NEW k \in Trackers, tracked[k] # NULL
    PROVE  tracked[k] \in Objects /\ count[tracked[k]] \in Nat /\ count[tracked[k]] # 0
  <1>1. PICK o \in Objects : o = tracked[k] /\ Has(k, o)
    BY DEF KInv, FindType, TrackInv
  <1>2. root \in Tables /\ TableType /\ k \in Nat
    BY Cid DEF IInv, TypeOK, TableType
  <1>3. Resolve(root, k) \in Slots /\ EntryOf[Resolve(root, k)] = o
    BY <1>1, <1>2, ResolveType DEF Has
  <1>4. k \in Actors /\ \E s \in Slots : EntryOf[s] = o
    BY <1>3, Cid
  <1>5. count[o] \in Nat /\ count[o] >= 1
    BY <1>4, Referred
  <1> QED
    BY <1>1, <1>5

LEMMA StillFinds ==
    ASSUME IInv, JInv, KInv, NEW b \in Actors, Still(b), Stays, stopping' = stopping, top'[b] = top[b],
           asked'[b] = asked[b], expect'[b] \subseteq expect[b],
           \A k \in Trackers : tracked[k] # NULL /\ tracked[k] \in expect'[b] =>
               tracked'[k] = tracked[k] /\ type'[tracked[k]] = type[tracked[k]],
           ~stopping => \A o \in Objects : b \in Trackers /\ Has(b, o) => Has(b, o)',
           b \in Trackers => tracked'[b] = tracked[b]
    PROVE  CallInv(b)' /\ HeldInv(b)' /\ ExpectInv(b)' /\ (b \in Trackers => TrackInv(b)')
  <1>1. /\ pc'[b] = pc[b] /\ slot'[b] = slot[b] /\ obj'[b] = obj[b] /\ mode'[b] = mode[b] /\ cid'[b] = cid[b]
    BY DEF Still
  <1>2. /\ CallInv(b) /\ HeldInv(b) /\ ExpectInv(b) /\ (b \in Trackers => TrackInv(b)) /\ FindType
        /\ ActorInv(b) /\ TableType /\ top[b] \in Tables /\ Under(top[b]) /\ obj[b] \in Objects \cup {NULL}
    BY DEF KInv, IInv, TypeOK, TableType, ObjectType, JInv, UnderInv
  <1>3. ASSUME NEW k \in Nat, pc[b] \in EntryPoints, slot[b] = Resolve(root, k) PROVE slot'[b] = Resolve(root, k)'
    <2>1. Resolve(root, k) # NULL
      BY <1>2, <1>3, NullApart DEF ActorInv
    <2> QED
      BY <1>1, <1>3, <2>1 DEF Stays
  <1>4. CallInv(b)'
    BY <1>1, <1>2, <1>3, Cid DEF CallInv, Walks
  <1>5. HeldInv(b)'
    <2>1. SUFFICES ASSUME mode[b] = "track", obj[b] # NULL, pc[b] \notin {"assign"} \cup StorePoints PROVE Has(b, obj[b])'
      BY <1>1 DEF HeldInv
    <2>2. PICK o \in Objects : o = obj[b] /\ Has(b, o)
      BY <1>2, <2>1 DEF HeldInv
    <2>3. ~stopping
      <3>1. pc[b] # "idle"
        BY <1>2, <2>1 DEF ActorInv, FreePoints
      <3> QED
        BY <2>1, <3>1, OnlyUnloader DEF Walking
    <2>4. Has(b, o)' /\ obj'[b] = o
      BY <1>1, <1>2, <2>1, <2>2, <2>3 DEF CallInv
    <2> QED
      BY <2>4 DEF Has
  <1>6. ASSUME b \in Trackers PROVE TrackInv(b)'
    <2>1. SUFFICES ASSUME tracked[b] # NULL PROVE TrackInv(b)'
      BY <1>6 DEF TrackInv
    <2>2. PICK o \in Objects : o = tracked[b] /\ Has(b, o) /\ ~stopping
      BY <1>2, <1>6, <2>1 DEF TrackInv, FindType
    <2>3. Has(b, o)' /\ tracked'[b] = o
      BY <1>6, <2>2
    <2>4. Has(b, tracked[b])'
      BY <2>3 DEF Has
    <2> QED
      BY <1>1, <1>2, <1>6, <2>1, <2>4 DEF TrackInv
  <1>7. ExpectInv(b)'
    <2>1. SUFFICES ASSUME NEW o \in expect'[b]
                   PROVE  \E k \in Trackers : tracked'[k] = o /\ (Looks(b, o, k)' \/ Scans(b, o, k)')
      BY DEF ExpectInv
    <2>2. PICK k \in Trackers : tracked[k] = o /\ (Looks(b, o, k) \/ Scans(b, o, k))
      BY <1>2, <2>1 DEF ExpectInv
    <2>3. k \in Nat /\ o # NULL /\ tracked'[k] = o /\ type'[o] = type[o]
      BY <1>2, <2>1, <2>2, Cid, NullApart DEF FindType
    <2>4. Resolve(top[b], k) # NULL => Resolve(top[b], k)' # NULL
      <3>1. PICK t \in Tables : t = top[b] /\ t = top'[b] /\ Under(t)
        BY <1>2
      <3>2. Resolve(t, k) # NULL => Resolve(t, k)' = Resolve(t, k)
        BY <2>3, <3>1 DEF Stays
      <3> QED
        BY <3>1, <3>2, TopKept
    <2>5. Here(b, o, k) => Here(b, o, k)'
      <3>1. pc[b] \in {"shared"} \cup SharePoints => pc[b] \in EntryPoints
        BY DEF EntryPoints
      <3> QED
        BY <1>1, <1>3, <2>3, <3>1 DEF Here
    <2> QED
      BY <1>1, <2>2, <2>3, <2>4, <2>5 DEF Looks, Scans
  <1> QED
    BY <1>4, <1>5, <1>6, <1>7

\* Steps that leave the tables and the contexts alone: what the actor itself knows remains to be shown.
LEMMA PlainFinds ==
    ASSUME IInv, JInv, KInv, NEW a \in Actors, OthersStill(a), root' = root, links' = links, EntryOf' = EntryOf,
           stopping' = stopping, FindType',
           \A b \in Actors : b # a => top'[b] = top[b] /\ asked'[b] = asked[b] /\ expect'[b] = expect[b],
           \A k \in Trackers : tracked[k] # NULL => tracked'[k] = tracked[k] /\ type'[tracked[k]] = type[tracked[k]],
           \A k \in Trackers : k # a => tracked'[k] = tracked[k],
           CallInv(a)', HeldInv(a)', ExpectInv(a)', a \in Trackers => TrackInv(a)'
    PROVE  KInv'
  <1>1. Stays /\ TreeInv'
    BY SameStays DEF KInv
  <1>2. \A k \in Trackers, o \in Objects : Has(k, o) => Has(k, o)'
    BY SameTables DEF Has
  <1>3. ASSUME NEW b \in Actors, b # a
        PROVE  CallInv(b)' /\ HeldInv(b)' /\ ExpectInv(b)' /\ (b \in Trackers => TrackInv(b)')
    BY <1>1, <1>2, <1>3, StillFinds DEF OthersStill
  <1> QED
    BY <1>1, <1>3, Cid DEF KInv

\* An actor that has to find o sees it in the entry of k.
LEMMA ExpectedHere ==
    ASSUME IInv, KInv, NEW k \in Trackers, tracked[k] # NULL
    PROVE  k \in Nat /\ Resolve(root, k) # NULL /\ Resolve(root, k) \in Slots /\ EntryOf[Resolve(root, k)] = tracked[k]
  <1>1. root \in Tables /\ TableType /\ k \in Nat
    BY Cid DEF IInv, TypeOK, TableType
  <1>2. Has(k, tracked[k])
    BY DEF KInv, TrackInv
  <1> QED
    BY <1>1, <1>2, ResolveType DEF Has

LEMMA AtomicFinds ==
    ASSUME IInv, JInv, KInv, NEW a \in Actors, AtomicSteps(a), UNCHANGED <<tableVars, callVars, control>>
    PROVE  KInv'
  <1>1. /\ root' = root /\ links' = links /\ stopping' = stopping /\ mode' = mode /\ cid' = cid /\ top' = top
        /\ asked' = asked /\ tracked' = tracked /\ expect' = expect
    BY DEF tableVars, callVars, control
  <1>2. slot' = slot /\ type' = type
    BY DEF AtomicSteps, AcquireShared, ReadObject, ReferenceObject, AssignReference, AcquireExclusive, Drain,
           ReadPrevious, objects, objectLocals
  <1>3. OthersStill(a) /\ EntryOf' = EntryOf
    BY AtomicPlain DEF Plain
  <1>4. PICK p : Goto(a, p) /\ <<pc[a], p>> \in {<<"shared", "read">>, <<"read", "release">>, <<"read", "reference">>,
           <<"reference", "release">>, <<"assign", "exclusive">>, <<"exclusive", "drain">>, <<"drain", "previous">>,
           <<"previous", "store">>}
    BY DEF AtomicSteps, AcquireShared, ReadObject, ReferenceObject, AssignReference, AcquireExclusive, Drain, ReadPrevious
  <1>5. pc'[a] = p
    BY <1>4, MovesTo
  <1>6. /\ CallInv(a) /\ HeldInv(a) /\ ExpectInv(a) /\ ActorInv(a) /\ (a \in Trackers => TrackInv(a)) /\ FindType
    BY DEF KInv, IInv
  <1>7. pc[a] \in EntryPoints /\ slot[a] \in Slots
    BY <1>4, <1>6 DEF ActorInv, EntryPoints, SharePoints, LockPoints
  <1>8. /\ pc[a] # "read" => obj'[a] = obj[a]
        /\ pc[a] = "read" => obj'[a] = EntryOf[slot[a]] /\ (p = "release" => EntryOf[slot[a]] = NULL)
    <2>1. CASE pc[a] # "read"
      BY <2>1 DEF AtomicSteps, AcquireShared, ReadObject, ReferenceObject, AssignReference, AcquireExclusive, Drain,
                  ReadPrevious, objectLocals
    <2>2. CASE pc[a] = "read"
      <3>1. ReadObject(a)
        BY <2>2 DEF AtomicSteps, AcquireShared, ReferenceObject, AssignReference, AcquireExclusive, Drain, ReadPrevious
      <3>2. obj'[a] = ref[slot[a]].object /\ Goto(a, IF ref[slot[a]].object = NULL THEN "release" ELSE "reference")
        BY <3>1 DEF ReadObject, IInv, TypeOK, ObjectType
      <3>3. EntryOf[slot[a]] = ref[slot[a]].object
        BY <1>7 DEF EntryOf
      <3>4. pc'[a] = IF ref[slot[a]].object = NULL THEN "release" ELSE "reference"
        BY <3>2, MovesTo
      <3> QED
        BY <1>5, <2>2, <3>2, <3>3, <3>4
    <2> QED
      BY <2>1, <2>2
  <1>9. Resolve(root, a)' = Resolve(root, a) /\ \A o : Has(a, o)' <=> Has(a, o)
    BY <1>1, <1>3, SameTables DEF Has
  <1>10. CallInv(a)'
    BY <1>1, <1>2, <1>4, <1>5, <1>6, <1>7, <1>9 DEF CallInv, ActorInv, StorePoints, Walks
  <1>11. HeldInv(a)'
    <2>1. SUFFICES ASSUME mode[a] = "track", obj'[a] # NULL, p \notin {"assign"} \cup StorePoints PROVE Has(a, obj[a])'
      BY <1>1, <1>5 DEF HeldInv
    <2>2. PICK o : o = obj'[a] /\ Has(a, o)
      <3>1. CASE pc[a] = "read"
        BY <1>6, <1>7, <1>8, <2>1, <3>1, NullApart DEF CallInv, Has
      <3>2. CASE pc[a] # "read"
        BY <1>4, <1>6, <1>8, <2>1, <3>2 DEF HeldInv, StorePoints
      <3> QED
        BY <3>1, <3>2
    <2>3. Has(a, o)'
      BY <1>9, <2>2
    <2> QED
      BY <2>2, <2>3 DEF Has
  <1>12. ASSUME a \in Trackers PROVE TrackInv(a)'
    <2>1. SUFFICES ASSUME tracked[a] # NULL PROVE TrackInv(a)'
      BY <1>1 DEF TrackInv
    <2>2. Has(a, tracked[a])'
      <3>1. PICK o : o = tracked[a] /\ Has(a, o)
        BY <1>6, <1>12, <2>1 DEF TrackInv
      <3>2. Has(a, o)' /\ o = tracked'[a]
        BY <1>1, <1>9, <3>1
      <3> QED
        BY <3>2 DEF Has
    <2>3. mode[a] = "track" => p \notin {"create", "assign"} \cup StorePoints
      BY <1>4, <1>6, <1>12, <2>1 DEF TrackInv, StorePoints
    <2>4. ASSUME mode[a] = "track", p = "release" PROVE obj'[a] # NULL
      <3>1. EntryOf[slot[a]] # NULL
        BY <1>6, <1>7, <1>12, <2>1, <2>4, ExpectedHere DEF CallInv
      <3> QED
        BY <1>4, <1>6, <1>8, <2>4, <3>1, NullApart DEF ActorInv
    <2> QED
      BY <1>1, <1>5, <1>6, <1>12, <2>1, <2>2, <2>3, <2>4 DEF TrackInv
  <1>13. ExpectInv(a)'
    <2>1. SUFFICES ASSUME NEW o \in expect[a]
                   PROVE  \E k \in Trackers : tracked[k] = o /\ (Looks(a, o, k)' \/ Scans(a, o, k)')
      BY <1>1 DEF ExpectInv
    <2>2. PICK k \in Trackers : tracked[k] = o /\ (Looks(a, o, k) \/ Scans(a, o, k))
      BY <1>6, <2>1 DEF ExpectInv
    <2>3. o # NULL
      BY <1>6, <2>1, NullApart DEF FindType
    <2>4. EntryOf[Resolve(root, k)] = o /\ Resolve(root, k)' = Resolve(root, k) /\ Resolve(top[a], k)' = Resolve(top[a], k)
      <3>1. EntryOf[Resolve(root, k)] = o
        BY <2>2, <2>3, ExpectedHere
      <3>2. Resolve(root, k)' = Resolve(root, k)
        BY <1>1, SameTables
      <3>3. PICK t : t = top[a] /\ t = top'[a]
        BY <1>1
      <3>4. Resolve(t, k)' = Resolve(t, k)
        BY <1>1, SameTables
      <3> QED
        BY <3>1, <3>2, <3>3, <3>4, TopKept
    <2>5. Here(a, o, k) => Here(a, o, k)'
      BY <1>2, <1>4, <1>5, <1>8, <2>4 DEF Here, SharePoints
    <2>6. Looks(a, o, k) => Here(a, o, k)
      BY <1>4 DEF Looks
    <2> QED
      BY <1>1, <1>2, <1>4, <1>5, <2>2, <2>4, <2>5, <2>6 DEF Looks, Scans
  <1>14. FindType'
    BY <1>1, <1>2, <1>6 DEF FindType
  <1> QED
    BY <1>1, <1>2, <1>3, <1>10, <1>11, <1>12, <1>13, <1>14, PlainFinds

\* The parts of the invariant that concern the actor of a step.
LEMMA SelfHeld ==
    ASSUME root' = root, links' = links, EntryOf' = EntryOf, NEW a,
           mode'[a] = "track" /\ obj'[a] # NULL /\ pc'[a] \notin {"assign"} \cup StorePoints => Has(a, obj'[a])
    PROVE  HeldInv(a)'
  <1>1. PICK o : o = obj'[a]
    OBVIOUS
  <1>2. Has(a, o)' <=> Has(a, o)
    BY SameTables DEF Has
  <1> QED
    BY <1>1, <1>2 DEF HeldInv, Has

LEMMA SelfTrack ==
    ASSUME root' = root, links' = links, EntryOf' = EntryOf, NEW a,
           tracked'[a] # NULL => /\ Has(a, tracked'[a]) /\ mode'[a] # "untrack" /\ ~stopping'
                                 /\ mode'[a] = "track" => /\ pc'[a] \notin {"create", "assign"} \cup StorePoints
                                                          /\ pc'[a] = "release" => obj'[a] # NULL
    PROVE  TrackInv(a)'
  <1>1. PICK o : o = tracked'[a]
    OBVIOUS
  <1>2. Has(a, o)' <=> Has(a, o)
    BY SameTables DEF Has
  <1> QED
    BY <1>1, <1>2 DEF TrackInv, Has

LEMMA TopSame ==
    ASSUME root' = root, links' = links, NEW a, NEW t, top'[a] = t, NEW k
    PROVE  Resolve(top[a], k)' = Resolve(t, k)
  BY SameTables, TopKept

\* An actor that is not on its way to an entry goes on with its walk.
LEMMA SelfExpects ==
    ASSUME KInv, NEW a \in Actors, root' = root, links' = links, expect'[a] \subseteq expect[a],
           \A k \in Trackers : tracked[k] # NULL => tracked'[k] = tracked[k],
           pc[a] \notin {"idle", "capture", "resolve", "shared"} \cup SharePoints,
           mode[a] = "enumerate" /\ expect'[a] # {} =>
               pc'[a] \notin {"idle", "capture"} /\ mode'[a] = mode[a] /\ cid'[a] = cid[a] /\ top'[a] = top[a]
    PROVE  ExpectInv(a)'
  <1>1. SUFFICES ASSUME NEW o \in expect'[a]
                 PROVE  \E k \in Trackers : tracked'[k] = o /\ (Looks(a, o, k)' \/ Scans(a, o, k)')
    BY DEF ExpectInv
  <1>2. PICK k \in Trackers : tracked[k] = o /\ (Looks(a, o, k) \/ Scans(a, o, k))
    BY <1>1 DEF KInv, ExpectInv
  <1>3. o # NULL
    BY <1>1, NullApart DEF KInv, FindType
  <1>4. Scans(a, o, k) /\ ~Here(a, o, k)
    BY <1>2 DEF Looks, Here
  <1>5. /\ pc'[a] \notin {"idle", "capture"} /\ mode'[a] = "enumerate" /\ cid'[a] = cid[a] /\ top'[a] = top[a]
        /\ cid[a] <= k /\ Resolve(top[a], k) # NULL
    BY <1>1, <1>4 DEF Scans
  <1>6. Resolve(top[a], k)' = Resolve(top[a], k)
    BY <1>5, TopSame
  <1> QED
    BY <1>2, <1>3, <1>5, <1>6 DEF Scans

LEMMA AskedKept ==
    ASSUME KInv, NEW a \in Actors, KeepCall(a)
    PROVE  /\ \A b \in Actors : b # a => asked'[b] = asked[b]
           /\ pc'[a] # "idle" => asked'[a] = asked[a]
           /\ asked' = [b \in Actors |-> asked'[b]]
  <1>1. PICK v : asked' = [asked EXCEPT ![a] = v] /\ (pc'[a] # "idle" => v = asked[a])
    BY DEF KeepCall
  <1>2. asked = [b \in Actors |-> asked[b]]
    BY DEF KInv, FindType
  <1> QED
    BY <1>1, <1>2

LEMMA FindFinds ==
    ASSUME IInv, JInv, KInv, NEW a \in Actors, AcquireSpinLock(a) \/ LookupEntry(a) \/ Expanded(a)
    PROVE  KInv'
  <1>1. /\ root' = root /\ links' = links /\ stopping' = stopping /\ mode' = mode /\ cid' = cid /\ top' = top
        /\ asked' = asked /\ tracked' = tracked /\ expect' = expect /\ type' = type /\ obj' = obj
    BY DEF AcquireSpinLock, LookupEntry, Expanded, tableVars, callVars, control, objects, objectLocals
  <1>2. OthersStill(a) /\ EntryOf' = EntryOf
    BY FindPlain DEF Plain
  <1>3. /\ CallInv(a) /\ ExpectInv(a) /\ ActorInv(a) /\ (a \in Trackers => TrackInv(a)) /\ FindType
    BY DEF KInv, IInv
  <1>4. PICK p : Goto(a, p) /\ p \in {"expand", "shared", "lock"}
    BY DEF AcquireSpinLock, LookupEntry, Expanded
  <1>5. pc'[a] = p
    BY <1>4, MovesTo
  <1>6. pc[a] \in GetPoints /\ pc[a] # "idle" /\ obj[a] = NULL /\ mode[a] # "enumerate" /\ mode[a] # "rundown"
    BY <1>3 DEF AcquireSpinLock, LookupEntry, Expanded, GetPoints, ActorInv, FreePoints, Walks
  <1>7. cid[a] \in Nat
    BY DEF IInv, TypeOK, TableType
  <1>8. /\ p = "shared" => slot'[a] = Resolve(root, cid[a])
        /\ pc[a] = "resolve" /\ Resolve(top[a], cid[a]) # NULL => p = "shared"
    <2>1. CASE AcquireSpinLock(a)
      <3>1. pc[a] = "lock" /\ Goto(a, "expand")
        BY <2>1 DEF AcquireSpinLock
      <3>2. pc'[a] = "expand"
        BY <3>1, MovesTo
      <3> QED
        BY <1>5, <3>1, <3>2
    <2>2. CASE LookupEntry(a)
      <3>1. slot'[a] = Resolve(top[a], cid[a]) /\ Goto(a, IF slot'[a] = NULL THEN "lock" ELSE "shared")
        BY <2>2 DEF LookupEntry, IInv, TypeOK, ObjectType
      <3>2. pc'[a] = IF slot'[a] = NULL THEN "lock" ELSE "shared"
        BY <3>1, MovesTo
      <3> QED
        BY <1>5, <1>7, <3>1, <3>2, TopResolves
    <2>3. CASE Expanded(a)
      <3>1. slot'[a] = Resolve(root, cid[a]) /\ pc[a] = "expand"
        BY <2>3 DEF Expanded, IInv, TypeOK, ObjectType
      <3> QED
        BY <3>1
    <2> QED
      BY <2>1, <2>2, <2>3
  <1>9. \A c : Resolve(root, c)' = Resolve(root, c)
    BY <1>1, SameTables
  <1>10. p \notin StorePoints /\ (p \in EntryPoints => p = "shared") /\ p # "visit"
    BY <1>4 DEF EntryPoints, SharePoints, LockPoints, StorePoints
  <1>11. CallInv(a)'
    BY <1>1, <1>3, <1>5, <1>6, <1>8, <1>9, <1>10 DEF CallInv
  <1>12. HeldInv(a)'
    BY <1>1, <1>6 DEF HeldInv
  <1>13. a \in Trackers => TrackInv(a)'
    BY <1>1, <1>2, <1>3, <1>4, <1>5, <1>10, SelfTrack DEF TrackInv
  <1>14. ExpectInv(a)'
    <2>1. SUFFICES ASSUME NEW o \in expect[a]
                   PROVE  \E k \in Trackers : tracked[k] = o /\ Looks(a, o, k)'
      BY <1>1 DEF ExpectInv
    <2>2. PICK k \in Trackers : tracked[k] = o /\ Looks(a, o, k)
      BY <1>3, <1>6, <2>1 DEF ExpectInv, Scans
    <2>3. pc[a] = "resolve" /\ Resolve(top[a], k) # NULL /\ cid[a] = k
      BY <1>6, <2>2 DEF Looks, Here, GetPoints, SharePoints
    <2>4. Here(a, o, k)'
      BY <1>5, <1>8, <1>9, <2>3 DEF Here
    <2> QED
      BY <1>1, <2>2, <2>4 DEF Looks
  <1>15. FindType'
    BY <1>1, <1>3 DEF FindType
  <1> QED
    BY <1>1, <1>2, <1>11, <1>12, <1>13, <1>14, <1>15, PlainFinds

\* Steps after which the call goes on with what it has, or returns.
LEMMA KeptFinds ==
    ASSUME IInv, JInv, KInv, NEW a \in Actors, NEW p, Goto(a, p), KeepObjects(a), KeepCall(a),
           root' = root, links' = links, EntryOf' = EntryOf, stopping' = stopping, type' = type, tracked' = tracked,
           expect' \in [Actors -> SUBSET Objects], \A b \in Actors : b # a => expect'[b] = expect[b],
           p \in EntryPoints => pc[a] \in EntryPoints, p = "visit" => Walks(a),
           p \in StorePoints => mode[a] \in {"track", "untrack", "rundown"},
           pc[a] \notin {"idle", "assign"} \cup StorePoints,
           a \in Trackers /\ tracked[a] # NULL /\ mode[a] = "track" =>
               p \notin {"create", "assign", "release"} \cup StorePoints,
           ExpectInv(a)'
    PROVE  KInv'
  <1>1. pc'[a] = p /\ \A b \in Actors : b # a => pc'[b] = pc[b]
    BY MovesTo
  <1>2. /\ \A b \in Actors : b # a => slot'[b] = slot[b] /\ obj'[b] = obj[b] /\ old'[b] = old[b]
        /\ p # "idle" => slot'[a] = slot[a] /\ obj'[a] = obj[a] /\ old'[a] = old[a]
        /\ p = "idle" => obj'[a] = NULL
    BY <1>1, KeptObjects DEF IInv, TypeOK
  <1>3. /\ \A b \in Actors : b # a => top'[b] = top[b] /\ mode'[b] = mode[b] /\ cid'[b] = cid[b]
        /\ p = "idle" => mode'[a] \in {mode[a], "none"}
        /\ p # "idle" => cid'[a] = cid[a] /\ top'[a] = top[a] /\ mode'[a] = mode[a]
    BY <1>1, CallKept
  <1>4. /\ \A b \in Actors : b # a => asked'[b] = asked[b]
        /\ asked' = [b \in Actors |-> asked'[b]]
    BY AskedKept
  <1>5. OthersStill(a)
    BY <1>1, <1>2, <1>3 DEF OthersStill, Still
  <1>6. /\ CallInv(a) /\ HeldInv(a) /\ (a \in Trackers => TrackInv(a)) /\ FindType
    BY DEF KInv
  <1>7. \A c : Resolve(root, c)' = Resolve(root, c)
    BY SameTables
  <1>8. "idle" \notin EntryPoints /\ "idle" \notin StorePoints
    BY PointsApart
  <1>9. CallInv(a)'
    <2>1. mode'[a] \in {"track", "untrack"} => mode'[a] = mode[a]
      BY <1>3
    <2>2. p = "visit" => Walks(a)'
      BY <1>3 DEF Walks
    <2> QED
      BY <1>1, <1>2, <1>3, <1>6, <1>7, <1>8, <2>1, <2>2 DEF CallInv
  <1>10. HeldInv(a)'
    BY <1>1, <1>2, <1>3, <1>6, SelfHeld DEF HeldInv
  <1>11. a \in Trackers => TrackInv(a)'
    BY <1>1, <1>3, <1>6, SelfTrack DEF TrackInv
  <1>12. FindType'
    BY <1>4, <1>6 DEF FindType
  <1> QED
    BY <1>3, <1>4, <1>5, <1>9, <1>10, <1>11, <1>12, PlainFinds

LEMMA ReferencedFinds ==
    ASSUME IInv, JInv, KInv, NEW a \in Actors, Referenced(a)
    PROVE  KInv'
  <1>1. /\ pc[a] = "release" /\ Goto(a, AfterReference(a)) /\ KeepObjects(a) /\ KeepCall(a) /\ root' = root /\ links' = links
        /\ stopping' = stopping /\ type' = type /\ tracked' = tracked
        /\ expect' = IF AfterReference(a) = "held" THEN [expect EXCEPT ![a] = @ \ {obj[a]}] ELSE expect
    BY DEF Referenced, ReleaseShared, tableVars, objects
  <1>2. EntryOf' = EntryOf
    BY ReturnPlain DEF Plain
  <1>3. /\ CallInv(a) /\ ExpectInv(a) /\ ActorInv(a) /\ (a \in Trackers => TrackInv(a)) /\ FindType
    BY DEF KInv, IInv
  <1>4. PICK p : p = AfterReference(a) /\ p \in {"held", "visit", "drop", "exclusive", "create", "idle"}
    BY AfterReferenceIs
  <1>5. /\ p = "visit" => mode[a] = "enumerate"
        /\ p = "exclusive" => mode[a] = "untrack"
        /\ p = "create" => obj[a] = NULL
        /\ mode[a] = "enumerate" => p \in {"held", "visit"}
        /\ mode[a] = "enumerate" /\ obj[a] # NULL => p = "held"
        /\ mode[a] = "lookup" /\ obj[a] # NULL /\ type[obj[a]] = asked[a] => p = "held"
    BY <1>4 DEF AfterReference
  <1>6. /\ expect' \in [Actors -> SUBSET Objects] /\ \A b \in Actors : b # a => expect'[b] = expect[b]
        /\ expect'[a] = IF p = "held" THEN expect[a] \ {obj[a]} ELSE expect[a]
    BY <1>1, <1>3, <1>4 DEF FindType
  <1>7. pc'[a] = p
    BY <1>1, <1>4, MovesTo
  <1>8. ExpectInv(a)'
    <2>1. SUFFICES ASSUME NEW o \in expect'[a]
                   PROVE  \E k \in Trackers : tracked[k] = o /\ Scans(a, o, k)'
      BY <1>1 DEF ExpectInv
    <2>2. o \in expect[a] /\ o # NULL /\ (p = "held" => o # obj[a])
      BY <1>3, <1>6, <2>1, NullApart DEF FindType
    <2>3. PICK k \in Trackers : tracked[k] = o /\ (Looks(a, o, k) \/ Scans(a, o, k))
      BY <1>3, <2>2 DEF ExpectInv
    <2>4. ~Looks(a, o, k)
      BY <1>1, <1>5, <2>2 DEF Looks, Here
    <2>5. mode[a] = "enumerate" /\ Resolve(top[a], k) # NULL /\ cid[a] <= k /\ p \in {"held", "visit"}
      BY <1>1, <1>5, <2>2, <2>3, <2>4 DEF Scans, Here
    <2>6. cid'[a] = cid[a] /\ top'[a] = top[a] /\ mode'[a] = mode[a]
      BY <1>1, <1>7, <2>5, CallKept
    <2>7. Resolve(top[a], k)' = Resolve(top[a], k)
      BY <1>1, <2>6, TopSame
    <2> QED
      BY <1>7, <2>3, <2>5, <2>6, <2>7 DEF Scans
  <1>9. /\ pc[a] \in EntryPoints /\ pc[a] \notin {"idle", "assign"} \cup StorePoints
        /\ p \in StorePoints => p = "exclusive"
    BY <1>1, <1>4 DEF EntryPoints, SharePoints, StorePoints
  <1>10. a \in Trackers /\ tracked[a] # NULL /\ mode[a] = "track" =>
            p \notin {"create", "assign", "release"} \cup StorePoints
    BY <1>1, <1>3, <1>4, <1>5, <1>9 DEF TrackInv
  <1>11. p = "visit" => Walks(a)
    BY <1>5 DEF Walks
  <1>12. Goto(a, p)
    BY <1>1, <1>4
  <1> QED
    BY <1>1, <1>2, <1>5, <1>6, <1>8, <1>9, <1>10, <1>11, <1>12, KeptFinds

LEMMA ReturnFinds ==
    ASSUME IInv, JInv, KInv, NEW a \in Actors, ExpandFails(a) \/ Stored(a) \/ DeferDelete(a)
    PROVE  KInv'
  <1>1. /\ KeepObjects(a) /\ KeepCall(a) /\ root' = root /\ links' = links
        /\ stopping' = stopping /\ type' = type /\ tracked' = tracked /\ expect' = expect
    BY DEF ExpandFails, Stored, DeferDelete, Push, Queue, ReleaseExclusive, tableVars, objects, control
  <1>2. EntryOf' = EntryOf
    BY ReturnPlain, DeferDeletePlain DEF Plain
  <1>3. PICK p : /\ Goto(a, p)
                 /\ \/ pc[a] = "expand" /\ p = "idle"
                    \/ pc[a] \in {"unlock", "push", "queue"} /\ p \in {"replaced", "queue", After(a)}
    <2>1. CASE ExpandFails(a)
      BY <2>1 DEF ExpandFails
    <2>2. CASE Stored(a)
      BY <2>2 DEF Stored, ReleaseExclusive
    <2>3. CASE DeferDelete(a)
      BY <2>3 DEF DeferDelete, Push, Queue
    <2> QED
      BY <2>1, <2>2, <2>3
  <1>4. After(a) \in {"held", "visit", "idle"} /\ (After(a) = "visit" => Walks(a)) /\ (Walks(a) => After(a) # "idle")
    BY DEF After
  <1>5. ActorInv(a) /\ FindType
    BY DEF IInv, KInv
  <1>6. /\ p \notin {"create", "assign", "release"} \cup StorePoints \cup EntryPoints
        /\ pc[a] \notin {"idle", "assign"} \cup StorePoints
        /\ pc[a] \notin {"idle", "capture", "resolve", "shared"} \cup SharePoints
    BY <1>3, <1>4 DEF EntryPoints, SharePoints, LockPoints, StorePoints
  <1>7. pc'[a] = p
    BY <1>3, MovesTo
  <1>8. mode[a] = "enumerate" => p \notin {"idle", "capture"}
    BY <1>3, <1>4, <1>5 DEF ActorInv, GetPoints, Walks
  <1>9. ExpectInv(a)'
    <2>1. mode[a] = "enumerate" => mode'[a] = mode[a] /\ cid'[a] = cid[a] /\ top'[a] = top[a]
      BY <1>1, <1>7, <1>8, CallKept
    <2> QED
      BY <1>1, <1>6, <1>7, <1>8, <2>1, SelfExpects
  <1>10. p = "visit" => Walks(a)
    BY <1>3, <1>4
  <1>11. expect' \in [Actors -> SUBSET Objects]
    BY <1>1, <1>5 DEF FindType
  <1> QED
    BY <1>1, <1>2, <1>3, <1>6, <1>9, <1>10, <1>11, KeptFinds

LEMMA CreateFinds ==
    ASSUME IInv, JInv, KInv, NEW a \in Actors, Create(a)
    PROVE  KInv'
  <1>1. /\ pc[a] = "create" /\ KeepCall(a) /\ root' = root /\ links' = links /\ stopping' = stopping
        /\ tracked' = tracked /\ expect' = expect
    BY DEF Create, tableVars, control
  <1>2. Plain(a)
    BY CreatePlain
  <1>3. /\ CallInv(a) /\ ActorInv(a) /\ (a \in Trackers => TrackInv(a)) /\ FindType
    BY DEF KInv, IInv
  <1>4. mode[a] = "track" /\ a \in Trackers /\ tracked[a] = NULL
    BY <1>1, <1>3 DEF ActorInv, CallInv, TrackInv
  <1>5. pc[a] \in EntryPoints /\ pc[a] \notin {"idle", "assign", "capture", "resolve", "shared"} \cup StorePoints \cup SharePoints
    BY <1>1 DEF EntryPoints, StorePoints, SharePoints
  <1>6. ExpectInv(a)'
    BY <1>1, <1>4, <1>5, SelfExpects
  <1>7. CASE Goto(a, "idle") /\ KeepObjects(a) /\ UNCHANGED <<objects, ref>>
    <2>1. type' = type /\ EntryOf' = EntryOf /\ expect' \in [Actors -> SUBSET Objects]
      BY <1>1, <1>3, <1>7 DEF objects, EntryOf, FindType
    <2>2. "idle" \notin EntryPoints /\ "idle" \notin StorePoints
      BY PointsApart
    <2> QED
      BY <1>1, <1>4, <1>5, <1>6, <1>7, <2>1, <2>2, KeptFinds
  <1>8. CASE CreateObject(a, asked[a]) /\ Goto(a, "assign")
    <2>1. PICK o \in Objects : count[o] = NULL /\ type' = [type EXCEPT ![o] = asked[a]] /\ slot' = slot
      BY <1>8 DEF CreateObject
    <2>2. pc'[a] = "assign"
      BY <1>8, MovesTo
    <2>3. /\ OthersStill(a) /\ EntryOf' = EntryOf /\ \A b \in Actors : b # a => top'[b] = top[b]
      BY <1>2 DEF Plain
    <2>4. /\ \A b \in Actors : b # a => asked'[b] = asked[b]
          /\ asked' = [b \in Actors |-> asked'[b]]
      BY <1>1, AskedKept
    <2>5. mode'[a] = mode[a] /\ cid'[a] = cid[a]
      BY <1>1, <2>2, CallKept
    <2>6. \A k \in Trackers : tracked[k] # NULL => type'[tracked[k]] = type[tracked[k]]
      BY <1>3, <2>1, TrackedAlive, NullApart DEF FindType
    <2>7. FindType'
      BY <1>1, <1>3, <2>1, <2>4 DEF FindType
    <2>8. Resolve(root, a)' = Resolve(root, a) /\ "assign" \notin StorePoints
      BY <1>1, SameTables DEF StorePoints
    <2>9. CallInv(a)'
      BY <1>3, <1>4, <1>5, <2>1, <2>2, <2>5, <2>8 DEF CallInv
    <2>10. HeldInv(a)'
      BY <2>2 DEF HeldInv
    <2>11. TrackInv(a)'
      BY <1>1, <1>4 DEF TrackInv
    <2> QED
      BY <1>1, <1>6, <2>3, <2>4, <2>6, <2>7, <2>9, <2>10, <2>11, PlainFinds
  <1> QED
    BY <1>7, <1>8 DEF Create

LEMMA DereferenceIs ==
    ASSUME IInv, NEW a \in Actors, NEW o, NEW p, Dereference(a, o, p)
    PROVE  pc'[a] \in {p, "push"} /\ type' = type
  <1>1. PICK q \in {p, "push"} : Goto(a, q) /\ type' = type
    BY DEF Dereference
  <1> QED
    BY <1>1, MovesTo

LEMMA GiveUpPreviousFinds ==
    ASSUME IInv, JInv, KInv, NEW a \in Actors, GiveUpPrevious(a)
    PROVE  KInv'
  <1>1. /\ pc[a] = "replaced" /\ Dereference(a, old[a], After(a)) /\ KeepCall(a) /\ obj' = obj
        /\ root' = root /\ links' = links /\ stopping' = stopping /\ tracked' = tracked /\ expect' = expect
    BY DEF GiveUpPrevious, tableVars, control
  <1>2. OthersStill(a) /\ EntryOf' = EntryOf /\ \A b \in Actors : b # a => top'[b] = top[b]
    BY GiveUpPlain DEF Plain
  <1>3. pc'[a] \in {After(a), "push"} /\ type' = type
    BY <1>1, DereferenceIs
  <1>4. After(a) \in {"held", "visit", "idle"} /\ (After(a) = "visit" => Walks(a)) /\ (Walks(a) => After(a) # "idle")
    BY DEF After
  <1>5. /\ CallInv(a) /\ HeldInv(a) /\ (a \in Trackers => TrackInv(a)) /\ FindType
    BY DEF KInv
  <1>6. /\ \A b \in Actors : b # a => asked'[b] = asked[b]
        /\ asked' = [b \in Actors |-> asked'[b]]
    BY <1>1, AskedKept
  <1>7. /\ pc'[a] = "idle" => mode'[a] \in {mode[a], "none"}
        /\ pc'[a] # "idle" => cid'[a] = cid[a] /\ top'[a] = top[a] /\ mode'[a] = mode[a]
    BY <1>1, CallKept
  <1>8. /\ pc'[a] \notin {"create", "assign", "release"} \cup StorePoints \cup EntryPoints
        /\ pc[a] \notin {"idle", "assign", "capture", "resolve", "shared"} \cup StorePoints \cup SharePoints
    BY <1>1, <1>3, <1>4 DEF EntryPoints, SharePoints, LockPoints, StorePoints
  <1>9. CallInv(a)'
    <2>1. pc'[a] = "visit" => Walks(a)'
      BY <1>3, <1>4, <1>7 DEF Walks
    <2> QED
      BY <1>1, <1>5, <1>7, <1>8, <2>1 DEF CallInv
  <1>10. HeldInv(a)'
    BY <1>1, <1>2, <1>5, <1>7, <1>8, SelfHeld DEF HeldInv
  <1>11. a \in Trackers => TrackInv(a)'
    BY <1>1, <1>2, <1>5, <1>7, <1>8, SelfTrack DEF TrackInv
  <1>12. ExpectInv(a)'
    <2>1. mode[a] = "enumerate" => pc'[a] \notin {"idle", "capture"}
      BY <1>3, <1>4 DEF Walks
    <2> QED
      BY <1>1, <1>7, <1>8, <2>1, SelfExpects
  <1>13. FindType'
    BY <1>1, <1>3, <1>5, <1>6 DEF FindType
  <1> QED
    BY <1>1, <1>2, <1>3, <1>6, <1>9, <1>10, <1>11, <1>12, <1>13, PlainFinds

LEMMA GiveUpFinds ==
    ASSUME IInv, JInv, KInv, NEW a \in Actors, GiveUp(a)
    PROVE  KInv'
  <1>1. /\ pc[a] \in {"held", "drop"} /\ obj' = [obj EXCEPT ![a] = NULL]
        /\ Dereference(a, obj[a], IF Walks(a) THEN "visit" ELSE "idle")
        /\ root' = root /\ links' = links /\ stopping' = stopping
        /\ tracked' = IF pc[a] = "held" /\ mode[a] = "track" THEN [tracked EXCEPT ![a] = obj[a]] ELSE tracked
    BY DEF GiveUp, tableVars
  <1>2. OthersStill(a) /\ EntryOf' = EntryOf /\ \A b \in Actors : b # a => top'[b] = top[b]
    BY GiveUpPlain DEF Plain
  <1>3. pc'[a] \in {IF Walks(a) THEN "visit" ELSE "idle", "push"} /\ type' = type
    BY <1>1, DereferenceIs
  <1>4. /\ CallInv(a) /\ HeldInv(a) /\ ActorInv(a) /\ (a \in Trackers => TrackInv(a)) /\ FindType
    BY DEF KInv, IInv
  <1>5. obj'[a] = NULL /\ obj[a] \in Objects /\ obj[a] # NULL
    BY <1>1, <1>4, NullApart DEF IInv, TypeOK, ObjectType, ActorInv
  <1>6. /\ pc'[a] \notin {"create", "assign", "release", "capture"} \cup StorePoints \cup EntryPoints
        /\ pc[a] \notin {"idle", "assign", "capture", "resolve", "shared"} \cup StorePoints \cup SharePoints
    BY <1>1, <1>3 DEF EntryPoints, SharePoints, LockPoints, StorePoints
  <1>7. /\ \A b \in Actors : b # a => asked'[b] = asked[b] /\ expect'[b] = expect[b]
        /\ asked' = [b \in Actors |-> asked'[b]] /\ expect' \in [Actors -> SUBSET Objects]
        /\ expect'[a] = expect[a] \/ expect'[a] = {}
        /\ pc'[a] = "idle" => mode'[a] \in {mode[a], "none"}
        /\ pc'[a] # "idle" => top'[a] = top[a] /\ mode'[a] = mode[a]
        /\ pc'[a] # "idle" /\ expect'[a] # {} => cid'[a] = cid[a]
        /\ pc'[a] # "idle" /\ mode[a] # "enumerate" => cid'[a] = cid[a]
    <2>1. CASE KeepCall(a) /\ UNCHANGED expect
      BY <1>4, <2>1, CallKept, AskedKept DEF FindType
    <2>2. CASE /\ mode[a] = "enumerate" /\ expect' = [expect EXCEPT ![a] = {}] /\ UNCHANGED <<mode, asked, top>>
      BY <1>4, <2>2 DEF FindType
    <2> QED
      BY <2>1, <2>2 DEF GiveUp
  <1>8. ASSUME pc[a] = "held", mode[a] = "track"
        PROVE  a \in Trackers /\ Has(a, obj[a]) /\ ~stopping /\ (tracked[a] # NULL => tracked[a] = obj[a])
    <2>1. a \in Trackers /\ Has(a, obj[a])
      BY <1>4, <1>5, <1>6, <1>8 DEF CallInv, HeldInv
    <2>2. ~stopping
      <3>1. stopping => Walking /\ a = Unloader
        BY <1>8, OnlyUnloader
      <3> QED
        BY <1>8, <3>1 DEF Walking
    <2>3. tracked[a] # NULL => tracked[a] = obj[a]
      BY <1>4, <2>1 DEF TrackInv, Has
    <2> QED
      BY <2>1, <2>2, <2>3
  <1>9. /\ \A k \in Trackers : tracked[k] # NULL => tracked'[k] = tracked[k]
        /\ \A k \in Trackers : k # a => tracked'[k] = tracked[k]
        /\ tracked' \in [Trackers -> Objects \cup {NULL}]
        /\ a \in Trackers => tracked'[a] = IF pc[a] = "held" /\ mode[a] = "track" THEN obj[a] ELSE tracked[a]
    <2>1. CASE pc[a] = "held" /\ mode[a] = "track"
      <3>1. tracked' = [tracked EXCEPT ![a] = obj[a]]
        BY <1>1, <2>1
      <3> QED
        BY <1>4, <1>5, <1>8, <2>1, <3>1 DEF FindType
    <2>2. CASE ~(pc[a] = "held" /\ mode[a] = "track")
      BY <1>1, <1>4, <2>2 DEF FindType
    <2> QED
      BY <2>1, <2>2
  <1>10. CallInv(a)'
    <2>1. pc'[a] = "visit" => Walks(a)'
      BY <1>3, <1>7 DEF Walks
    <2> QED
      BY <1>1, <1>4, <1>6, <1>7, <2>1 DEF CallInv
  <1>11. HeldInv(a)'
    BY <1>5 DEF HeldInv
  <1>12. a \in Trackers => TrackInv(a)'
    <2>1. mode'[a] \in {mode[a], "none"}
      BY <1>7
    <2> QED
      BY <1>1, <1>2, <1>4, <1>6, <1>8, <1>9, <2>1, SelfTrack DEF TrackInv
  <1>13. ExpectInv(a)'
    <2>1. mode[a] = "enumerate" => pc'[a] \notin {"idle", "capture"}
      BY <1>3 DEF Walks
    <2> QED
      BY <1>1, <1>6, <1>7, <1>9, <2>1, SelfExpects
  <1>14. FindType'
    BY <1>3, <1>4, <1>7, <1>9 DEF FindType
  <1> QED
    BY <1>1, <1>2, <1>3, <1>7, <1>9, <1>10, <1>11, <1>12, <1>13, <1>14, PlainFinds
-----------------------------------------------------------------------------
(* Steps that change the tables, the entries, the contexts or the walk *)

LEMMA CaptureFinds ==
    ASSUME IInv, JInv, KInv, NEW a \in Actors, Capture(a)
    PROVE  KInv'
  <1>1. /\ pc[a] = "capture" /\ top' = [top EXCEPT ![a] = root] /\ Goto(a, IF Walks(a) THEN "visit" ELSE "resolve")
        /\ type' = type /\ ref' = ref /\ slot' = slot /\ obj' = obj /\ old' = old /\ root' = root /\ links' = links
        /\ mode' = mode /\ cid' = cid /\ asked' = asked /\ tracked' = tracked /\ expect' = expect /\ stopping' = stopping
    BY DEF Capture, objects, objectLocals, tableVars, control
  <1>2. /\ pc'[a] = (IF Walks(a) THEN "visit" ELSE "resolve") /\ \A b \in Actors : b # a => pc'[b] = pc[b]
    BY <1>1, MovesTo
  <1>3. top'[a] = root /\ \A b \in Actors : b # a => top'[b] = top[b]
    BY <1>1 DEF IInv, TypeOK, TableType
  <1>4. OthersStill(a) /\ EntryOf' = EntryOf
    BY <1>1, <1>2 DEF OthersStill, Still, EntryOf
  <1>5. /\ CallInv(a) /\ HeldInv(a) /\ ExpectInv(a) /\ ActorInv(a) /\ (a \in Trackers => TrackInv(a)) /\ FindType
    BY DEF KInv, IInv
  <1>6. pc'[a] \notin EntryPoints /\ pc'[a] \notin StorePoints /\ pc'[a] # "idle" /\ obj[a] = NULL
    BY <1>1, <1>2, <1>5 DEF EntryPoints, SharePoints, LockPoints, StorePoints, ActorInv, FreePoints
  <1>7. CallInv(a)'
    BY <1>1, <1>2, <1>5, <1>6 DEF CallInv, Walks
  <1>8. HeldInv(a)'
    BY <1>1, <1>6 DEF HeldInv
  <1>9. a \in Trackers => TrackInv(a)'
    BY <1>1, <1>2, <1>4, <1>5, <1>6, SelfTrack DEF TrackInv
  <1>10. ExpectInv(a)'
    <2>1. SUFFICES ASSUME NEW o \in expect[a]
                   PROVE  \E k \in Trackers : tracked[k] = o /\ (Looks(a, o, k)' \/ Scans(a, o, k)')
      BY <1>1 DEF ExpectInv
    <2>2. PICK k \in Trackers : tracked[k] = o /\ (Looks(a, o, k) \/ Scans(a, o, k))
      BY <1>5, <2>1 DEF ExpectInv
    <2>3. o # NULL
      BY <1>5, <2>1, NullApart DEF FindType
    <2>4. k \in Nat /\ Resolve(root, k) # NULL
      BY <2>2, <2>3, ExpectedHere
    <2>5. Resolve(top[a], k)' # NULL
      BY <1>1, <1>3, <2>4, TopSame
    <2>6. CASE Looks(a, o, k)
      BY <1>1, <1>2, <2>2, <2>5, <2>6 DEF Looks, Walks
    <2>7. CASE Scans(a, o, k)
      <3>1. cid[a] = 0 /\ mode[a] = "enumerate" /\ 0 <= k
        BY <1>1, <2>4, <2>7 DEF Scans
      <3> QED
        BY <1>1, <1>2, <2>2, <2>5, <3>1 DEF Scans, Walks
    <2> QED
      BY <2>2, <2>6, <2>7
  <1>11. FindType'
    BY <1>1, <1>5 DEF FindType
  <1> QED
    BY <1>1, <1>3, <1>4, <1>7, <1>8, <1>9, <1>10, <1>11, PlainFinds

LEMMA VisitFinds ==
    ASSUME IInv, JInv, KInv, NEW a \in Actors, Visit(a)
    PROVE  KInv'
  <1>1. /\ pc[a] = "visit" /\ cid[a] < MaxId(top[a].level)
        /\ type' = type /\ ref' = ref /\ obj' = obj /\ old' = old /\ root' = root /\ links' = links
        /\ mode' = mode /\ top' = top /\ asked' = asked /\ tracked' = tracked /\ expect' = expect /\ stopping' = stopping
    BY DEF Visit, objects, tableVars, control
  <1>2. PICK s : s = Resolve(top[a], cid[a])
    OBVIOUS
  <1>3. PICK id \in Nat : id = cid[a]
    BY DEF IInv, TypeOK, TableType
  <1>4. /\ s = NULL => cid'[a] = Skip(top[a], id) /\ pc'[a] = "visit"
        /\ s # NULL => cid'[a] = id + 1 /\ slot'[a] = s /\ pc'[a] = (IF mode[a] = "rundown" THEN "exclusive" ELSE "shared")
        /\ \A b \in Actors : b # a => pc'[b] = pc[b] /\ slot'[b] = slot[b] /\ cid'[b] = cid[b]
    <2>1. CASE s = NULL
      <3>1. cid' = [cid EXCEPT ![a] = Skip(top[a], @)] /\ pc' = pc /\ slot' = slot
        BY <1>2, <2>1 DEF Visit
      <3> QED
        BY <1>1, <1>3, <2>1, <3>1 DEF IInv, TypeOK, TableType
    <2>2. CASE s # NULL
      <3>1. /\ cid' = [cid EXCEPT ![a] = @ + 1] /\ slot' = [slot EXCEPT ![a] = s]
            /\ Goto(a, IF mode[a] = "rundown" THEN "exclusive" ELSE "shared")
        BY <1>2, <2>2 DEF Visit
      <3>2. /\ pc'[a] = (IF mode[a] = "rundown" THEN "exclusive" ELSE "shared")
            /\ \A b \in Actors : b # a => pc'[b] = pc[b]
        BY <3>1, MovesTo
      <3> QED
        BY <1>3, <2>2, <3>1, <3>2 DEF IInv, TypeOK, TableType, ObjectType
    <2> QED
      BY <2>1, <2>2
  <1>5. OthersStill(a) /\ EntryOf' = EntryOf
    BY <1>1, <1>4 DEF OthersStill, Still, EntryOf
  <1>6. /\ CallInv(a) /\ HeldInv(a) /\ ExpectInv(a) /\ ActorInv(a) /\ (a \in Trackers => TrackInv(a)) /\ FindType
    BY DEF KInv, IInv
  <1>7. mode[a] \in {"enumerate", "rundown"} /\ obj[a] = NULL
    BY <1>1, <1>6 DEF CallInv, Walks, ActorInv, FreePoints
  <1>8. CallInv(a)'
    BY <1>1, <1>4, <1>7 DEF CallInv, Walks, StorePoints
  <1>9. HeldInv(a)'
    BY <1>1, <1>7 DEF HeldInv
  <1>10. a \in Trackers => TrackInv(a)'
    BY <1>1, <1>5, <1>6, <1>7, SelfTrack DEF TrackInv
  <1>11. ExpectInv(a)'
    <2>1. SUFFICES ASSUME NEW o \in expect[a]
                   PROVE  \E k \in Trackers : tracked[k] = o /\ Scans(a, o, k)'
      BY <1>1 DEF ExpectInv
    <2>2. PICK k \in Trackers : tracked[k] = o /\ Scans(a, o, k)
      BY <1>6, <1>7, <2>1 DEF ExpectInv, Looks
    <2>3. k \in Nat /\ mode[a] = "enumerate" /\ Resolve(top[a], k) # NULL /\ id <= k
      BY <1>1, <1>3, <2>2, Cid DEF Scans, Here, SharePoints
    <2>4. Resolve(top[a], k)' = Resolve(top[a], k)
      BY <1>1, TopSame
    <2>5. CASE s = NULL
      <3>1. top[a] \in Tables /\ TableType
        BY DEF IInv, TypeOK, TableType
      <3>2. ~(k < Skip(top[a], id))
        BY <1>1, <1>2, <1>3, <2>3, <2>5, <3>1, SkipResolves
      <3>3. Skip(top[a], id) <= k
        BY <2>3, <3>1, <3>2, SkipType
      <3> QED
        BY <1>1, <1>4, <2>2, <2>3, <2>4, <2>5, <3>3 DEF Scans
    <2>6. CASE s # NULL /\ id = k
      <3>1. slot'[a] = Resolve(root, k)'
        BY <1>1, <1>2, <1>3, <1>4, <2>3, <2>6, TopResolves, SameTables
      <3>2. Here(a, o, k)'
        BY <1>4, <2>3, <2>6, <3>1 DEF Here
      <3> QED
        BY <1>1, <1>4, <2>2, <2>3, <2>4, <2>6, <3>2 DEF Scans
    <2>7. CASE s # NULL /\ id # k
      <3>1. id + 1 <= k
        BY <2>3, <2>7
      <3> QED
        BY <1>1, <1>4, <2>2, <2>3, <2>4, <2>7, <3>1 DEF Scans
    <2> QED
      BY <2>5, <2>6, <2>7
  <1>12. FindType'
    BY <1>1, <1>6 DEF FindType
  <1> QED
    BY <1>1, <1>5, <1>8, <1>9, <1>10, <1>11, <1>12, PlainFinds

LEMMA VisitedAllFinds ==
    ASSUME IInv, JInv, KInv, NEW a \in Actors, VisitedAll(a)
    PROVE  KInv'
  <1>1. /\ pc[a] = "visit" /\ cid[a] >= MaxId(top[a].level) /\ Goto(a, "idle") /\ KeepObjects(a) /\ KeepCall(a)
        /\ type' = type /\ ref' = ref /\ root' = root /\ links' = links /\ tracked' = tracked /\ expect' = expect
        /\ stopping' = stopping
    BY DEF VisitedAll, objects, control
  <1>2. ExpectInv(a) /\ FindType /\ CallInv(a)
    BY DEF KInv
  <1>3. expect[a] = {}
    <2>1. SUFFICES ASSUME NEW o \in expect[a] PROVE FALSE
      OBVIOUS
    <2>2. PICK k \in Trackers : Scans(a, o, k)
      BY <1>1, <1>2, <2>1 DEF ExpectInv, Looks, Here, SharePoints
    <2>3. k \in Nat /\ Resolve(top[a], k) # NULL /\ cid[a] <= k
      BY <1>1, <2>2, Cid DEF Scans, Here, SharePoints
    <2>4. top[a] \in Tables /\ TableType /\ cid[a] \in Nat
      BY DEF IInv, TypeOK, TableType
    <2>5. k < MaxId(top[a].level) /\ MaxId(top[a].level) \in Nat
      BY <2>3, <2>4, ResolveIs, Levels, Positive
    <2> QED
      BY <1>1, <2>3, <2>4, <2>5
  <1>4. ExpectInv(a)' /\ expect' \in [Actors -> SUBSET Objects]
    BY <1>1, <1>2, <1>3 DEF ExpectInv, FindType
  <1>5. EntryOf' = EntryOf
    BY <1>1 DEF EntryOf
  <1>6. pc[a] \notin {"idle", "assign"} \cup StorePoints /\ "idle" \notin {"create", "assign", "release"} \cup StorePoints \cup EntryPoints
    BY <1>1 DEF StorePoints, EntryPoints, SharePoints, LockPoints
  <1> QED
    BY <1>1, <1>4, <1>5, <1>6, KeptFinds

\* Nobody moves: the table grows, or the worker runs.
LEMMA AllStillFind ==
    ASSUME IInv, JInv, KInv, \A b \in Actors : Still(b), Stays, TreeInv', EntryOf' = EntryOf,
           UNCHANGED <<stopping, top, asked, expect, tracked>>, FindType',
           \A k \in Trackers : tracked[k] # NULL => type'[tracked[k]] = type[tracked[k]]
    PROVE  KInv'
  <1>1. ASSUME NEW k \in Trackers, NEW o \in Objects, Has(k, o) PROVE Has(k, o)'
    <2>1. Resolve(root, k)' = Resolve(root, k)
      BY <1>1, Cid DEF Has, Stays
    <2> QED
      BY <1>1, <2>1 DEF Has
  <1>2. ASSUME NEW b \in Actors
        PROVE  CallInv(b)' /\ HeldInv(b)' /\ ExpectInv(b)' /\ (b \in Trackers => TrackInv(b)')
    BY <1>1, StillFinds
  <1> QED
    BY <1>2, Cid DEF KInv

LEMMA ExpandFinds ==
    ASSUME IInv, JInv, KInv, NEW a \in Actors, Expand(a), TableType'
    PROVE  KInv'
  <1>1. /\ pc[a] = "expand" /\ pc' = pc /\ type' = type /\ ref' = ref /\ slot' = slot /\ obj' = obj /\ old' = old
        /\ UNCHANGED <<mode, cid>> /\ UNCHANGED <<stopping, top, asked, expect, tracked>>
    BY DEF Expand, objects, objectLocals, callVars, control
  <1>2. used # 0
    <2>1. mode[a] # "rundown"
      BY <1>1 DEF IInv, ActorInv, GetPoints, Walks
    <2> QED
      BY <1>1, <2>1, OnlyUnloader DEF JInv, StopInv, Walking
  <1>3. Stays
    BY <1>2, ExpandGrows, GrownKeeps DEF JInv, IInv, TypeOK
  <1>4. TreeInv'
    BY <1>2, ExpandTree DEF KInv
  <1>5. EntryOf' = EntryOf /\ \A b \in Actors : Still(b)
    BY <1>1 DEF EntryOf, Still
  <1>6. FindType'
    BY <1>1 DEF KInv, FindType
  <1> QED
    BY <1>1, <1>3, <1>4, <1>5, <1>6, AllStillFind

LEMMA StoreFinds ==
    ASSUME IInv, JInv, KInv, NEW a \in Actors, StoreContext(a)
    PROVE  KInv'
  <1>1. /\ pc[a] = "store" /\ Goto(a, "unlock")
        /\ ref' = [ref EXCEPT ![slot[a]] = [object |-> IF mode[a] = "track" THEN obj[a] ELSE NULL,
                                            shared |-> 0, exclusive |-> TRUE]]
        /\ type' = type /\ slot' = slot /\ obj' = obj /\ old' = old /\ root' = root /\ links' = links
        /\ mode' = mode /\ cid' = cid /\ asked' = asked /\ top' = top
        /\ stopping' = stopping /\ tracked' = tracked /\ expect' = expect
    BY DEF StoreContext, Store, objects, objectLocals, tableVars, callVars, control
  <1>2. pc'[a] = "unlock" /\ \A b \in Actors : b # a => pc'[b] = pc[b]
    BY <1>1, MovesTo
  <1>3. /\ CallInv(a) /\ HeldInv(a) /\ ExpectInv(a) /\ ActorInv(a) /\ (a \in Trackers => TrackInv(a)) /\ FindType
        /\ TreeInv /\ TableType
    BY DEF KInv, IInv, TypeOK
  <1>4. pc[a] \in StorePoints /\ pc[a] \in EntryPoints /\ pc[a] \notin {"idle", "capture", "resolve", "shared"} \cup SharePoints
    BY <1>1 DEF StorePoints, EntryPoints, LockPoints, SharePoints
  <1>5. PICK s \in Slots : s = slot[a]
    BY <1>3, <1>4 DEF ActorInv
  <1>6. \A r \in Slots : EntryOf'[r] = IF r = s THEN IF mode[a] = "track" THEN obj[a] ELSE NULL ELSE EntryOf[r]
    BY <1>1, <1>5 DEF EntryOf, IInv, TypeOK, ObjectType
  <1>7. OthersStill(a)
    BY <1>1, <1>2 DEF OthersStill, Still
  <1>8. Stays /\ TreeInv' /\ \A c : Resolve(root, c)' = Resolve(root, c)
    BY <1>1, <1>3, SameStays, SameTables
  <1>9. mode[a] = "rundown" => stopping
    BY DEF JInv, StopInv
  <1>10. mode[a] # "rundown" => mode[a] \in {"track", "untrack"} /\ a \in Trackers /\ s = Resolve(root, a)
    BY <1>3, <1>4, <1>5 DEF CallInv
  <1>11. a \in Trackers => tracked[a] = NULL
    BY <1>3, <1>4, <1>9, <1>10 DEF TrackInv
  <1>12. ASSUME NEW b \in Actors, b # a
         PROVE  CallInv(b)' /\ HeldInv(b)' /\ ExpectInv(b)' /\ (b \in Trackers => TrackInv(b)')
    <2>1. ASSUME ~stopping, b \in Trackers, NEW o \in Objects, Has(b, o) PROVE Has(b, o)'
      <3>1. a \in Nat /\ b \in Nat /\ Resolve(root, b) # NULL /\ EntryOf[Resolve(root, b)] = o
        BY <1>9, <1>10, <2>1, Cid DEF Has
      <3>2. Resolve(root, b) # s
        BY <1>3, <1>9, <1>10, <1>12, <2>1, <3>1, EntriesApart
      <3>3. root \in Tables
        BY <1>3 DEF TableType
      <3>4. Resolve(root, b) \in Slots
        BY <1>3, <3>1, <3>3, ResolveType
      <3>5. EntryOf'[Resolve(root, b)] = o
        BY <1>6, <3>1, <3>2, <3>4
      <3> QED
        BY <1>8, <3>1, <3>5 DEF Has
    <2> QED
      BY <1>1, <1>7, <1>8, <1>12, <2>1, StillFinds DEF OthersStill
  <1>13. CallInv(a)'
    BY <1>1, <1>2, <1>3, <1>4, <1>8 DEF CallInv, StorePoints
  <1>14. HeldInv(a)'
    <2>1. SUFFICES ASSUME mode[a] = "track" PROVE Has(a, obj[a])'
      BY <1>1 DEF HeldInv
    <2>2. s = Resolve(root, a) /\ EntryOf'[s] = obj[a] /\ s # NULL
      BY <1>6, <1>10, <2>1, NullApart
    <2> QED
      BY <1>1, <1>8, <2>2 DEF Has
  <1>15. a \in Trackers => TrackInv(a)'
    BY <1>1, <1>11 DEF TrackInv
  <1>16. ExpectInv(a)'
    BY <1>1, <1>2, <1>4, SelfExpects
  <1>17. FindType'
    BY <1>1, <1>3 DEF FindType
  <1> QED
    BY <1>8, <1>12, <1>13, <1>14, <1>15, <1>16, <1>17, Cid DEF KInv

LEMMA WorkerFinds ==
    ASSUME IInv, JInv, KInv, WorkItem
    PROVE  KInv'
  <1>1. Worker /\ UNCHANGED <<ref, pc, objectLocals, tableVars, callVars, control>>
    BY DEF WorkItem, Worker, WorkerStarts, WorkerFlushes, WorkerDeletes
  <1>2. /\ ref' = ref /\ root' = root /\ links' = links /\ UNCHANGED <<stopping, top, asked, expect, tracked>>
        /\ \A b \in Actors : Still(b)
    BY <1>1 DEF objectLocals, tableVars, callVars, control, Still
  <1>3. FindType /\ TreeInv
    BY DEF KInv
  <1>4. /\ type' = [o \in Objects |-> type'[o]]
        /\ \A k \in Trackers : tracked[k] # NULL => type'[tracked[k]] = type[tracked[k]]
    <2>1. CASE WorkerStarts \/ WorkerFlushes
      BY <1>3, <2>1 DEF WorkerStarts, WorkerFlushes, FindType
    <2>2. CASE WorkerDeletes
      <3>1. PICK o \in flushed : type' = [type EXCEPT ![o] = NULL]
        BY <2>2 DEF WorkerDeletes
      <3>2. count[o] = 0
        BY DEF IInv, DeathInv
      <3> QED
        BY <1>3, <3>1, <3>2, TrackedAlive DEF FindType
    <2> QED
      BY <1>1, <2>1, <2>2 DEF Worker
  <1>5. FindType'
    BY <1>2, <1>3, <1>4 DEF FindType
  <1>6. Stays /\ TreeInv' /\ EntryOf' = EntryOf
    BY <1>2, <1>3, SameStays DEF EntryOf
  <1> QED
    BY <1>2, <1>4, <1>5, <1>6, AllStillFind

LEMMA StutterFinds ==
    ASSUME IInv, JInv, KInv, UNCHANGED vars
    PROVE  KInv'
  <1>1. /\ ref' = ref /\ root' = root /\ links' = links /\ UNCHANGED <<stopping, top, asked, expect, tracked>>
        /\ type' = type /\ \A b \in Actors : Still(b)
    BY DEF vars, objectVars, objects, objectLocals, tableVars, callVars, control, Still
  <1>2. FindType' /\ TreeInv
    BY <1>1 DEF KInv, FindType
  <1>3. Stays /\ TreeInv' /\ EntryOf' = EntryOf
    BY <1>1, <1>2, SameStays DEF EntryOf
  <1> QED
    BY <1>1, <1>2, <1>3, AllStillFind

\* An idle actor has found everything.
LEMMA IdleExpects ==
    ASSUME KInv, NEW a \in Actors, pc[a] = "idle"
    PROVE  expect[a] = {}
  BY DEF KInv, ExpectInv, Looks, Here, Scans, SharePoints

LEMMA BeginIs ==
    ASSUME IInv, KInv, NEW a \in Actors, NEW m, NEW c, NEW t, NEW e, Begin(a, m, c, t, e)
    PROVE  /\ pc[a] = "idle" /\ obj[a] = NULL /\ pc'[a] = "capture" /\ mode'[a] = m /\ cid'[a] = c /\ asked'[a] = t /\ expect' = e
           /\ root' = root /\ links' = links /\ EntryOf' = EntryOf /\ OthersStill(a) /\ ~stopping /\ stopping' = stopping
           /\ top' = top /\ type' = type /\ obj' = obj
           /\ \A b \in Actors : b # a => asked'[b] = asked[b]
           /\ asked' = [b \in Actors |-> asked'[b]]
  <1>1. /\ pc[a] = "idle" /\ ~stopping /\ Goto(a, "capture") /\ mode' = [mode EXCEPT ![a] = m] /\ cid' = [cid EXCEPT ![a] = c]
        /\ asked' = [asked EXCEPT ![a] = t] /\ expect' = e
        /\ type' = type /\ ref' = ref /\ slot' = slot /\ obj' = obj
        /\ old' = old /\ root' = root /\ links' = links /\ top' = top /\ stopping' = stopping
    BY DEF Begin, objects, objectLocals, tableVars
  <1>2. pc'[a] = "capture" /\ \A b \in Actors : b # a => pc'[b] = pc[b]
    BY <1>1, MovesTo
  <1>3. obj[a] = NULL
    BY <1>1 DEF IInv, ActorInv, FreePoints
  <1>4. mode'[a] = m /\ cid'[a] = c /\ OthersStill(a)
    BY <1>1, <1>2 DEF OthersStill, Still, IInv, TypeOK, TableType
  <1>5. asked'[a] = t /\ (\A b \in Actors : b # a => asked'[b] = asked[b]) /\ asked' = [b \in Actors |-> asked'[b]]
    BY <1>1 DEF KInv, FindType
  <1> QED
    BY <1>1, <1>2, <1>3, <1>4, <1>5 DEF EntryOf

\* A call that begins and leaves the contexts alone.
LEMMA BeginFinds ==
    ASSUME IInv, JInv, KInv, NEW a \in Actors, NEW m \in {"track", "lookup", "enumerate"}, NEW c, NEW t, NEW e,
           Begin(a, m, c, t, e), tracked' = tracked, m = "track" => a \in Trackers /\ c = a,
           e \in [Actors -> SUBSET Objects], \A b \in Actors : b # a => e[b] = expect[b], ExpectInv(a)'
    PROVE  KInv'
  <1>1. /\ obj[a] = NULL /\ pc'[a] = "capture" /\ mode'[a] = m /\ cid'[a] = c /\ expect' = e
        /\ root' = root /\ links' = links /\ EntryOf' = EntryOf /\ OthersStill(a) /\ stopping' = stopping
        /\ top' = top /\ type' = type /\ obj' = obj
        /\ \A b \in Actors : b # a => asked'[b] = asked[b]
        /\ asked' = [b \in Actors |-> asked'[b]]
    BY BeginIs
  <1>2. FindType /\ (a \in Trackers => TrackInv(a))
    BY DEF KInv
  <1>3. "capture" \notin {"create", "assign", "release", "visit", "idle"} \cup StorePoints \cup EntryPoints
    BY DEF StorePoints, EntryPoints, SharePoints, LockPoints
  <1>4. CallInv(a)'
    BY <1>1, <1>3 DEF CallInv
  <1>5. HeldInv(a)'
    BY <1>1 DEF HeldInv
  <1>6. a \in Trackers => TrackInv(a)'
    BY <1>1, <1>2, <1>3, SelfTrack DEF TrackInv
  <1>7. FindType'
    BY <1>1, <1>2 DEF FindType
  <1> QED
    BY <1>1, <1>4, <1>5, <1>6, <1>7, PlainFinds

LEMMA TrackFinds ==
    ASSUME IInv, JInv, KInv, NEW a \in Trackers, Track(a)
    PROVE  KInv'
  <1>1. PICK t \in TrackedTypes : Begin(a, "track", a, t, expect) /\ tracked' = tracked
    BY DEF Track
  <1>2. a \in Actors
    BY Cid
  <1>3. expect[a] = {} /\ expect' = expect
    BY <1>1, <1>2, BeginIs, IdleExpects
  <1>4. ExpectInv(a)' /\ expect \in [Actors -> SUBSET Objects]
    BY <1>3 DEF ExpectInv, KInv, FindType
  <1> QED
    BY <1>1, <1>2, <1>4, BeginFinds

LEMMA UntrackFinds ==
    ASSUME IInv, JInv, KInv, NEW a \in Trackers, Untrack(a)
    PROVE  KInv'
  <1>1. /\ tracked' = [tracked EXCEPT ![a] = NULL]
        /\ Begin(a, "untrack", a, asked[a], [b \in Actors |-> expect[b] \ {tracked[a]}])
    BY DEF Untrack
  <1>2. a \in Actors
    BY Cid
  <1>3. /\ pc[a] = "idle" /\ obj[a] = NULL /\ pc'[a] = "capture" /\ mode'[a] = "untrack" /\ cid'[a] = a
        /\ expect' = [b \in Actors |-> expect[b] \ {tracked[a]}]
        /\ root' = root /\ links' = links /\ EntryOf' = EntryOf /\ OthersStill(a) /\ stopping' = stopping
        /\ top' = top /\ type' = type /\ obj' = obj
        /\ \A b \in Actors : b # a => asked'[b] = asked[b]
        /\ asked' = [b \in Actors |-> asked'[b]]
    BY <1>1, <1>2, BeginIs
  <1>4. FindType /\ TreeInv
    BY DEF KInv
  <1>5. tracked'[a] = NULL /\ \A k \in Trackers : k # a => tracked'[k] = tracked[k]
    BY <1>1, <1>4 DEF FindType
  <1>6. Stays /\ TreeInv' /\ \A k \in Trackers, o \in Objects : Has(k, o) => Has(k, o)'
    BY <1>3, <1>4, SameStays, SameTables DEF Has
  <1>7. ASSUME NEW b \in Actors, b # a
        PROVE  CallInv(b)' /\ HeldInv(b)' /\ ExpectInv(b)' /\ (b \in Trackers => TrackInv(b)')
    <2>1. expect'[b] \subseteq expect[b] /\ \A k \in Trackers : tracked[k] \in expect'[b] => tracked'[k] = tracked[k]
      BY <1>3, <1>5
    <2> QED
      BY <1>3, <1>5, <1>6, <1>7, <2>1, StillFinds DEF OthersStill
  <1>8. "capture" \notin {"visit", "idle"} \cup StorePoints \cup EntryPoints
    BY DEF StorePoints, EntryPoints, SharePoints, LockPoints
  <1>9. CallInv(a)' /\ HeldInv(a)' /\ TrackInv(a)'
    BY <1>3, <1>5, <1>8 DEF CallInv, HeldInv, TrackInv
  <1>10. ExpectInv(a)'
    BY <1>2, <1>3, IdleExpects DEF ExpectInv
  <1>11. FindType'
    BY <1>1, <1>3, <1>4 DEF FindType
  <1> QED
    BY <1>6, <1>7, <1>9, <1>10, <1>11, Cid DEF KInv

LEMMA LookupFinds ==
    ASSUME IInv, JInv, KInv, NEW a \in Actors, Lookup(a)
    PROVE  KInv'
  <1>1. PICK c \in Cids, t \in Types :
           /\ Begin(a, "lookup", c, t, [expect EXCEPT ![a] =
                 {tracked[k] : k \in {k \in Trackers : k = c /\ tracked[k] # NULL /\ type[tracked[k]] = t}}])
           /\ tracked' = tracked
    BY DEF Lookup
  <1> DEFINE E == {tracked[k] : k \in {k \in Trackers : k = c /\ tracked[k] # NULL /\ type[tracked[k]] = t}}
  <1>2. PICK e : e = [expect EXCEPT ![a] = E] /\ Begin(a, "lookup", c, t, e)
    BY <1>1
  <1>3. FindType
    BY DEF KInv
  <1>4. E \subseteq Objects
    BY <1>3 DEF FindType
  <1>5. e[a] = E /\ e \in [Actors -> SUBSET Objects] /\ \A b \in Actors : b # a => e[b] = expect[b]
    BY <1>2, <1>3, <1>4 DEF FindType
  <1>6. pc'[a] = "capture" /\ mode'[a] = "lookup" /\ cid'[a] = c /\ asked'[a] = t /\ expect' = e /\ type' = type
    <2>1. Begin(a, "lookup", c, t, e)
      BY <1>2
    <2> HIDE DEF E
    <2> QED
      BY <2>1, BeginIs
  <1>7. ExpectInv(a)'
    <2>1. SUFFICES ASSUME NEW o \in E PROVE \E k \in Trackers : tracked'[k] = o /\ Looks(a, o, k)'
      BY <1>5, <1>6 DEF ExpectInv
    <2>2. PICK k \in Trackers : o = tracked[k] /\ k = c /\ type[o] = t
      BY <2>1
    <2> QED
      BY <1>1, <1>6, <2>2 DEF Looks
  <1> QED
    BY <1>1, <1>2, <1>5, <1>7, BeginFinds

LEMMA EnumerateFinds ==
    ASSUME IInv, JInv, KInv, NEW a \in Actors, Enumerate(a)
    PROVE  KInv'
  <1> DEFINE E == {tracked[k] : k \in Trackers} \ {NULL}
  <1>1. PICK e : e = [expect EXCEPT ![a] = E] /\ Begin(a, "enumerate", 0, NULL, e) /\ tracked' = tracked
    BY DEF Enumerate
  <1>2. FindType
    BY DEF KInv
  <1>3. E \subseteq Objects
    BY <1>2 DEF FindType
  <1>4. e[a] = E /\ e \in [Actors -> SUBSET Objects] /\ \A b \in Actors : b # a => e[b] = expect[b]
    BY <1>1, <1>2, <1>3 DEF FindType
  <1>5. pc'[a] = "capture" /\ mode'[a] = "enumerate" /\ cid'[a] = 0 /\ expect' = e
    <2>1. Begin(a, "enumerate", 0, NULL, e)
      BY <1>1
    <2> HIDE DEF E
    <2> QED
      BY <2>1, BeginIs
  <1>6. ExpectInv(a)'
    <2>1. SUFFICES ASSUME NEW o \in E PROVE \E k \in Trackers : tracked'[k] = o /\ Scans(a, o, k)'
      BY <1>4, <1>5 DEF ExpectInv
    <2>2. PICK k \in Trackers : o = tracked[k]
      BY <2>1
    <2> QED
      BY <1>1, <1>5, <2>2 DEF Scans
  <1> QED
    BY <1>1, <1>4, <1>6, BeginFinds

LEMMA CleanUpFinds ==
    ASSUME IInv, JInv, KInv, CleanUp(Unloader)
    PROVE  KInv'
  <1>1. /\ \A b \in Actors : pc[b] = "idle"
        /\ mode' = [mode EXCEPT ![Unloader] = "rundown"] /\ Goto(Unloader, "capture")
        /\ type' = type /\ obj' = obj /\ root' = root /\ links' = links /\ cid' = cid /\ asked' = asked
        /\ expect' = expect /\ tracked' = [c \in Trackers |-> NULL]
    BY DEF CleanUp, objects, objectLocals, tableVars
  <1>2. Unloader \in Actors
    BY TrackersIn
  <1>3. \A b \in Actors : pc'[b] \in {"idle", "capture"} /\ (b # Unloader => pc'[b] = "idle")
    BY <1>1, <1>2, MovesTo
  <1>4. mode'[Unloader] = "rundown" /\ \A b \in Actors : b # Unloader => mode'[b] = mode[b]
    BY <1>1, <1>2 DEF IInv, TypeOK, TableType
  <1>5. {"idle", "capture"} \cap (StorePoints \cup EntryPoints) = {}
    BY DEF StorePoints, EntryPoints, SharePoints, LockPoints
  <1>6. ASSUME NEW b \in Actors PROVE CallInv(b)' /\ HeldInv(b)' /\ ExpectInv(b)'
    <2>1. CallInv(b) /\ obj[b] = NULL /\ expect[b] = {}
      BY <1>1, IdleExpects DEF KInv, IInv, ActorInv, FreePoints
    <2>2. CallInv(b)'
      BY <1>3, <1>4, <1>5, <2>1 DEF CallInv
    <2> QED
      BY <1>1, <2>1, <2>2 DEF HeldInv, ExpectInv
  <1>7. \A k \in Trackers : TrackInv(k)'
    BY <1>1 DEF TrackInv
  <1>8. FindType' /\ TreeInv'
    BY <1>1 DEF KInv, FindType, TreeInv
  <1> QED
    BY <1>6, <1>7, <1>8 DEF KInv

LEMMA InitKInv == Init => KInv
  <1> SUFFICES ASSUME Init PROVE KInv
    OBVIOUS
  <1>1. /\ type = [o \in Objects |-> NULL] /\ pc = [a \in Actors |-> "idle"] /\ obj = [a \in Actors |-> NULL]
        /\ root = Table(0, 0) /\ links = [t \in 0..MaxTables - 1 |-> NoLinks] /\ mode = [a \in Actors |-> "none"]
        /\ asked = [a \in Actors |-> NULL] /\ tracked = [c \in Trackers |-> NULL] /\ expect = [a \in Actors |-> {}]
    BY DEF Init, ObjectInit
  <1>2. FindType
    BY <1>1 DEF FindType
  <1>3. TreeInv
    <2>1. \A t \in Addresses, i \in LinkSlots : links[t][i] = NULL
      BY <1>1 DEF Addresses, LinkSlots, NoLinks
    <2>2. root.address # NULL
      BY <1>1, NullApart DEF Table
    <2> QED
      BY <2>1, <2>2 DEF TreeInv
  <1>4. \A a \in Actors : CallInv(a) /\ HeldInv(a) /\ ExpectInv(a)
    BY <1>1, PointsApart DEF CallInv, HeldInv, ExpectInv
  <1>5. \A k \in Trackers : TrackInv(k)
    BY <1>1 DEF TrackInv
  <1> QED
    BY <1>2, <1>3, <1>4, <1>5 DEF KInv

LEMMA NextKInv == IInv /\ IInv' /\ JInv /\ KInv /\ [Next]_vars => KInv'
  <1> SUFFICES ASSUME IInv, IInv', JInv, KInv, [Next]_vars PROVE KInv'
    OBVIOUS
  <1>1. TableType'
    BY DEF IInv, TypeOK
  <1>2. ASSUME NEW a \in Actors, Step(a) PROVE KInv'
    <2>1. CASE AtomicSteps(a) /\ UNCHANGED <<tableVars, callVars, control>>
      BY <2>1, AtomicFinds
    <2>2. CASE AcquireSpinLock(a) \/ LookupEntry(a) \/ Expanded(a)
      BY <2>2, FindFinds
    <2>3. CASE ExpandFails(a) \/ Stored(a) \/ DeferDelete(a)
      BY <2>3, ReturnFinds
    <2>4. CASE Referenced(a) \/ Create(a) \/ GiveUp(a) \/ GiveUpPrevious(a)
      BY <2>4, ReferencedFinds, CreateFinds, GiveUpFinds, GiveUpPreviousFinds
    <2>5. CASE Capture(a) \/ Expand(a) \/ Visit(a) \/ VisitedAll(a) \/ StoreContext(a)
      BY <1>1, <2>5, CaptureFinds, ExpandFinds, VisitFinds, VisitedAllFinds, StoreFinds
    <2> QED
      BY <1>2, <2>1, <2>2, <2>3, <2>4, <2>5 DEF Step
  <1>3. Readers \subseteq Actors /\ Enumerators \subseteq Actors
    BY CidTableAssumption
  <1> QED
    BY <1>2, <1>3, TrackFinds, UntrackFinds, LookupFinds, EnumerateFinds, CleanUpFinds, WorkerFinds, StutterFinds DEF Next

\* What the lock-free lookups rely on: the tables are a tree in which every CID has an entry of
\* its own, a tracked context stays in the entry of its CID, and whoever has to find it is on its way there.
THEOREM Finding == Spec => []KInv
  <1>1. Init => KInv
    BY InitKInv
  <1>2. IInv /\ IInv' /\ JInv /\ KInv /\ [Next]_vars => KInv'
    BY NextKInv
  <1> QED
    BY <1>1, <1>2, Invariance, Unloading, PTL DEF Spec

\* Lock-free lookups while the table grows (cid_table.c): a lookup or an enumeration finds every
\* context that is tracked from its beginning to its end.
THEOREM LookupsMissNothing == Spec => []NothingMissed
  <1>1. KInv => NothingMissed
    <2> SUFFICES ASSUME KInv, NEW a \in Actors,
                        pc[a] \in {"idle"} \cup (IF mode[a] = "lookup" THEN {"held", "drop"} ELSE {})
                 PROVE  expect[a] = {}
      BY DEF NothingMissed
    <2> QED
      BY DEF KInv, ExpectInv, Looks, Here, Scans, SharePoints
  <1> QED
    BY <1>1, Finding, PTL
=============================================================================
