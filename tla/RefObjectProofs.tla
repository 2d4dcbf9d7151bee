--------------------------- MODULE RefObjectProofs ---------------------------
(***************************************************************************)
(* Proofs about reference-counted objects, for any number of threads,      *)
(* routines, objects and creations.  An object whose last reference is     *)
(* gone is in exactly one hand: a thread's, a routine's, the list's or a   *)
(* flushed list's.                                                         *)
(***************************************************************************)
EXTENDS RefObject, FiniteSetTheorems, SequenceTheorems, TLAPS

HandPoints == {"delete", "release", "mark", "save", "first", "push"}

\* Every object: its count while it is owned, and no way back once it is not.
ObjectInv(o) ==
    /\ holders[o] # {} => /\ storage[o] = "allocated" /\ index[o] = TypeIndex
                          /\ word[o] = Count(Cardinality(holders[o]))
    /\ holders[o] = {} /\ storage[o] = "allocated" => ~Positive(word[o])
    /\ o \in table => storage[o] = "allocated"

\* The object that an actor disposes of.
HandInv(a) ==
    /\ target[a] # NULL <=> pc[a] \in HandPoints
    /\ target[a] # NULL => /\ storage[target[a]] = "allocated" /\ holders[target[a]] = {}
                           /\ index[target[a]] = TypeIndex /\ target[a] \notin Elements(list)
                           /\ \A r \in Routines : target[a] \notin Elements(todo[r])
    /\ pc[a] = "release" => target[a] \notin table
    /\ pc[a] \in {"save", "first", "push"} => word[target[a]].defer
    /\ pc[a] \in {"first", "push"} => word[target[a]].low = TypeIndex
    /\ a \in Threads => pc[a] # "next"
    /\ a \in Routines => pc[a] \in {"idle", "next", "delete", "release"}

Apart(a, b) == target[a] # NULL => target[a] # target[b]

\* The objects that a list hands on to a routine.
Waits(o) == /\ storage[o] = "allocated" /\ holders[o] = {}
            /\ word[o] = [defer |-> TRUE, low |-> TypeIndex]
Once(s) == \A i, j \in DOMAIN s : s[i] = s[j] => i = j

ListInv ==
    /\ Once(list) /\ \A o \in Elements(list) : Waits(o)
    /\ \A r \in Routines : /\ Once(todo[r]) /\ Elements(todo[r]) \cap Elements(list) = {}
                           /\ \A o \in Elements(todo[r]) : Waits(o)
                           /\ pc[r] = "idle" => todo[r] = <<>>
    /\ \A r, q \in Routines : r # q => Elements(todo[r]) \cap Elements(todo[q]) = {}

IInv == /\ TypeOK /\ ListInv
        /\ \A o \in Objects : ObjectInv(o)
        /\ \A a \in Actors : HandInv(a)
        /\ \A a, b \in Actors : a # b => Apart(a, b)
-----------------------------------------------------------------------------
(* Sequences *)

LEMMA TailOnce ==
    ASSUME NEW s \in Seq(Objects), s # <<>>, Once(s)
    PROVE  /\ Tail(s) \in Seq(Objects) /\ Head(s) \in Objects /\ Once(Tail(s))
           /\ Head(s) \in Elements(s) /\ Elements(Tail(s)) = Elements(s) \ {Head(s)}
  <1> DEFINE r == Tail(s)
  <1>1. /\ r \in Seq(Objects) /\ Len(r) = Len(s) - 1 /\ Len(s) \in Nat /\ Len(s) >= 1 /\ Head(s) = s[1]
        /\ \A i \in 1..(Len(s) - 1) : r[i] = s[i + 1]
    OBVIOUS
  <1>2. DOMAIN r = 1..(Len(s) - 1) /\ DOMAIN s = 1..Len(s)
    BY <1>1
  <1> HIDE DEF r
  <1>3. Once(r)
    <2> SUFFICES ASSUME NEW i \in DOMAIN r, NEW j \in DOMAIN r, r[i] = r[j] PROVE i = j
      BY DEF Once
    <2>1. i + 1 \in DOMAIN s /\ j + 1 \in DOMAIN s /\ s[i + 1] = s[j + 1] /\ i \in Nat /\ j \in Nat
      BY <1>1, <1>2
    <2>2. i + 1 = j + 1
      BY <2>1 DEF Once
    <2> QED
      BY <2>1, <2>2
  <1>4. 1 \in DOMAIN s /\ Head(s) \in Objects /\ Head(s) \in Elements(s)
    BY <1>1, <1>2 DEF Elements
  <1>5. Elements(r) = Elements(s) \ {Head(s)}
    <2>1. ASSUME NEW o \in Elements(r) PROVE o \in Elements(s) /\ o # Head(s)
      <3>1. PICK i \in DOMAIN r : o = r[i]
        BY DEF Elements
      <3>2. i + 1 \in DOMAIN s /\ o = s[i + 1] /\ i + 1 # 1
        BY <1>1, <1>2, <3>1
      <3> QED
        BY <1>1, <1>4, <3>2 DEF Elements, Once
    <2>2. ASSUME NEW o \in Elements(s), o # Head(s) PROVE o \in Elements(r)
      <3>1. PICK i \in DOMAIN s : o = s[i]
        BY DEF Elements
      <3>2. i # 1 /\ i \in Nat
        BY <1>1, <1>2, <2>2, <3>1
      <3>3. i - 1 \in DOMAIN r /\ r[i - 1] = s[i]
        BY <1>1, <1>2, <3>2
      <3> QED
        BY <3>1, <3>3 DEF Elements
    <2> QED
      BY <2>1, <2>2
  <1> QED
    BY <1>1, <1>3, <1>4, <1>5 DEF r

LEMMA PushOnce ==
    ASSUME NEW s \in Seq(Objects), NEW x \in Objects, Once(s), x \notin Elements(s)
    PROVE  /\ <<x>> \o s \in Seq(Objects) /\ Once(<<x>> \o s) /\ Elements(<<x>> \o s) = Elements(s) \cup {x}
  <1> DEFINE r == <<x>> \o s
             y == <<x>>
  <1>1. y \in Seq(Objects) /\ Len(y) = 1 /\ y[1] = x /\ Len(s) \in Nat
    OBVIOUS
  <1>2. r = y \o s
    OBVIOUS
  <1> HIDE DEF r, y
  <1>3. /\ r \in Seq(Objects) /\ Len(r) = 1 + Len(s)
        /\ \A i \in 1..(1 + Len(s)) : r[i] = IF i <= 1 THEN y[i] ELSE s[i - 1]
    <2>1. /\ r \in Seq(Objects) /\ Len(r) = Len(y) + Len(s)
          /\ \A i \in 1..(Len(y) + Len(s)) : r[i] = IF i <= Len(y) THEN y[i] ELSE s[i - Len(y)]
      BY <1>1, <1>2, ConcatProperties
    <2> QED
      BY <1>1, <2>1
  <1>4. DOMAIN r = 1..(1 + Len(s)) /\ DOMAIN s = 1..Len(s)
    BY <1>3
  <1>5. \A i \in DOMAIN r : (i = 1 /\ r[i] = x) \/ (i - 1 \in DOMAIN s /\ r[i] = s[i - 1] /\ i \in Nat)
    BY <1>1, <1>3, <1>4
  <1>6. \A i \in DOMAIN s : s[i] # x /\ s[i] \in Elements(s) /\ i + 1 \in DOMAIN r /\ r[i + 1] = s[i]
    BY <1>1, <1>3, <1>4 DEF Elements
  <1>7. Once(r)
    <2> SUFFICES ASSUME NEW i \in DOMAIN r, NEW j \in DOMAIN r, r[i] = r[j] PROVE i = j
      BY DEF Once
    <2>1. CASE i = 1 \/ j = 1
      BY <1>5, <1>6, <2>1
    <2>2. CASE i # 1 /\ j # 1
      <3>1. i - 1 \in DOMAIN s /\ j - 1 \in DOMAIN s /\ s[i - 1] = s[j - 1] /\ i \in Nat /\ j \in Nat
        BY <1>5, <2>2
      <3>2. i - 1 = j - 1
        BY <3>1 DEF Once
      <3> QED
        BY <3>1, <3>2
    <2> QED
      BY <2>1, <2>2
  <1>8. Elements(r) = Elements(s) \cup {x}
    <2>1. 1 \in DOMAIN r /\ r[1] = x
      BY <1>1, <1>3, <1>4
    <2>2. Elements(r) \subseteq Elements(s) \cup {x}
      BY <1>5, <1>6 DEF Elements
    <2>3. Elements(s) \subseteq Elements(r) /\ x \in Elements(r)
      BY <1>6, <2>1 DEF Elements
    <2> QED
      BY <2>2, <2>3
  <1> QED
    BY <1>3, <1>7, <1>8 DEF r

LEMMA NoElements == Once(<<>>) /\ Elements(<<>>) = {} /\ <<>> \in Seq(Objects)
  BY DEF Once, Elements
-----------------------------------------------------------------------------
(* What a step leaves alone *)

LEMMA Kinds ==
    /\ \A t \in Threads : t \in Actors /\ t \notin Routines
    /\ \A r \in Routines : r \in Actors /\ r \notin Threads
    /\ \A a \in Actors : a \in Threads \/ a \in Routines
    /\ TypeIndex \in Nat /\ TypeIndex > 0 /\ TypeIndex # Link /\ NULL \notin Objects
  BY RefAssumption DEF Actors

LEMMA PcMove ==
    ASSUME TypeOK, NEW a \in Actors, NEW p \in Points, pc' = [pc EXCEPT ![a] = p]
    PROVE  pc'[a] = p /\ (\A b \in Actors : b # a => pc'[b] = pc[b]) /\ pc' \in [Actors -> Points]
  BY DEF TypeOK

LEMMA TargetMove ==
    ASSUME TypeOK, NEW a \in Actors, NEW x \in Objects \cup {NULL}, target' = [target EXCEPT ![a] = x]
    PROVE  target'[a] = x /\ (\A b \in Actors : b # a => target'[b] = target[b])
           /\ target' \in [Actors -> Objects \cup {NULL}]
  BY DEF TypeOK

\* o is as it was, and not put into the table.
SameObject(o) == /\ storage'[o] = storage[o] /\ word'[o] = word[o] /\ index'[o] = index[o] /\ holders'[o] = holders[o]
                 /\ o \in table' => o \in table

LEMMA ObjectKept == ASSUME NEW o, ObjectInv(o), SameObject(o) PROVE ObjectInv(o)'
  BY DEF ObjectInv, SameObject, Count, Positive

LEMMA WaitKept == ASSUME NEW o, Waits(o), SameObject(o) PROVE Waits(o)'
  BY DEF Waits, SameObject

LEMMA HandKept ==
    ASSUME NEW a, HandInv(a), pc'[a] = pc[a], target'[a] = target[a],
           target[a] # NULL => /\ SameObject(target[a]) /\ target[a] \notin Elements(list')
                               /\ \A r \in Routines : target[a] \notin Elements(todo'[r])
    PROVE  HandInv(a)'
  <1>1. pc[a] \in HandPoints <=> target[a] # NULL
    BY DEF HandInv
  <1>2. pc[a] \in {"save", "first", "push", "release"} => target[a] # NULL
    BY <1>1 DEF HandPoints
  <1> QED
    BY <1>2 DEF HandInv, SameObject

\* An object that is owned, or free, is in no hand.
LEMMA InNoHand ==
    ASSUME IInv, NEW x \in Objects, holders[x] # {} \/ storage[x] = "free"
    PROVE  /\ \A a \in Actors : target[a] # x
           /\ x \notin Elements(list) /\ \A r \in Routines : x \notin Elements(todo[r])
  <1>1. \A a \in Actors : target[a] # x
    BY Kinds DEF IInv, HandInv
  <1>2. x \notin Elements(list) /\ \A r \in Routines : x \notin Elements(todo[r])
    BY DEF IInv, ListInv, Waits
  <1> QED
    BY <1>1, <1>2

\* A step on one object that is in no hand.
LEMMA OneObject ==
    ASSUME IInv, NEW x \in Objects, holders[x] # {} \/ storage[x] = "free", ObjectInv(x)',
           \A o \in Objects : o # x => SameObject(o), UNCHANGED <<pc, target, list, todo>>, TypeOK'
    PROVE  IInv'
  <1>1. /\ \A a \in Actors : target[a] # x
        /\ x \notin Elements(list) /\ \A r \in Routines : x \notin Elements(todo[r])
    BY InNoHand
  <1>2. \A o \in Objects : ObjectInv(o)'
    BY ObjectKept DEF IInv
  <1>3. \A a \in Actors : target[a] \in Objects \cup {NULL}
    BY DEF IInv, TypeOK
  <1>4. Elements(list) \subseteq Objects /\ \A r \in Routines : Elements(todo[r]) \subseteq Objects
    BY DEF IInv, TypeOK, Elements
  <1>5. ASSUME NEW a \in Actors PROVE HandInv(a)'
    <2>1. HandInv(a)
      BY DEF IInv
    <2>2. target[a] # NULL => SameObject(target[a])
      BY <1>1, <1>3
    <2>3. target[a] # NULL => /\ target[a] \notin Elements(list')
                              /\ \A r \in Routines : target[a] \notin Elements(todo'[r])
      BY <2>1 DEF HandInv
    <2> QED
      BY <2>1, <2>2, <2>3, HandKept
  <1>6. (\A o \in Elements(list) : Waits(o)') /\ \A r \in Routines : \A o \in Elements(todo[r]) : Waits(o)'
    BY <1>1, <1>4, WaitKept DEF IInv, ListInv
  <1>7. ListInv'
    BY <1>6 DEF IInv, ListInv
  <1>8. \A a, b \in Actors : a # b => Apart(a, b)'
    BY DEF IInv, Apart
  <1> QED
    BY <1>2, <1>5, <1>7, <1>8 DEF IInv
-----------------------------------------------------------------------------
(* References *)

LEMMA OwnersCounted ==
    ASSUME IInv, NEW o \in Objects
    PROVE  /\ IsFiniteSet(holders[o]) /\ Cardinality(holders[o]) \in Nat /\ holders[o] \subseteq Threads
           /\ holders[o] # {} => word[o] = [defer |-> FALSE, low |-> Cardinality(holders[o])]
  <1>1. holders[o] \subseteq Threads /\ IsFiniteSet(Threads)
    BY RefAssumption DEF IInv, TypeOK
  <1>2. IsFiniteSet(holders[o]) /\ Cardinality(holders[o]) \in Nat
    BY <1>1, FS_Subset, FS_CardinalityType
  <1>3. holders[o] # {} => word[o] = [defer |-> FALSE, low |-> Cardinality(holders[o])]
    BY DEF IInv, ObjectInv, Count
  <1> QED
    BY <1>1, <1>2, <1>3

LEMMA LowSet ==
    ASSUME NEW f \in [Objects -> [defer : BOOLEAN, low : Nat]], NEW o \in Objects, NEW k \in Nat,
           NEW g, g = [f EXCEPT ![o].low = k]
    PROVE  /\ g \in [Objects -> [defer : BOOLEAN, low : Nat]] /\ g[o] = [defer |-> f[o].defer, low |-> k]
           /\ \A x \in Objects : x # o => g[x] = f[x]
  <1>1. g[o] = [f[o] EXCEPT !.low = k] /\ \A x \in Objects : x # o => g[x] = f[x]
    OBVIOUS
  <1>2. f[o] \in [defer : BOOLEAN, low : Nat]
    OBVIOUS
  <1>3. g[o] = [defer |-> f[o].defer, low |-> k]
    BY <1>1, <1>2
  <1>4. g[o] \in [defer : BOOLEAN, low : Nat]
    BY <1>2, <1>3
  <1> QED
    BY <1>1, <1>3, <1>4

LEMMA CreateStep == ASSUME IInv, NEW t \in Threads, Create(t) PROVE IInv'
  <1> USE DEF IInv
  <1>1. PICK o \in Objects :
          /\ storage[o] = "free" /\ storage' = [storage EXCEPT ![o] = "allocated"] /\ word' = [word EXCEPT ![o] = Count(1)]
          /\ index' = [index EXCEPT ![o] = TypeIndex] /\ holders' = [holders EXCEPT ![o] = {t}]
          /\ table' = table \cup {o}
    BY DEF Create
  <1>2. creates' = creates + 1 /\ UNCHANGED <<list, workItems, wasEmpty, todo, pc, target>>
    BY DEF Create, deferring
  <1>3. Count(1) \in [defer : BOOLEAN, low : Nat]
    BY DEF Count
  <1>4. /\ storage' \in [Objects -> {"free", "allocated"}] /\ word' \in [Objects -> [defer : BOOLEAN, low : Nat]]
        /\ index' \in [Objects -> {TypeIndex, Link}] /\ holders' \in [Objects -> SUBSET Threads]
    BY <1>1, <1>3 DEF TypeOK
  <1>5. TypeOK'
    BY <1>1, <1>2, <1>4 DEF TypeOK
  <1>6. /\ storage'[o] = "allocated" /\ word'[o] = Count(1) /\ index'[o] = TypeIndex /\ holders'[o] = {t}
        /\ \A x \in Objects : x # o => SameObject(x)
    BY <1>1 DEF TypeOK, SameObject
  <1>7. ObjectInv(o)'
    <2>1. Cardinality({t}) = 1
      BY FS_Singleton
    <2> QED
      BY <1>1, <1>6, <2>1 DEF ObjectInv
  <1> QED
    BY <1>1, <1>2, <1>5, <1>6, <1>7, OneObject

\* A thread gets a reference to an object that is owned.
LEMMA OneMore ==
    ASSUME IInv, NEW o \in Objects, NEW u \in Threads, holders[o] # {}, u \notin holders[o],
           word' = [word EXCEPT ![o].low = @ + 1], holders' = [holders EXCEPT ![o] = @ \cup {u}],
           UNCHANGED <<storage, index, table, creates, list, workItems, wasEmpty, todo, pc, target>>
    PROVE  IInv'
  <1> USE DEF IInv
  <1> DEFINE n == Cardinality(holders[o])
             m == holders[o] \cup {u}
  <1>1. IsFiniteSet(holders[o]) /\ n \in Nat /\ holders[o] \subseteq Threads /\ word[o] = [defer |-> FALSE, low |-> n]
    BY OwnersCounted
  <1>2. Cardinality(m) = n + 1
    BY <1>1, FS_AddElement
  <1> HIDE DEF n, m
  <1>3. word' = [word EXCEPT ![o].low = n + 1] /\ word[o].defer = FALSE /\ n + 1 \in Nat
    <2>1. word[o].low = n /\ word[o].defer = FALSE
      BY <1>1
    <2> QED
      BY <1>1, <2>1
  <1>4. word \in [Objects -> [defer : BOOLEAN, low : Nat]] /\ holders \in [Objects -> SUBSET Threads]
    BY DEF TypeOK
  <1>5. word' \in [Objects -> [defer : BOOLEAN, low : Nat]] /\ word'[o] = [defer |-> FALSE, low |-> n + 1]
        /\ \A x \in Objects : x # o => word'[x] = word[x]
    <2>1. word' \in [Objects -> [defer : BOOLEAN, low : Nat]] /\ word'[o] = [defer |-> word[o].defer, low |-> n + 1]
          /\ \A x \in Objects : x # o => word'[x] = word[x]
      BY <1>3, <1>4, LowSet
    <2> QED
      BY <1>3, <2>1
  <1>6. holders' \in [Objects -> SUBSET Threads] /\ holders'[o] = m /\ \A x \in Objects : x # o => holders'[x] = holders[x]
    BY <1>1, <1>4 DEF m
  <1>7. TypeOK'
    BY <1>5, <1>6 DEF TypeOK
  <1>8. \A x \in Objects : x # o => SameObject(x)
    BY <1>5, <1>6 DEF SameObject
  <1>9. ObjectInv(o)
    OBVIOUS
  <1>10. ObjectInv(o)'
    <2>1. m # {} /\ word'[o] = Count(Cardinality(m))
      BY <1>2, <1>5 DEF m, Count
    <2> QED
      BY <1>6, <1>9, <2>1 DEF ObjectInv
  <1> QED
    BY <1>7, <1>8, <1>10, OneObject

LEMMA ReferenceStep == ASSUME IInv, NEW t \in Threads, Reference(t) \/ ReferenceSafe(t) PROVE IInv'
  <1>1. UNCHANGED <<storage, index, table, creates, list, workItems, wasEmpty, todo, pc, target>>
    BY DEF Reference, ReferenceSafe, deferring
  <1>2. \E o \in Objects, u \in Threads :
          /\ holders[o] # {} /\ u \notin holders[o] /\ word' = [word EXCEPT ![o].low = @ + 1]
          /\ holders' = [holders EXCEPT ![o] = @ \cup {u}]
    <2>1. CASE Reference(t)
      BY <2>1 DEF Reference
    <2>2. CASE ReferenceSafe(t)
      <3>1. PICK o \in table : /\ t \notin holders[o] /\ Positive(word[o]) /\ word' = [word EXCEPT ![o].low = @ + 1]
                               /\ holders' = [holders EXCEPT ![o] = @ \cup {t}]
        BY <2>2 DEF ReferenceSafe
      <3>2. o \in Objects /\ ObjectInv(o)
        BY DEF IInv, TypeOK
      <3>3. holders[o] # {}
        BY <3>1, <3>2 DEF ObjectInv
      <3> QED
        BY <3>1, <3>2, <3>3
    <2> QED
      BY <2>1, <2>2
  <1> QED
    BY <1>1, <1>2, OneMore

LEMMA DereferenceStep == ASSUME IInv, NEW t \in Threads, NEW d \in BOOLEAN, Dereference(t, d) PROVE IInv'
  <1> USE DEF IInv
  <1>1. pc[t] = "idle" /\ t \in Actors /\ UNCHANGED <<storage, index, table, creates, list, workItems, wasEmpty, todo>>
    BY Kinds DEF Dereference, deferring
  <1>2. PICK o \in Objects :
          /\ t \in holders[o] /\ word' = [word EXCEPT ![o].low = @ - 1] /\ holders' = [holders EXCEPT ![o] = @ \ {t}]
          /\ IF word[o].low - 1 = 0
             THEN /\ target' = [target EXCEPT ![t] = o]
                  /\ pc' = [pc EXCEPT ![t] = IF d THEN "mark" ELSE "delete"]
             ELSE UNCHANGED <<pc, target>>
    BY DEF Dereference, Goto, NoneLeft
  <1> DEFINE n == Cardinality(holders[o])
             m == holders[o] \ {t}
  <1>3. IsFiniteSet(holders[o]) /\ n \in Nat /\ holders[o] \subseteq Threads /\ word[o] = [defer |-> FALSE, low |-> n]
    BY <1>2, OwnersCounted
  <1>4. Cardinality(m) = n - 1 /\ IsFiniteSet(m) /\ Cardinality(m) \in Nat /\ (Cardinality(m) = 0 <=> m = {})
    <2>1. IsFiniteSet(m) /\ Cardinality(m) = n - 1
      BY <1>2, <1>3, FS_RemoveElement
    <2> QED
      BY <2>1, FS_CardinalityType, FS_EmptySet
  <1> HIDE DEF n, m
  <1>5. word' = [word EXCEPT ![o].low = n - 1] /\ word[o].defer = FALSE /\ n - 1 \in Nat
    <2>1. word[o].low = n /\ word[o].defer = FALSE
      BY <1>3
    <2>2. n - 1 \in Nat
      BY <1>4
    <2> QED
      BY <1>2, <2>1, <2>2
  <1>6. word \in [Objects -> [defer : BOOLEAN, low : Nat]] /\ holders \in [Objects -> SUBSET Threads]
    BY DEF TypeOK
  <1>7. word' \in [Objects -> [defer : BOOLEAN, low : Nat]] /\ word'[o] = [defer |-> FALSE, low |-> n - 1]
        /\ \A x \in Objects : x # o => word'[x] = word[x]
    <2>1. word' \in [Objects -> [defer : BOOLEAN, low : Nat]] /\ word'[o] = [defer |-> word[o].defer, low |-> n - 1]
          /\ \A x \in Objects : x # o => word'[x] = word[x]
      BY <1>5, <1>6, LowSet
    <2> QED
      BY <1>5, <2>1
  <1>8. holders' \in [Objects -> SUBSET Threads] /\ holders'[o] = m /\ \A x \in Objects : x # o => holders'[x] = holders[x]
    BY <1>2, <1>3, <1>6 DEF m
  <1>9. \A x \in Objects : x # o => SameObject(x)
    BY <1>1, <1>7, <1>8 DEF SameObject
  <1>10. ObjectInv(o) /\ storage[o] = "allocated" /\ index[o] = TypeIndex
    BY <1>2 DEF ObjectInv
  <1>11. ObjectInv(o)'
    <2>1. m # {} => word'[o] = Count(Cardinality(m))
      BY <1>4, <1>7 DEF Count
    <2>2. m = {} => ~Positive(word'[o])
      BY <1>4, <1>7 DEF Positive
    <2> QED
      BY <1>1, <1>8, <1>10, <2>1, <2>2 DEF ObjectInv
  <1>12. CASE m # {}
    <2>1. word[o].low = n /\ n - 1 # 0
      BY <1>3, <1>4, <1>12
    <2>2. UNCHANGED <<pc, target>>
      BY <1>2, <2>1
    <2>3. TypeOK'
      BY <1>1, <1>7, <1>8, <2>2 DEF TypeOK
    <2> QED
      BY <1>1, <1>2, <1>9, <1>11, <2>2, <2>3, OneObject
  <1>13. CASE m = {}
    <2>1. word[o].low = n /\ n - 1 = 0
      BY <1>3, <1>4, <1>13
    <2>2. target' = [target EXCEPT ![t] = o] /\ \E p \in {"mark", "delete"} : pc' = [pc EXCEPT ![t] = p]
      BY <1>2, <2>1
    <2>3. PICK p \in {"mark", "delete"} : pc' = [pc EXCEPT ![t] = p]
      BY <2>2
    <2>4. pc'[t] = p /\ (\A b \in Actors : b # t => pc'[b] = pc[b]) /\ pc' \in [Actors -> Points]
      BY <1>1, <2>3, PcMove DEF Points
    <2>5. target'[t] = o /\ (\A b \in Actors : b # t => target'[b] = target[b]) /\ target' \in [Actors -> Objects \cup {NULL}]
      BY <1>1, <2>2, TargetMove
    <2>6. TypeOK'
      BY <1>1, <1>7, <1>8, <2>4, <2>5 DEF TypeOK
    <2>7. /\ \A a \in Actors : target[a] # o
          /\ o \notin Elements(list) /\ \A r \in Routines : o \notin Elements(todo[r])
      BY <1>2, InNoHand
    <2>8. \A x \in Objects : ObjectInv(x)'
      BY <1>9, <1>11, ObjectKept
    <2>9. \A a \in Actors : target[a] \in Objects \cup {NULL}
      BY DEF TypeOK
    <2>10. ASSUME NEW a \in Actors, a # t PROVE HandInv(a)'
      <3>1. HandInv(a)
        OBVIOUS
      <3>2. target[a] # NULL => SameObject(target[a])
        BY <1>9, <2>7, <2>9
      <3>3. target[a] # NULL => /\ target[a] \notin Elements(list')
                                /\ \A r \in Routines : target[a] \notin Elements(todo'[r])
        BY <1>1, <3>1 DEF HandInv
      <3>4. pc'[a] = pc[a] /\ target'[a] = target[a]
        BY <2>4, <2>5, <2>10
      <3> QED
        BY <3>1, <3>2, <3>3, <3>4, HandKept
    <2>11. HandInv(t)'
      BY <1>1, <1>8, <1>10, <1>13, <2>4, <2>5, <2>7, Kinds DEF HandInv, HandPoints
    <2>12. Elements(list) \subseteq Objects /\ \A r \in Routines : Elements(todo[r]) \subseteq Objects
      BY DEF TypeOK, Elements
    <2>13. (\A x \in Elements(list) : Waits(x)') /\ \A r \in Routines : \A x \in Elements(todo[r]) : Waits(x)'
      BY <1>9, <2>7, <2>12, WaitKept DEF ListInv
    <2>14. ListInv'
      <3>1. \A r \in Routines : pc'[r] = pc[r]
        BY <2>4, Kinds
      <3> QED
        BY <1>1, <2>13, <3>1 DEF ListInv
    <2>15. \A a, b \in Actors : a # b => Apart(a, b)'
      BY <2>5, <2>7 DEF Apart
    <2> QED
      BY <2>6, <2>8, <2>10, <2>11, <2>14, <2>15
  <1> QED
    BY <1>12, <1>13
-----------------------------------------------------------------------------
(* PhpFreeObject, PhpDeferDeleteObject *)

\* An actor goes on with the object in its hand.
LEMMA InHand ==
    ASSUME IInv, NEW a \in Actors, pc[a] \in HandPoints, NEW p \in HandPoints, pc' = [pc EXCEPT ![a] = p],
           UNCHANGED <<storage, index, holders, creates, list, workItems, todo, target>>,
           word' \in [Objects -> [defer : BOOLEAN, low : Nat]], wasEmpty' \in [Threads -> BOOLEAN],
           \A o \in Objects : o # target[a] => word'[o] = word[o], table' \subseteq table,
           ~Positive(word'[target[a]]), p = "release" => target[a] \notin table',
           p \in {"save", "first", "push"} => word'[target[a]].defer,
           p \in {"first", "push"} => word'[target[a]].low = TypeIndex,
           a \in Routines => p \in {"delete", "release"}
    PROVE  IInv'
  <1> USE DEF IInv
  <1>1. HandInv(a) /\ target[a] \in Objects \cup {NULL}
    BY DEF TypeOK
  <1>2. PICK x \in Objects : x = target[a]
    BY <1>1 DEF HandInv
  <1>3. /\ x # NULL /\ storage[x] = "allocated" /\ holders[x] = {} /\ index[x] = TypeIndex /\ x \notin Elements(list)
        /\ \A r \in Routines : x \notin Elements(todo[r])
    BY <1>1, <1>2 DEF HandInv
  <1>4. pc'[a] = p /\ (\A b \in Actors : b # a => pc'[b] = pc[b]) /\ pc' \in [Actors -> Points]
    BY PcMove DEF HandPoints, Points
  <1>5. \A o \in Objects : o # x => SameObject(o)
    BY <1>2 DEF SameObject
  <1>6. TypeOK'
    BY <1>4 DEF TypeOK
  <1>7. ObjectInv(x)'
    <2>1. ~Positive(word'[x])
      BY <1>2
    <2> QED
      BY <1>3, <2>1 DEF ObjectInv
  <1>8. \A o \in Objects : ObjectInv(o)'
    BY <1>5, <1>7, ObjectKept
  <1>9. HandInv(a)'
    <2>1. target'[a] = x
      BY <1>2
    <2>2. /\ p = "release" => x \notin table'
          /\ p \in {"save", "first", "push"} => word'[x].defer
          /\ p \in {"first", "push"} => word'[x].low = TypeIndex
      BY <1>2
    <2>3. a \in Threads => p # "next"
      BY DEF HandPoints
    <2>4. a \in Routines => p \in {"idle", "next", "delete", "release"}
      OBVIOUS
    <2> QED
      BY <1>3, <1>4, <2>1, <2>2, <2>3, <2>4 DEF HandInv
  <1>10. ASSUME NEW b \in Actors, b # a PROVE HandInv(b)'
    <2>1. HandInv(b) /\ target[b] \in Objects \cup {NULL} /\ Apart(b, a)
      BY <1>10 DEF TypeOK
    <2>2. target[b] # NULL => SameObject(target[b])
      BY <1>2, <1>5, <2>1 DEF Apart
    <2>3. target[b] # NULL => /\ target[b] \notin Elements(list')
                              /\ \A r \in Routines : target[b] \notin Elements(todo'[r])
      BY <2>1 DEF HandInv
    <2>4. pc'[b] = pc[b] /\ target'[b] = target[b]
      BY <1>4, <1>10
    <2> QED
      BY <2>1, <2>2, <2>3, <2>4, HandKept
  <1>11. Elements(list) \subseteq Objects /\ \A r \in Routines : Elements(todo[r]) \subseteq Objects
    BY DEF TypeOK, Elements
  <1>12. (\A o \in Elements(list) : Waits(o)') /\ \A r \in Routines : \A o \in Elements(todo[r]) : Waits(o)'
    BY <1>3, <1>5, <1>11, WaitKept DEF ListInv
  <1>13. \A r \in Routines : pc'[r] = "idle" => todo[r] = <<>>
    <2>1. p # "idle"
      BY DEF HandPoints
    <2> QED
      BY <1>4, <2>1, Kinds DEF ListInv
  <1>14. ListInv'
    BY <1>12, <1>13 DEF ListInv
  <1>15. \A b, c \in Actors : b # c => Apart(b, c)'
    BY DEF Apart
  <1> QED
    BY <1>6, <1>8, <1>9, <1>10, <1>14, <1>15

LEMMA HandFacts ==
    ASSUME IInv, NEW a \in Actors, pc[a] \in HandPoints
    PROVE  /\ target[a] \in Objects /\ target[a] # NULL /\ storage[target[a]] = "allocated" /\ holders[target[a]] = {}
           /\ index[target[a]] = TypeIndex /\ ~Positive(word[target[a]])
           /\ word \in [Objects -> [defer : BOOLEAN, low : Nat]] /\ wasEmpty \in [Threads -> BOOLEAN]
  <1>1. HandInv(a) /\ target[a] \in Objects \cup {NULL}
    BY DEF IInv, TypeOK
  <1>2. target[a] \in Objects /\ ObjectInv(target[a])
    BY <1>1 DEF HandInv, IInv
  <1> QED
    BY <1>1, <1>2 DEF HandInv, ObjectInv, IInv, TypeOK

LEMMA DeleteStep == ASSUME IInv, NEW a \in Actors, Delete(a) PROVE IInv'
  <1>1. /\ pc[a] = "delete" /\ table' = table \ {target[a]} /\ pc' = [pc EXCEPT ![a] = "release"]
        /\ UNCHANGED <<storage, word, index, holders, creates, list, workItems, wasEmpty, todo, target>>
    BY DEF Delete, Goto, header, deferring
  <1>2. /\ word \in [Objects -> [defer : BOOLEAN, low : Nat]] /\ wasEmpty \in [Threads -> BOOLEAN]
        /\ ~Positive(word[target[a]])
    BY <1>1, HandFacts DEF HandPoints
  <1> QED
    BY <1>1, <1>2, InHand DEF HandPoints

LEMMA MarkStep == ASSUME IInv, NEW t \in Threads, Mark(t) PROVE IInv'
  <1> DEFINE x == target[t]
  <1>1. /\ pc[t] = "mark" /\ word' = [word EXCEPT ![x] = [@ EXCEPT !.defer = TRUE]] /\ pc' = [pc EXCEPT ![t] = "save"]
        /\ t \in Actors /\ t \notin Routines
        /\ UNCHANGED <<storage, index, holders, table, creates, list, workItems, wasEmpty, todo, target>>
    BY Kinds DEF Mark, Marked, Goto, sharing, deferring
  <1>2. /\ word \in [Objects -> [defer : BOOLEAN, low : Nat]] /\ wasEmpty \in [Threads -> BOOLEAN] /\ x \in Objects
    BY <1>1, HandFacts DEF HandPoints
  <1>3. /\ word' \in [Objects -> [defer : BOOLEAN, low : Nat]] /\ word'[x].defer
        /\ \A o \in Objects : o # x => word'[o] = word[o]
    BY <1>1, <1>2
  <1>4. ~Positive(word'[x])
    BY <1>3 DEF Positive
  <1> QED
    BY <1>1, <1>2, <1>3, <1>4, InHand DEF HandPoints

LEMMA SaveStep == ASSUME IInv, NEW t \in Threads, Save(t) PROVE IInv'
  <1> DEFINE x == target[t]
  <1>1. /\ pc[t] = "save" /\ word' = [word EXCEPT ![x].low = index[x]] /\ pc' = [pc EXCEPT ![t] = "first"]
        /\ t \in Actors /\ t \notin Routines
        /\ UNCHANGED <<storage, index, holders, table, creates, list, workItems, wasEmpty, todo, target>>
    BY Kinds DEF Save, Goto, sharing, deferring
  <1>2. /\ word \in [Objects -> [defer : BOOLEAN, low : Nat]] /\ wasEmpty \in [Threads -> BOOLEAN] /\ x \in Objects
        /\ index[x] = TypeIndex
    BY <1>1, HandFacts DEF HandPoints
  <1>3. HandInv(t)
    BY <1>1 DEF IInv
  <1>4. word[x].defer
    BY <1>1, <1>3 DEF HandInv
  <1>5. word' = [word EXCEPT ![x].low = TypeIndex] /\ TypeIndex \in Nat
    BY <1>1, <1>2, Kinds
  <1>6. /\ word' \in [Objects -> [defer : BOOLEAN, low : Nat]] /\ word'[x] = [defer |-> word[x].defer, low |-> TypeIndex]
        /\ \A o \in Objects : o # x => word'[o] = word[o]
    BY <1>2, <1>5, LowSet
  <1>7. word'[x].defer /\ word'[x].low = TypeIndex
    BY <1>4, <1>6
  <1>8. ~Positive(word'[x])
    BY <1>7 DEF Positive
  <1> QED
    BY <1>1, <1>2, <1>6, <1>7, <1>8, InHand DEF HandPoints

LEMMA ReadFirstStep == ASSUME IInv, NEW t \in Threads, ReadFirst(t) PROVE IInv'
  <1>1. /\ pc[t] = "first" /\ wasEmpty' = [wasEmpty EXCEPT ![t] = list = <<>>] /\ pc' = [pc EXCEPT ![t] = "push"]
        /\ t \in Actors /\ t \notin Routines
        /\ UNCHANGED <<storage, word, index, holders, table, creates, list, workItems, todo, target>>
    BY Kinds DEF ReadFirst, Goto, sharing, header
  <1>2. /\ word \in [Objects -> [defer : BOOLEAN, low : Nat]] /\ wasEmpty \in [Threads -> BOOLEAN]
        /\ ~Positive(word[target[t]])
    BY <1>1, HandFacts DEF HandPoints
  <1>3. wasEmpty' \in [Threads -> BOOLEAN]
    <2>1. (list = <<>>) \in BOOLEAN
      OBVIOUS
    <2> QED
      BY <1>1, <1>2, <2>1
  <1>4. HandInv(t)
    BY <1>1 DEF IInv
  <1>5. word[target[t]].defer /\ word[target[t]].low = TypeIndex
    BY <1>1, <1>4 DEF HandInv
  <1> QED
    BY <1>1, <1>2, <1>3, <1>5, InHand DEF HandPoints

\* An actor with nothing in its hand moves.
LEMMA EmptyHanded ==
    ASSUME IInv, NEW a \in Actors, NEW p \in {"idle", "next"}, pc[a] \in {"queueWork", "next"}, pc' = [pc EXCEPT ![a] = p],
           p = "next" => a \in Routines, a \in Routines /\ p = "idle" => todo[a] = <<>>,
           UNCHANGED <<storage, word, index, holders, table, creates, list, wasEmpty, todo, target>>, workItems' \in Nat
    PROVE  IInv'
  <1> USE DEF IInv
  <1>1. pc'[a] = p /\ (\A b \in Actors : b # a => pc'[b] = pc[b]) /\ pc' \in [Actors -> Points]
    BY PcMove DEF Points
  <1>2. TypeOK'
    BY <1>1 DEF TypeOK
  <1>3. HandInv(a) /\ target[a] = NULL
    BY DEF HandInv, HandPoints
  <1>4. HandInv(a)'
    BY <1>1, <1>3, Kinds DEF HandInv, HandPoints
  <1>5. ASSUME NEW b \in Actors, b # a PROVE HandInv(b)'
    <2>1. HandInv(b)
      OBVIOUS
    <2> QED
      BY <1>1, <1>5, <2>1 DEF HandInv
  <1>6. ListInv'
    BY <1>1, Kinds DEF ListInv, Waits
  <1>7. \A o \in Objects : ObjectInv(o)'
    BY DEF ObjectInv
  <1>8. \A b, c \in Actors : b # c => Apart(b, c)'
    BY DEF Apart
  <1> QED
    BY <1>2, <1>4, <1>5, <1>6, <1>7, <1>8

LEMMA QueueWorkStep == ASSUME IInv, NEW t \in Threads, QueueWork(t) PROVE IInv'
  <1>1. /\ pc[t] = "queueWork" /\ workItems' = workItems + 1 /\ pc' = [pc EXCEPT ![t] = "idle"]
        /\ t \in Actors /\ t \notin Routines
        /\ UNCHANGED <<storage, word, index, holders, table, creates, list, wasEmpty, todo, target>>
    BY Kinds DEF QueueWork, Goto, sharing, header
  <1>2. workItems' \in Nat
    BY <1>1 DEF IInv, TypeOK
  <1> QED
    BY <1>1, <1>2, EmptyHanded

LEMMA RoutineReturnStep == ASSUME IInv, NEW r \in Routines, RoutineReturn(r) PROVE IInv'
  <1>1. /\ pc[r] = "next" /\ todo[r] = <<>> /\ pc' = [pc EXCEPT ![r] = "idle"] /\ r \in Actors
        /\ UNCHANGED <<storage, word, index, holders, table, creates, list, workItems, wasEmpty, todo, target>>
    BY Kinds DEF RoutineReturn, Goto, sharing, header, deferring
  <1> QED
    BY <1>1, EmptyHanded DEF IInv, TypeOK

LEMMA ReleaseStep == ASSUME IInv, NEW a \in Actors, Release(a) PROVE IInv'
  <1> USE DEF IInv
  <1>1. /\ pc[a] = "release" /\ storage' = [storage EXCEPT ![target[a]] = "free"]
        /\ target' = [target EXCEPT ![a] = NULL] /\ pc' = [pc EXCEPT ![a] = IF a \in Routines THEN "next" ELSE "idle"]
        /\ UNCHANGED <<word, index, holders, table, creates, list, workItems, wasEmpty, todo>>
    BY DEF Release, Goto, sharing, deferring
  <1>2. PICK x \in Objects : x = target[a] /\ holders[x] = {} /\ x \notin table /\ x # NULL
    <2>1. HandInv(a)
      OBVIOUS
    <2> QED
      BY <1>1, <2>1, HandFacts DEF HandInv, HandPoints
  <1>3. PICK p \in {"next", "idle"} : /\ pc' = [pc EXCEPT ![a] = p]
                                      /\ p = "next" => a \in Routines
                                      /\ p = "idle" => a \notin Routines
    BY <1>1
  <1>4. pc'[a] = p /\ (\A b \in Actors : b # a => pc'[b] = pc[b]) /\ pc' \in [Actors -> Points]
    BY <1>3, PcMove DEF Points
  <1>5. target'[a] = NULL /\ (\A b \in Actors : b # a => target'[b] = target[b]) /\ target' \in [Actors -> Objects \cup {NULL}]
    BY <1>1, TargetMove
  <1>6. /\ storage' \in [Objects -> {"free", "allocated"}] /\ storage'[x] = "free"
        /\ \A o \in Objects : o # x => SameObject(o)
    BY <1>1, <1>2 DEF TypeOK, SameObject
  <1>7. TypeOK'
    BY <1>1, <1>4, <1>5, <1>6 DEF TypeOK
  <1>8. ObjectInv(x)'
    BY <1>1, <1>2, <1>6 DEF ObjectInv
  <1>9. \A o \in Objects : ObjectInv(o)'
    BY <1>6, <1>8, ObjectKept
  <1>10. HandInv(a)'
    BY <1>3, <1>4, <1>5, Kinds DEF HandInv, HandPoints
  <1>11. ASSUME NEW b \in Actors, b # a PROVE HandInv(b)'
    <2>1. HandInv(b) /\ target[b] \in Objects \cup {NULL} /\ Apart(b, a)
      BY <1>11 DEF TypeOK
    <2>2. target[b] # NULL => SameObject(target[b])
      BY <1>2, <1>6, <2>1 DEF Apart
    <2>3. target[b] # NULL => /\ target[b] \notin Elements(list')
                              /\ \A r \in Routines : target[b] \notin Elements(todo'[r])
      BY <1>1, <2>1 DEF HandInv
    <2>4. pc'[b] = pc[b] /\ target'[b] = target[b]
      BY <1>4, <1>5, <1>11
    <2> QED
      BY <2>1, <2>2, <2>3, <2>4, HandKept
  <1>12. x \notin Elements(list) /\ \A r \in Routines : x \notin Elements(todo[r])
    <2>1. HandInv(a)
      OBVIOUS
    <2> QED
      BY <1>2, <2>1 DEF HandInv
  <1>13. Elements(list) \subseteq Objects /\ \A r \in Routines : Elements(todo[r]) \subseteq Objects
    BY DEF TypeOK, Elements
  <1>14. (\A o \in Elements(list) : Waits(o)') /\ \A r \in Routines : \A o \in Elements(todo[r]) : Waits(o)'
    BY <1>6, <1>12, <1>13, WaitKept DEF ListInv
  <1>15. \A r \in Routines : pc'[r] = "idle" => todo[r] = <<>>
    BY <1>3, <1>4, Kinds DEF ListInv
  <1>16. ListInv'
    BY <1>1, <1>14, <1>15 DEF ListInv
  <1>17. \A b, c \in Actors : b # c => Apart(b, c)'
    BY <1>5 DEF Apart
  <1> QED
    BY <1>7, <1>9, <1>10, <1>11, <1>16, <1>17

LEMMA PushStep == ASSUME IInv, NEW t \in Threads, Push(t) PROVE IInv'
  <1> USE DEF IInv
  <1>1. /\ pc[t] = "push" /\ list' = <<target[t]>> \o list /\ index' = [index EXCEPT ![target[t]] = Link]
        /\ target' = [target EXCEPT ![t] = NULL] /\ \E p \in {"queueWork", "idle"} : pc' = [pc EXCEPT ![t] = p]
        /\ t \in Actors /\ t \notin Routines
        /\ UNCHANGED <<storage, word, holders, table, creates, workItems, wasEmpty, todo>>
    BY Kinds DEF Push, Goto, sharing
  <1>2. HandInv(t)
    BY <1>1
  <1>3. PICK x \in Objects : x = target[t] /\ x # NULL /\ storage[x] = "allocated" /\ holders[x] = {}
    BY <1>1, HandFacts DEF HandPoints
  <1>4. /\ x \notin Elements(list) /\ (\A r \in Routines : x \notin Elements(todo[r]))
        /\ word[x].defer /\ word[x].low = TypeIndex
    BY <1>1, <1>2, <1>3 DEF HandInv
  <1>5. word[x] = [defer |-> TRUE, low |-> TypeIndex]
    <2>1. word[x] \in [defer : BOOLEAN, low : Nat]
      BY DEF TypeOK
    <2>2. word[x].defer = TRUE
      BY <1>4, <2>1
    <2> QED
      BY <1>4, <2>1, <2>2
  <1>6. PICK p \in {"queueWork", "idle"} : pc' = [pc EXCEPT ![t] = p]
    BY <1>1
  <1>7. pc'[t] = p /\ (\A b \in Actors : b # t => pc'[b] = pc[b]) /\ pc' \in [Actors -> Points]
    BY <1>1, <1>6, PcMove DEF Points
  <1>8. target'[t] = NULL /\ (\A b \in Actors : b # t => target'[b] = target[b]) /\ target' \in [Actors -> Objects \cup {NULL}]
    BY <1>1, TargetMove
  <1>9. /\ index' \in [Objects -> {TypeIndex, Link}] /\ \A o \in Objects : o # x => SameObject(o)
    BY <1>1, <1>3 DEF TypeOK, SameObject
  <1>10. list' \in Seq(Objects) /\ Once(list') /\ Elements(list') = Elements(list) \cup {x}
    <2>1. list \in Seq(Objects) /\ Once(list)
      BY DEF TypeOK, ListInv
    <2> QED
      BY <1>1, <1>3, <1>4, <2>1, PushOnce
  <1>11. TypeOK'
    BY <1>1, <1>7, <1>8, <1>9, <1>10 DEF TypeOK
  <1>12. ObjectInv(x) /\ ObjectInv(x)'
    BY <1>1, <1>3 DEF ObjectInv
  <1>13. \A o \in Objects : ObjectInv(o)'
    BY <1>9, <1>12, ObjectKept
  <1>14. HandInv(t)'
    BY <1>1, <1>7, <1>8 DEF HandInv, HandPoints
  <1>15. ASSUME NEW b \in Actors, b # t PROVE HandInv(b)'
    <2>1. HandInv(b) /\ target[b] \in Objects \cup {NULL} /\ Apart(b, t)
      BY <1>1, <1>15 DEF TypeOK
    <2>2. target[b] # NULL => target[b] # x /\ SameObject(target[b])
      BY <1>3, <1>9, <2>1 DEF Apart
    <2>3. target[b] # NULL => /\ target[b] \notin Elements(list')
                              /\ \A r \in Routines : target[b] \notin Elements(todo'[r])
      BY <1>1, <1>10, <2>1, <2>2 DEF HandInv
    <2>4. pc'[b] = pc[b] /\ target'[b] = target[b]
      BY <1>7, <1>8, <1>15
    <2> QED
      BY <2>1, <2>2, <2>3, <2>4, HandKept
  <1>16. Elements(list) \subseteq Objects /\ \A r \in Routines : Elements(todo[r]) \subseteq Objects
    BY DEF TypeOK, Elements
  <1>17. Waits(x)'
    BY <1>1, <1>3, <1>5 DEF Waits
  <1>18. (\A o \in Elements(list') : Waits(o)') /\ \A r \in Routines : \A o \in Elements(todo[r]) : Waits(o)'
    BY <1>4, <1>9, <1>10, <1>16, <1>17, WaitKept DEF ListInv
  <1>19. \A r \in Routines : pc'[r] = "idle" => todo[r] = <<>>
    BY <1>1, <1>7, Kinds DEF ListInv
  <1>20. ListInv'
    BY <1>1, <1>4, <1>10, <1>18, <1>19 DEF ListInv
  <1>21. \A b, c \in Actors : b # c => Apart(b, c)'
    BY <1>8 DEF Apart
  <1> QED
    BY <1>11, <1>13, <1>14, <1>15, <1>20, <1>21
-----------------------------------------------------------------------------
(* PhpDeferDeleteObjectRoutine *)

LEMMA FlushStep == ASSUME IInv, NEW r \in Routines, Flush(r) PROVE IInv'
  <1> USE DEF IInv
  <1>1. /\ pc[r] = "idle" /\ workItems > 0 /\ workItems' = workItems - 1 /\ todo' = [todo EXCEPT ![r] = list]
        /\ list' = <<>> /\ pc' = [pc EXCEPT ![r] = "next"] /\ r \in Actors
        /\ UNCHANGED <<storage, word, index, holders, table, creates, wasEmpty, target>>
    BY Kinds DEF Flush, Goto, sharing, header
  <1>2. pc'[r] = "next" /\ (\A b \in Actors : b # r => pc'[b] = pc[b]) /\ pc' \in [Actors -> Points]
    BY <1>1, PcMove DEF Points
  <1>3. /\ todo' \in [Routines -> Seq(Objects)] /\ todo'[r] = list /\ \A q \in Routines : q # r => todo'[q] = todo[q]
    BY <1>1 DEF TypeOK
  <1>4. workItems' \in Nat /\ list' \in Seq(Objects)
    BY <1>1, NoElements DEF TypeOK
  <1>5. TypeOK'
    BY <1>1, <1>2, <1>3, <1>4 DEF TypeOK
  <1>6. \A o : SameObject(o)
    BY <1>1 DEF SameObject
  <1>7. \A o \in Objects : ObjectInv(o)'
    BY <1>6, ObjectKept
  <1>8. Elements(list') = {} /\ Once(list')
    BY <1>1, NoElements
  <1>9. ASSUME NEW b \in Actors, b # r PROVE HandInv(b)'
    <2>1. HandInv(b)
      OBVIOUS
    <2>2. target[b] # NULL => /\ target[b] \notin Elements(list')
                              /\ \A q \in Routines : target[b] \notin Elements(todo'[q])
      BY <1>3, <1>8, <2>1 DEF HandInv
    <2>3. pc'[b] = pc[b] /\ target'[b] = target[b]
      BY <1>1, <1>2, <1>9
    <2> QED
      BY <1>6, <2>1, <2>2, <2>3, HandKept
  <1>10. HandInv(r)'
    <2>1. HandInv(r)
      BY <1>1
    <2> QED
      BY <1>1, <1>2, <2>1, Kinds DEF HandInv, HandPoints
  <1>11. (\A o \in Elements(list) : Waits(o)') /\ \A q \in Routines : \A o \in Elements(todo[q]) : Waits(o)'
    BY <1>6, WaitKept DEF ListInv
  <1>12. ListInv'
    <2>1. \A q \in Routines : /\ Once(todo'[q]) /\ Elements(todo'[q]) \cap Elements(list') = {}
                              /\ \A o \in Elements(todo'[q]) : Waits(o)'
                              /\ pc'[q] = "idle" => todo'[q] = <<>>
      BY <1>2, <1>3, <1>8, <1>11, Kinds DEF ListInv
    <2>2. \A q, s \in Routines : q # s => Elements(todo'[q]) \cap Elements(todo'[s]) = {}
      BY <1>3 DEF ListInv
    <2> QED
      BY <1>8, <2>1, <2>2 DEF ListInv
  <1>13. \A b, c \in Actors : b # c => Apart(b, c)'
    BY <1>1 DEF Apart
  <1> QED
    BY <1>5, <1>7, <1>9, <1>10, <1>12, <1>13

LEMMA RestoreStep == ASSUME IInv, NEW r \in Routines, Restore(r) PROVE IInv'
  <1> USE DEF IInv
  <1>1. /\ pc[r] = "next" /\ todo[r] # <<>> /\ todo' = [todo EXCEPT ![r] = Tail(todo[r])]
        /\ pc' = [pc EXCEPT ![r] = "delete"] /\ r \in Actors
        /\ UNCHANGED <<storage, word, holders, table, creates, list, workItems, wasEmpty>>
    BY Kinds DEF Restore, Goto, sharing
  <1>2. todo[r] \in Seq(Objects) /\ Once(todo[r]) /\ todo \in [Routines -> Seq(Objects)]
    BY DEF TypeOK, ListInv
  <1>3. /\ Tail(todo[r]) \in Seq(Objects) /\ Head(todo[r]) \in Objects /\ Once(Tail(todo[r]))
        /\ Head(todo[r]) \in Elements(todo[r]) /\ Elements(Tail(todo[r])) = Elements(todo[r]) \ {Head(todo[r])}
    BY <1>1, <1>2, TailOnce
  <1>4. PICK x \in Objects : x = Head(todo[r])
    BY <1>3
  <1>5. index' = [index EXCEPT ![x] = word[x].low] /\ target' = [target EXCEPT ![r] = x]
    BY <1>4 DEF Restore, Restored
  <1>6. /\ todo' \in [Routines -> Seq(Objects)] /\ Once(todo'[r]) /\ Elements(todo'[r]) = Elements(todo[r]) \ {x}
        /\ \A q \in Routines : q # r => todo'[q] = todo[q]
    BY <1>1, <1>2, <1>3, <1>4
  <1>7. Waits(x) /\ x \in Elements(todo[r])
    BY <1>3, <1>4 DEF ListInv
  <1>8. word[x].low = TypeIndex /\ storage[x] = "allocated" /\ holders[x] = {}
    BY <1>7 DEF Waits
  <1>9. /\ index' \in [Objects -> {TypeIndex, Link}] /\ index'[x] = TypeIndex
        /\ \A o \in Objects : o # x => SameObject(o)
    BY <1>1, <1>5, <1>8 DEF TypeOK, SameObject
  <1>10. pc'[r] = "delete" /\ (\A b \in Actors : b # r => pc'[b] = pc[b]) /\ pc' \in [Actors -> Points]
    BY <1>1, PcMove DEF Points
  <1>11. target'[r] = x /\ (\A b \in Actors : b # r => target'[b] = target[b]) /\ target' \in [Actors -> Objects \cup {NULL}]
    BY <1>1, <1>5, TargetMove
  <1>12. TypeOK'
    BY <1>1, <1>6, <1>9, <1>10, <1>11 DEF TypeOK
  <1>13. ObjectInv(x) /\ ObjectInv(x)'
    BY <1>1, <1>8 DEF ObjectInv
  <1>14. \A o \in Objects : ObjectInv(o)'
    BY <1>9, <1>13, ObjectKept
  <1>15. x \notin Elements(list) /\ \A q \in Routines : x \notin Elements(todo'[q])
    BY <1>6, <1>7 DEF ListInv
  <1>16. HandInv(r)'
    BY <1>1, <1>8, <1>9, <1>10, <1>11, <1>15, Kinds DEF HandInv, HandPoints
  <1>17. \A b \in Actors : target[b] # x
    BY <1>7, Kinds DEF HandInv
  <1>18. ASSUME NEW b \in Actors, b # r PROVE HandInv(b)'
    <2>1. HandInv(b) /\ target[b] \in Objects \cup {NULL}
      BY DEF TypeOK
    <2>2. target[b] # NULL => SameObject(target[b])
      BY <1>9, <1>17, <2>1
    <2>3. target[b] # NULL => /\ target[b] \notin Elements(list')
                              /\ \A q \in Routines : target[b] \notin Elements(todo'[q])
      BY <1>1, <1>6, <2>1 DEF HandInv
    <2>4. pc'[b] = pc[b] /\ target'[b] = target[b]
      BY <1>10, <1>11, <1>18
    <2> QED
      BY <2>1, <2>2, <2>3, <2>4, HandKept
  <1>19. Elements(list) \subseteq Objects /\ \A q \in Routines : Elements(todo[q]) \subseteq Objects
    BY DEF TypeOK, Elements
  <1>20. \A q \in Routines : Elements(todo'[q]) \subseteq Elements(todo[q])
    BY <1>6
  <1>21. (\A o \in Elements(list) : Waits(o)') /\ \A q \in Routines : \A o \in Elements(todo'[q]) : Waits(o)'
    BY <1>9, <1>15, <1>19, <1>20, WaitKept DEF ListInv
  <1>22. ListInv'
    <2>1. \A q \in Routines : /\ Once(todo'[q]) /\ Elements(todo'[q]) \cap Elements(list) = {}
                              /\ pc'[q] = "idle" => todo'[q] = <<>>
      BY <1>6, <1>10, <1>20, Kinds DEF ListInv
    <2>2. \A q, s \in Routines : q # s => Elements(todo'[q]) \cap Elements(todo'[s]) = {}
      BY <1>20 DEF ListInv
    <2> QED
      BY <1>1, <1>21, <2>1, <2>2 DEF ListInv
  <1>23. \A b, c \in Actors : b # c => Apart(b, c)'
    BY <1>11, <1>17 DEF Apart
  <1> QED
    BY <1>12, <1>14, <1>16, <1>18, <1>22, <1>23
-----------------------------------------------------------------------------
(* The specification *)

LEMMA InitStep == ASSUME Init PROVE IInv
  <1>1. TypeOK
    <2>1. Count(0) \in [defer : BOOLEAN, low : Nat] /\ <<>> \in Seq(Objects)
      BY DEF Count
    <2>2. storage \in [Objects -> {"free", "allocated"}] /\ word \in [Objects -> [defer : BOOLEAN, low : Nat]]
          /\ index \in [Objects -> {TypeIndex, Link}] /\ holders \in [Objects -> SUBSET Threads]
      BY <2>1 DEF Init
    <2>3. pc \in [Actors -> Points] /\ target \in [Actors -> Objects \cup {NULL}]
          /\ wasEmpty \in [Threads -> BOOLEAN] /\ todo \in [Routines -> Seq(Objects)]
      BY <2>1 DEF Init, Points
    <2> QED
      BY <2>1, <2>2, <2>3 DEF Init, TypeOK
  <1>2. ListInv
    BY NoElements DEF Init, ListInv
  <1>3. \A o \in Objects : ObjectInv(o)
    BY DEF Init, ObjectInv
  <1>4. \A a \in Actors : HandInv(a)
    BY Kinds DEF Init, HandInv, HandPoints
  <1>5. \A a, b \in Actors : a # b => Apart(a, b)
    BY DEF Init, Apart
  <1> QED
    BY <1>1, <1>2, <1>3, <1>4, <1>5 DEF IInv

LEMMA Unchanged == ASSUME IInv, UNCHANGED vars PROVE IInv'
  <1> USE DEF IInv
  <1>1. UNCHANGED <<storage, word, index, holders, table, list, workItems, pc, target, wasEmpty, todo, creates>>
    BY DEF vars
  <1>2. TypeOK'
    BY <1>1 DEF TypeOK
  <1>3. ListInv'
    BY <1>1 DEF ListInv, Waits
  <1>4. \A o \in Objects : ObjectInv(o)'
    BY <1>1 DEF ObjectInv
  <1>5. \A a \in Actors : HandInv(a)'
    BY <1>1 DEF HandInv
  <1>6. \A a, b \in Actors : a # b => Apart(a, b)'
    BY <1>1 DEF Apart
  <1> QED
    BY <1>2, <1>3, <1>4, <1>5, <1>6

\* The inductive invariant of the object manager: the counts of owned objects, and the one hand
\* that every object without owners is in.
THEOREM Invariance == Spec => []IInv
  <1>1. Init => IInv
    BY InitStep
  <1>2. IInv /\ [Next]_vars => IInv'
    <2> SUFFICES ASSUME IInv, [Next]_vars PROVE IInv'
      OBVIOUS
    <2>1. ASSUME NEW t \in Threads, \/ Create(t) \/ Reference(t) \/ ReferenceSafe(t)
                                    \/ Dereference(t, FALSE) \/ Dereference(t, TRUE) \/ Defer(t)
          PROVE  IInv'
      BY <2>1, CreateStep, ReferenceStep, DereferenceStep, MarkStep, SaveStep, ReadFirstStep, PushStep, QueueWorkStep
         DEF Defer
    <2>2. ASSUME NEW r \in Routines, Routine(r) PROVE IInv'
      BY <2>2, FlushStep, RestoreStep, RoutineReturnStep DEF Routine
    <2>3. ASSUME NEW a \in Actors, FreeObject(a) PROVE IInv'
      BY <2>3, DeleteStep, ReleaseStep DEF FreeObject
    <2>4. CASE UNCHANGED vars
      BY <2>4, Unchanged
    <2> QED
      BY <2>1, <2>2, <2>3, <2>4, Kinds DEF Next
  <1> QED
    BY <1>1, <1>2, PTL DEF Spec

LEMMA IsSafe == ASSUME IInv PROVE ObjectsSafe
  <1> USE DEF IInv
  <1>1. OwnedIsAlive
    <2> SUFFICES ASSUME NEW o \in Objects, holders[o] # {}
                 PROVE  /\ storage[o] = "allocated" /\ o \notin Disposing
                        /\ word[o] = Count(Cardinality(holders[o]))
      BY DEF OwnedIsAlive
    <2>1. ObjectInv(o)
      OBVIOUS
    <2>2. o \notin Disposing
      BY InNoHand DEF Disposing
    <2> QED
      BY <2>1, <2>2 DEF ObjectInv
  <1>2. TableIsSafe
    BY DEF TableIsSafe, ObjectInv, TypeOK
  <1>3. DisposedOnce
    <2>1. \A a, b \in Actors : a # b /\ target[a] # NULL => target[a] # target[b]
      BY DEF Apart
    <2>2. Elements(list) \subseteq Objects
      BY DEF TypeOK, Elements
    <2>3. \A a \in Actors : target[a] \notin Elements(list)
      BY <2>2, Kinds DEF HandInv
    <2>4. ASSUME NEW o \in Disposing, o # NULL PROVE storage[o] = "allocated"
      <3>1. CASE \E a \in Actors : o = target[a]
        BY <2>4, <3>1 DEF HandInv
      <3>2. CASE o \in Elements(list)
        BY <3>2 DEF ListInv, Waits
      <3>3. CASE \E r \in Routines : o \in Elements(todo[r])
        BY <3>3 DEF ListInv, Waits
      <3> QED
        BY <3>1, <3>2, <3>3 DEF Disposing
    <2> QED
      BY <2>1, <2>3, <2>4 DEF DisposedOnce
  <1>4. DeletedWithItsType
    BY DEF DeletedWithItsType, HandInv, HandPoints
  <1> QED
    BY <1>1, <1>2, <1>3, <1>4 DEF ObjectsSafe

\* No use after free, no double free, no revival by PhReferenceObjectSafe and no deletion with the
\* wrong type: for any number of threads, deferred-delete routines and objects.
THEOREM ObjectsAreSafe == Spec => []ObjectsSafe
  BY Invariance, IsSafe, PTL
=============================================================================
