------------------------------ MODULE CommsProofs ------------------------------
(***************************************************************************)
(* Proofs about the message port, for any number of clients, senders,      *)
(* queue threads and messages.  Three arguments: the reference count of    *)
(* the rundown is the number of senders that have one, so that none of     *)
(* them is left when the driver goes on; a message is in exactly one       *)
(* place; and the client list does not change while somebody walks it.     *)
(***************************************************************************)
EXTENDS Comms, FiniteSetTheorems, SequenceTheorems, TLAPS

Messages == 1..MaxMessages
Items == [msg : Messages, target : Clients \cup {NULL}]
SenderPoints == {"idle", "look lock", "look", "held", "sent", "insert", "release", "lock", "visit", "wait"}
ThreadPoints == {"none", "remove", "lock", "visit", "wait"}
DriverPoints == {"start", "started", "wait rundown", "join", "drain", "lock", "visit", "wait", "closed",
                 "unregistered", "failed"}

PointsOK ==
    /\ pc = [a \in Actors |-> pc[a]]
    /\ \A a \in Senders : pc[a] \in SenderPoints
    /\ \A t \in QueueThreads : pc[t] \in ThreadPoints
    /\ pc[Driver] \in DriverPoints

\* The type of the state.
TypeOK ==
    /\ port \in {"none", "open", "closed"} /\ rundown \in [refs : Nat, down : BOOLEAN]
    /\ queue \in Seq(Items) /\ drained \in Seq(Items) /\ abandoned \in BOOLEAN
    /\ sharing \in SUBSET Actors /\ blocked \in SUBSET Clients /\ list \in Seq(Clients)
    /\ refs \in [Clients -> Nat]
    /\ PointsOK
    /\ item \in [Actors -> Items \cup {NoItem}] /\ todo \in [Actors -> Seq(Clients)]
    /\ msgs \in 0..MaxMessages /\ sent \in [Messages -> Nat] /\ freed \in [Messages -> Nat]

\* The senders in a callback, and those with a rundown reference.
Calls == {a \in Senders : pc[a] # "idle"}
Under == {"insert", "release", "lock", "visit", "wait"}
Inside == {a \in Senders : pc[a] \in Under}
NInside == Cardinality(Inside)
\* Where the driver is after the queue was run down, and after its threads have ended.
Over == {"join", "drain", "lock", "visit", "wait", "closed", "unregistered", "failed"}
Joined == {"drain", "lock", "visit", "wait", "closed", "unregistered", "failed"}

StopInv ==
    /\ rundown.refs = NInside
    /\ abandoned <=> pc[Driver] \in Over
    /\ pc[Driver] \in {"start", "failed"} => port = "none"
    /\ pc[Driver] \in {"started", "wait rundown", "drain", "lock", "visit", "wait"} => port = "open"
    /\ pc[Driver] \in {"closed", "unregistered"} => port = "closed" /\ drained = <<>>
    /\ port = "closed" => pc[Driver] \in {"closed", "unregistered"}
    /\ pc[Driver] = "unregistered" => Calls = {}
    /\ port = "none" => /\ queue = <<>> /\ drained = <<>> /\ Inside = {} /\ Calls = {}
                        /\ \A t \in QueueThreads : pc[t] \in {"none", "remove"}
    /\ pc[Driver] \in Over => queue = <<>> /\ Inside = {}
    /\ pc[Driver] \in Over /\ port # "none" => rundown.down
    /\ pc[Driver] = "wait rundown" => rundown.down
    /\ pc[Driver] \in {"started", "wait rundown"} => drained = <<>>
    /\ pc[Driver] \in Joined => \A t \in QueueThreads : pc[t] = "none"

\* Who walks the client list, and who has a message.
WalkOf(a) ==
    /\ a \in sharing <=> pc[a] \in {"look", "visit", "wait"}
    /\ pc[a] \notin {"look", "visit", "wait"} => todo[a] = <<>>
    /\ pc[a] = "wait" => todo[a] # <<>>
    /\ pc[a] # "release" => (item[a] # NoItem <=> pc[a] \in {"held", "sent", "insert", "lock", "visit", "wait"})
WalkInv == \A a \in Actors : WalkOf(a)

Once(s) == \A i, j \in DOMAIN s : s[i] = s[j] => i = j

\* Every entry of the list is there once and has the list's reference.
ClientInv ==
    /\ Once(list)
    /\ \A c \in ToSet(list) : refs[c] = 1
    /\ \A c \in blocked \ ToSet(list) : refs[c] = 2
    /\ \A a \in Actors : ToSet(todo[a]) \subseteq ToSet(list)

\* The places of a message.
MsgsOf(items) == {items[i].msg : i \in DOMAIN items}
Distinct(items) == \A i, j \in DOMAIN items : items[i].msg = items[j].msg => i = j
WithActors == {m \in Messages : \E a \in Actors : item[a].msg = m}
UniqueItems == \A a, b \in Actors : item[a].msg = item[b].msg /\ item[a].msg # 0 => a = b
Freed == {m \in Messages : freed[m] = 1}

PlaceInv ==
    /\ Distinct(queue) /\ Distinct(drained) /\ UniqueItems
    /\ MsgsOf(queue) \cup MsgsOf(drained) \cup WithActors \cup Freed = 1..msgs
    /\ MsgsOf(queue) \cap MsgsOf(drained) = {} /\ MsgsOf(queue) \cap WithActors = {}
    /\ MsgsOf(queue) \cap Freed = {} /\ MsgsOf(drained) \cap WithActors = {}
    /\ MsgsOf(drained) \cap Freed = {} /\ WithActors \cap Freed = {}
    /\ \A m \in Messages : freed[m] \in {0, 1}

SentInv ==
    /\ \A m \in Messages : sent[m] \in {0, 1}
    /\ \A m \in Messages : m > msgs \/ m \in MsgsOf(queue) \/ m \in MsgsOf(drained) => sent[m] = 0
    /\ \A a \in Actors : item[a] # NoItem /\ pc[a] \in {"held", "insert", "lock"} => sent[item[a].msg] = 0

IInv == TypeOK /\ StopInv /\ WalkInv /\ ClientInv /\ PlaceInv /\ SentInv
-----------------------------------------------------------------------------
(* Sequences *)

LEMMA AppendItems ==
    ASSUME NEW s \in Seq(Items), NEW x \in Items, Distinct(s), x.msg \notin MsgsOf(s)
    PROVE  /\ Append(s, x) \in Seq(Items) /\ Distinct(Append(s, x))
           /\ MsgsOf(Append(s, x)) = MsgsOf(s) \cup {x.msg}
  <1> DEFINE r == Append(s, x)
  <1>1. /\ r \in Seq(Items) /\ Len(r) = Len(s) + 1 /\ r[Len(s) + 1] = x /\ Len(s) \in Nat
        /\ \A i \in 1..Len(s) : r[i] = s[i]
    OBVIOUS
  <1>2. DOMAIN r = 1..(Len(s) + 1) /\ DOMAIN s = 1..Len(s)
    BY <1>1
  <1> HIDE DEF r
  <1>3. Distinct(r)
    <2> SUFFICES ASSUME NEW i \in DOMAIN r, NEW j \in DOMAIN r, r[i].msg = r[j].msg PROVE i = j
      BY DEF Distinct
    <2>1. CASE i \in 1..Len(s) /\ j \in 1..Len(s)
      BY <1>1, <1>2, <2>1 DEF Distinct
    <2>2. CASE i = Len(s) + 1 /\ j = Len(s) + 1
      BY <2>2
    <2>3. CASE i \in 1..Len(s) /\ j = Len(s) + 1
      BY <1>1, <1>2, <2>3 DEF MsgsOf
    <2>4. CASE i = Len(s) + 1 /\ j \in 1..Len(s)
      BY <1>1, <1>2, <2>4 DEF MsgsOf
    <2> QED
      BY <1>1, <1>2, <2>1, <2>2, <2>3, <2>4
  <1>4. MsgsOf(r) = MsgsOf(s) \cup {x.msg}
    <2>1. ASSUME NEW m \in MsgsOf(r) PROVE m \in MsgsOf(s) \cup {x.msg}
      <3>1. PICK i \in DOMAIN r : m = r[i].msg
        BY DEF MsgsOf
      <3>2. i \in 1..Len(s) \/ i = Len(s) + 1
        BY <1>1, <1>2
      <3> QED
        BY <1>1, <1>2, <3>1, <3>2 DEF MsgsOf
    <2>2. ASSUME NEW m \in MsgsOf(s) PROVE m \in MsgsOf(r)
      <3>1. PICK i \in DOMAIN s : m = s[i].msg
        BY DEF MsgsOf
      <3>2. i \in DOMAIN r /\ m = r[i].msg
        BY <1>1, <1>2, <3>1
      <3> QED
        BY <3>2 DEF MsgsOf
    <2>3. x.msg \in MsgsOf(r)
      <3>1. Len(s) + 1 \in DOMAIN r
        BY <1>1, <1>2
      <3> QED
        BY <1>1, <3>1 DEF MsgsOf
    <2> QED
      BY <2>1, <2>2, <2>3
  <1> QED
    BY <1>1, <1>3, <1>4 DEF r

LEMMA TailItems ==
    ASSUME NEW s \in Seq(Items), s # <<>>, Distinct(s)
    PROVE  /\ Tail(s) \in Seq(Items) /\ Head(s) \in Items /\ Distinct(Tail(s))
           /\ Head(s).msg \in MsgsOf(s) /\ MsgsOf(Tail(s)) = MsgsOf(s) \ {Head(s).msg}
  <1> DEFINE r == Tail(s)
  <1>1. /\ r \in Seq(Items) /\ Len(r) = Len(s) - 1 /\ Len(s) \in Nat /\ Len(s) >= 1 /\ Head(s) = s[1]
        /\ \A i \in 1..(Len(s) - 1) : r[i] = s[i + 1]
    OBVIOUS
  <1>2. DOMAIN r = 1..(Len(s) - 1) /\ DOMAIN s = 1..Len(s)
    BY <1>1
  <1> HIDE DEF r
  <1>3. Distinct(r)
    <2> SUFFICES ASSUME NEW i \in DOMAIN r, NEW j \in DOMAIN r, r[i].msg = r[j].msg PROVE i = j
      BY DEF Distinct
    <2>1. i + 1 \in DOMAIN s /\ j + 1 \in DOMAIN s /\ s[i + 1].msg = s[j + 1].msg /\ i \in Nat /\ j \in Nat
      BY <1>1, <1>2
    <2>2. i + 1 = j + 1
      BY <2>1 DEF Distinct
    <2> QED
      BY <2>1, <2>2
  <1>4. 1 \in DOMAIN s /\ Head(s) \in Items /\ Head(s).msg \in MsgsOf(s)
    BY <1>1, <1>2 DEF MsgsOf
  <1>5. MsgsOf(r) = MsgsOf(s) \ {Head(s).msg}
    <2>1. ASSUME NEW m \in MsgsOf(r) PROVE m \in MsgsOf(s) /\ m # Head(s).msg
      <3>1. PICK i \in DOMAIN r : m = r[i].msg
        BY DEF MsgsOf
      <3>2. i + 1 \in DOMAIN s /\ m = s[i + 1].msg /\ i + 1 # 1
        BY <1>1, <1>2, <3>1
      <3> QED
        BY <1>1, <1>4, <3>2 DEF MsgsOf, Distinct
    <2>2. ASSUME NEW m \in MsgsOf(s), m # Head(s).msg PROVE m \in MsgsOf(r)
      <3>1. PICK i \in DOMAIN s : m = s[i].msg
        BY DEF MsgsOf
      <3>2. i # 1 /\ i \in Nat
        BY <1>1, <1>2, <2>2, <3>1
      <3>3. i - 1 \in DOMAIN r /\ r[i - 1] = s[i]
        BY <1>1, <1>2, <3>2
      <3> QED
        BY <3>1, <3>3 DEF MsgsOf
    <2> QED
      BY <2>1, <2>2
  <1> QED
    BY <1>1, <1>3, <1>4, <1>5 DEF r

LEMMA NoItems == Distinct(<<>>) /\ MsgsOf(<<>>) = {} /\ <<>> \in Seq(Items)
  BY DEF Distinct, MsgsOf

LEMMA TailClients ==
    ASSUME NEW s \in Seq(Clients), s # <<>>
    PROVE  /\ Tail(s) \in Seq(Clients) /\ Head(s) \in Clients /\ ToSet(Tail(s)) \subseteq ToSet(s)
  <1>1. /\ Tail(s) \in Seq(Clients) /\ Len(Tail(s)) = Len(s) - 1 /\ Len(s) \in Nat /\ Head(s) \in Clients
        /\ \A i \in 1..(Len(s) - 1) : Tail(s)[i] = s[i + 1]
    OBVIOUS
  <1>2. DOMAIN Tail(s) = 1..(Len(s) - 1) /\ DOMAIN s = 1..Len(s)
    BY <1>1
  <1>3. ASSUME NEW i \in DOMAIN Tail(s) PROVE Tail(s)[i] \in ToSet(s)
    <2>1. i + 1 \in DOMAIN s /\ Tail(s)[i] = s[i + 1]
      BY <1>1, <1>2
    <2> QED
      BY <2>1 DEF ToSet
  <1> QED
    BY <1>1, <1>3 DEF ToSet

LEMMA AppendClient ==
    ASSUME NEW s \in Seq(Clients), NEW c \in Clients, Once(s), c \notin ToSet(s)
    PROVE  /\ Append(s, c) \in Seq(Clients) /\ Once(Append(s, c)) /\ ToSet(Append(s, c)) = ToSet(s) \cup {c}
  <1> DEFINE r == Append(s, c)
  <1>1. /\ r \in Seq(Clients) /\ Len(r) = Len(s) + 1 /\ r[Len(s) + 1] = c /\ Len(s) \in Nat
        /\ \A i \in 1..Len(s) : r[i] = s[i]
    OBVIOUS
  <1>2. DOMAIN r = 1..(Len(s) + 1) /\ DOMAIN s = 1..Len(s)
    BY <1>1
  <1> HIDE DEF r
  <1>3. \A i \in DOMAIN r : (i \in DOMAIN s /\ r[i] = s[i]) \/ (i = Len(s) + 1 /\ r[i] = c)
    BY <1>1, <1>2
  <1>4. \A i \in DOMAIN s : s[i] # c /\ s[i] \in ToSet(s) /\ i \in DOMAIN r /\ r[i] = s[i]
    BY <1>1, <1>2 DEF ToSet
  <1>5. Once(r)
    BY <1>3, <1>4 DEF Once
  <1>6. ToSet(r) = ToSet(s) \cup {c}
    <2>1. Len(s) + 1 \in DOMAIN r
      BY <1>1, <1>2
    <2>2. ToSet(r) \subseteq ToSet(s) \cup {c}
      BY <1>3, <1>4 DEF ToSet
    <2>3. ToSet(s) \subseteq ToSet(r) /\ c \in ToSet(r)
      BY <1>1, <1>4, <2>1 DEF ToSet
    <2> QED
      BY <2>2, <2>3
  <1> QED
    BY <1>1, <1>5, <1>6 DEF r

LEMMA RemoveClient ==
    ASSUME NEW s \in Seq(Clients), NEW k \in DOMAIN s, Once(s)
    PROVE  /\ RemoveAt(s, k) \in Seq(Clients) /\ Once(RemoveAt(s, k))
           /\ ToSet(RemoveAt(s, k)) = ToSet(s) \ {s[k]}
  <1> DEFINE r == RemoveAt(s, k)
  <1>1. Len(s) \in Nat /\ k \in 1..Len(s) /\ DOMAIN s = 1..Len(s)
    OBVIOUS
  <1>2. /\ SubSeq(s, 1, k - 1) \in Seq(Clients) /\ Len(SubSeq(s, 1, k - 1)) = k - 1
        /\ \A i \in 1..(k - 1) : SubSeq(s, 1, k - 1)[i] = s[i]
    BY <1>1
  <1>3. /\ SubSeq(s, k + 1, Len(s)) \in Seq(Clients) /\ Len(SubSeq(s, k + 1, Len(s))) = Len(s) - k
        /\ \A i \in 1..(Len(s) - k) : SubSeq(s, k + 1, Len(s))[i] = s[i + k]
    BY <1>1
  <1>4. /\ r \in Seq(Clients) /\ Len(r) = Len(s) - 1 /\ DOMAIN r = 1..(Len(s) - 1)
        /\ \A i \in 1..(Len(s) - 1) : r[i] = IF i < k THEN s[i] ELSE s[i + 1]
    <2> DEFINE p == SubSeq(s, 1, k - 1)
               q == SubSeq(s, k + 1, Len(s))
    <2>1. r = p \o q /\ p \in Seq(Clients) /\ q \in Seq(Clients) /\ Len(p) = k - 1 /\ Len(q) = Len(s) - k
      BY <1>2, <1>3 DEF RemoveAt
    <2>2. \A i \in 1..(k - 1) : p[i] = s[i]
      BY <1>2
    <2>3. \A i \in 1..(Len(s) - k) : q[i] = s[i + k]
      BY <1>3
    <2> HIDE DEF p, q, r
    <2>4. /\ r \in Seq(Clients) /\ Len(r) = Len(p) + Len(q)
          /\ \A i \in 1..(Len(p) + Len(q)) : r[i] = IF i <= Len(p) THEN p[i] ELSE q[i - Len(p)]
      BY <2>1, ConcatProperties
    <2>5. Len(p) + Len(q) = Len(s) - 1 /\ DOMAIN r = 1..(Len(s) - 1)
      <3>1. ASSUME NEW x, NEW y, x = k - 1, y = Len(s) - k PROVE x + y = Len(s) - 1
        BY <1>1, <3>1
      <3>2. Len(p) + Len(q) = Len(s) - 1
        BY <2>1, <3>1
      <3>3. DOMAIN r = 1..Len(r)
        BY <2>4
      <3> QED
        BY <2>4, <3>2, <3>3
    <2>6. ASSUME NEW i \in 1..(Len(s) - 1) PROVE r[i] = IF i < k THEN s[i] ELSE s[i + 1]
      <3>1. CASE i < k
        <4>1. i \in 1..(k - 1) /\ i <= k - 1
          BY <1>1, <3>1
        <4>2. r[i] = p[i]
          BY <2>1, <2>4, <2>5, <4>1
        <4> QED
          BY <2>2, <3>1, <4>1, <4>2
      <3>2. CASE ~(i < k)
        <4>1. i - Len(p) \in 1..(Len(s) - k) /\ (i - Len(p)) + k = i + 1 /\ ~(i <= Len(p))
          BY <1>1, <2>1, <3>2
        <4> QED
          BY <2>3, <2>4, <2>5, <3>2, <4>1
      <3> QED
        BY <3>1, <3>2
    <2> QED
      BY <2>4, <2>5, <2>6
  <1> HIDE DEF r
  <1> DEFINE f(i) == IF i < k THEN i ELSE i + 1
  <1>5. \A i \in DOMAIN r : f(i) \in DOMAIN s /\ f(i) # k /\ r[i] = s[f(i)] /\ i \in Nat
    BY <1>1, <1>4
  <1>6. \A i, j \in Nat : f(i) = f(j) => i = j
    BY <1>1
  <1>7. ASSUME NEW j \in DOMAIN s, j # k PROVE \E i \in DOMAIN r : f(i) = j
    <2>1. CASE j < k
      BY <1>1, <1>4, <2>1
    <2>2. CASE j > k
      <3>1. j - 1 \in DOMAIN r /\ f(j - 1) = j
        BY <1>1, <1>4, <2>2
      <3> QED
        BY <3>1
    <2> QED
      BY <1>1, <1>7, <2>1, <2>2
  <1> HIDE DEF f
  <1>8. Once(r)
    BY <1>5, <1>6 DEF Once
  <1>9. ToSet(r) = ToSet(s) \ {s[k]}
    <2>1. ToSet(r) \subseteq ToSet(s) \ {s[k]}
      BY <1>5 DEF ToSet, Once
    <2>2. ToSet(s) \ {s[k]} \subseteq ToSet(r)
      BY <1>5, <1>7 DEF ToSet
    <2> QED
      BY <2>1, <2>2
  <1> QED
    BY <1>4, <1>8, <1>9 DEF r
-----------------------------------------------------------------------------
(* Steps of one actor *)

LEMMA Kinds ==
    /\ \A a \in Senders : a \in Actors /\ a # Driver /\ a \notin QueueThreads
    /\ \A t \in QueueThreads : t \in Actors /\ t # Driver /\ t \notin Senders
    /\ Driver \in Actors /\ Driver \notin Senders /\ Driver \notin QueueThreads
    /\ \A a \in Actors : a \in Senders \/ a \in QueueThreads \/ a = Driver
  BY CommsAssumption DEF Actors

LEMMA PcMove ==
    ASSUME TypeOK, NEW a \in Actors, NEW p, pc' = [pc EXCEPT ![a] = p]
    PROVE  pc'[a] = p /\ (\A b \in Actors : b # a => pc'[b] = pc[b]) /\ pc' = [b \in Actors |-> pc'[b]]
  BY DEF TypeOK, PointsOK

LEMMA InsideMove ==
    ASSUME TypeOK, NEW a \in Actors, NEW p, pc' = [pc EXCEPT ![a] = p]
    PROVE  /\ NInside \in Nat
           /\ a \notin Senders \/ (pc[a] \in Under /\ p \in Under) =>
                  Calls' = Calls /\ Inside' = Inside /\ NInside' = NInside
           /\ a \in Senders /\ pc[a] \notin Under /\ p \notin Under => Inside' = Inside /\ NInside' = NInside
           /\ a \in Senders /\ pc[a] \notin Under /\ p \in Under => NInside' = NInside + 1
           /\ a \in Senders /\ pc[a] \in Under /\ p \notin Under => NInside' = NInside - 1 /\ NInside >= 1
  <1>1. pc'[a] = p /\ \A b \in Senders : b # a => pc'[b] = pc[b]
    BY PcMove, Kinds
  <1>2. IsFiniteSet(Inside) /\ NInside \in Nat
    <2>1. IsFiniteSet(Inside)
      BY CommsAssumption, FS_Subset DEF Inside
    <2> QED
      BY <2>1, FS_CardinalityType DEF NInside
  <1>3. ASSUME a \notin Senders \/ (pc[a] \in Under /\ p \in Under)
        PROVE  Calls' = Calls /\ Inside' = Inside /\ NInside' = NInside
    <2>1. Inside' = Inside
      BY <1>1, <1>3 DEF Inside
    <2>2. Calls' = Calls
      BY <1>1, <1>3 DEF Calls, Under
    <2> QED
      BY <2>1, <2>2 DEF NInside
  <1>6. ASSUME a \in Senders, pc[a] \notin Under, p \notin Under PROVE Inside' = Inside /\ NInside' = NInside
    <2>1. Inside' = Inside
      BY <1>1, <1>6 DEF Inside
    <2> QED
      BY <2>1 DEF NInside
  <1>4. ASSUME a \in Senders, pc[a] \notin Under, p \in Under PROVE NInside' = NInside + 1
    <2>1. Inside' = Inside \cup {a} /\ a \notin Inside
      BY <1>1, <1>4 DEF Inside
    <2> QED
      BY <1>2, <2>1, FS_AddElement DEF NInside
  <1>5. ASSUME a \in Senders, pc[a] \in Under, p \notin Under PROVE NInside' = NInside - 1 /\ NInside >= 1
    <2>1. Inside' = Inside \ {a} /\ a \in Inside
      BY <1>1, <1>5 DEF Inside
    <2>2. Cardinality(Inside \ {a}) = Cardinality(Inside) - 1 /\ IsFiniteSet(Inside \ {a})
      BY <1>2, <2>1, FS_RemoveElement
    <2>3. Cardinality(Inside \ {a}) \in Nat
      BY <2>2, FS_CardinalityType
    <2> QED
      BY <1>2, <2>1, <2>2, <2>3 DEF NInside
  <1> QED
    BY <1>2, <1>3, <1>4, <1>5, <1>6

\* While a sender is inside the driver waits for it at the latest.
LEMMA SenderInside ==
    ASSUME IInv, NEW a \in Senders, pc[a] \in Under
    PROVE  pc[Driver] \in {"started", "wait rundown"} /\ port = "open"
  <1>1. a \in Inside
    BY DEF Inside
  <1> QED
    BY <1>1 DEF IInv, TypeOK, PointsOK, StopInv, Over, DriverPoints

LEMMA WalkStep ==
    ASSUME WalkInv, NEW a \in Actors, WalkOf(a)',
           \A b \in Actors : b # a => /\ pc'[b] = pc[b] /\ todo'[b] = todo[b] /\ item'[b] = item[b]
                                      /\ b \in sharing' <=> b \in sharing
    PROVE  WalkInv'
  <1> SUFFICES ASSUME NEW b \in Actors, b # a PROVE WalkOf(b)'
    BY DEF WalkInv
  <1>1. WalkOf(b)
    BY DEF WalkInv
  <1> QED
    BY <1>1 DEF WalkOf

LEMMA ClientsUnchanged ==
    ASSUME ClientInv, UNCHANGED <<list, refs, blocked, todo>> PROVE ClientInv'
  BY DEF ClientInv

LEMMA ClientsWalked ==
    ASSUME ClientInv, TypeOK, UNCHANGED <<list, refs, blocked>>, NEW a \in Actors, todo[a] # <<>>,
           todo' = [todo EXCEPT ![a] = Tail(todo[a])]
    PROVE  ClientInv' /\ todo' \in [Actors -> Seq(Clients)]
  <1>1. todo \in [Actors -> Seq(Clients)] /\ todo[a] \in Seq(Clients)
    BY DEF TypeOK
  <1>2. Tail(todo[a]) \in Seq(Clients) /\ ToSet(Tail(todo[a])) \subseteq ToSet(todo[a])
    BY <1>1, TailClients
  <1>3. todo' \in [Actors -> Seq(Clients)]
    BY <1>1, <1>2
  <1>4. ASSUME NEW b \in Actors PROVE ToSet(todo'[b]) \subseteq ToSet(list)
    <2>1. ToSet(todo[b]) \subseteq ToSet(list)
      BY DEF ClientInv
    <2>2. CASE b = a
      BY <1>1, <1>2, <2>1, <2>2
    <2>3. CASE b # a
      BY <1>1, <2>1, <2>3
    <2> QED
      BY <2>2, <2>3
  <1> QED
    BY <1>3, <1>4 DEF ClientInv

LEMMA PlacesUnchanged ==
    ASSUME PlaceInv, UNCHANGED <<queue, drained, item, msgs, freed>> PROVE PlaceInv'
  <1>1. WithActors' = WithActors /\ Freed' = Freed
    BY DEF WithActors, Freed
  <1>2. UniqueItems'
    BY DEF PlaceInv, UniqueItems
  <1> QED
    BY <1>1, <1>2 DEF PlaceInv

LEMMA SentUnchanged ==
    ASSUME SentInv, UNCHANGED <<sent, queue, drained, item, msgs>>,
           \A a \in Actors : /\ pc'[a] \in {"held", "insert", "lock"}
                              => pc[a] \in {"held", "insert", "lock"} \/ item[a] = NoItem
    PROVE  SentInv'
  BY DEF SentInv, MsgsOf

\* An actor gets a message, or gives up the one it has.
LEMMA ItemTaken ==
    ASSUME TypeOK, UniqueItems, NEW a \in Actors, item[a] = NoItem, NEW x \in Items,
           x.msg \notin WithActors, item' = [item EXCEPT ![a] = x]
    PROVE  UniqueItems' /\ WithActors' = WithActors \cup {x.msg} /\ item' \in [Actors -> Items \cup {NoItem}]
  <1>1. /\ item'[a] = x /\ (\A b \in Actors : b # a => item'[b] = item[b]) /\ x.msg \in Messages
        /\ item' \in [Actors -> Items \cup {NoItem}]
    BY DEF TypeOK, Items
  <1>2. \A b \in Actors : item[b].msg \in Messages \cup {0}
    BY DEF TypeOK, Items, NoItem
  <1>3. \A b \in Actors : item[b].msg # x.msg
    BY <1>1, <1>2 DEF WithActors
  <1>4. item[a].msg = 0 /\ 0 \notin Messages
    BY DEF NoItem, Messages
  <1>5. UniqueItems'
    BY <1>1, <1>3 DEF UniqueItems
  <1>6. WithActors' = WithActors \cup {x.msg}
    BY <1>1, <1>4 DEF WithActors
  <1> QED
    BY <1>1, <1>5, <1>6

LEMMA ItemGiven ==
    ASSUME TypeOK, UniqueItems, NEW a \in Actors, item' = [item EXCEPT ![a] = NoItem]
    PROVE  /\ UniqueItems' /\ item' \in [Actors -> Items \cup {NoItem}]
           /\ item[a] # NoItem => /\ item[a] \in Items /\ item[a].msg \in Messages
                                  /\ item[a].msg \in WithActors /\ WithActors' = WithActors \ {item[a].msg}
           /\ item[a] = NoItem => item' = item /\ WithActors' = WithActors
  <1>1. /\ item'[a] = NoItem /\ (\A b \in Actors : b # a => item'[b] = item[b])
        /\ item' \in [Actors -> Items \cup {NoItem}]
    BY DEF TypeOK
  <1>2. NoItem.msg = 0 /\ 0 \notin Messages
    BY DEF NoItem, Messages
  <1>3. UniqueItems'
    BY <1>1, <1>2 DEF UniqueItems
  <1>4. ASSUME item[a] # NoItem
        PROVE  /\ item[a] \in Items /\ item[a].msg \in Messages
               /\ item[a].msg \in WithActors /\ WithActors' = WithActors \ {item[a].msg}
    <2>1. item[a] \in Items /\ item[a].msg \in Messages
      BY <1>4 DEF TypeOK, Items
    <2>2. item[a].msg \in WithActors /\ item[a].msg # 0
      BY <1>2, <2>1 DEF WithActors
    <2>3. \A b \in Actors : item[b].msg = item[a].msg => b = a
      BY <2>2 DEF UniqueItems
    <2>4. WithActors' = WithActors \ {item[a].msg}
      BY <1>1, <1>2, <2>3 DEF WithActors
    <2> QED
      BY <2>1, <2>2, <2>4
  <1>5. ASSUME item[a] = NoItem PROVE item' = item /\ WithActors' = WithActors
    <2>1. item' = item
      BY <1>1, <1>5 DEF TypeOK
    <2> QED
      BY <2>1 DEF WithActors
  <1> QED
    BY <1>1, <1>3, <1>4, <1>5

LEMMA FreeOnce ==
    ASSUME TypeOK, PlaceInv, NEW m \in Messages, m \notin Freed, Free(m)
    PROVE  /\ freed' \in [Messages -> Nat] /\ Freed' = Freed \cup {m}
           /\ \A n \in Messages : freed'[n] \in {0, 1}
  <1>1. freed \in [Messages -> Nat] /\ freed[m] = 0 /\ \A n \in Messages : freed[n] \in {0, 1}
    BY DEF TypeOK, PlaceInv, Freed
  <1>2. freed' = [freed EXCEPT ![m] = 1]
    BY <1>1 DEF Free
  <1> QED
    BY <1>1, <1>2 DEF Freed

\* A message that is allocated is in no place yet.
LEMMA NewMessage ==
    ASSUME TypeOK, PlaceInv, SentInv, msgs < MaxMessages, msgs' = msgs + 1
    PROVE  /\ msgs + 1 \in Messages /\ msgs' \in 0..MaxMessages /\ 1..msgs' = (1..msgs) \cup {msgs + 1}
           /\ msgs + 1 \notin MsgsOf(queue) /\ msgs + 1 \notin MsgsOf(drained)
           /\ msgs + 1 \notin WithActors /\ msgs + 1 \notin Freed /\ sent[msgs + 1] = 0
           /\ \A m \in Messages : m > msgs' => m > msgs
  <1>1. msgs \in 0..MaxMessages /\ MaxMessages \in Nat
    BY CommsAssumption DEF TypeOK
  <1>2. msgs + 1 \in Messages /\ msgs' \in 0..MaxMessages /\ msgs + 1 \notin 1..msgs /\ msgs + 1 > msgs
    BY <1>1 DEF Messages
  <1>3. 1..(msgs + 1) = (1..msgs) \cup {msgs + 1}
    BY <1>1
  <1>4. sent[msgs + 1] = 0
    BY <1>2 DEF SentInv
  <1>5. \A m \in Messages : m > msgs + 1 => m > msgs
    BY <1>1 DEF Messages
  <1> QED
    BY <1>2, <1>3, <1>4, <1>5 DEF PlaceInv

\* An actor moves to another point of its kind.
LEMMA PointMove ==
    ASSUME TypeOK, NEW a \in Actors, NEW p, pc' = [pc EXCEPT ![a] = p],
           a \in Senders => p \in SenderPoints, a \in QueueThreads => p \in ThreadPoints,
           a = Driver => p \in DriverPoints
    PROVE  PointsOK'
  <1>1. pc'[a] = p /\ (\A b \in Actors : b # a => pc'[b] = pc[b]) /\ pc' = [b \in Actors |-> pc'[b]]
    BY PcMove
  <1>2. PointsOK
    BY DEF TypeOK
  <1> QED
    BY <1>1, <1>2, Kinds DEF PointsOK

After(a) == IF a \in Senders THEN "release" ELSE IF a \in QueueThreads THEN "remove" ELSE "drain"

\* An actor in KphpCommsSendMessage goes on there or returns.
LEMMA WalkerMove ==
    ASSUME IInv, NEW a \in Actors, NEW p, pc' = [pc EXCEPT ![a] = p], pc[a] \in {"lock", "visit", "wait"},
           p \in {"visit", "wait", After(a)}, UNCHANGED <<port, rundown, abandoned, queue, drained>>
    PROVE  PointsOK' /\ StopInv'
  <1>1. pc'[a] = p /\ (\A b \in Actors : b # a => pc'[b] = pc[b])
    BY PcMove DEF IInv
  <1>2. PointsOK'
    BY PointMove, Kinds DEF IInv, After, SenderPoints, ThreadPoints, DriverPoints
  <1>3. CASE a \in Senders
    <2>1. pc[Driver] \in {"started", "wait rundown"} /\ port = "open" /\ pc'[Driver] = pc[Driver]
      BY <1>1, <1>3, SenderInside, Kinds DEF Under
    <2>2. Calls' = Calls /\ Inside' = Inside /\ NInside' = NInside
      BY <1>3, InsideMove DEF IInv, After, Under
    <2> QED
      BY <1>2, <2>1, <2>2 DEF IInv, StopInv, Over, Joined
  <1>4. CASE a \in QueueThreads
    <2>1. Calls' = Calls /\ Inside' = Inside /\ NInside' = NInside /\ pc'[Driver] = pc[Driver]
      BY <1>1, <1>4, InsideMove, Kinds DEF IInv
    <2>2. port # "none" /\ pc[Driver] \notin Joined /\ pc[Driver] # "unregistered"
      BY <1>4 DEF IInv, StopInv, Joined
    <2> QED
      BY <1>2, <2>1, <2>2 DEF IInv, StopInv
  <1>5. CASE a = Driver
    <2>1. Calls' = Calls /\ Inside' = Inside /\ NInside' = NInside /\ pc'[Driver] = p /\ p \in {"visit", "wait", "drain"}
      BY <1>1, <1>5, InsideMove, Kinds DEF IInv, After
    <2>2. \A t \in QueueThreads : pc'[t] = pc[t]
      BY <1>1, <1>5, Kinds
    <2> QED
      BY <1>2, <1>5, <2>1, <2>2 DEF IInv, StopInv, Over, Joined
  <1> QED
    BY <1>3, <1>4, <1>5, Kinds
-----------------------------------------------------------------------------
(* KphpCommsSendMessage *)

LEMMA LockSharedStep == ASSUME IInv, NEW a \in Actors, LockShared(a) PROVE IInv'
  <1> USE DEF IInv
  <1>1. /\ pc[a] = "lock" /\ pc' = [pc EXCEPT ![a] = "visit"] /\ sharing' = sharing \cup {a}
        /\ todo' = [todo EXCEPT ![a] = list]
        /\ UNCHANGED <<port, rundown, abandoned, queue, drained, blocked, list, refs, item, msgs, freed>>
        /\ sent' = [sent EXCEPT ![item[a].msg] = @ + 1]
    BY DEF LockShared, Goto, driverVars
  <1>2. pc'[a] = "visit" /\ \A b \in Actors : b # a => pc'[b] = pc[b]
    BY <1>1, PcMove
  <1>3. PointsOK' /\ StopInv'
    BY <1>1, WalkerMove
  <1>4. /\ todo' \in [Actors -> Seq(Clients)] /\ todo'[a] = list
        /\ \A b \in Actors : b # a => todo'[b] = todo[b]
    BY <1>1 DEF TypeOK
  <1>5. WalkInv'
    <2>1. WalkOf(a)
      BY DEF WalkInv
    <2>2. WalkOf(a)'
      BY <1>1, <1>2, <2>1 DEF WalkOf
    <2> QED
      BY <1>1, <1>2, <1>4, <2>2, WalkStep
  <1>6. ClientInv'
    BY <1>1, <1>4 DEF ClientInv
  <1>7. PlaceInv'
    BY <1>1, PlacesUnchanged
  <1>8. sent' \in [Messages -> Nat] /\ SentInv'
    <2> DEFINE m == item[a].msg
    <2>1. item[a] # NoItem
      BY <1>1 DEF WalkInv, WalkOf
    <2>2. m \in Messages /\ m # 0
      BY <2>1 DEF TypeOK, Items, Messages
    <2>3. m \in WithActors
      BY <2>2 DEF WithActors
    <2>4. sent \in [Messages -> Nat] /\ sent[m] = 0 /\ sent' = [sent EXCEPT ![m] = 1]
      <3>1. sent \in [Messages -> Nat] /\ sent[m] = 0
        BY <1>1, <2>1 DEF TypeOK, SentInv
      <3>2. sent' = [sent EXCEPT ![m] = sent[m] + 1]
        BY <1>1
      <3> QED
        BY <3>1, <3>2
    <2>5. m \notin MsgsOf(queue) /\ m \notin MsgsOf(drained) /\ m \in 1..msgs
      BY <2>3 DEF PlaceInv
    <2>6. ~(m > msgs)
      BY <2>5 DEF TypeOK
    <2>7. \A b \in Actors : b # a => item[b].msg # m
      BY <2>2 DEF PlaceInv, UniqueItems
    <2>8. \A b \in Actors : item[b] # NoItem => item[b].msg \in Messages
      BY DEF TypeOK, Items
    <2>9. \A n \in Messages : sent'[n] = IF n = m THEN 1 ELSE sent[n]
      BY <2>4
    <2> HIDE DEF m
    <2>10. \A n \in Messages : sent'[n] \in {0, 1}
      BY <2>9 DEF SentInv
    <2>11. \A n \in Messages : n > msgs' \/ n \in MsgsOf(queue') \/ n \in MsgsOf(drained') => sent'[n] = 0
      BY <1>1, <2>5, <2>6, <2>9 DEF SentInv
    <2>12. \A b \in Actors : item'[b] # NoItem /\ pc'[b] \in {"held", "insert", "lock"} => sent'[item'[b].msg] = 0
      BY <1>1, <1>2, <2>7, <2>8, <2>9 DEF SentInv
    <2> QED
      BY <2>2, <2>4, <2>10, <2>11, <2>12 DEF SentInv
  <1>9. sharing' \in SUBSET Actors
    BY <1>1 DEF TypeOK
  <1>10. TypeOK'
    BY <1>1, <1>3, <1>4, <1>8, <1>9 DEF TypeOK
  <1> QED
    BY <1>3, <1>5, <1>6, <1>7, <1>8, <1>10

LEMMA SkipClientStep == ASSUME IInv, NEW a \in Actors, SkipClient(a) PROVE IInv'
  <1> USE DEF IInv
  <1>1. /\ pc[a] = "visit" /\ todo[a] # <<>> /\ todo' = [todo EXCEPT ![a] = Tail(todo[a])]
        /\ UNCHANGED <<port, rundown, abandoned, queue, drained, sharing, blocked, list, refs, item, pc, msgs,
                       sent, freed>>
    BY DEF SkipClient, Next1, driverVars, clientVars, messageVars
  <1>2. ClientInv' /\ todo' \in [Actors -> Seq(Clients)]
    BY <1>1, ClientsWalked
  <1>3. \A b \in Actors : b # a => todo'[b] = todo[b]
    BY <1>1 DEF TypeOK
  <1>4. WalkInv'
    <2>1. WalkOf(a)
      BY DEF WalkInv
    <2>2. WalkOf(a)'
      BY <1>1, <2>1 DEF WalkOf
    <2> QED
      BY <1>1, <1>3, <2>2, WalkStep
  <1>5. PlaceInv'
    BY <1>1, PlacesUnchanged
  <1>6. SentInv'
    BY <1>1, SentUnchanged
  <1>7. StopInv'
    BY <1>1 DEF StopInv, NInside, Inside, Calls
  <1>8. TypeOK'
    BY <1>1, <1>2 DEF TypeOK, PointsOK
  <1> QED
    BY <1>2, <1>4, <1>5, <1>6, <1>7, <1>8

LEMMA FltSendMessageStep == ASSUME IInv, NEW a \in Actors, FltSendMessage(a) PROVE IInv'
  <1> USE DEF IInv
  <1>1. /\ pc[a] = "visit" /\ todo[a] # <<>> /\ pc' = [pc EXCEPT ![a] = "wait"]
        /\ UNCHANGED <<port, rundown, abandoned, queue, drained, sharing, blocked, list, refs, item, todo, msgs,
                       sent, freed>>
    BY DEF FltSendMessage, Goto, driverVars, clientVars, messageVars, sendVars
  <1>2. pc'[a] = "wait" /\ \A b \in Actors : b # a => pc'[b] = pc[b]
    BY <1>1, PcMove
  <1>3. PointsOK' /\ StopInv'
    BY <1>1, WalkerMove
  <1>4. WalkInv'
    <2>1. WalkOf(a)
      BY DEF WalkInv
    <2>2. WalkOf(a)'
      BY <1>1, <1>2, <2>1 DEF WalkOf
    <2> QED
      BY <1>1, <1>2, <2>2, WalkStep
  <1>5. PlaceInv' /\ ClientInv'
    BY <1>1, PlacesUnchanged, ClientsUnchanged
  <1>6. SentInv'
    BY <1>1, <1>2, SentUnchanged
  <1>7. TypeOK'
    BY <1>1, <1>3 DEF TypeOK
  <1> QED
    BY <1>3, <1>4, <1>5, <1>6, <1>7

LEMMA AnswerStep == ASSUME IInv, NEW a \in Actors, Replied(a) \/ NotReplied(a) PROVE IInv'
  <1> USE DEF IInv
  <1>1. /\ pc[a] = "wait" /\ pc' = [pc EXCEPT ![a] = "visit"] /\ todo' = [todo EXCEPT ![a] = Tail(todo[a])]
        /\ UNCHANGED <<port, rundown, abandoned, queue, drained, sharing, blocked, list, refs, item, msgs,
                       sent, freed>>
    BY DEF Replied, NotReplied, Next1, Goto, driverVars, clientVars, messageVars
  <1>2. pc'[a] = "visit" /\ \A b \in Actors : b # a => pc'[b] = pc[b]
    BY <1>1, PcMove
  <1>3. PointsOK' /\ StopInv'
    BY <1>1, WalkerMove
  <1>4. WalkOf(a)
    BY DEF WalkInv
  <1>5. ClientInv' /\ todo' \in [Actors -> Seq(Clients)]
    BY <1>1, <1>4, ClientsWalked DEF WalkOf
  <1>6. \A b \in Actors : b # a => todo'[b] = todo[b]
    BY <1>1 DEF TypeOK
  <1>7. WalkInv'
    <2>1. WalkOf(a)'
      BY <1>1, <1>2, <1>4 DEF WalkOf
    <2> QED
      BY <1>1, <1>2, <1>6, <2>1, WalkStep
  <1>8. PlaceInv'
    BY <1>1, PlacesUnchanged
  <1>9. SentInv'
    BY <1>1, <1>2, SentUnchanged
  <1>10. TypeOK'
    BY <1>1, <1>3, <1>5 DEF TypeOK
  <1> QED
    BY <1>3, <1>5, <1>7, <1>8, <1>9, <1>10

LEMMA ReturnStep == ASSUME IInv, NEW a \in Actors, Return(a) PROVE IInv'
  <1> USE DEF IInv
  <1>1. /\ pc[a] = "visit" /\ todo[a] = <<>> /\ sharing' = sharing \ {a}
        /\ a \in Senders => UNCHANGED <<item, freed>>
        /\ a \notin Senders => item' = [item EXCEPT ![a] = NoItem] /\ Free(item[a].msg)
        /\ UNCHANGED <<port, rundown, abandoned, queue, drained, blocked, list, refs, todo, msgs, sent>>
    BY DEF Return, driverVars
  <1>2. pc' = [pc EXCEPT ![a] = After(a)]
    BY Kinds DEF Return, Goto, After
  <1>3. pc'[a] = After(a) /\ \A b \in Actors : b # a => pc'[b] = pc[b]
    BY <1>2, PcMove
  <1>4. PointsOK' /\ StopInv'
    BY <1>1, <1>2, WalkerMove
  <1>5. WalkOf(a) /\ After(a) \in {"release", "remove", "drain"} /\ (a \in Senders => After(a) = "release")
    BY DEF WalkInv, After
  <1>6. (a \notin Senders => item'[a] = NoItem) /\ \A b \in Actors : b # a => item'[b] = item[b]
    BY <1>1 DEF TypeOK
  <1>7. WalkInv'
    <2>1. WalkOf(a)'
      BY <1>1, <1>3, <1>5, <1>6 DEF WalkOf
    <2> QED
      BY <1>1, <1>3, <1>6, <2>1, WalkStep
  <1>8. ClientInv'
    BY <1>1, ClientsUnchanged
  <1>9. PlaceInv' /\ freed' \in [Messages -> Nat] /\ item' \in [Actors -> Items \cup {NoItem}]
    <2>1. CASE a \in Senders
      BY <1>1, <2>1, PlacesUnchanged DEF TypeOK
    <2>2. CASE a \notin Senders
      <3> DEFINE m == item[a].msg
      <3>1. item[a] # NoItem /\ Free(m) /\ item' = [item EXCEPT ![a] = NoItem]
        BY <1>1, <1>5, <2>2 DEF WalkOf
      <3>2. /\ UniqueItems' /\ item' \in [Actors -> Items \cup {NoItem}]
            /\ m \in Messages /\ m \in WithActors /\ WithActors' = WithActors \ {m}
        BY <3>1, ItemGiven DEF PlaceInv
      <3>3. m \notin Freed
        BY <3>2 DEF PlaceInv
      <3> HIDE DEF m
      <3>4. freed' \in [Messages -> Nat] /\ Freed' = Freed \cup {m} /\ \A n \in Messages : freed'[n] \in {0, 1}
        BY <3>1, <3>2, <3>3, FreeOnce
      <3>5. PlaceInv'
        BY <1>1, <3>2, <3>3, <3>4 DEF PlaceInv
      <3> QED
        BY <3>2, <3>4, <3>5
    <2> QED
      BY <2>1, <2>2
  <1>10. SentInv'
    BY <1>1, <1>3, <1>5, <1>6 DEF SentInv
  <1>11. TypeOK'
    BY <1>1, <1>4, <1>9 DEF TypeOK
  <1> QED
    BY <1>4, <1>7, <1>8, <1>9, <1>10, <1>11

\* A message is put in the queue.
LEMMA QueueGrows ==
    ASSUME IInv, NEW x \in Items, x.msg \notin MsgsOf(queue), queue' = Append(queue, x),
           ~abandoned, port # "none", UNCHANGED <<port, abandoned, drained, rundown.down>>,
           pc'[Driver] = pc[Driver], \A t \in QueueThreads : pc'[t] = pc[t], rundown'.refs = NInside'
    PROVE  StopInv'
  <1>1. pc[Driver] \notin Over
    BY DEF IInv, StopInv
  <1>2. pc[Driver] \notin Joined /\ pc[Driver] \notin {"closed", "unregistered", "failed"}
    BY <1>1 DEF Over, Joined
  <1> QED
    BY <1>1, <1>2 DEF IInv, StopInv

LEMMA ForceAsyncStep == ASSUME IInv, NEW a \in Actors, ForceAsync(a) PROVE IInv'
  <1> USE DEF IInv
  <1> DEFINE m == msgs + 1
             x == Item(m, a)
  <1>1. /\ pc[a] = "visit" /\ todo[a] # <<>> /\ todo' = [todo EXCEPT ![a] = Tail(todo[a])]
        /\ Head(todo[a]) = a /\ msgs < MaxMessages /\ msgs' = m
        /\ UNCHANGED <<port, rundown, abandoned, drained, sharing, blocked, list, refs, item, pc, sent>>
    BY DEF ForceAsync, Next1, driverVars, clientVars
  <1>2. \/ ~rundown.down /\ queue' = Append(queue, x) /\ UNCHANGED freed
        \/ Free(m) /\ UNCHANGED queue
    BY DEF ForceAsync, Refused
  <1>3. ClientInv' /\ todo' \in [Actors -> Seq(Clients)]
    BY <1>1, ClientsWalked
  <1>4. \A b \in Actors : b # a => todo'[b] = todo[b]
    BY <1>1 DEF TypeOK
  <1>5. WalkInv'
    <2>1. WalkOf(a)
      BY DEF WalkInv
    <2>2. WalkOf(a)'
      BY <1>1, <2>1 DEF WalkOf
    <2> QED
      BY <1>1, <1>4, <2>2, WalkStep
  <1>6. /\ m \in Messages /\ msgs' \in 0..MaxMessages /\ 1..msgs' = (1..msgs) \cup {m}
        /\ m \notin MsgsOf(queue) /\ m \notin MsgsOf(drained) /\ m \notin WithActors /\ m \notin Freed
        /\ sent[m] = 0 /\ \A n \in Messages : n > msgs' => n > msgs
    BY <1>1, NewMessage
  <1>7. x \in Items /\ x.msg = m
    <2>1. a \in Clients
      BY <1>1, TailClients DEF TypeOK
    <2> QED
      BY <1>6, <2>1 DEF Item, Items
  <1>8. WithActors' = WithActors /\ UniqueItems'
    BY <1>1 DEF PlaceInv, UniqueItems, WithActors
  <1>9. Calls' = Calls /\ NInside' = NInside /\ Inside' = Inside
    BY <1>1 DEF NInside, Inside, Calls
  <1> HIDE DEF m, x
  <1>10. CASE ~rundown.down /\ queue' = Append(queue, x) /\ UNCHANGED freed
    <2>1. queue' \in Seq(Items) /\ Distinct(queue') /\ MsgsOf(queue') = MsgsOf(queue) \cup {m}
      BY <1>6, <1>7, <1>10, AppendItems DEF TypeOK, PlaceInv
    <2>2. Freed' = Freed
      BY <1>10 DEF Freed
    <2>3. PlaceInv'
      BY <1>1, <1>6, <1>8, <1>10, <2>1, <2>2 DEF PlaceInv
    <2>4. SentInv'
      BY <1>1, <1>6, <2>1 DEF SentInv
    <2>5. port # "none" /\ ~abandoned
      <3>1. CASE a \in Senders
        BY <1>1, <3>1, SenderInside DEF StopInv, Over, Under
      <3>2. CASE a \in QueueThreads
        BY <1>1, <1>10, <3>2 DEF StopInv
      <3>3. CASE a = Driver
        BY <1>1, <1>10, <3>3 DEF StopInv, Over
      <3> QED
        BY <3>1, <3>2, <3>3, Kinds
    <2>6. StopInv'
      BY <1>1, <1>6, <1>7, <1>9, <1>10, <2>5, QueueGrows DEF StopInv
    <2>7. TypeOK'
      BY <1>1, <1>3, <1>6, <1>10, <2>1 DEF TypeOK, PointsOK
    <2> QED
      BY <1>3, <1>5, <2>3, <2>4, <2>6, <2>7
  <1>11. CASE Free(m) /\ UNCHANGED queue
    <2>1. freed' \in [Messages -> Nat] /\ Freed' = Freed \cup {m} /\ \A n \in Messages : freed'[n] \in {0, 1}
      BY <1>6, <1>11, FreeOnce
    <2>2. PlaceInv'
      BY <1>1, <1>6, <1>8, <1>11, <2>1 DEF PlaceInv
    <2>3. SentInv'
      BY <1>1, <1>6, <1>11 DEF SentInv
    <2>4. StopInv'
      BY <1>1, <1>9, <1>11 DEF StopInv
    <2>5. TypeOK'
      BY <1>1, <1>3, <1>6, <1>11, <2>1 DEF TypeOK, PointsOK
    <2> QED
      BY <1>3, <1>5, <2>2, <2>3, <2>4, <2>5
  <1> QED
    BY <1>2, <1>10, <1>11
-----------------------------------------------------------------------------
(* Senders *)

LEMMA RefsSet ==
    ASSUME NEW r \in [refs : Nat, down : BOOLEAN], NEW n \in Nat, NEW s, s = [r EXCEPT !.refs = n]
    PROVE  s \in [refs : Nat, down : BOOLEAN] /\ s.refs = n /\ s.down = r.down
  OBVIOUS

LEMMA RundownCounts ==
    ASSUME IInv PROVE rundown.refs = NInside /\ rundown \in [refs : Nat, down : BOOLEAN] /\ NInside \in Nat
  <1>1. rundown.refs = NInside
    BY DEF IInv, StopInv
  <1>2. rundown \in [refs : Nat, down : BOOLEAN]
    BY DEF IInv, TypeOK
  <1> QED
    BY <1>1, <1>2

\* A sender without a rundown reference moves to a point that needs none.
LEMMA OutsideMove ==
    ASSUME IInv, NEW a \in Senders, NEW p \in SenderPoints, pc' = [pc EXCEPT ![a] = p],
           pc[a] \notin Under, p \notin Under, pc[Driver] # "unregistered", port # "none",
           UNCHANGED <<port, rundown, abandoned, queue, drained>>
    PROVE  /\ PointsOK' /\ StopInv' /\ a \in Actors /\ pc'[a] = p
           /\ \A b \in Actors : b # a => pc'[b] = pc[b]
  <1>1. a \in Actors /\ a # Driver /\ a \notin QueueThreads
    BY Kinds
  <1>2. pc'[a] = p /\ \A b \in Actors : b # a => pc'[b] = pc[b]
    BY <1>1, PcMove DEF IInv
  <1>3. PointsOK'
    BY <1>1, PointMove DEF IInv
  <1>4. Inside' = Inside /\ NInside' = NInside
    BY <1>1, InsideMove DEF IInv
  <1>5. pc'[Driver] = pc[Driver] /\ \A t \in QueueThreads : pc'[t] = pc[t]
    BY <1>1, <1>2, Kinds
  <1>6. StopInv'
    BY <1>4, <1>5 DEF IInv, StopInv
  <1> QED
    BY <1>1, <1>2, <1>3, <1>6

\* The port was created and FltUnregisterFilter has not returned while a callback runs.
LEMMA StillRegistered ==
    ASSUME IInv, NEW a \in Senders, pc[a] # "idle" PROVE pc[Driver] # "unregistered" /\ port # "none"
  <1>1. a \in Calls
    BY DEF Calls
  <1> QED
    BY <1>1 DEF IInv, StopInv

LEMMA InformerEnabledStep == ASSUME IInv, NEW a \in Senders, InformerEnabled(a) PROVE IInv'
  <1> USE DEF IInv
  <1>1. /\ pc[a] = "idle" /\ port # "none" /\ pc[Driver] # "unregistered" /\ pc' = [pc EXCEPT ![a] = "look lock"]
        /\ UNCHANGED <<port, rundown, abandoned, queue, drained, sharing, blocked, list, refs, item, todo, msgs,
                       sent, freed>>
    BY DEF InformerEnabled, Filtering, Goto, driverVars, messageVars, sendVars
  <1>2. /\ PointsOK' /\ StopInv' /\ a \in Actors /\ pc'[a] = "look lock"
        /\ \A b \in Actors : b # a => pc'[b] = pc[b]
    BY <1>1, OutsideMove DEF SenderPoints, Under
  <1>3. ClientInv' /\ PlaceInv'
    BY <1>1, ClientsUnchanged, PlacesUnchanged
  <1>4. WalkInv'
    <2>1. WalkOf(a)
      BY <1>2 DEF WalkInv
    <2>2. WalkOf(a)'
      BY <1>1, <1>2, <2>1 DEF WalkOf
    <2> QED
      BY <1>1, <1>2, <2>2, WalkStep
  <1>5. SentInv'
    BY <1>1, <1>2, SentUnchanged
  <1>6. TypeOK'
    BY <1>1, <1>2 DEF TypeOK
  <1> QED
    BY <1>2, <1>3, <1>4, <1>5, <1>6

LEMMA LookSharedStep == ASSUME IInv, NEW a \in Senders, LookShared(a) PROVE IInv'
  <1> USE DEF IInv
  <1>1. /\ pc[a] = "look lock" /\ pc' = [pc EXCEPT ![a] = "look"] /\ sharing' = sharing \cup {a}
        /\ todo' = [todo EXCEPT ![a] = list]
        /\ UNCHANGED <<port, rundown, abandoned, queue, drained, blocked, list, refs, item, msgs, sent, freed>>
    BY DEF LookShared, Goto, driverVars, messageVars
  <1>2. /\ PointsOK' /\ StopInv' /\ a \in Actors /\ pc'[a] = "look"
        /\ \A b \in Actors : b # a => pc'[b] = pc[b]
    BY <1>1, OutsideMove, StillRegistered DEF SenderPoints, Under
  <1>3. /\ todo' \in [Actors -> Seq(Clients)] /\ todo'[a] = list
        /\ \A b \in Actors : b # a => todo'[b] = todo[b]
    BY <1>1, <1>2 DEF TypeOK
  <1>4. WalkInv'
    <2>1. WalkOf(a)
      BY <1>2 DEF WalkInv
    <2>2. WalkOf(a)'
      BY <1>1, <1>2, <2>1 DEF WalkOf
    <2> QED
      BY <1>1, <1>2, <1>3, <2>2, WalkStep
  <1>5. ClientInv'
    BY <1>1, <1>3 DEF ClientInv
  <1>6. PlaceInv'
    BY <1>1, PlacesUnchanged
  <1>7. SentInv'
    BY <1>1, <1>2, SentUnchanged
  <1>8. sharing' \in SUBSET Actors
    BY <1>1, <1>2 DEF TypeOK
  <1>9. TypeOK'
    BY <1>1, <1>2, <1>3, <1>8 DEF TypeOK
  <1> QED
    BY <1>2, <1>4, <1>5, <1>6, <1>7, <1>9

LEMMA LookDoneStep == ASSUME IInv, NEW a \in Senders, LookDone(a) PROVE IInv'
  <1> USE DEF IInv
  <1>1. /\ pc[a] = "look" /\ pc' = [pc EXCEPT ![a] = "idle"] /\ sharing' = sharing \ {a}
        /\ todo' = [todo EXCEPT ![a] = <<>>]
        /\ UNCHANGED <<port, rundown, abandoned, queue, drained, blocked, list, refs, item, msgs, sent, freed>>
    BY DEF LookDone, Goto, driverVars, messageVars
  <1>2. /\ PointsOK' /\ StopInv' /\ a \in Actors /\ pc'[a] = "idle"
        /\ \A b \in Actors : b # a => pc'[b] = pc[b]
    BY <1>1, OutsideMove, StillRegistered DEF SenderPoints, Under
  <1>3. /\ todo' \in [Actors -> Seq(Clients)] /\ todo'[a] = <<>>
        /\ \A b \in Actors : b # a => todo'[b] = todo[b]
    BY <1>1, <1>2 DEF TypeOK
  <1>4. WalkInv'
    <2>1. WalkOf(a)
      BY <1>2 DEF WalkInv
    <2>2. WalkOf(a)'
      BY <1>1, <1>2, <1>3, <2>1 DEF WalkOf
    <2> QED
      BY <1>1, <1>2, <1>3, <2>2, WalkStep
  <1>5. ClientInv'
    <2>1. ToSet(<<>>) = {}
      BY DEF ToSet
    <2>2. \A b \in Actors : ToSet(todo'[b]) \subseteq ToSet(list)
      BY <1>3, <2>1 DEF ClientInv
    <2> QED
      BY <1>1, <2>2 DEF ClientInv
  <1>6. PlaceInv'
    BY <1>1, PlacesUnchanged
  <1>7. SentInv'
    BY <1>1, <1>2, SentUnchanged
  <1>8. sharing' \in SUBSET Actors
    BY <1>1 DEF TypeOK
  <1>9. TypeOK'
    BY <1>1, <1>2, <1>3, <1>8 DEF TypeOK
  <1> QED
    BY <1>2, <1>4, <1>5, <1>6, <1>7, <1>9

LEMMA AllocateMessageStep == ASSUME IInv, NEW a \in Senders, AllocateMessage(a) PROVE IInv'
  <1> USE DEF IInv
  <1> DEFINE m == msgs + 1
             x == Item(m, NULL)
  <1>1. /\ pc[a] = "idle" /\ port # "none" /\ pc[Driver] # "unregistered" /\ msgs < MaxMessages /\ msgs' = m
        /\ item' = [item EXCEPT ![a] = x] /\ pc' = [pc EXCEPT ![a] = "held"]
        /\ UNCHANGED <<port, rundown, abandoned, drained, queue, sharing, blocked, list, refs, todo, sent, freed>>
    BY DEF AllocateMessage, Filtering, Goto, driverVars, clientVars
  <1>2. /\ m \in Messages /\ msgs' \in 0..MaxMessages /\ 1..msgs' = (1..msgs) \cup {m}
        /\ m \notin MsgsOf(queue) /\ m \notin MsgsOf(drained) /\ m \notin WithActors /\ m \notin Freed
        /\ sent[m] = 0 /\ \A n \in Messages : n > msgs' => n > msgs
    BY <1>1, NewMessage
  <1>3. x \in Items /\ x.msg = m /\ x # NoItem
    BY <1>2 DEF Item, Items, NoItem, Messages
  <1> HIDE DEF m, x
  <1>4. /\ PointsOK' /\ StopInv' /\ a \in Actors /\ pc'[a] = "held"
        /\ \A b \in Actors : b # a => pc'[b] = pc[b]
    BY <1>1, OutsideMove DEF SenderPoints, Under
  <1>5. WalkOf(a) /\ item[a] = NoItem
    BY <1>1, <1>4 DEF WalkInv, WalkOf
  <1>6. item'[a] = x /\ \A b \in Actors : b # a => item'[b] = item[b]
    BY <1>1, <1>4 DEF TypeOK
  <1>7. UniqueItems' /\ WithActors' = WithActors \cup {m} /\ item' \in [Actors -> Items \cup {NoItem}]
    BY <1>1, <1>2, <1>3, <1>4, <1>5, ItemTaken DEF PlaceInv
  <1>8. Freed' = Freed
    BY <1>1 DEF Freed
  <1>9. PlaceInv'
    BY <1>1, <1>2, <1>7, <1>8 DEF PlaceInv
  <1>10. SentInv'
    BY <1>1, <1>2, <1>3, <1>4, <1>6 DEF SentInv
  <1>11. WalkInv'
    <2>1. WalkOf(a)'
      BY <1>1, <1>3, <1>4, <1>5, <1>6 DEF WalkOf
    <2> QED
      BY <1>1, <1>4, <1>6, <2>1, WalkStep
  <1>12. ClientInv'
    BY <1>1, ClientsUnchanged
  <1>13. TypeOK'
    BY <1>1, <1>2, <1>4, <1>7 DEF TypeOK
  <1> QED
    BY <1>4, <1>9, <1>10, <1>11, <1>12, <1>13

\* A callback frees the message it holds, itself or through a refused hand-over.
LEMMA HeldFreed ==
    ASSUME IInv, NEW a \in Senders, pc[a] \in {"held", "sent"}, pc' = [pc EXCEPT ![a] = "idle"],
           Free(item[a].msg), item' = [item EXCEPT ![a] = NoItem],
           UNCHANGED <<port, rundown, abandoned, drained, queue, sharing, blocked, list, refs, todo, msgs, sent>>
    PROVE  IInv'
  <1> USE DEF IInv
  <1> DEFINE m == item[a].msg
  <1>1. /\ PointsOK' /\ StopInv' /\ a \in Actors /\ pc'[a] = "idle"
        /\ \A b \in Actors : b # a => pc'[b] = pc[b]
    BY OutsideMove, StillRegistered DEF SenderPoints, Under
  <1>2. WalkOf(a) /\ item[a] # NoItem
    BY <1>1 DEF WalkInv, WalkOf
  <1>3. item'[a] = NoItem /\ \A b \in Actors : b # a => item'[b] = item[b]
    BY <1>1 DEF TypeOK
  <1>4. /\ UniqueItems' /\ item' \in [Actors -> Items \cup {NoItem}]
        /\ m \in Messages /\ m \in WithActors /\ WithActors' = WithActors \ {m}
    BY <1>1, <1>2, ItemGiven DEF PlaceInv
  <1>5. m \notin Freed
    BY <1>4 DEF PlaceInv
  <1> HIDE DEF m
  <1>6. freed' \in [Messages -> Nat] /\ Freed' = Freed \cup {m} /\ \A n \in Messages : freed'[n] \in {0, 1}
    BY <1>4, <1>5, FreeOnce DEF m
  <1>7. PlaceInv'
    BY <1>4, <1>5, <1>6 DEF PlaceInv
  <1>8. SentInv'
    BY <1>1, <1>3 DEF SentInv
  <1>9. WalkInv'
    <2>1. WalkOf(a)'
      BY <1>1, <1>2, <1>3 DEF WalkOf
    <2> QED
      BY <1>1, <1>3, <2>1, WalkStep
  <1>10. ClientInv'
    BY ClientsUnchanged
  <1>11. TypeOK'
    BY <1>1, <1>4, <1>6 DEF TypeOK
  <1> QED
    BY <1>1, <1>7, <1>8, <1>9, <1>10, <1>11

LEMMA FreeMessageStep == ASSUME IInv, NEW a \in Senders, FreeMessage(a) PROVE IInv'
  BY HeldFreed DEF FreeMessage, Goto, driverVars, clientVars

\* A callback that holds a message gets a rundown reference.
LEMMA HeldTaken ==
    ASSUME IInv, NEW a \in Senders, NEW p \in {"insert", "lock"}, pc[a] = "held", ~rundown.down,
           pc' = [pc EXCEPT ![a] = p], rundown' = [rundown EXCEPT !.refs = rundown.refs + 1],
           UNCHANGED <<port, abandoned, drained, queue, sharing, blocked, list, refs, item, todo, msgs, sent, freed>>
    PROVE  IInv'
  <1> USE DEF IInv
  <1>1. a \in Actors /\ p \in Under /\ "held" \notin Under /\ p \in SenderPoints
    BY Kinds DEF Under, SenderPoints
  <1>2. pc'[a] = p /\ (\A b \in Actors : b # a => pc'[b] = pc[b])
    BY <1>1, PcMove
  <1>3. NInside \in Nat /\ NInside' = NInside + 1
    BY <1>1, InsideMove
  <1>4. PointsOK' /\ ClientInv' /\ PlaceInv'
    <2>1. PointsOK'
      BY <1>1, PointMove, Kinds
    <2> QED
      BY <2>1, ClientsUnchanged, PlacesUnchanged
  <1>5. WalkInv'
    <2>1. WalkOf(a)
      BY <1>1 DEF WalkInv
    <2>2. WalkOf(a)'
      BY <1>2, <2>1 DEF WalkOf
    <2> QED
      BY <1>1, <1>2, <2>2, WalkStep
  <1>6. SentInv'
    BY <1>2, SentUnchanged
  <1>7. rundown' \in [refs : Nat, down : BOOLEAN] /\ rundown'.refs = NInside' /\ rundown'.down = rundown.down
    <2>1. rundown.refs = NInside /\ rundown \in [refs : Nat, down : BOOLEAN] /\ rundown.refs + 1 \in Nat
      BY RundownCounts
    <2>2. rundown' \in [refs : Nat, down : BOOLEAN] /\ rundown'.refs = rundown.refs + 1 /\ rundown'.down = rundown.down
      BY <2>1, RefsSet
    <2> QED
      BY <1>3, <2>1, <2>2
  <1>8. StopInv'
    <2>1. port # "none" /\ pc[Driver] # "unregistered"
      BY StillRegistered
    <2>2. pc[Driver] \notin Over /\ pc[Driver] \notin Joined
      BY <2>1 DEF StopInv, Over, Joined
    <2>3. pc'[Driver] = pc[Driver] /\ \A t \in QueueThreads : pc'[t] = pc[t]
      BY <1>1, <1>2, Kinds
    <2> QED
      BY <1>7, <2>1, <2>2, <2>3 DEF StopInv
  <1>9. TypeOK'
    BY <1>4, <1>7 DEF TypeOK
  <1> QED
    BY <1>4, <1>5, <1>6, <1>8, <1>9

LEMMA SendMessageAsyncStep == ASSUME IInv, NEW a \in Senders, SendMessageAsync(a) PROVE IInv'
  <1>1. pc[a] = "held" /\ UNCHANGED <<port, abandoned, drained, queue, sharing, blocked, list, refs, todo, msgs, sent>>
    BY DEF SendMessageAsync, driverVars, clientVars
  <1>2. CASE rundown.down
    BY <1>1, <1>2, HeldFreed DEF SendMessageAsync, Refused, Goto
  <1>3. CASE ~rundown.down
    BY <1>1, <1>3, HeldTaken DEF SendMessageAsync, Refused, Goto
  <1> QED
    BY <1>2, <1>3

LEMMA InsertStep == ASSUME IInv, NEW a \in Actors, Insert(a) PROVE IInv'
  <1> USE DEF IInv
  <1> DEFINE m == item[a].msg
  <1>1. /\ pc[a] = "insert" /\ item' = [item EXCEPT ![a] = NoItem] /\ pc' = [pc EXCEPT ![a] = "release"]
        /\ UNCHANGED <<port, rundown, abandoned, drained, sharing, blocked, list, refs, todo, msgs, sent>>
        /\ \/ queue' = Append(queue, item[a]) /\ UNCHANGED freed
           \/ Free(m) /\ UNCHANGED queue
    BY DEF Insert, Goto, driverVars, clientVars
  <1>2. a \in Senders
    BY <1>1, Kinds DEF TypeOK, PointsOK, ThreadPoints, DriverPoints
  <1>3. /\ pc'[a] = "release" /\ (\A b \in Actors : b # a => pc'[b] = pc[b])
        /\ Calls' = Calls /\ Inside' = Inside /\ NInside' = NInside
    BY <1>1, <1>2, PcMove, InsideMove DEF Under
  <1>4. PointsOK' /\ ClientInv'
    <2>1. PointsOK'
      BY <1>1, <1>2, PointMove, Kinds DEF SenderPoints
    <2> QED
      BY <1>1, <2>1, ClientsUnchanged
  <1>5. WalkOf(a)
    BY DEF WalkInv
  <1>6. item'[a] = NoItem /\ \A b \in Actors : b # a => item'[b] = item[b]
    BY <1>1 DEF TypeOK
  <1>7. WalkInv'
    <2>1. WalkOf(a)'
      BY <1>1, <1>2, <1>3, <1>5, <1>6 DEF WalkOf
    <2> QED
      BY <1>1, <1>3, <1>6, <2>1, WalkStep
  <1>8. item[a] # NoItem
    BY <1>1, <1>5 DEF WalkOf
  <1>9. /\ UniqueItems' /\ item' \in [Actors -> Items \cup {NoItem}] /\ item[a] \in Items /\ m \in Messages
        /\ m \in WithActors /\ WithActors' = WithActors \ {m}
    BY <1>1, <1>8, ItemGiven DEF PlaceInv
  <1>10. m \notin Freed /\ m \notin MsgsOf(queue) /\ m \notin MsgsOf(drained) /\ m \in 1..msgs /\ sent[m] = 0
    <2>1. sent[m] = 0
      BY <1>1, <1>8 DEF SentInv
    <2> QED
      BY <1>9, <2>1 DEF PlaceInv
  <1>11. pc[Driver] \in {"started", "wait rundown"} /\ port = "open" /\ pc'[Driver] = pc[Driver]
         /\ \A t \in QueueThreads : pc'[t] = pc[t]
    BY <1>1, <1>2, <1>3, SenderInside, Kinds DEF Under
  <1>12. CASE queue' = Append(queue, item[a]) /\ UNCHANGED freed
    <2>1. queue' \in Seq(Items) /\ Distinct(queue') /\ MsgsOf(queue') = MsgsOf(queue) \cup {m}
      BY <1>9, <1>10, <1>12, AppendItems DEF TypeOK, PlaceInv
    <2>2. Freed' = Freed
      BY <1>12 DEF Freed
    <2> HIDE DEF m
    <2>3. PlaceInv'
      BY <1>1, <1>9, <1>10, <1>12, <2>1, <2>2 DEF PlaceInv
    <2>4. SentInv'
      BY <1>1, <1>3, <1>6, <1>10, <2>1 DEF SentInv
    <2>5. ~abandoned
      BY <1>11 DEF StopInv, Over
    <2>6. StopInv'
      BY <1>1, <1>3, <1>9, <1>10, <1>11, <1>12, <2>5, QueueGrows DEF StopInv, m
    <2>7. TypeOK'
      BY <1>1, <1>4, <1>9, <1>12, <2>1 DEF TypeOK
    <2> QED
      BY <1>4, <1>7, <2>3, <2>4, <2>6, <2>7
  <1>13. CASE Free(m) /\ UNCHANGED queue
    <2> HIDE DEF m
    <2>1. freed' \in [Messages -> Nat] /\ Freed' = Freed \cup {m} /\ \A n \in Messages : freed'[n] \in {0, 1}
      BY <1>9, <1>10, <1>13, FreeOnce
    <2>2. PlaceInv'
      BY <1>1, <1>9, <1>10, <1>13, <2>1 DEF PlaceInv
    <2>3. SentInv'
      BY <1>1, <1>3, <1>6, <1>10, <1>13 DEF SentInv
    <2>4. StopInv'
      BY <1>1, <1>3, <1>11, <1>13 DEF StopInv
    <2>5. TypeOK'
      BY <1>1, <1>4, <1>9, <1>13, <2>1 DEF TypeOK
    <2> QED
      BY <1>4, <1>7, <2>2, <2>3, <2>4, <2>5
  <1> QED
    BY <1>1, <1>12, <1>13

LEMMA ReleaseRundownStep == ASSUME IInv, NEW a \in Actors, ReleaseRundown(a) PROVE IInv'
  <1> USE DEF IInv
  <1> DEFINE p == IF item[a] = NoItem THEN "idle" ELSE "sent"
  <1>1. /\ pc[a] = "release" /\ rundown' = [rundown EXCEPT !.refs = rundown.refs - 1] /\ pc' = [pc EXCEPT ![a] = p]
        /\ UNCHANGED <<port, abandoned, queue, drained, sharing, blocked, list, refs, item, todo, msgs, sent, freed>>
    BY DEF ReleaseRundown, Released, Goto, driverVars, clientVars, messageVars
  <1>2. a \in Senders
    BY <1>1, Kinds DEF TypeOK, PointsOK, ThreadPoints, DriverPoints
  <1>3. pc'[a] = p /\ (\A b \in Actors : b # a => pc'[b] = pc[b])
    BY <1>1, PcMove
  <1>4. NInside \in Nat /\ NInside' = NInside - 1 /\ NInside >= 1
    <2>1. pc[a] \in Under /\ p \notin Under
      BY <1>1 DEF Under
    <2> QED
      BY <1>1, <1>2, <2>1, InsideMove
  <1>5. PointsOK' /\ ClientInv' /\ PlaceInv'
    <2>1. p \in SenderPoints
      BY DEF SenderPoints
    <2>2. PointsOK'
      BY <1>1, <1>2, <2>1, PointMove, Kinds
    <2> QED
      BY <1>1, <2>2, ClientsUnchanged, PlacesUnchanged
  <1>6. WalkInv'
    <2>1. WalkOf(a)
      BY DEF WalkInv
    <2>2. WalkOf(a)'
      BY <1>1, <1>3, <2>1 DEF WalkOf
    <2> QED
      BY <1>1, <1>3, <2>2, WalkStep
  <1>7. SentInv'
    BY <1>1, <1>3, SentUnchanged
  <1>8. rundown' \in [refs : Nat, down : BOOLEAN] /\ rundown'.refs = NInside' /\ rundown'.down = rundown.down
    <2>1. rundown.refs = NInside /\ rundown \in [refs : Nat, down : BOOLEAN] /\ rundown.refs - 1 \in Nat
      BY <1>4, RundownCounts
    <2>2. rundown' \in [refs : Nat, down : BOOLEAN] /\ rundown'.refs = rundown.refs - 1 /\ rundown'.down = rundown.down
      BY <1>1, <2>1, RefsSet
    <2> QED
      BY <1>4, <2>1, <2>2
  <1>9. StopInv'
    <2>1. pc[Driver] \in {"started", "wait rundown"} /\ port = "open" /\ pc'[Driver] = pc[Driver]
          /\ \A t \in QueueThreads : pc'[t] = pc[t]
      BY <1>1, <1>2, <1>3, SenderInside, Kinds DEF Under
    <2> QED
      BY <1>1, <1>8, <2>1 DEF StopInv, Over, Joined
  <1>10. TypeOK'
    BY <1>1, <1>5, <1>8 DEF TypeOK
  <1> QED
    BY <1>5, <1>6, <1>7, <1>9, <1>10

LEMMA SendMessageStep == ASSUME IInv, NEW a \in Senders, SendMessage(a) PROVE IInv'
  <1> USE DEF IInv
  <1>1. pc[a] = "held" /\ UNCHANGED <<port, abandoned, queue, drained, sharing, blocked, list, refs, item, todo, msgs,
                                       sent, freed>>
    BY DEF SendMessage, driverVars, messageVars
  <1>2. CASE rundown.down
    <2>1. pc' = [pc EXCEPT ![a] = "sent"] /\ UNCHANGED rundown
      BY <1>2 DEF SendMessage, Refused, Goto
    <2>2. /\ PointsOK' /\ StopInv' /\ a \in Actors /\ pc'[a] = "sent"
          /\ \A b \in Actors : b # a => pc'[b] = pc[b]
      BY <1>1, <2>1, OutsideMove, StillRegistered DEF SenderPoints, Under
    <2>3. ClientInv' /\ PlaceInv'
      BY <1>1, ClientsUnchanged, PlacesUnchanged
    <2>4. WalkInv'
      <3>1. WalkOf(a)
        BY <2>2 DEF WalkInv
      <3>2. WalkOf(a)'
        BY <1>1, <2>2, <3>1 DEF WalkOf
      <3> QED
        BY <1>1, <2>2, <3>2, WalkStep
    <2>5. SentInv'
      BY <1>1, <2>2, SentUnchanged
    <2>6. TypeOK'
      BY <1>1, <2>1, <2>2 DEF TypeOK
    <2> QED
      BY <2>2, <2>3, <2>4, <2>5, <2>6
  <1>3. CASE ~rundown.down
    <2>1. pc' = [pc EXCEPT ![a] = "lock"] /\ rundown' = [rundown EXCEPT !.refs = rundown.refs + 1]
      BY <1>3 DEF SendMessage, Refused, Goto
    <2> QED
      BY <1>1, <1>3, <2>1, HeldTaken
  <1> QED
    BY <1>2, <1>3
-----------------------------------------------------------------------------
(* KphpMessageQueueThread *)

LEMMA RemoveQueueStep == ASSUME IInv, NEW t \in QueueThreads, RemoveQueue(t) PROVE IInv'
  <1> USE DEF IInv
  <1> DEFINE x == Head(queue)
  <1>1. /\ pc[t] = "remove" /\ ~abandoned /\ queue # <<>> /\ pc' = [pc EXCEPT ![t] = "lock"]
        /\ item' = [item EXCEPT ![t] = x] /\ queue' = Tail(queue) /\ t \in Actors
        /\ UNCHANGED <<port, rundown, abandoned, drained, sharing, blocked, list, refs, todo, msgs, sent, freed>>
    BY Kinds DEF RemoveQueue, Goto, driverVars, messageVars
  <1>2. /\ pc'[t] = "lock" /\ (\A b \in Actors : b # t => pc'[b] = pc[b])
        /\ Calls' = Calls /\ Inside' = Inside /\ NInside' = NInside
    BY <1>1, PcMove, InsideMove, Kinds
  <1>3. PointsOK' /\ ClientInv'
    <2>1. PointsOK'
      BY <1>1, PointMove, Kinds DEF ThreadPoints
    <2> QED
      BY <1>1, <2>1, ClientsUnchanged
  <1>4. /\ queue' \in Seq(Items) /\ x \in Items /\ Distinct(queue') /\ x.msg \in MsgsOf(queue)
        /\ MsgsOf(queue') = MsgsOf(queue) \ {x.msg}
    BY <1>1, TailItems DEF TypeOK, PlaceInv
  <1> HIDE DEF x
  <1>5. WalkOf(t)
    BY <1>1 DEF WalkInv
  <1>6. item[t] = NoItem
    BY <1>1, <1>5 DEF WalkOf
  <1>7. UniqueItems' /\ WithActors' = WithActors \cup {x.msg} /\ item' \in [Actors -> Items \cup {NoItem}]
    BY <1>1, <1>4, <1>6, ItemTaken DEF PlaceInv
  <1>8. item'[t] = x /\ (\A b \in Actors : b # t => item'[b] = item[b]) /\ x # NoItem /\ x.msg \in Messages
    BY <1>1, <1>4 DEF TypeOK, Items, NoItem, Messages
  <1>9. WalkInv'
    <2>1. WalkOf(t)'
      BY <1>1, <1>2, <1>5, <1>8, Kinds DEF WalkOf
    <2> QED
      BY <1>1, <1>2, <1>8, <2>1, WalkStep
  <1>10. Freed' = Freed
    BY <1>1 DEF Freed
  <1>11. PlaceInv'
    BY <1>1, <1>4, <1>7, <1>10 DEF PlaceInv
  <1>12. SentInv'
    <2>1. sent[x.msg] = 0
      BY <1>4, <1>8 DEF SentInv
    <2> QED
      BY <1>1, <1>2, <1>4, <1>8, <2>1 DEF SentInv
  <1>13. StopInv'
    <2>1. port # "none" /\ pc[Driver] \notin Over /\ pc[Driver] \notin Joined /\ pc'[Driver] = pc[Driver]
      BY <1>1, <1>2, Kinds DEF StopInv, Over, Joined
    <2> QED
      BY <1>1, <1>2, <2>1 DEF StopInv
  <1>14. TypeOK'
    BY <1>1, <1>3, <1>4, <1>7 DEF TypeOK
  <1> QED
    BY <1>3, <1>9, <1>11, <1>12, <1>13, <1>14

\* Steps that change nothing but where threads are.
LEMMA OnlyPoints ==
    ASSUME IInv, NEW a \in Actors, NEW p, pc' = [pc EXCEPT ![a] = p], PointsOK', StopInv',
           pc[a] \notin {"held", "sent", "look"} \cup Under, p \notin {"held", "sent", "look"} \cup Under,
           UNCHANGED <<queue, drained, sharing, blocked, list, refs, item, todo, msgs, sent, freed>>,
           port' \in {"none", "open", "closed"}, rundown' \in [refs : Nat, down : BOOLEAN], abandoned' \in BOOLEAN
    PROVE  IInv'
  <1> USE DEF IInv
  <1>1. pc'[a] = p /\ (\A b \in Actors : b # a => pc'[b] = pc[b])
    BY PcMove
  <1>2. ClientInv' /\ PlaceInv'
    BY ClientsUnchanged, PlacesUnchanged
  <1>3. WalkInv'
    <2>1. WalkOf(a)
      BY DEF WalkInv
    <2>2. WalkOf(a)'
      BY <1>1, <2>1 DEF WalkOf, Under
    <2> QED
      BY <1>1, <2>2, WalkStep
  <1>4. SentInv'
    BY <1>1, SentUnchanged DEF Under
  <1>5. TypeOK'
    BY DEF TypeOK
  <1> QED
    BY <1>2, <1>3, <1>4, <1>5

LEMMA ExitThreadStep == ASSUME IInv, NEW t \in QueueThreads, ExitThread(t) PROVE IInv'
  <1> USE DEF IInv
  <1>1. /\ pc[t] = "remove" /\ abandoned /\ pc' = [pc EXCEPT ![t] = "none"] /\ t \in Actors
        /\ UNCHANGED <<port, rundown, abandoned, queue, drained, sharing, blocked, list, refs, item, todo, msgs,
                       sent, freed>>
    BY Kinds DEF ExitThread, Goto, driverVars, messageVars, clientVars, sendVars
  <1>2. /\ pc'[t] = "none" /\ (\A b \in Actors : b # t => pc'[b] = pc[b])
        /\ Calls' = Calls /\ Inside' = Inside /\ NInside' = NInside
    BY <1>1, PcMove, InsideMove, Kinds
  <1>3. PointsOK'
    BY <1>1, PointMove, Kinds DEF ThreadPoints
  <1>4. StopInv'
    <2>1. pc'[Driver] = pc[Driver] /\ \A u \in QueueThreads : pc'[u] = pc[u] \/ pc'[u] = "none"
      BY <1>1, <1>2, Kinds
    <2> QED
      BY <1>1, <1>2, <2>1 DEF StopInv
  <1> QED
    BY <1>1, <1>3, <1>4, OnlyPoints DEF TypeOK, Under
-----------------------------------------------------------------------------
(* KphCommsStart, KphCommsStop *)

LEMMA CreateThreadStep == ASSUME IInv, CreateThread PROVE IInv'
  <1> USE DEF IInv
  <1>1. pc[Driver] = "start" /\ UNCHANGED <<port, rundown, abandoned, queue, drained, sharing, blocked, list, refs,
                                            item, todo, msgs, sent, freed>>
    BY DEF CreateThread, driverVars, messageVars, clientVars, sendVars
  <1>2. PICK t \in QueueThreads : pc[t] = "none" /\ pc' = [pc EXCEPT ![t] = "remove"]
    BY DEF CreateThread
  <1>3. t \in Actors
    BY Kinds
  <1>4. /\ pc'[t] = "remove" /\ (\A b \in Actors : b # t => pc'[b] = pc[b])
        /\ Calls' = Calls /\ Inside' = Inside /\ NInside' = NInside
    BY <1>2, <1>3, PcMove, InsideMove, Kinds
  <1>5. PointsOK'
    BY <1>2, <1>3, PointMove, Kinds DEF ThreadPoints
  <1>6. StopInv'
    <2>1. pc'[Driver] = "start" /\ \A u \in QueueThreads : pc'[u] = pc[u] \/ pc'[u] = "remove"
      BY <1>1, <1>4, Kinds
    <2> QED
      BY <1>1, <1>4, <2>1 DEF StopInv, Over, Joined
  <1> QED
    BY <1>1, <1>2, <1>3, <1>5, <1>6, OnlyPoints DEF TypeOK, Under

\* What every step of the driver has in common.
LEMMA DriverMove ==
    ASSUME IInv, NEW p \in DriverPoints, pc' = [pc EXCEPT ![Driver] = p]
    PROVE  /\ PointsOK' /\ Calls' = Calls /\ Inside' = Inside /\ NInside' = NInside /\ pc'[Driver] = p /\ Driver \in Actors
           /\ \A b \in Actors : b # Driver => pc'[b] = pc[b]
           /\ \A t \in QueueThreads : pc'[t] = pc[t]
  <1>1. Driver \in Actors /\ Driver \notin Senders /\ Driver \notin QueueThreads
    BY Kinds
  <1>2. PointsOK'
    BY <1>1, PointMove DEF IInv
  <1>3. Calls' = Calls /\ Inside' = Inside /\ NInside' = NInside
    BY <1>1, InsideMove DEF IInv
  <1>4. pc'[Driver] = p /\ \A b \in Actors : b # Driver => pc'[b] = pc[b]
    BY <1>1, PcMove DEF IInv
  <1> QED
    BY <1>1, <1>2, <1>3, <1>4, Kinds

LEMMA CreatePortStep == ASSUME IInv, CreatePort PROVE IInv'
  <1> USE DEF IInv
  <1>1. /\ pc[Driver] = "start" /\ port' = "open" /\ pc' = [pc EXCEPT ![Driver] = "started"]
        /\ UNCHANGED <<rundown, abandoned, queue, drained, sharing, blocked, list, refs, item, todo, msgs, sent, freed>>
    BY DEF CreatePort, Goto, messageVars, clientVars, sendVars
  <1>2. /\ PointsOK' /\ Calls' = Calls /\ Inside' = Inside /\ NInside' = NInside
        /\ pc'[Driver] = "started" /\ Driver \in Actors
        /\ \A t \in QueueThreads : pc'[t] = pc[t]
    BY <1>1, DriverMove DEF DriverPoints
  <1>3. StopInv'
    BY <1>1, <1>2 DEF StopInv, Over, Joined
  <1> QED
    BY <1>1, <1>2, <1>3, OnlyPoints DEF TypeOK, Under

LEMMA StartFailsStep == ASSUME IInv, StartFails PROVE IInv'
  <1> USE DEF IInv
  <1>1. /\ pc[Driver] = "start" /\ abandoned' = TRUE /\ pc' = [pc EXCEPT ![Driver] = "join"]
        /\ UNCHANGED <<port, rundown, queue, drained, sharing, blocked, list, refs, item, todo, msgs, sent, freed>>
    BY DEF StartFails, Goto, messageVars, clientVars, sendVars
  <1>2. /\ PointsOK' /\ Calls' = Calls /\ Inside' = Inside /\ NInside' = NInside
        /\ pc'[Driver] = "join" /\ Driver \in Actors
        /\ \A t \in QueueThreads : pc'[t] = pc[t]
    BY <1>1, DriverMove DEF DriverPoints
  <1>3. StopInv'
    BY <1>1, <1>2 DEF StopInv, Over, Joined
  <1> QED
    BY <1>1, <1>2, <1>3, OnlyPoints DEF TypeOK, Under

LEMMA StopStep == ASSUME IInv, Stop PROVE IInv'
  <1> USE DEF IInv
  <1>1. /\ pc[Driver] = "started" /\ rundown' = [rundown EXCEPT !.down = TRUE]
        /\ pc' = [pc EXCEPT ![Driver] = "wait rundown"]
        /\ UNCHANGED <<port, abandoned, queue, drained, sharing, blocked, list, refs, item, todo, msgs, sent, freed>>
    BY DEF Stop, Goto, messageVars, clientVars, sendVars, driverVars
  <1>2. /\ PointsOK' /\ Calls' = Calls /\ Inside' = Inside /\ NInside' = NInside
        /\ pc'[Driver] = "wait rundown" /\ Driver \in Actors
        /\ \A t \in QueueThreads : pc'[t] = pc[t]
    BY <1>1, DriverMove DEF DriverPoints
  <1>3. rundown' \in [refs : Nat, down : BOOLEAN] /\ rundown'.refs = rundown.refs /\ rundown'.down
    BY <1>1, RundownCounts
  <1>4. StopInv'
    BY <1>1, <1>2, <1>3 DEF StopInv, Over, Joined
  <1> QED
    BY <1>1, <1>2, <1>3, <1>4, OnlyPoints DEF TypeOK, Under

LEMMA JoinStep == ASSUME IInv, Join PROVE IInv'
  <1> USE DEF IInv
  <1> DEFINE p == IF port = "open" THEN "drain" ELSE "failed"
  <1>1. /\ pc[Driver] = "join" /\ pc' = [pc EXCEPT ![Driver] = p] /\ \A t \in QueueThreads : pc[t] = "none"
        /\ UNCHANGED <<port, rundown, abandoned, queue, drained, sharing, blocked, list, refs, item, todo, msgs,
                       sent, freed>>
    BY DEF Join, Goto, messageVars, clientVars, sendVars, driverVars
  <1>2. /\ PointsOK' /\ Calls' = Calls /\ Inside' = Inside /\ NInside' = NInside /\ pc'[Driver] = p /\ Driver \in Actors
        /\ \A t \in QueueThreads : pc'[t] = pc[t]
    BY <1>1, DriverMove DEF DriverPoints
  <1>3. port \in {"none", "open"}
    BY <1>1 DEF StopInv, TypeOK
  <1>4. StopInv'
    <2>1. CASE port = "none"
      <3>1. pc'[Driver] = "failed"
        BY <1>2, <2>1
      <3> QED
        BY <1>1, <1>2, <2>1, <3>1 DEF StopInv, Over, Joined
    <2>2. CASE port = "open"
      <3>1. pc'[Driver] = "drain"
        BY <1>2, <2>2
      <3> QED
        BY <1>1, <1>2, <2>2, <3>1 DEF StopInv, Over, Joined
    <2> QED
      BY <1>3, <2>1, <2>2
  <1> QED
    BY <1>1, <1>2, <1>4, OnlyPoints DEF TypeOK, Under

LEMMA ClosePortStep == ASSUME IInv, ClosePort PROVE IInv'
  <1> USE DEF IInv
  <1>1. /\ pc[Driver] = "drain" /\ drained = <<>> /\ port' = "closed" /\ pc' = [pc EXCEPT ![Driver] = "closed"]
        /\ UNCHANGED <<rundown, abandoned, queue, drained, sharing, blocked, list, refs, item, todo, msgs, sent, freed>>
    BY DEF ClosePort, Goto, messageVars, clientVars, sendVars
  <1>2. /\ PointsOK' /\ Calls' = Calls /\ Inside' = Inside /\ NInside' = NInside
        /\ pc'[Driver] = "closed" /\ Driver \in Actors
        /\ \A t \in QueueThreads : pc'[t] = pc[t]
    BY <1>1, DriverMove DEF DriverPoints
  <1>3. StopInv'
    BY <1>1, <1>2 DEF StopInv, Over, Joined
  <1> QED
    BY <1>1, <1>2, <1>3, OnlyPoints DEF TypeOK, Under

LEMMA UnregisterFilterStep == ASSUME IInv, UnregisterFilter PROVE IInv'
  <1> USE DEF IInv
  <1>1. /\ pc[Driver] = "closed" /\ pc' = [pc EXCEPT ![Driver] = "unregistered"] /\ \A a \in Senders : pc[a] = "idle"
        /\ UNCHANGED <<port, rundown, abandoned, queue, drained, sharing, blocked, list, refs, item, todo, msgs,
                       sent, freed>>
    BY DEF UnregisterFilter, Goto, messageVars, clientVars, sendVars, driverVars
  <1>2. /\ PointsOK' /\ Calls' = Calls /\ Inside' = Inside /\ NInside' = NInside
        /\ pc'[Driver] = "unregistered" /\ Driver \in Actors
        /\ \A b \in Actors : b # Driver => pc'[b] = pc[b]
        /\ \A t \in QueueThreads : pc'[t] = pc[t]
    BY <1>1, DriverMove DEF DriverPoints
  <1>3. Calls' = {}
    BY <1>1, <1>2, Kinds DEF Calls
  <1>4. StopInv'
    BY <1>1, <1>2, <1>3 DEF StopInv, Over, Joined
  <1> QED
    BY <1>1, <1>2, <1>4, OnlyPoints DEF TypeOK, Under

LEMMA RundownQueueStep == ASSUME IInv, RundownQueue PROVE IInv'
  <1> USE DEF IInv
  <1>1. /\ pc[Driver] = "wait rundown" /\ rundown.refs = 0 /\ abandoned' = TRUE /\ drained' = queue /\ queue' = <<>>
        /\ pc' = [pc EXCEPT ![Driver] = "join"]
        /\ UNCHANGED <<port, rundown, sharing, blocked, list, refs, item, todo, msgs, sent, freed>>
    BY DEF RundownQueue, RunDown, Remaining, Goto, messageVars, clientVars, sendVars
  <1>2. /\ PointsOK' /\ Calls' = Calls /\ Inside' = Inside /\ NInside' = NInside
        /\ pc'[Driver] = "join" /\ Driver \in Actors
        /\ \A b \in Actors : b # Driver => pc'[b] = pc[b]
        /\ \A t \in QueueThreads : pc'[t] = pc[t]
    BY <1>1, DriverMove DEF DriverPoints
  <1>3. drained = <<>> /\ port = "open" /\ rundown.down
    BY <1>1 DEF StopInv
  <1>4. Inside = {}
    <2>1. NInside = 0
      BY <1>1, RundownCounts
    <2>2. IsFiniteSet(Inside)
      BY CommsAssumption, FS_Subset DEF Inside
    <2> QED
      BY <2>1, <2>2, FS_EmptySet DEF NInside
  <1>5. StopInv'
    BY <1>1, <1>2, <1>3, <1>4 DEF StopInv, Over, Joined
  <1>6. ClientInv'
    BY <1>1, ClientsUnchanged
  <1>7. WalkInv'
    <2>1. WalkOf(Driver)
      BY <1>2 DEF WalkInv
    <2>2. WalkOf(Driver)'
      BY <1>1, <1>2, <2>1 DEF WalkOf
    <2> QED
      BY <1>1, <1>2, <2>2, WalkStep
  <1>8. PlaceInv'
    <2>1. WithActors' = WithActors /\ Freed' = Freed /\ UniqueItems'
      BY <1>1 DEF WithActors, Freed, PlaceInv, UniqueItems
    <2> QED
      BY <1>1, <1>3, <2>1, NoItems DEF PlaceInv
  <1>9. SentInv'
    BY <1>1, <1>2, <1>3, NoItems DEF SentInv
  <1>10. TypeOK'
    BY <1>1, <1>2, NoItems DEF TypeOK
  <1> QED
    BY <1>5, <1>6, <1>7, <1>8, <1>9, <1>10

LEMMA DrainItemStep == ASSUME IInv, DrainItem PROVE IInv'
  <1> USE DEF IInv
  <1> DEFINE x == Head(drained)
  <1>1. /\ pc[Driver] = "drain" /\ drained # <<>> /\ pc' = [pc EXCEPT ![Driver] = "lock"]
        /\ item' = [item EXCEPT ![Driver] = x] /\ drained' = Tail(drained)
        /\ UNCHANGED <<port, rundown, abandoned, queue, sharing, blocked, list, refs, todo, msgs, sent, freed>>
    BY DEF DrainItem, Goto, messageVars
  <1>2. /\ PointsOK' /\ Calls' = Calls /\ Inside' = Inside /\ NInside' = NInside
        /\ pc'[Driver] = "lock" /\ Driver \in Actors
        /\ \A b \in Actors : b # Driver => pc'[b] = pc[b]
        /\ \A t \in QueueThreads : pc'[t] = pc[t]
    BY <1>1, DriverMove DEF DriverPoints
  <1>3. ClientInv'
    BY <1>1, ClientsUnchanged
  <1>4. /\ drained' \in Seq(Items) /\ x \in Items /\ Distinct(drained') /\ x.msg \in MsgsOf(drained)
        /\ MsgsOf(drained') = MsgsOf(drained) \ {x.msg}
    BY <1>1, TailItems DEF TypeOK, PlaceInv
  <1> HIDE DEF x
  <1>5. WalkOf(Driver)
    BY <1>2 DEF WalkInv
  <1>6. item[Driver] = NoItem
    BY <1>1, <1>5 DEF WalkOf
  <1>7. UniqueItems' /\ WithActors' = WithActors \cup {x.msg} /\ item' \in [Actors -> Items \cup {NoItem}]
    BY <1>1, <1>2, <1>4, <1>6, ItemTaken DEF PlaceInv
  <1>8. item'[Driver] = x /\ (\A b \in Actors : b # Driver => item'[b] = item[b]) /\ x # NoItem /\ x.msg \in Messages
    BY <1>1, <1>2, <1>4 DEF TypeOK, Items, NoItem, Messages
  <1>9. WalkInv'
    <2>1. WalkOf(Driver)'
      BY <1>1, <1>2, <1>5, <1>8, Kinds DEF WalkOf
    <2> QED
      BY <1>1, <1>2, <1>8, <2>1, WalkStep
  <1>10. Freed' = Freed
    BY <1>1 DEF Freed
  <1>11. PlaceInv'
    BY <1>1, <1>4, <1>7, <1>10 DEF PlaceInv
  <1>12. SentInv'
    <2>1. sent[x.msg] = 0
      BY <1>4, <1>8 DEF SentInv
    <2> QED
      BY <1>1, <1>2, <1>4, <1>8, <2>1 DEF SentInv
  <1>13. StopInv'
    BY <1>1, <1>2 DEF StopInv, Over, Joined
  <1>14. TypeOK'
    BY <1>1, <1>2, <1>4, <1>7 DEF TypeOK
  <1> QED
    BY <1>3, <1>9, <1>11, <1>12, <1>13, <1>14
-----------------------------------------------------------------------------
(* The connection callbacks *)

\* Steps that change nothing but the client list.
LEMMA OnlyClients ==
    ASSUME IInv, ClientInv', blocked' \in SUBSET Clients, list' \in Seq(Clients), refs' \in [Clients -> Nat],
           UNCHANGED <<port, rundown, abandoned, queue, drained, sharing, pc, item, todo, msgs, sent, freed>>
    PROVE  IInv'
  <1> USE DEF IInv
  <1>1. PlaceInv'
    BY PlacesUnchanged
  <1>2. SentInv'
    BY SentUnchanged
  <1>3. StopInv'
    BY DEF StopInv, NInside, Inside, Calls
  <1>4. WalkInv'
    BY DEF WalkInv, WalkOf
  <1>5. TypeOK'
    BY DEF TypeOK, PointsOK
  <1> QED
    BY <1>1, <1>2, <1>3, <1>4, <1>5

LEMMA ConnectStep == ASSUME IInv, NEW c \in Clients, Connect(c) \/ Disconnect(c) PROVE IInv'
  <1> USE DEF IInv
  <1>1. /\ blocked' = blocked \cup {c}
        /\ refs' = refs \/ (refs[c] = 0 /\ refs' = [refs EXCEPT ![c] = 2])
        /\ refs' = refs => c \in ToSet(list)
        /\ UNCHANGED <<port, rundown, abandoned, queue, drained, sharing, list, pc, item, todo, msgs, sent, freed>>
    <2>1. CASE Connect(c)
      <3>1. refs' # refs
        BY <2>1 DEF Connect, TypeOK
      <3> QED
        BY <2>1, <3>1 DEF Connect, driverVars, sendVars, messageVars
    <2>2. CASE Disconnect(c)
      BY <2>2 DEF Disconnect, driverVars, sendVars, messageVars
    <2> QED
      BY <2>1, <2>2
  <1>2. blocked' \in SUBSET Clients /\ list' \in Seq(Clients) /\ refs' \in [Clients -> Nat]
    <2>1. refs \in [Clients -> Nat] /\ blocked \in SUBSET Clients /\ list \in Seq(Clients)
      BY DEF TypeOK
    <2>2. refs' \in [Clients -> Nat]
      BY <1>1, <2>1
    <2> QED
      BY <1>1, <2>1, <2>2
  <1>3. ClientInv'
    <2>1. CASE refs' = refs
      BY <1>1, <2>1 DEF ClientInv
    <2>2. CASE refs[c] = 0 /\ refs' = [refs EXCEPT ![c] = 2]
      <3>1. c \notin ToSet(list)
        BY <2>2 DEF ClientInv
      <3>2. refs'[c] = 2 /\ \A d \in Clients : d # c => refs'[d] = refs[d]
        BY <2>2 DEF TypeOK
      <3>3. ToSet(list) \subseteq Clients /\ blocked \subseteq Clients
        BY DEF TypeOK, ToSet
      <3>4. \A d \in ToSet(list) : refs'[d] = 1
        BY <3>1, <3>2, <3>3 DEF ClientInv
      <3>5. \A d \in (blocked \cup {c}) \ ToSet(list) : refs'[d] = 2
        BY <3>2, <3>3 DEF ClientInv
      <3> QED
        BY <1>1, <3>4, <3>5 DEF ClientInv
    <2> QED
      BY <1>1, <2>1, <2>2
  <1> QED
    BY <1>1, <1>2, <1>3, OnlyClients

\* Nobody who looks at the clients is left when the lock is held exclusively.
LEMMA NobodyWalks == ASSUME IInv, sharing = {}, NEW a \in Actors PROVE ToSet(todo[a]) = {}
  <1>1. WalkOf(a)
    BY DEF IInv, WalkInv
  <1>2. todo[a] = <<>>
    BY <1>1 DEF WalkOf
  <1> QED
    BY <1>2 DEF ToSet

LEMMA ConnectedStep == ASSUME IInv, NEW c \in Clients, Connected(c) PROVE IInv'
  <1> USE DEF IInv
  <1>1. /\ c \in blocked /\ c \notin ToSet(list) /\ sharing = {} /\ list' = Append(list, c) /\ blocked' = blocked \ {c}
        /\ refs' = [refs EXCEPT ![c] = refs[c] - 1]
        /\ UNCHANGED <<port, rundown, abandoned, queue, drained, sharing, pc, item, todo, msgs, sent, freed>>
    BY DEF Connected, ExclusiveNow, Granted, driverVars, sendVars, messageVars
  <1>2. refs[c] = 2
    BY <1>1 DEF ClientInv
  <1>3. refs' \in [Clients -> Nat] /\ refs'[c] = 1 /\ \A d \in Clients : d # c => refs'[d] = refs[d]
    BY <1>1, <1>2 DEF TypeOK
  <1>4. list' \in Seq(Clients) /\ Once(list') /\ ToSet(list') = ToSet(list) \cup {c}
    BY <1>1, AppendClient DEF TypeOK, ClientInv
  <1>5. blocked' \in SUBSET Clients
    BY <1>1 DEF TypeOK
  <1>6. ToSet(list) \subseteq Clients /\ blocked \subseteq Clients
    BY DEF TypeOK, ToSet
  <1>7. \A a \in Actors : ToSet(todo'[a]) = {}
    BY <1>1, NobodyWalks
  <1>8. ClientInv'
    BY <1>1, <1>3, <1>4, <1>6, <1>7 DEF ClientInv
  <1> QED
    BY <1>1, <1>3, <1>4, <1>5, <1>8, OnlyClients

LEMMA DisconnectedStep == ASSUME IInv, NEW c \in Clients, Disconnected(c) PROVE IInv'
  <1> USE DEF IInv
  <1>1. /\ c \in blocked /\ c \in ToSet(list) /\ sharing = {} /\ blocked' = blocked \ {c}
        /\ refs' = [refs EXCEPT ![c] = refs[c] - 1]
        /\ UNCHANGED <<port, rundown, abandoned, queue, drained, sharing, pc, item, todo, msgs, sent, freed>>
    BY DEF Disconnected, ExclusiveNow, Granted, driverVars, sendVars, messageVars
  <1>2. PICK i \in DOMAIN list : list[i] = c /\ list' = RemoveAt(list, i)
    BY DEF Disconnected
  <1>3. refs[c] = 1
    BY <1>1 DEF ClientInv
  <1>4. refs' \in [Clients -> Nat] /\ \A d \in Clients : d # c => refs'[d] = refs[d]
    BY <1>1, <1>3 DEF TypeOK
  <1>5. list' \in Seq(Clients) /\ Once(list') /\ ToSet(list') = ToSet(list) \ {c}
    BY <1>2, RemoveClient DEF TypeOK, ClientInv
  <1>6. blocked' \in SUBSET Clients
    BY <1>1 DEF TypeOK
  <1>7. ToSet(list) \subseteq Clients /\ blocked \subseteq Clients
    BY DEF TypeOK, ToSet
  <1>8. \A a \in Actors : ToSet(todo'[a]) = {}
    BY <1>1, NobodyWalks
  <1>9. ClientInv'
    BY <1>1, <1>4, <1>5, <1>7, <1>8 DEF ClientInv
  <1> QED
    BY <1>1, <1>4, <1>5, <1>6, <1>9, OnlyClients
-----------------------------------------------------------------------------
(* The specification *)

LEMMA InitStep == ASSUME Init PROVE IInv
  <1>1. TypeOK
    <2>1. 0 \in 0..MaxMessages
      BY CommsAssumption
    <2>2. PointsOK
      BY Kinds DEF Init, PointsOK, SenderPoints, ThreadPoints, DriverPoints
    <2>3. rundown \in [refs : Nat, down : BOOLEAN] /\ <<>> \in Seq(Clients) /\ <<>> \in Seq(Items)
      BY DEF Init
    <2>4. item \in [Actors -> Items \cup {NoItem}] /\ todo \in [Actors -> Seq(Clients)] /\ refs \in [Clients -> Nat]
      BY <2>3 DEF Init
    <2>5. sent \in [Messages -> Nat] /\ freed \in [Messages -> Nat]
      BY DEF Init, Messages
    <2> QED
      BY <2>1, <2>2, <2>3, <2>4, <2>5 DEF Init, TypeOK
  <1>2. pc[Driver] = "start" /\ (\A t \in QueueThreads : pc[t] = "none") /\ \A a \in Senders : pc[a] = "idle"
    BY Kinds DEF Init
  <1>3. Inside = {} /\ NInside = 0
    <2>1. Inside = {}
      BY <1>2 DEF Inside, Under
    <2> QED
      BY <2>1, FS_EmptySet DEF NInside
  <1>4. StopInv
    BY <1>2, <1>3 DEF Init, StopInv, Over, Joined, Calls
  <1>5. WalkInv
    BY <1>2, Kinds DEF Init, WalkInv, WalkOf
  <1>6. ClientInv
    BY DEF Init, ClientInv, Once, ToSet
  <1>7. \A a \in Actors : item[a] = NoItem /\ item[a].msg = 0
    BY DEF Init, NoItem
  <1>8. WithActors = {} /\ Freed = {} /\ UniqueItems
    BY <1>7 DEF Init, WithActors, Freed, UniqueItems, Messages
  <1>9. PlaceInv
    <2>1. 1..msgs = {}
      BY DEF Init
    <2> QED
      BY <1>8, <2>1, NoItems DEF Init, PlaceInv, Messages
  <1>10. SentInv
    BY <1>7 DEF Init, SentInv, Messages
  <1> QED
    BY <1>1, <1>4, <1>5, <1>6, <1>9, <1>10 DEF IInv

LEMMA Unchanged == ASSUME IInv, UNCHANGED vars PROVE IInv'
  <1>1. UNCHANGED <<port, rundown, abandoned, queue, drained, sharing, blocked, list, refs, pc, item, todo, msgs,
                    sent, freed>>
    BY DEF vars, clientVars, sendVars, messageVars
  <1>2. ClientInv'
    BY <1>1, ClientsUnchanged DEF IInv
  <1> QED
    BY <1>1, <1>2, OnlyClients DEF IInv, TypeOK

\* The inductive invariant of the message port: its type, the rundown's count of the senders
\* inside, who walks the client list, the list's references and the places of messages.
THEOREM Invariance == Spec => []IInv
  <1>1. Init => IInv
    BY InitStep
  <1>2. IInv /\ [Next]_vars => IInv'
    <2> SUFFICES ASSUME IInv, [Next]_vars PROVE IInv'
      OBVIOUS
    <2>1. ASSUME NEW c \in Clients, Connect(c) \/ Disconnect(c) \/ Callbacks(c) PROVE IInv'
      BY <2>1, ConnectStep, ConnectedStep, DisconnectedStep DEF Callbacks
    <2>2. ASSUME NEW a \in Senders, Calling(a) \/ Looking(a) PROVE IInv'
      BY <2>2, InformerEnabledStep, AllocateMessageStep, FreeMessageStep, SendMessageAsyncStep, SendMessageStep,
         LookSharedStep, LookDoneStep DEF Calling, Looking
    <2>3. ASSUME NEW a \in Actors, Sending(a) PROVE IInv'
      BY <2>3, InsertStep, ReleaseRundownStep, LockSharedStep, SkipClientStep, ForceAsyncStep,
         FltSendMessageStep, AnswerStep, ReturnStep DEF Sending
    <2>4. ASSUME NEW t \in QueueThreads, Serving(t) PROVE IInv'
      BY <2>4, RemoveQueueStep, ExitThreadStep DEF Serving
    <2>5. CASE Driving
      BY <2>5, CreateThreadStep, CreatePortStep, StartFailsStep, RundownQueueStep, JoinStep, DrainItemStep,
         ClosePortStep, UnregisterFilterStep DEF Driving
    <2>6. CASE Stop
      BY <2>6, StopStep
    <2>7. CASE Finished \/ UNCHANGED vars
      BY <2>7, Unchanged DEF Finished
    <2> QED
      BY <2>1, <2>2, <2>3, <2>4, <2>5, <2>6, <2>7 DEF Next
  <1> QED
    BY <1>1, <1>2, PTL DEF Spec

\* The number of items of a queue that hold a message is 1 or 0.
LEMMA CountIs ==
    ASSUME NEW s \in Seq(Items), Distinct(s), NEW m
    PROVE  Count(m, s) = IF m \in MsgsOf(s) THEN 1 ELSE 0
  <1> DEFINE P == {i \in DOMAIN s : s[i].msg = m}
  <1>1. CASE m \in MsgsOf(s)
    <2>1. PICK i \in DOMAIN s : s[i].msg = m
      BY <1>1 DEF MsgsOf
    <2>2. P = {i}
      BY <2>1 DEF Distinct
    <2> HIDE DEF P
    <2>3. Cardinality(P) = 1
      BY <2>2, FS_Singleton
    <2> QED
      BY <1>1, <2>3 DEF Count, P
  <1>2. CASE m \notin MsgsOf(s)
    <2>1. P = {}
      BY <1>2 DEF MsgsOf
    <2> HIDE DEF P
    <2>2. Cardinality(P) = 0
      BY <2>1, FS_EmptySet
    <2> QED
      BY <1>2, <2>2 DEF Count, P
  <1> QED
    BY <1>1, <1>2

LEMMA WithOne ==
    ASSUME UniqueItems, NEW m \in Messages
    PROVE  Cardinality({a \in Actors : item[a].msg = m}) = IF m \in WithActors THEN 1 ELSE 0
  <1> DEFINE P == {a \in Actors : item[a].msg = m}
  <1>1. CASE m \in WithActors
    <2>1. PICK a \in Actors : item[a].msg = m
      BY <1>1 DEF WithActors
    <2>2. m # 0
      BY DEF Messages
    <2>3. P = {a}
      BY <2>1, <2>2 DEF UniqueItems
    <2> HIDE DEF P
    <2>4. Cardinality(P) = 1
      BY <2>3, FS_Singleton
    <2> QED
      BY <1>1, <2>4 DEF P
  <1>2. CASE m \notin WithActors
    <2>1. P = {}
      BY <1>2 DEF WithActors
    <2> HIDE DEF P
    <2>2. Cardinality(P) = 0
      BY <2>1, FS_EmptySet
    <2> QED
      BY <1>2, <2>2 DEF P
  <1> QED
    BY <1>1, <1>2

LEMMA PlacesCount == ASSUME IInv PROVE MessagesOnce
  <1> SUFFICES ASSUME NEW m \in Messages
               PROVE  /\ Held(m) + freed[m] = (IF m <= msgs THEN 1 ELSE 0)
                      /\ sent[m] <= 1
    BY DEF MessagesOnce, Messages
  <1>1. sent[m] <= 1
    BY DEF IInv, SentInv
  <1> DEFINE Q == m \in MsgsOf(queue)
             D == m \in MsgsOf(drained)
             W == m \in WithActors
             F == m \in Freed
             One(b) == IF b THEN 1 ELSE 0
  <1>2. Count(m, queue) = One(Q) /\ Count(m, drained) = One(D)
    BY CountIs DEF IInv, TypeOK, PlaceInv
  <1>3. Cardinality({a \in Actors : item[a].msg = m}) = One(W)
    BY WithOne DEF IInv, PlaceInv
  <1>4. freed[m] = One(F)
    <2>1. freed[m] \in {0, 1}
      BY DEF IInv, PlaceInv
    <2> QED
      BY <2>1 DEF Freed
  <1>5. m <= msgs <=> m \in 1..msgs
    BY DEF IInv, TypeOK, Messages
  <1>6. m \in 1..msgs <=> Q \/ D \/ W \/ F
    BY DEF IInv, PlaceInv
  <1>7. ~(Q /\ D) /\ ~(Q /\ W) /\ ~(Q /\ F) /\ ~(D /\ W) /\ ~(D /\ F) /\ ~(W /\ F)
    BY DEF IInv, PlaceInv
  <1>8. Held(m) + freed[m] = One(Q) + One(D) + One(W) + One(F)
    BY <1>2, <1>3, <1>4 DEF Held
  <1> HIDE DEF Q, D, W, F
  <1> QED
    BY <1>1, <1>5, <1>6, <1>7, <1>8

\* An allocated message is in one place, with its caller, a thread or in the queue, or was freed,
\* once, and is sent at most once: for any number of senders, queue threads, clients and messages.
THEOREM MessagesAreFreedOnce == Spec => []MessagesOnce
  BY Invariance, PlacesCount, PTL

LEMMA ClosedQuiet == ASSUME IInv PROVE QuietWhenClosed
  <1>1. ASSUME pc[Driver] \in {"closed", "unregistered", "failed"}
        PROVE  /\ rundown.refs = 0 /\ queue = <<>> /\ drained = <<>>
               /\ \A t \in QueueThreads : pc[t] = "none"
               /\ \A a \in sharing : pc[a] = "look"
               /\ \A m \in 1..msgs : freed[m] = 1 \/ HeldByCaller(m)
    <2>1. /\ queue = <<>> /\ drained = <<>> /\ Inside = {} /\ rundown.refs = NInside
          /\ \A t \in QueueThreads : pc[t] = "none"
      BY <1>1 DEF IInv, StopInv, Over, Joined
    <2>2. rundown.refs = 0
      BY <2>1, FS_EmptySet DEF NInside
    <2>3. \A a \in Actors : pc[a] \notin Under
      <3>1. \A a \in Senders : pc[a] \notin Under
        BY <2>1 DEF Inside
      <3>2. pc[Driver] \notin Under /\ "none" \notin Under
        BY <1>1 DEF Under
      <3> QED
        BY <2>1, <3>1, <3>2, Kinds
    <2>4. \A a \in sharing : pc[a] = "look"
      BY <2>3 DEF IInv, TypeOK, WalkInv, WalkOf, Under
    <2>5. ASSUME NEW m \in 1..msgs, freed[m] # 1 PROVE HeldByCaller(m)
      <3>1. m \in Messages /\ m \notin Freed
        <4>1. msgs \in 0..MaxMessages /\ MaxMessages \in Nat
          BY CommsAssumption DEF IInv, TypeOK
        <4>2. m \in Messages
          BY <4>1 DEF Messages
        <4> QED
          BY <2>5, <4>2 DEF Freed
      <3>2. m \in WithActors
        BY <2>1, <3>1, NoItems DEF IInv, PlaceInv
      <3>3. PICK a \in Actors : item[a].msg = m
        BY <3>2 DEF WithActors
      <3>4. item[a] # NoItem
        BY <3>1, <3>3 DEF NoItem, Messages
      <3>5. pc[a] \in {"held", "sent"}
        BY <2>3, <3>4 DEF IInv, WalkInv, WalkOf, Under
      <3>6. a \in Senders
        BY <1>1, <2>1, <3>5, Kinds
      <3> QED
        BY <3>3, <3>5, <3>6 DEF HeldByCaller
    <2> QED
      BY <2>1, <2>2, <2>4, <2>5
  <1>2. ASSUME pc[Driver] = "unregistered" PROVE sharing = {} /\ \A m \in 1..msgs : freed[m] = 1
    <2>1. \A a \in Senders : pc[a] = "idle"
      BY <1>2 DEF IInv, StopInv, Calls
    <2>2. \A t \in QueueThreads : pc[t] = "none"
      BY <1>1, <1>2
    <2>3. \A a \in Actors : pc[a] # "look"
      BY <1>2, <2>1, <2>2, Kinds
    <2>4. sharing = {}
      BY <1>1, <1>2, <2>3 DEF IInv, TypeOK
    <2>5. \A m \in 1..msgs : ~HeldByCaller(m)
      BY <2>1 DEF HeldByCaller
    <2> QED
      BY <1>1, <1>2, <2>4, <2>5
  <1> QED
    BY <1>1, <1>2 DEF QuietWhenClosed

\* When KphCommsStop deletes the lookaside lists and the lock, or a failed KphCommsStart returns,
\* no sender with a rundown reference, no queued message and no queue thread is left: only
\* callbacks that look at the clients or hold a message without a reference.  They have gone, and
\* every message was freed, when FltUnregisterFilter has returned.
THEOREM NobodyIsLeft == Spec => []QuietWhenClosed
  BY Invariance, ClosedQuiet, PTL

LEMMA WalkedStay == ASSUME IInv PROVE ClientsStay
  BY DEF IInv, ClientInv, ClientsStay

\* A client that somebody in KphpCommsSendMessage or KphCommsInformerEnabled has still to look at
\* stays in the list, and the list's reference keeps its object.
THEOREM ClientsAreKept == Spec => []ClientsStay
  BY Invariance, WalkedStay, PTL
=============================================================================
