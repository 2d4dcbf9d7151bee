----------------------- MODULE BarrierProviderProofs ------------------------
(***************************************************************************)
(* Proofs about the wake event and the barrier for any number of threads   *)
(* and of phases, and about the provider thread for any number of providers*)
(* and clients.  The wake event part follows the wait blocks: each is in   *)
(* the list, in the chain that one walking thread has taken off it, or in  *)
(* neither, and a block in a chain stays where it is.  The barrier part    *)
(* follows the phase that the threads are in.                              *)
(***************************************************************************)
EXTENDS Barrier, Provider, FiniteSetTheorems, SequenceTheorems, TLAPS

\* The links as a function, and the blocks that are reached from h along links nx.
LinkMaps == [Threads -> Threads \cup {NULL}]
Links == [b \in Threads |-> block[b].next]
Closed(nx, S) == \A b \in S : nx[b] # NULL => nx[b] \in S
Reach(nx, h) == {b \in Threads : \A S \in SUBSET Threads : (h # NULL => h \in S) /\ Closed(nx, S) => b \in S}

\* The list that begins at h has only blocks of F, each of them once.
Sound(nx, h, F) == \A b \in Reach(nx, h) : b \in F /\ b \notin Reach(nx, nx[b])

\* The list at h and the chains that the threads of W walk are sound and apart.
Lists(nx, h, W, a, F) ==
    /\ Sound(nx, h, F)
    /\ \A t \in W : /\ a[t] \in Threads /\ Sound(nx, a[t], F)
                    /\ Reach(nx, a[t]) \cap Reach(nx, h) = {}
    /\ \A t, u \in W : t # u => Reach(nx, a[t]) \cap Reach(nx, a[u]) = {}

\* The threads that walk a chain they took off the list; the blocks that are queued,
\* and those of them that stay on the stack until somebody unblocks them.
Walkers == {t \in Threads : pc[t] \in {"walk", "release"}}
Registered == {t \in queued : pc[t] # "queueCas"}
Staying == {t \in Registered : block[t].spinning \/ pc[t] = "keyed"}

\* The types of the state of the wake event and of the barrier.
EventType ==
    /\ head \in Threads \cup {NULL} /\ queued \in SUBSET Threads
    /\ block \in [Threads -> [next : Threads \cup {NULL}, spinning : BOOLEAN]]
    /\ at \in [Threads -> Threads \cup {NULL}]
    /\ pc \in [Threads -> WakePoints \cup {"idle", "try", "wakeSlaves", "queued",
                                           "unblocked", "leave", "return"}]
    /\ ret \in [Threads -> {"idle", "queued", "wakeSlaves", "unblocked", "return"}]

BarrierType ==
    /\ role \in [Threads -> {"slave", "master", "observer"}]
    /\ value \in [count : Nat, waking : BOOLEAN]
    /\ val \in [Threads -> [count : Nat, waking : BOOLEAN]]
    /\ arrived \in [Threads -> Nat] /\ passed \in [Threads -> Nat] /\ masters \in Nat

TypeOK == EventType /\ BarrierType

\* Where a thread goes after an operation of the wake event, and when it has a block.
SetPoints == {"set", "pop", "walk", "release"}
ControlOf(t) ==
    /\ pc[t] \in {"queue", "queueCas"} => ret[t] = "queued"
    /\ pc[t] = "queueCas" => block[t].spinning
    /\ pc[t] \in {"block", "keyed", "cancelled"} => ret[t] = "unblocked"
    /\ pc[t] \in SetPoints => ret[t] \in {"wakeSlaves", "unblocked", "return"}
    /\ t \in queued <=> \/ pc[t] \in {"queueCas", "queued", "block", "keyed", "cancelled"}
                        \/ pc[t] \in SetPoints /\ ret[t] = "unblocked"
Control == \A t \in Threads : ControlOf(t)

WakeInv == Control /\ Lists(Links, head, Walkers, at, Staying)
-----------------------------------------------------------------------------
\* A thread that blocks or is about to, and goes on as its role says.
Blocking(t) == \/ pc[t] \in {"queue", "queueCas", "queued", "block", "keyed", "cancelled", "unblocked"}
               \/ pc[t] \in SetPoints /\ ret[t] = "unblocked"
\* The last thread, before it waits for the others.
BecomesMaster(t) == pc[t] = "wakeSlaves" \/ (pc[t] \in SetPoints /\ ret[t] = "wakeSlaves")
\* The thread is in Barrier->Value.
Inside(t) == BecomesMaster(t) \/ pc[t] = "leave" \/ (Blocking(t) /\ role[t] # "observer")
\* It has taken itself out and has not returned yet.
Leaving(t) == pc[t] = "return" \/ (pc[t] \in SetPoints /\ ret[t] = "return")
IsMaster(t) == BecomesMaster(t) \/ (Inside(t) /\ role[t] = "master")
MasterLeaves(t) == Leaving(t) /\ role[t] = "master"
InsideSet == {t \in Threads : Inside(t)}

\* Everybody is in phase k or, before the last one arrives, in the next one.
InPhase(k) ==
    /\ value.waking =>
         /\ \A t \in Threads : arrived[t] = k
         /\ masters + 1 = k
         /\ \A t \in Threads : ~MasterLeaves(t)
         /\ \E m \in Threads : IsMaster(m) /\ \A t \in Threads : IsMaster(t) => t = m
    /\ ~value.waking =>
         /\ \A t \in Threads : arrived[t] = IF Inside(t) THEN k + 1 ELSE k
         /\ \A t \in Threads : ~IsMaster(t) /\ (Inside(t) => pc[t] # "leave")
         /\ (\A t \in Threads : ~MasterLeaves(t)) => masters = k
         /\ \A m \in Threads : MasterLeaves(m) =>
              masters + 1 = k /\ \A t \in Threads : MasterLeaves(t) => t = m

PhaseInv ==
    /\ value.count = Cardinality(InsideSet)
    /\ \A t \in Threads : arrived[t] = IF Inside(t) \/ Leaving(t) THEN passed[t] + 1 ELSE passed[t]
    /\ \A t \in Threads : pc[t] = "leave" => /\ role[t] # "observer"
                                             /\ role[t] = "master" => InsideSet = {t}
    /\ \E k \in Nat : InPhase(k)

IInv == TypeOK /\ WakeInv /\ PhaseInv
-----------------------------------------------------------------------------
LEMMA ReachBasics ==
    ASSUME NEW nx \in LinkMaps, NEW h \in Threads \cup {NULL}
    PROVE  /\ Reach(nx, h) \in SUBSET Threads
           /\ h # NULL => h \in Reach(nx, h)
           /\ Closed(nx, Reach(nx, h))
           /\ \A S \in SUBSET Threads : (h # NULL => h \in S) /\ Closed(nx, S) => Reach(nx, h) \subseteq S
  <1>1. Reach(nx, h) \in SUBSET Threads
    BY DEF Reach
  <1>2. h # NULL => h \in Reach(nx, h)
    BY DEF Reach
  <1>3. Closed(nx, Reach(nx, h))
    <2> SUFFICES ASSUME NEW b \in Reach(nx, h), nx[b] # NULL PROVE nx[b] \in Reach(nx, h)
      BY DEF Closed
    <2>1. b \in Threads /\ nx[b] \in Threads
      BY DEF Reach, LinkMaps
    <2>2. ASSUME NEW S \in SUBSET Threads, h # NULL => h \in S, Closed(nx, S) PROVE nx[b] \in S
      <3>1. b \in S
        BY <2>2 DEF Reach
      <3> QED
        BY <2>2, <3>1 DEF Closed
    <2> QED
      BY <2>1, <2>2 DEF Reach
  <1>4. \A S \in SUBSET Threads : (h # NULL => h \in S) /\ Closed(nx, S) => Reach(nx, h) \subseteq S
    BY DEF Reach
  <1> QED
    BY <1>1, <1>2, <1>3, <1>4

LEMMA ReachNothing == ASSUME NEW nx \in LinkMaps PROVE Reach(nx, NULL) = {}
  <1>1. Closed(nx, {})
    BY DEF Closed
  <1> QED
    BY <1>1, ReachBasics

\* A list is its first block and the rest.
LEMMA ReachFirst ==
    ASSUME NEW nx \in LinkMaps, NEW h \in Threads
    PROVE  Reach(nx, h) = {h} \cup Reach(nx, nx[h]) /\ nx[h] \in Threads \cup {NULL}
  <1>1. nx[h] \in Threads \cup {NULL} /\ h # NULL
    BY WakeEventAssumption DEF LinkMaps
  <1>2. Reach(nx, nx[h]) \subseteq Reach(nx, h)
    <2>1. h \in Reach(nx, h) /\ Closed(nx, Reach(nx, h)) /\ Reach(nx, h) \in SUBSET Threads
      BY <1>1, ReachBasics
    <2>2. nx[h] # NULL => nx[h] \in Reach(nx, h)
      BY <2>1 DEF Closed
    <2> QED
      BY <1>1, <2>1, <2>2, ReachBasics
  <1>3. h \in Reach(nx, h)
    BY <1>1, ReachBasics
  <1>4. Reach(nx, h) \subseteq {h} \cup Reach(nx, nx[h])
    <2> DEFINE S == {h} \cup Reach(nx, nx[h])
    <2>1. S \in SUBSET Threads /\ h \in S
      BY <1>1, ReachBasics
    <2>2. Closed(nx, S)
      BY <1>1, ReachBasics DEF Closed
    <2> QED
      BY <2>1, <2>2, ReachBasics
  <1> QED
    BY <1>1, <1>2, <1>3, <1>4

\* Links of blocks that are not in the list do not matter.
LEMMA ReachSame ==
    ASSUME NEW nx \in LinkMaps, NEW mx \in LinkMaps, NEW h \in Threads \cup {NULL},
           \A b \in Reach(nx, h) : mx[b] = nx[b]
    PROVE  Reach(mx, h) = Reach(nx, h)
  <1>1. Reach(mx, h) \subseteq Reach(nx, h)
    <2>1. Closed(mx, Reach(nx, h))
      BY ReachBasics DEF Closed
    <2> QED
      BY <2>1, ReachBasics
  <1>2. Reach(nx, h) \subseteq Reach(mx, h)
    <2> DEFINE S == Reach(mx, h) \cap Reach(nx, h)
    <2>1. Closed(nx, S)
      BY ReachBasics DEF Closed
    <2>2. S \in SUBSET Threads /\ (h # NULL => h \in S)
      BY ReachBasics
    <2>3. Reach(nx, h) \subseteq S
      BY <2>1, <2>2, ReachBasics
    <2> QED
      BY <2>3
  <1> QED
    BY <1>1, <1>2
\* What follows a block of a list is part of the list.
LEMMA ReachRest ==
    ASSUME NEW nx \in LinkMaps, NEW h \in Threads \cup {NULL}, NEW b \in Reach(nx, h)
    PROVE  nx[b] \in Threads \cup {NULL} /\ Reach(nx, nx[b]) \subseteq Reach(nx, h)
  <1>1. b \in Threads /\ nx[b] \in Threads \cup {NULL}
    BY DEF Reach, LinkMaps
  <1>2. nx[b] # NULL => nx[b] \in Reach(nx, h)
    BY ReachBasics DEF Closed
  <1> QED
    BY <1>1, <1>2, ReachBasics

LEMMA SoundSame ==
    ASSUME NEW nx \in LinkMaps, NEW mx \in LinkMaps, NEW h \in Threads \cup {NULL}, NEW F, NEW G,
           Sound(nx, h, F), \A b \in Reach(nx, h) : b \in G /\ mx[b] = nx[b]
    PROVE  Reach(mx, h) = Reach(nx, h) /\ Sound(mx, h, G)
  <1>1. Reach(mx, h) = Reach(nx, h)
    BY ReachSame
  <1>2. ASSUME NEW b \in Reach(nx, h) PROVE Reach(mx, mx[b]) = Reach(nx, nx[b])
    <2>1. nx[b] \in Threads \cup {NULL} /\ Reach(nx, nx[b]) \subseteq Reach(nx, h)
      BY ReachRest
    <2>2. Reach(mx, nx[b]) = Reach(nx, nx[b])
      BY <2>1, ReachSame
    <2> QED
      BY <2>2
  <1> QED
    BY <1>1, <1>2 DEF Sound

\* The rest of a sound list is sound, and does not have the first block.
LEMMA SoundRest ==
    ASSUME NEW nx \in LinkMaps, NEW h \in Threads, NEW F, Sound(nx, h, F)
    PROVE  /\ h \in F /\ h \notin Reach(nx, nx[h]) /\ nx[h] \in Threads \cup {NULL}
           /\ Reach(nx, nx[h]) \subseteq Reach(nx, h) /\ Sound(nx, nx[h], F \ {h})
  <1>1. Reach(nx, h) = {h} \cup Reach(nx, nx[h]) /\ nx[h] \in Threads \cup {NULL}
    BY ReachFirst
  <1> QED
    BY <1>1 DEF Sound
-----------------------------------------------------------------------------
\* Blocks that are not in a list may be written, and more blocks may stay.
LEMMA ListsRelink ==
    ASSUME NEW nx \in LinkMaps, NEW mx \in LinkMaps, NEW h \in Threads \cup {NULL},
           NEW W \in SUBSET Threads, NEW a, NEW c, NEW F, NEW G,
           Lists(nx, h, W, a, F), F \subseteq G, \A b \in F : mx[b] = nx[b],
           \A t \in W : c[t] = a[t]
    PROVE  Lists(mx, h, W, c, G) /\ Reach(mx, h) = Reach(nx, h)
  <1>1. Reach(mx, h) = Reach(nx, h) /\ Sound(mx, h, G)
    <2>1. Sound(nx, h, F)
      BY DEF Lists
    <2>2. \A b \in Reach(nx, h) : b \in G /\ mx[b] = nx[b]
      BY <2>1 DEF Sound
    <2> QED
      BY <2>1, <2>2, SoundSame
  <1>2. ASSUME NEW t \in W
        PROVE  /\ a[t] \in Threads /\ c[t] = a[t] /\ Sound(mx, a[t], G)
               /\ Reach(mx, a[t]) = Reach(nx, a[t])
    <2>1. a[t] \in Threads /\ Sound(nx, a[t], F)
      BY DEF Lists
    <2>2. \A b \in Reach(nx, a[t]) : b \in G /\ mx[b] = nx[b]
      BY <2>1 DEF Sound
    <2> QED
      BY <2>1, <2>2, SoundSame
  <1> QED
    BY <1>1, <1>2 DEF Lists

\* A new block is put in front of the list.
LEMMA ListsPush ==
    ASSUME NEW nx \in LinkMaps, NEW h \in Threads \cup {NULL}, NEW W \in SUBSET Threads, NEW a,
           NEW F, NEW t \in Threads, Lists(nx, h, W, a, F), t \notin F, nx[t] = h
    PROVE  Lists(nx, t, W, a, F \cup {t}) /\ Reach(nx, t) = Reach(nx, h) \cup {t}
  <1>1. Reach(nx, t) = {t} \cup Reach(nx, h)
    BY ReachFirst
  <1>2. Sound(nx, h, F) /\ t \notin Reach(nx, h)
    BY DEF Lists, Sound
  <1>3. Sound(nx, t, F \cup {t})
    BY <1>1, <1>2 DEF Sound
  <1>4. \A u \in W : a[u] \in Threads /\ Sound(nx, a[u], F \cup {t}) /\ t \notin Reach(nx, a[u])
    BY DEF Lists, Sound
  <1> QED
    BY <1>1, <1>3, <1>4 DEF Lists

\* Thread t takes the list and begins to walk it.
LEMMA ListsPop ==
    ASSUME NEW nx \in LinkMaps, NEW h \in Threads, NEW W \in SUBSET Threads, NEW a, NEW c,
           NEW F, NEW t \in Threads, Lists(nx, h, W, a, F), t \notin W, c[t] = h,
           \A u \in W : c[u] = a[u]
    PROVE  Lists(nx, NULL, W \cup {t}, c, F)
  <1>1. Reach(nx, NULL) = {}
    BY ReachNothing
  <1>2. Sound(nx, NULL, F)
    BY <1>1 DEF Sound
  <1> QED
    BY <1>1, <1>2 DEF Lists

\* Thread t goes on to the block after a[t], which is unblocked and may be written.
LEMMA ListsAdvance ==
    ASSUME NEW nx \in LinkMaps, NEW mx \in LinkMaps, NEW h \in Threads \cup {NULL},
           NEW W \in SUBSET Threads, NEW a, NEW c, NEW F, NEW G, NEW t \in W, NEW V \in SUBSET W,
           Lists(nx, h, W, a, F), F \ {a[t]} \subseteq G, \A b \in F \ {a[t]} : mx[b] = nx[b],
           c[t] = nx[a[t]], \A u \in W \ {t} : c[u] = a[u],
           t \in V => nx[a[t]] # NULL
    PROVE  Lists(mx, h, V, c, G) /\ Reach(mx, h) = Reach(nx, h)
  <1> DEFINE b == a[t]
  <1>1. b \in Threads /\ Sound(nx, b, F) /\ Sound(nx, h, F) /\ b \in Reach(nx, b)
    BY ReachBasics, WakeEventAssumption DEF Lists
  <1>2. /\ b \in F /\ b \notin Reach(nx, nx[b]) /\ nx[b] \in Threads \cup {NULL}
        /\ Reach(nx, nx[b]) \subseteq Reach(nx, b) /\ Sound(nx, nx[b], F \ {b})
    BY <1>1, SoundRest
  <1>3. Reach(mx, h) = Reach(nx, h) /\ Sound(mx, h, G)
    <2>1. b \notin Reach(nx, h)
      BY <1>1 DEF Lists
    <2>2. \A d \in Reach(nx, h) : d \in G /\ mx[d] = nx[d]
      BY <1>1, <2>1 DEF Sound
    <2> QED
      BY <1>1, <2>2, SoundSame
  <1>4. Reach(mx, nx[b]) = Reach(nx, nx[b]) /\ Sound(mx, nx[b], G)
    <2>1. \A d \in Reach(nx, nx[b]) : d \in G /\ mx[d] = nx[d]
      BY <1>2 DEF Sound
    <2> QED
      BY <1>2, <2>1, SoundSame
  <1>5. ASSUME NEW u \in W \ {t}
        PROVE  /\ a[u] \in Threads /\ Reach(mx, a[u]) = Reach(nx, a[u]) /\ Sound(mx, a[u], G)
               /\ c[u] = a[u] /\ Reach(nx, a[u]) \cap Reach(nx, b) = {}
               /\ Reach(nx, a[u]) \cap Reach(nx, h) = {}
    <2>1. /\ a[u] \in Threads /\ Sound(nx, a[u], F) /\ Reach(nx, a[u]) \cap Reach(nx, b) = {}
          /\ Reach(nx, a[u]) \cap Reach(nx, h) = {}
      BY DEF Lists
    <2>2. b \notin Reach(nx, a[u])
      BY <1>1, <2>1
    <2>3. \A d \in Reach(nx, a[u]) : d \in G /\ mx[d] = nx[d]
      BY <2>1, <2>2 DEF Sound
    <2>4. Reach(mx, a[u]) = Reach(nx, a[u]) /\ Sound(mx, a[u], G)
      BY <2>1, <2>3, SoundSame
    <2> QED
      BY <2>1, <2>4
  <1>6. t \in V => /\ c[t] \in Threads /\ Sound(mx, c[t], G) /\ Reach(mx, c[t]) \subseteq Reach(nx, b)
                   /\ Reach(mx, c[t]) \cap Reach(mx, h) = {}
    <2>1. Reach(nx, b) \cap Reach(nx, h) = {}
      BY DEF Lists
    <2> QED
      BY <1>2, <1>3, <1>4, <2>1
  <1>7. \A u, v \in W \ {t} : u # v => Reach(mx, c[u]) \cap Reach(mx, c[v]) = {}
    BY <1>5 DEF Lists
  <1>8. \A u \in V : /\ c[u] \in Threads /\ Sound(mx, c[u], G)
                     /\ Reach(mx, c[u]) \cap Reach(mx, h) = {}
    BY <1>3, <1>5, <1>6
  <1>9. \A u, v \in V : u # v => Reach(mx, c[u]) \cap Reach(mx, c[v]) = {}
    BY <1>5, <1>6, <1>7
  <1> QED
    BY <1>3, <1>8, <1>9 DEF Lists
-----------------------------------------------------------------------------
\* What the wake event promises, over the wait blocks.
WakeStep == \/ Wake!WakeNext
            \/ Registered' = Registered /\ Chain(head)' = Chain(head)

EventInv == EventType /\ WakeInv

LEMMA ChainIs ==
    ASSUME EventType
    PROVE  Links \in LinkMaps /\ Chain(head) = Reach(Links, head)
  <1>1. Links \in LinkMaps
    BY DEF EventType, Links, LinkMaps
  <1>2. \A S \in SUBSET Threads : FollowsLinks(S) <=> Closed(Links, S)
    BY DEF FollowsLinks, Closed, Links
  <1> QED
    BY <1>1, <1>2 DEF Chain, Reach

LEMMA ChainIsNext ==
    ASSUME EventType'
    PROVE  Links' \in LinkMaps /\ Chain(head)' = Reach(Links', head')
  <1>1. Links' \in LinkMaps
    BY DEF EventType, Links, LinkMaps
  <1>2. \A S \in SUBSET Threads : FollowsLinks(S)' <=> Closed(Links', S)
    BY DEF FollowsLinks, Closed, Links
  <1> QED
    BY <1>1, <1>2 DEF Chain, Reach

\* A step that writes no block in a list and changes neither the list nor the walkers.
LEMMA NothingMoves ==
    ASSUME EventInv, EventType', Control', head' = head, Walkers' = Walkers, Staying \subseteq Staying',
           \A b \in Staying : Links'[b] = Links[b], \A t \in Walkers : at'[t] = at[t]
    PROVE  EventInv' /\ Chain(head)' = Chain(head)
  <1>1. /\ Links \in LinkMaps /\ Links' \in LinkMaps /\ head \in Threads \cup {NULL}
        /\ Walkers \in SUBSET Threads /\ Lists(Links, head, Walkers, at, Staying)
    BY ChainIs, ChainIsNext DEF EventInv, EventType, WakeInv, Walkers
  <1>2. Lists(Links', head, Walkers, at', Staying') /\ Reach(Links', head) = Reach(Links, head)
    BY <1>1, ListsRelink
  <1>3. Chain(head)' = Chain(head)
    BY <1>2, ChainIs, ChainIsNext DEF EventInv
  <1> QED
    BY <1>2, <1>3 DEF EventInv, WakeInv

\* Steps of the barrier go from one of its own points to another or call the wake event.
UserPoints == {"idle", "try", "wakeSlaves", "queued", "unblocked", "leave", "return"}

LEMMA UserStep ==
    ASSUME EventInv, NEW t \in Threads, pc[t] \in UserPoints, UNCHANGED eventVars,
           NEW p \in UserPoints \cup {"queue", "set", "block"},
           NEW r \in {"idle", "queued", "wakeSlaves", "unblocked", "return"},
           pc' = [pc EXCEPT ![t] = p], ret' = [ret EXCEPT ![t] = r],
           p = "queue" => r = "queued",
           p = "set" => r \in {"wakeSlaves", "unblocked", "return"},
           p = "block" => r = "unblocked",
           pc[t] = "queued" <=> (p \in {"queued", "block"} \/ (p = "set" /\ r = "unblocked"))
    PROVE  EventInv' /\ WakeStep
  <1> USE DEF eventVars
  <1>1. EventType'
    BY DEF EventInv, EventType, UserPoints, WakePoints
  <1>2. Control'
    <2> SUFFICES ASSUME NEW u \in Threads PROVE ControlOf(u)'
      BY DEF Control
    <2>1. CASE u = t
      BY <2>1 DEF EventInv, EventType, WakeInv, Control, ControlOf, UserPoints, SetPoints
    <2>2. CASE u # t
      BY <2>2 DEF EventInv, EventType, WakeInv, Control, ControlOf
    <2> QED
      BY <2>1, <2>2
  <1>3. Walkers' = Walkers /\ Registered' = Registered /\ Staying' = Staying /\ Links' = Links
    BY DEF EventInv, EventType, UserPoints, Walkers, Registered, Staying, Links
  <1> QED
    BY <1>1, <1>2, <1>3, NothingMoves DEF WakeStep
-----------------------------------------------------------------------------
\* Only the control of thread t changes.
LEMMA ControlStep ==
    ASSUME Control, NEW t \in Threads, ControlOf(t)',
           \A u \in Threads \ {t} : /\ pc'[u] = pc[u] /\ ret'[u] = ret[u]
                                    /\ u \in queued' <=> u \in queued
                                    /\ pc[u] = "queueCas" => block'[u] = block[u]
    PROVE  Control'
  <1> SUFFICES ASSUME NEW u \in Threads, u # t PROVE ControlOf(u)'
    BY DEF Control
  <1>1. ControlOf(u)
    BY DEF Control
  <1>2. u \in Threads \ {t}
    OBVIOUS
  <1>3. /\ ControlOf(u) /\ pc'[u] = pc[u] /\ ret'[u] = ret[u] /\ (u \in queued' <=> u \in queued)
        /\ pc[u] = "queueCas" => block'[u] = block[u]
    BY <1>1, <1>2
  <1>4. pc'[u] = "queueCas" => block'[u].spinning
    BY <1>3 DEF ControlOf
  <1> QED
    BY <1>3, <1>4 DEF ControlOf

LEMMA QueueReadStep ==
    ASSUME EventInv, NEW t \in Threads, QueueRead(t) PROVE EventInv' /\ WakeStep
  <1> USE DEF QueueRead, Goto
  <1>1. EventType'
    BY DEF EventInv, EventType, WakePoints
  <1>2. ControlOf(t) /\ Control
    BY DEF EventInv, WakeInv, Control
  <1>3. t \notin queued /\ ret[t] = "queued"
    BY <1>2 DEF ControlOf, SetPoints
  <1>4. Control'
    <2>1. ControlOf(t)'
      BY <1>2, <1>3 DEF EventInv, EventType, ControlOf, SetPoints
    <2>2. \A u \in Threads \ {t} : /\ pc'[u] = pc[u] /\ ret'[u] = ret[u] /\ block'[u] = block[u]
                                   /\ u \in queued' <=> u \in queued
      BY DEF EventInv, EventType
    <2> QED
      BY <1>2, <2>1, <2>2, ControlStep
  <1>5. Walkers' = Walkers /\ Registered' = Registered
    BY <1>3 DEF EventInv, EventType, Walkers, Registered
  <1>6. Staying' = Staying /\ \A b \in Staying : Links'[b] = Links[b]
    BY <1>3, <1>5 DEF EventInv, EventType, Registered, Staying, Links
  <1> QED
    BY <1>1, <1>4, <1>5, <1>6, NothingMoves DEF WakeStep

LEMMA QueueCasStep ==
    ASSUME EventInv, NEW t \in Threads, QueueCas(t) PROVE EventInv' /\ WakeStep
  <1>1. /\ pc[t] = "queueCas" /\ ret[t] = "queued" /\ block[t].spinning /\ t \in queued /\ Control
        /\ UNCHANGED <<queued, at, ret>>
    BY DEF EventInv, WakeInv, Control, ControlOf, QueueCas
  <1>2. CASE NothingPushed(t)
    <2>1. head' = t /\ pc' = [pc EXCEPT ![t] = "queued"] /\ block' = block /\ block[t].next = head
      BY <1>1, <1>2 DEF QueueCas, Goto, NothingPushed
    <2>2. EventType'
      BY <1>1, <2>1 DEF EventInv, EventType
    <2>3. Control'
      <3>1. ControlOf(t)'
        BY <1>1, <2>1 DEF EventInv, EventType, ControlOf, SetPoints
      <3>2. \A u \in Threads \ {t} : /\ pc'[u] = pc[u] /\ ret'[u] = ret[u] /\ block'[u] = block[u]
                                     /\ u \in queued' <=> u \in queued
        BY <1>1, <2>1 DEF EventInv, EventType
      <3> QED
        BY <1>1, <3>1, <3>2, ControlStep
    <2>4. /\ Walkers' = Walkers /\ Links' = Links /\ Links[t] = head /\ t \notin Registered
          /\ Registered' = Registered \cup {t} /\ Staying' = Staying \cup {t} /\ t \notin Staying
      BY <1>1, <2>1 DEF EventInv, EventType, Walkers, Links, Registered, Staying
    <2>5. /\ Lists(Links, t, Walkers, at, Staying \cup {t})
          /\ Reach(Links, t) = Reach(Links, head) \cup {t}
      <3>1. /\ Links \in LinkMaps /\ head \in Threads \cup {NULL} /\ Walkers \in SUBSET Threads
            /\ Lists(Links, head, Walkers, at, Staying)
        BY ChainIs DEF EventInv, EventType, WakeInv, Walkers
      <3> QED
        BY <2>4, <3>1, ListsPush
    <2>6. Chain(head)' = Chain(head) \cup {t}
      BY <2>1, <2>2, <2>4, <2>5, ChainIs, ChainIsNext DEF EventInv
    <2>7. WakeStep
      BY <2>4, <2>6 DEF WakeStep, Wake!WakeNext, Wake!Register, Registered
    <2> QED
      BY <1>1, <2>1, <2>2, <2>3, <2>4, <2>5, <2>7 DEF EventInv, WakeInv
  <1>3. CASE ~NothingPushed(t)
    <2>1. head' = head /\ pc' = pc /\ block' = [block EXCEPT ![t].next = head]
      BY <1>1, <1>3 DEF QueueCas
    <2>2. EventType'
      BY <1>1, <2>1 DEF EventInv, EventType
    <2>3. Control'
      <3>1. ControlOf(t)'
        BY <1>1, <2>1 DEF EventInv, EventType, ControlOf, SetPoints
      <3>2. \A u \in Threads \ {t} : /\ pc'[u] = pc[u] /\ ret'[u] = ret[u] /\ block'[u] = block[u]
                                     /\ u \in queued' <=> u \in queued
        BY <1>1, <2>1 DEF EventInv, EventType
      <3> QED
        BY <1>1, <3>1, <3>2, ControlStep
    <2>4. /\ Walkers' = Walkers /\ Registered' = Registered /\ t \notin Registered
      BY <1>1, <2>1 DEF Walkers, Registered
    <2>5. Staying' = Staying /\ \A b \in Staying : Links'[b] = Links[b]
      BY <1>1, <2>1, <2>4 DEF EventInv, EventType, Registered, Staying, Links
    <2> QED
      BY <1>1, <2>1, <2>2, <2>3, <2>4, <2>5, NothingMoves DEF WakeStep
  <1> QED
    BY <1>2, <1>3

\* A thread whose block is in no list leaves with its block.
LEMMA LeaveStep ==
    ASSUME EventInv, NEW t \in Threads, t \in Registered, t \notin Staying, Leave(t),
           pc[t] \in {"block", "cancelled"},
           pc' = [pc EXCEPT ![t] = "unblocked"], UNCHANGED <<head, at, ret>>
    PROVE  EventInv' /\ WakeStep
  <1> USE DEF Leave
  <1>1. EventType'
    BY DEF EventInv, EventType, NoBlock
  <1>2. Control'
    <2>1. ControlOf(t)' /\ Control
      BY DEF EventInv, EventType, WakeInv, ControlOf, SetPoints
    <2>2. \A u \in Threads \ {t} : /\ pc'[u] = pc[u] /\ ret'[u] = ret[u] /\ block'[u] = block[u]
                                   /\ u \in queued' <=> u \in queued
      BY DEF EventInv, EventType
    <2> QED
      BY <2>1, <2>2, ControlStep
  <1>3. Walkers' = Walkers /\ Registered' = Registered \ {t}
    BY DEF EventInv, EventType, Walkers, Registered
  <1>4. Staying' = Staying /\ \A b \in Staying : Links'[b] = Links[b]
    BY <1>3 DEF EventInv, EventType, Registered, Staying, Links, NoBlock
  <1>5. EventInv' /\ Chain(head)' = Chain(head)
    BY <1>1, <1>2, <1>3, <1>4, NothingMoves
  <1>6. t \notin Chain(head)
    BY ChainIs DEF EventInv, WakeInv, Lists, Sound
  <1> QED
    BY <1>3, <1>5, <1>6 DEF WakeStep, Wake!WakeNext, Wake!GoOn, Registered

LEMMA BlockOverStep ==
    ASSUME EventInv, NEW t \in Threads, BlockOver(t) PROVE EventInv' /\ WakeStep
  <1>1. ret[t] = "unblocked" /\ t \in Registered /\ t \notin Staying
    BY DEF EventInv, WakeInv, Control, ControlOf, BlockOver, Registered, Staying
  <1> QED
    BY <1>1, LeaveStep DEF BlockOver, Goto

LEMMA BlockKeyedStep ==
    ASSUME EventInv, NEW t \in Threads, BlockKeyed(t) PROVE EventInv' /\ WakeStep
  <1> USE DEF BlockKeyed, Goto
  <1>1. EventType'
    BY DEF EventInv, EventType, WakePoints
  <1>2. Control'
    <2>1. ControlOf(t)' /\ Control
      BY DEF EventInv, EventType, WakeInv, Control, ControlOf, SetPoints
    <2>2. \A u \in Threads \ {t} : /\ pc'[u] = pc[u] /\ ret'[u] = ret[u] /\ block'[u] = block[u]
                                   /\ u \in queued' <=> u \in queued
      BY DEF EventInv, EventType
    <2> QED
      BY <2>1, <2>2, ControlStep
  <1>3. Walkers' = Walkers /\ Registered' = Registered
    BY DEF EventInv, EventType, Walkers, Registered
  <1>4. Staying \subseteq Staying' /\ \A b \in Staying : Links'[b] = Links[b]
    BY <1>3 DEF EventInv, EventType, Registered, Staying, Links
  <1> QED
    BY <1>1, <1>2, <1>3, <1>4, NothingMoves DEF WakeStep
\* Where a thread goes on that has nothing to wake, or nothing more.
LEMMA AfterWalkGoesTo ==
    ASSUME EventInv, NEW t \in Threads, pc[t] \in SetPoints
    PROVE  /\ t \in queued => AfterWalk(t) = "cancelled" /\ ret[t] = "unblocked"
           /\ t \notin queued => AfterWalk(t) = ret[t] /\ ret[t] \in {"wakeSlaves", "return"}
  BY DEF EventInv, WakeInv, Control, ControlOf, SetPoints, AfterWalk, Cancelling

LEMMA SetTestStep ==
    ASSUME EventInv, NEW t \in Threads, SetTest(t) PROVE EventInv' /\ WakeStep
  <1>1. PICK p \in {"pop", "wakeSlaves", "return"} :
           /\ pc' = [pc EXCEPT ![t] = p] /\ pc[t] = "set" /\ UNCHANGED <<head, block, queued, at, ret>>
           /\ p # "pop" => t \notin queued
    <2>1. t \notin queued => ret[t] \in {"wakeSlaves", "return"}
      BY AfterWalkGoesTo DEF SetTest, SetPoints
    <2> QED
      BY <2>1 DEF SetTest, Goto, Cancelling, eventVars
  <1>2. EventType'
    BY <1>1 DEF EventInv, EventType, WakePoints
  <1>3. Control'
    <2>1. ControlOf(t)' /\ Control
      BY <1>1 DEF EventInv, EventType, WakeInv, Control, ControlOf, SetPoints
    <2>2. \A u \in Threads \ {t} : /\ pc'[u] = pc[u] /\ ret'[u] = ret[u] /\ block'[u] = block[u]
                                   /\ u \in queued' <=> u \in queued
      BY <1>1 DEF EventInv, EventType
    <2> QED
      BY <2>1, <2>2, ControlStep
  <1>4. Walkers' = Walkers /\ Registered' = Registered /\ Staying' = Staying /\ Links' = Links
    BY <1>1 DEF EventInv, EventType, Walkers, Registered, Staying, Links
  <1> QED
    BY <1>1, <1>2, <1>3, <1>4, NothingMoves DEF WakeStep

LEMMA SetPopStep ==
    ASSUME EventInv, NEW t \in Threads, SetPop(t) PROVE EventInv' /\ WakeStep
  <1>1. PICK p \in {"walk", "cancelled", "wakeSlaves", "return"} :
           /\ pc' = [pc EXCEPT ![t] = p] /\ pc[t] = "pop" /\ UNCHANGED <<block, queued, ret>>
           /\ head' = NULL /\ at' = [at EXCEPT ![t] = head]
           /\ p = "walk" <=> head # NULL
           /\ p = "cancelled" => t \in queued
           /\ p \in {"wakeSlaves", "return"} => t \notin queued
    <2>1. pc[t] = "pop" /\ pc[t] \in SetPoints
      BY DEF SetPop, SetPoints
    <2>2. head = NULL => \/ AfterWalk(t) = "cancelled" /\ t \in queued
                         \/ AfterWalk(t) \in {"wakeSlaves", "return"} /\ t \notin queued
      BY <2>1, AfterWalkGoesTo
    <2> QED
      BY <2>1, <2>2 DEF SetPop, Goto
  <1>2. EventType'
    BY <1>1 DEF EventInv, EventType, WakePoints
  <1>3. Control'
    <2>1. ControlOf(t)' /\ Control
      BY <1>1 DEF EventInv, EventType, WakeInv, Control, ControlOf, SetPoints
    <2>2. \A u \in Threads \ {t} : /\ pc'[u] = pc[u] /\ ret'[u] = ret[u] /\ block'[u] = block[u]
                                   /\ u \in queued' <=> u \in queued
      BY <1>1 DEF EventInv, EventType
    <2> QED
      BY <2>1, <2>2, ControlStep
  <1>4. Registered' = Registered /\ Staying' = Staying /\ Links' = Links /\ t \notin Walkers
    BY <1>1 DEF EventInv, EventType, Registered, Staying, Links, Walkers
  <1>5. \A u \in Walkers : at'[u] = at[u]
    BY <1>1, <1>4 DEF EventInv, EventType, Walkers
  <1>6. CASE head = NULL
    <2>1. Walkers' = Walkers
      BY <1>1, <1>6 DEF EventInv, EventType, Walkers
    <2> QED
      BY <1>1, <1>2, <1>3, <1>4, <1>5, <1>6, <2>1, NothingMoves DEF WakeStep
  <1>7. CASE head # NULL
    <2>1. Walkers' = Walkers \cup {t} /\ at'[t] = head
      BY <1>1, <1>7 DEF EventInv, EventType, Walkers
    <2>2. Lists(Links, NULL, Walkers \cup {t}, at', Staying)
      <3>1. /\ Links \in LinkMaps /\ head \in Threads /\ Walkers \in SUBSET Threads
            /\ Lists(Links, head, Walkers, at, Staying)
        BY <1>7, ChainIs DEF EventInv, EventType, WakeInv, Walkers
      <3> QED
        BY <1>4, <1>5, <2>1, <3>1, ListsPop
    <2>3. Chain(head)' = {}
      BY <1>1, <1>2, ChainIsNext, ReachNothing
    <2>4. WakeStep
      BY <1>4, <2>3 DEF WakeStep, Wake!WakeNext, Wake!WakeEverybody, Registered
    <2> QED
      BY <1>1, <1>2, <1>3, <1>4, <2>1, <2>2, <2>4 DEF EventInv, WakeInv
  <1> QED
    BY <1>6, <1>7

\* The block that a walking thread is at is in use and in no other list.
LEMMA WalkerAt ==
    ASSUME EventInv, NEW t \in Walkers
    PROVE  /\ t \in Threads /\ at[t] \in Threads /\ at[t] \in Staying /\ at[t] \in Registered
           /\ at[t] \in queued /\ pc[at[t]] # "queueCas"
           /\ at[t] \notin Chain(head) /\ block[at[t]].next = Links[at[t]]
           /\ Links[at[t]] \in Threads \cup {NULL}
  <1>1. Links \in LinkMaps /\ Chain(head) = Reach(Links, head) /\ Lists(Links, head, Walkers, at, Staying)
    BY ChainIs DEF EventInv, WakeInv
  <1>2. at[t] \in Threads /\ Sound(Links, at[t], Staying) /\ Reach(Links, at[t]) \cap Reach(Links, head) = {}
    BY <1>1 DEF Lists
  <1>3. at[t] \in Reach(Links, at[t])
    BY <1>1, <1>2, ReachBasics, WakeEventAssumption
  <1>4. at[t] \in Staying
    BY <1>2, <1>3 DEF Sound
  <1> QED
    BY <1>1, <1>2, <1>3, <1>4 DEF Staying, Registered, Links, LinkMaps, Walkers

LEMMA UnblockSpinningStep ==
    ASSUME EventInv, NEW t \in Threads, UnblockSpinning(t) PROVE EventInv' /\ WakeStep
  <1> DEFINE b == at[t]
             n == block[b].next
  <1>1. t \in Walkers /\ pc[t] = "walk" /\ block[b].spinning
    BY DEF UnblockSpinning, Walkers
  <1>2. /\ b \in Threads /\ b \in queued /\ pc[b] # "queueCas" /\ n \in Threads \cup {NULL}
        /\ n = Links[b]
    BY <1>1, WalkerAt
  <1>3. PICK p \in {"walk", "cancelled", "wakeSlaves", "return"} :
           /\ pc' = [pc EXCEPT ![t] = p] /\ UNCHANGED <<head, queued, ret>>
           /\ at' = [at EXCEPT ![t] = n] /\ block' = [block EXCEPT ![b].spinning = FALSE]
           /\ p = "walk" <=> n # NULL
           /\ p = "cancelled" => t \in queued
           /\ p \in {"wakeSlaves", "return"} => t \notin queued
    <2>1. \/ AfterWalk(t) = "cancelled" /\ t \in queued
          \/ AfterWalk(t) \in {"wakeSlaves", "return"} /\ t \notin queued
      BY <1>1, AfterWalkGoesTo DEF SetPoints
    <2> QED
      BY <2>1 DEF UnblockSpinning, GoOnWalking, Goto
  <1>4. EventType'
    BY <1>2, <1>3 DEF EventInv, EventType, WakePoints
  <1>5. Control'
    <2>1. ControlOf(t)' /\ Control
      BY <1>1, <1>3 DEF EventInv, EventType, WakeInv, Control, ControlOf, SetPoints
    <2>2. \A u \in Threads \ {t} : /\ pc'[u] = pc[u] /\ ret'[u] = ret[u]
                                   /\ u \in queued' <=> u \in queued
                                   /\ pc[u] = "queueCas" => block'[u] = block[u]
      BY <1>2, <1>3 DEF EventInv, EventType
    <2> QED
      BY <2>1, <2>2, ControlStep
  <1>6. /\ Registered' = Registered /\ Links' = Links /\ Walkers' \in SUBSET Walkers
        /\ t \in Walkers' => n # NULL
    BY <1>1, <1>2, <1>3 DEF EventInv, EventType, Registered, Links, Walkers
  <1>7. Staying \ {b} \subseteq Staying'
    BY <1>1, <1>2, <1>3, <1>6 DEF EventInv, EventType, Registered, Staying
  <1>8. at'[t] = n /\ \A u \in Walkers \ {t} : at'[u] = at[u]
    BY <1>3 DEF EventInv, EventType, Walkers
  <1>9. Lists(Links', head', Walkers', at', Staying') /\ Reach(Links', head') = Reach(Links, head)
    <2>1. /\ Links \in LinkMaps /\ head \in Threads \cup {NULL} /\ Walkers \in SUBSET Threads
          /\ Lists(Links, head, Walkers, at, Staying)
      BY ChainIs DEF EventInv, EventType, WakeInv, Walkers
    <2>2. Lists(Links, head, Walkers', at', Staying') /\ Reach(Links, head) = Reach(Links, head)
      BY <1>1, <1>2, <1>6, <1>7, <1>8, <2>1, ListsAdvance
    <2> QED
      BY <1>3, <1>6, <2>2
  <1>10. Chain(head)' = Chain(head)
    BY <1>4, <1>9, ChainIs, ChainIsNext DEF EventInv
  <1> QED
    BY <1>4, <1>5, <1>6, <1>9, <1>10 DEF EventInv, WakeInv, WakeStep

LEMMA UnblockKeyedStep ==
    ASSUME EventInv, NEW t \in Threads, UnblockKeyed(t) PROVE EventInv' /\ WakeStep
  <1>1. pc' = [pc EXCEPT ![t] = "release"] /\ pc[t] = "walk" /\ UNCHANGED <<head, block, queued, at, ret>>
    BY DEF UnblockKeyed, Goto, eventVars
  <1>2. EventType'
    BY <1>1 DEF EventInv, EventType, WakePoints
  <1>3. Control'
    <2>1. ControlOf(t)' /\ Control
      BY <1>1 DEF EventInv, EventType, WakeInv, Control, ControlOf, SetPoints
    <2>2. \A u \in Threads \ {t} : /\ pc'[u] = pc[u] /\ ret'[u] = ret[u] /\ block'[u] = block[u]
                                   /\ u \in queued' <=> u \in queued
      BY <1>1 DEF EventInv, EventType
    <2> QED
      BY <2>1, <2>2, ControlStep
  <1>4. Walkers' = Walkers /\ Registered' = Registered /\ Staying' = Staying /\ Links' = Links
    BY <1>1 DEF EventInv, EventType, Walkers, Registered, Staying, Links
  <1> QED
    BY <1>1, <1>2, <1>3, <1>4, NothingMoves DEF WakeStep

\* The thread that was waiting goes on, with its block, while t walks on.
LEMMA RendezvousStep ==
    ASSUME EventInv, NEW t \in Threads, NEW w \in Threads, Rendezvous(t, w)
    PROVE  EventInv' /\ WakeStep
  <1> DEFINE n == block[w].next
  <1>1. t \in Walkers /\ pc[t] = "release" /\ at[t] = w /\ pc[w] = "keyed" /\ w # t
    BY DEF Rendezvous, Walkers
  <1>2. /\ w \in queued /\ w \in Registered /\ w \notin Chain(head)
        /\ n \in Threads \cup {NULL} /\ n = Links[w]
    BY <1>1, WalkerAt
  <1>3. ret[w] = "unblocked"
    BY <1>1 DEF EventInv, WakeInv, Control, ControlOf
  <1>4. PICK p \in {"walk", "cancelled", "wakeSlaves", "return"} :
           /\ pc' = [pc EXCEPT ![w] = "unblocked", ![t] = p] /\ UNCHANGED <<head, ret>>
           /\ at' = [at EXCEPT ![t] = n] /\ block' = [block EXCEPT ![w] = NoBlock]
           /\ queued' = queued \ {w}
           /\ p = "walk" <=> n # NULL
           /\ p = "cancelled" => t \in queued
           /\ p \in {"wakeSlaves", "return"} => t \notin queued
    <2>1. \/ AfterWalk(t) = "cancelled" /\ t \in queued
          \/ AfterWalk(t) \in {"wakeSlaves", "return"} /\ t \notin queued
      BY <1>1, AfterWalkGoesTo DEF SetPoints
    <2> QED
      BY <1>3, <2>1 DEF Rendezvous, Leave
  <1>5. EventType'
    BY <1>2, <1>4 DEF EventInv, EventType, WakePoints, NoBlock
  <1>6. Control'
    <2>1. ControlOf(t)'
      BY <1>1, <1>4 DEF EventInv, EventType, WakeInv, Control, ControlOf, SetPoints
    <2>2. ControlOf(w)'
      BY <1>1, <1>3, <1>4 DEF EventInv, EventType, ControlOf, SetPoints
    <2>3. ASSUME NEW u \in Threads, u # t, u # w PROVE ControlOf(u)'
      <3>1. pc'[u] = pc[u] /\ ret'[u] = ret[u] /\ block'[u] = block[u] /\ (u \in queued' <=> u \in queued)
        BY <1>4, <2>3 DEF EventInv, EventType
      <3>2. ControlOf(u)
        BY DEF EventInv, WakeInv, Control
      <3> QED
        BY <3>1, <3>2 DEF ControlOf
    <2> QED
      BY <2>1, <2>2, <2>3 DEF Control
  <1>7. /\ Registered' = Registered \ {w} /\ Walkers' \in SUBSET Walkers
        /\ t \in Walkers' => n # NULL
    BY <1>1, <1>2, <1>4 DEF EventInv, EventType, Registered, Walkers
  <1>8. Staying \ {w} \subseteq Staying' /\ \A b \in Staying \ {w} : Links'[b] = Links[b]
    BY <1>1, <1>4, <1>7 DEF EventInv, EventType, Registered, Staying, Links
  <1>9. at'[t] = n /\ \A u \in Walkers \ {t} : at'[u] = at[u]
    BY <1>4 DEF EventInv, EventType, Walkers
  <1>10. Lists(Links', head', Walkers', at', Staying') /\ Reach(Links', head') = Reach(Links, head)
    <2>1. /\ Links \in LinkMaps /\ Links' \in LinkMaps /\ head \in Threads \cup {NULL}
          /\ Walkers \in SUBSET Threads /\ Lists(Links, head, Walkers, at, Staying)
      BY <1>5, ChainIs, ChainIsNext DEF EventInv, EventType, WakeInv, Walkers
    <2>2. /\ Staying \ {at[t]} \subseteq Staying' /\ \A b \in Staying \ {at[t]} : Links'[b] = Links[b]
          /\ at'[t] = Links[at[t]] /\ (t \in Walkers' => Links[at[t]] # NULL) /\ t \in Walkers
          /\ Walkers' \in SUBSET Walkers /\ \A u \in Walkers \ {t} : at'[u] = at[u]
      BY <1>1, <1>2, <1>7, <1>8, <1>9
    <2>3. ASSUME NEW mx \in LinkMaps, NEW c, NEW G, NEW V \in SUBSET Walkers, Staying \ {at[t]} \subseteq G,
                 \A b \in Staying \ {at[t]} : mx[b] = Links[b], c[t] = Links[at[t]],
                 \A u \in Walkers \ {t} : c[u] = at[u], t \in V => Links[at[t]] # NULL
          PROVE  Lists(mx, head, V, c, G) /\ Reach(mx, head) = Reach(Links, head)
      BY <2>1, <2>2, <2>3, ListsAdvance
    <2>4. Lists(Links', head, Walkers', at', Staying') /\ Reach(Links', head) = Reach(Links, head)
      BY <2>1, <2>2, <2>3
    <2> QED
      BY <1>4, <2>4
  <1>11. Chain(head)' = Chain(head)
    BY <1>5, <1>10, ChainIs, ChainIsNext DEF EventInv
  <1>12. WakeStep
    BY <1>2, <1>7, <1>11 DEF WakeStep, Wake!WakeNext, Wake!GoOn, Registered
  <1> QED
    BY <1>5, <1>6, <1>10, <1>12 DEF EventInv, WakeInv

LEMMA CancelledStep ==
    ASSUME EventInv, NEW t \in Threads, Cancelled(t) PROVE EventInv' /\ WakeStep
  <1>1. /\ pc[t] = "cancelled" /\ ret[t] = "unblocked" /\ t \in queued /\ t \in Registered /\ Control
        /\ UNCHANGED <<head, at, ret>>
    BY DEF EventInv, WakeInv, Control, ControlOf, Cancelled, Registered
  <1>2. CASE MustWaitForUnblock(t)
    <2>1. pc' = [pc EXCEPT ![t] = "block"] /\ UNCHANGED <<block, queued>>
      BY <1>2 DEF Cancelled, Goto
    <2>2. EventType'
      BY <1>1, <2>1 DEF EventInv, EventType, WakePoints
    <2>3. Control'
      <3>1. ControlOf(t)'
        BY <1>1, <2>1 DEF EventInv, EventType, ControlOf, SetPoints
      <3>2. \A u \in Threads \ {t} : /\ pc'[u] = pc[u] /\ ret'[u] = ret[u] /\ block'[u] = block[u]
                                     /\ u \in queued' <=> u \in queued
        BY <1>1, <2>1 DEF EventInv, EventType
      <3> QED
        BY <1>1, <3>1, <3>2, ControlStep
    <2>4. Walkers' = Walkers /\ Registered' = Registered /\ Staying' = Staying /\ Links' = Links
      BY <1>1, <2>1 DEF EventInv, EventType, Walkers, Registered, Staying, Links
    <2> QED
      BY <1>1, <2>2, <2>3, <2>4, NothingMoves DEF WakeStep
  <1>3. CASE ~MustWaitForUnblock(t)
    <2>1. t \notin Staying
      BY <1>1, <1>3 DEF Staying, MustWaitForUnblock
    <2>2. Leave(t) /\ pc' = [pc EXCEPT ![t] = "unblocked"]
      BY <1>1, <1>3 DEF Cancelled, Goto
    <2> QED
      BY <1>1, <2>1, <2>2, LeaveStep
  <1> QED
    BY <1>2, <1>3

LEMMA WakeEventStepIs ==
    ASSUME EventInv, NEW t \in Threads, WakeEventStep(t) PROVE EventInv' /\ WakeStep
  BY QueueReadStep, QueueCasStep, BlockOverStep, BlockKeyedStep, SetTestStep, SetPopStep,
     UnblockSpinningStep, UnblockKeyedStep, CancelledStep, RendezvousStep DEF WakeEventStep
-----------------------------------------------------------------------------
\* Every step of the barrier that is not one of the wake event calls it correctly.
LEMMA BarrierUserStep ==
    ASSUME EventInv, NEW t \in Threads,
           \/ WaitForBarrier(t) \/ Arrive(t) \/ Observe(t) \/ WakeSlaves(t) \/ BlockOnBarrier(t)
           \/ Unblocked(t) \/ LeaveSlave(t) \/ LeaveMaster(t) \/ Return(t)
    PROVE  EventInv' /\ WakeStep
  <1> DEFINE Goes(p, r) == pc' = [pc EXCEPT ![t] = p] /\ ret' = [ret EXCEPT ![t] = r]
  <1> USE DEF Goto, Call, BlockAs
  <1>1. ret[t] \in {"idle", "queued", "wakeSlaves", "unblocked", "return"} /\ ret = [ret EXCEPT ![t] = ret[t]]
    BY DEF EventInv, EventType
  <1>2. CASE WaitForBarrier(t)
    <2>1. pc[t] = "idle" /\ Goes("try", ret[t]) /\ UNCHANGED eventVars
      BY <1>1, <1>2 DEF WaitForBarrier
    <2> QED
      BY <1>1, <2>1, UserStep DEF UserPoints
  <1>3. CASE Arrive(t)
    <2>1. pc[t] = "try" /\ UNCHANGED eventVars
      BY <1>3 DEF Arrive
    <2>2. CASE value = val[t] /\ LastArrival(val[t].count + 1)
      <3>1. Goes("set", "wakeSlaves")
        BY <1>3, <2>2 DEF Arrive
      <3> QED
        BY <2>1, <3>1, UserStep DEF UserPoints
    <2>3. CASE value = val[t] /\ ~LastArrival(val[t].count + 1)
      <3>1. Goes("queue", "queued")
        BY <1>3, <2>3 DEF Arrive
      <3> QED
        BY <2>1, <3>1, UserStep DEF UserPoints
    <2>4. CASE value # val[t]
      <3>1. Goes("try", ret[t])
        BY <1>1, <1>3, <2>1, <2>4 DEF Arrive, EventInv, EventType
      <3> QED
        BY <1>1, <2>1, <3>1, UserStep DEF UserPoints
    <2> QED
      BY <2>2, <2>3, <2>4
  <1>4. CASE Observe(t)
    <2>1. pc[t] = "try" /\ Goes("queue", "queued") /\ UNCHANGED eventVars
      BY <1>4 DEF Observe
    <2> QED
      BY <2>1, UserStep DEF UserPoints
  <1>5. CASE WakeSlaves(t)
    <2>1. pc[t] = "wakeSlaves" /\ Goes("queue", "queued") /\ UNCHANGED eventVars
      BY <1>5 DEF WakeSlaves
    <2> QED
      BY <2>1, UserStep DEF UserPoints
  <1>6. CASE BlockOnBarrier(t)
    <2>1. /\ pc[t] = "queued" /\ UNCHANGED eventVars
          /\ Goes("set", "unblocked") \/ Goes("block", "unblocked")
      BY <1>6 DEF BlockOnBarrier
    <2> QED
      BY <2>1, UserStep DEF UserPoints
  <1>7. CASE Unblocked(t)
    <2>1. /\ pc[t] = "unblocked" /\ UNCHANGED eventVars
          /\ Goes("try", ret[t]) \/ Goes("leave", ret[t]) \/ Goes("queue", "queued")
      BY <1>1, <1>7 DEF Unblocked
    <2> QED
      BY <1>1, <2>1, UserStep DEF UserPoints
  <1>8. CASE LeaveSlave(t)
    <2>1. /\ pc[t] = "leave" /\ UNCHANGED eventVars
          /\ Goes("set", "return") \/ Goes("return", ret[t])
      BY <1>1, <1>8 DEF LeaveSlave
    <2> QED
      BY <1>1, <2>1, UserStep DEF UserPoints
  <1>9. CASE LeaveMaster(t)
    <2>1. pc[t] = "leave" /\ Goes("set", "return") /\ UNCHANGED eventVars
      BY <1>9 DEF LeaveMaster
    <2> QED
      BY <2>1, UserStep DEF UserPoints
  <1>10. CASE Return(t)
    <2>1. pc[t] = "return" /\ Goes("idle", ret[t]) /\ UNCHANGED eventVars
      BY <1>1, <1>10 DEF Return
    <2> QED
      BY <1>1, <2>1, UserStep DEF UserPoints
  <1> QED
    BY <1>2, <1>3, <1>4, <1>5, <1>6, <1>7, <1>8, <1>9, <1>10

LEMMA EventInit0 == ASSUME Init PROVE EventInv /\ Wake!WakeInit
  <1>1. EventType
    BY DEF Init, EventInit, EventType, WakePoints, NoBlock
  <1>2. Control /\ Walkers = {} /\ Registered = {} /\ head = NULL
    BY DEF Init, EventInit, Control, ControlOf, SetPoints, Walkers, Registered
  <1>3. Reach(Links, head) = {} /\ Chain(head) = {}
    BY <1>1, <1>2, ChainIs, ReachNothing
  <1>4. Lists(Links, head, Walkers, at, Staying)
    BY <1>2, <1>3 DEF Lists, Sound
  <1> QED
    BY <1>1, <1>2, <1>3, <1>4 DEF EventInv, WakeInv, Wake!WakeInit, Registered

LEMMA EventNext == ASSUME EventInv, [Next]_vars PROVE EventInv' /\ WakeStep
  <1>1. CASE Next
    BY <1>1, WakeEventStepIs, BarrierUserStep DEF Next, BarrierStep
  <1>2. CASE UNCHANGED vars
    <2>1. UNCHANGED <<head, block, queued, at, pc, ret>>
      BY <1>2 DEF vars, eventVars
    <2>2. EventType' /\ Control' /\ Walkers' = Walkers /\ Staying' = Staying /\ Links' = Links /\ Registered' = Registered
      BY <2>1 DEF EventInv, EventType, WakeInv, Control, ControlOf, Walkers, Staying, Links, Registered
    <2> QED
      BY <2>1, <2>2, NothingMoves DEF WakeStep
  <1> QED
    BY <1>1, <1>2

\* While a wait block is linked its owner stays: a thread that walks blocks in
\* PhfSetWakeEvent never follows a pointer into a stack frame that was left.
THEOREM BlocksStayAlive == Spec => []BlocksLive
  <1>1. Spec => []EventInv
    BY EventInit0, EventNext, PTL DEF Spec
  <1>2. EventInv => BlocksLive
    BY WalkerAt DEF BlocksLive, Walkers
  <1> QED
    BY <1>1, <1>2, PTL

\* The wait blocks implement the abstract wake event in every run of the barrier:
\* who is queued is woken by the next PhSetWakeEvent, and nobody goes on unwoken.
THEOREM WakeEventRefined == Spec => ImplementsWakeEvent
  <1>1. Init => Wake!WakeInit
    BY EventInit0
  <1>2. EventInv /\ [Next]_vars => [Wake!WakeNext]_(Wake!wakeVars)
    BY EventNext DEF WakeStep, Wake!wakeVars, Registered
  <1>3. Spec => []EventInv
    BY EventInit0, EventNext, PTL DEF Spec
  <1> QED
    BY <1>1, <1>2, <1>3, PTL DEF Spec, ImplementsWakeEvent, Wake!WakeSpec
-----------------------------------------------------------------------------
\* A step of the wake event takes a thread from one of these points to another.
WaitPoints == {"queue", "queueCas", "queued", "block", "keyed", "cancelled", "unblocked"}
MovesOn(u) ==
    \/ pc[u] \in WaitPoints /\ pc'[u] \in WaitPoints
    \/ pc[u] \in SetPoints /\ pc'[u] \in SetPoints
    \/ pc[u] \in SetPoints /\ ret[u] = "unblocked" /\ pc'[u] = "cancelled"
    \/ pc[u] \in SetPoints /\ ret[u] \in {"wakeSlaves", "return"} /\ pc'[u] = ret[u]

LEMMA EventMoves ==
    ASSUME EventInv, NEW t \in Threads, WakeEventStep(t)
    PROVE  ret' = ret /\ \A u \in Threads : pc'[u] = pc[u] \/ MovesOn(u)
  <1> USE DEF WaitPoints, MovesOn, Goto
  <1>1. pc = [u \in Threads |-> pc[u]] /\ Control
    BY DEF EventInv, EventType, WakeInv
  <1>2. /\ pc[t] \in {"queue", "queueCas"} => ret[t] = "queued"
        /\ pc[t] \in {"block", "keyed", "cancelled"} => ret[t] = "unblocked"
    BY <1>1 DEF Control, ControlOf
  <1>3. pc[t] \in SetPoints => \/ AfterWalk(t) = "cancelled" /\ ret[t] = "unblocked"
                               \/ AfterWalk(t) = ret[t] /\ ret[t] \in {"wakeSlaves", "return"}
    BY AfterWalkGoesTo
  <1>4. ASSUME QueueRead(t) \/ QueueCas(t) \/ BlockOver(t) \/ BlockKeyed(t) \/ Cancelled(t)
        PROVE  ret' = ret /\ \A u \in Threads : pc'[u] = pc[u] \/ MovesOn(u)
    BY <1>1, <1>2, <1>4 DEF QueueRead, QueueCas, BlockOver, BlockKeyed, Cancelled
  <1>5. ASSUME SetTest(t) PROVE ret' = ret /\ \A u \in Threads : pc'[u] = pc[u] \/ MovesOn(u)
    BY <1>1, <1>3, <1>5 DEF SetTest, SetPoints, AfterWalk, Cancelling
  <1>6. ASSUME SetPop(t) \/ UnblockSpinning(t) \/ UnblockKeyed(t)
        PROVE  ret' = ret /\ \A u \in Threads : pc'[u] = pc[u] \/ MovesOn(u)
    BY <1>1, <1>3, <1>6 DEF SetPop, UnblockSpinning, UnblockKeyed, GoOnWalking, SetPoints
  <1>7. ASSUME NEW w \in Threads, Rendezvous(t, w)
        PROVE  ret' = ret /\ \A u \in Threads : pc'[u] = pc[u] \/ MovesOn(u)
    <2>1. /\ pc[w] = "keyed" /\ ret[w] = "unblocked" /\ pc[t] = "release" /\ ret' = ret
          /\ pc'[w] = "unblocked" /\ pc'[t] \in {"walk", AfterWalk(t)}
          /\ \A u \in Threads \ {t, w} : pc'[u] = pc[u]
      BY <1>1, <1>7 DEF Rendezvous, Control, ControlOf
    <2> QED
      BY <1>3, <2>1 DEF SetPoints
  <1> QED
    BY <1>4, <1>5, <1>6, <1>7 DEF WakeEventStep

\* The thread stays on its side of the barrier.
Same(u) == /\ Inside(u)' <=> Inside(u)
           /\ Leaving(u)' <=> Leaving(u)
           /\ IsMaster(u)' <=> IsMaster(u)
           /\ MasterLeaves(u)' <=> MasterLeaves(u)
           /\ pc'[u] = "leave" <=> pc[u] = "leave"
           /\ pc[u] = "leave" => role'[u] = role[u]

LEMMA MovesStaySame ==
    ASSUME NEW u \in Threads, ret'[u] = ret[u], role'[u] = role[u], pc'[u] = pc[u] \/ MovesOn(u)
    PROVE  Same(u)
  <1> USE DEF Same, Inside, Leaving, IsMaster, MasterLeaves, BecomesMaster, Blocking, SetPoints
  <1>1. CASE pc'[u] = pc[u]
    BY <1>1
  <1>2. CASE MovesOn(u)
    BY <1>2 DEF MovesOn, WaitPoints
  <1> QED
    BY <1>1, <1>2

LEMMA PhaseStays ==
    ASSUME PhaseInv, \A u \in Threads : Same(u), UNCHANGED <<value, arrived, passed, masters>>
    PROVE  PhaseInv'
  <1>1. InsideSet' = InsideSet
    BY DEF InsideSet, Same
  <1>2. value'.count = Cardinality(InsideSet)'
    BY <1>1 DEF PhaseInv
  <1>3. \A t \in Threads : arrived'[t] = IF Inside(t)' \/ Leaving(t)' THEN passed'[t] + 1 ELSE passed'[t]
    BY DEF PhaseInv, Same
  <1>4. \A t \in Threads : pc'[t] = "leave" => /\ role'[t] # "observer"
                                               /\ role'[t] = "master" => InsideSet' = {t}
    BY <1>1 DEF PhaseInv, Same
  <1>5. PICK k \in Nat : InPhase(k)
    BY DEF PhaseInv
  <1>6. InPhase(k)'
    BY <1>5 DEF InPhase, Same
  <1> QED
    BY <1>2, <1>3, <1>4, <1>6 DEF PhaseInv

\* Steps of thread t leave the others where they are.
LEMMA OthersSame ==
    ASSUME EventType, BarrierType, NEW t \in Threads, NEW p, NEW r, NEW o, pc' = [pc EXCEPT ![t] = p],
           ret' = [ret EXCEPT ![t] = r], role' = [role EXCEPT ![t] = o]
    PROVE  /\ pc'[t] = p /\ ret'[t] = r /\ role'[t] = o
           /\ \A u \in Threads \ {t} : Same(u)
  <1>1. pc'[t] = p /\ ret'[t] = r /\ role'[t] = o
    BY DEF EventType, BarrierType
  <1>2. ASSUME NEW u \in Threads \ {t} PROVE Same(u)
    <2>1. pc'[u] = pc[u] /\ ret'[u] = ret[u] /\ role'[u] = role[u]
      BY DEF EventType, BarrierType
    <2> QED
      BY <2>1, MovesStaySame
  <1> QED
    BY <1>1, <1>2

\* What a control point says about the thread.
LEMMA Places ==
    ASSUME NEW t \in Threads
    PROVE  /\ pc[t] \in {"idle", "try"} => ~Inside(t) /\ ~Leaving(t)
           /\ pc[t] \in {"wakeSlaves", "leave"} => Inside(t)
           /\ pc[t] \in WaitPoints => (Inside(t) <=> role[t] # "observer")
           /\ pc[t] \in WaitPoints => (IsMaster(t) <=> role[t] = "master") /\ ~Leaving(t)
           /\ pc[t] = "set" /\ ret[t] = "unblocked" =>
                (Inside(t) <=> role[t] # "observer") /\ (IsMaster(t) <=> role[t] = "master") /\ ~Leaving(t)
           /\ pc[t] = "set" /\ ret[t] = "wakeSlaves" => Inside(t) /\ IsMaster(t)
           /\ pc[t] = "set" /\ ret[t] = "return" => Leaving(t)
           /\ pc[t] = "wakeSlaves" => IsMaster(t)
           /\ pc[t] = "return" => Leaving(t)
           /\ pc[t] = "leave" => (IsMaster(t) <=> role[t] = "master")
           /\ IsMaster(t) => Inside(t)
           /\ Inside(t) => ~Leaving(t)
           /\ MasterLeaves(t) <=> Leaving(t) /\ role[t] = "master"
  BY DEF Inside, Leaving, IsMaster, MasterLeaves, BecomesMaster, Blocking, SetPoints, WaitPoints

LEMMA PlacesNext ==
    ASSUME NEW t \in Threads
    PROVE  /\ pc'[t] \in {"idle", "try"} => ~Inside(t)' /\ ~Leaving(t)'
           /\ pc'[t] \in {"wakeSlaves", "leave"} => Inside(t)'
           /\ pc'[t] \in WaitPoints => (Inside(t)' <=> role'[t] # "observer")
           /\ pc'[t] \in WaitPoints => (IsMaster(t)' <=> role'[t] = "master") /\ ~Leaving(t)'
           /\ pc'[t] = "set" /\ ret'[t] = "unblocked" =>
                (Inside(t)' <=> role'[t] # "observer") /\ (IsMaster(t)' <=> role'[t] = "master") /\ ~Leaving(t)'
           /\ pc'[t] = "set" /\ ret'[t] = "wakeSlaves" => Inside(t)' /\ IsMaster(t)'
           /\ pc'[t] = "set" /\ ret'[t] = "return" => Leaving(t)'
           /\ pc'[t] = "return" => Leaving(t)'
           /\ pc'[t] = "leave" => (IsMaster(t)' <=> role'[t] = "master")
           /\ IsMaster(t)' => Inside(t)'
           /\ Inside(t)' => ~Leaving(t)'
           /\ MasterLeaves(t)' <=> Leaving(t)' /\ role'[t] = "master"
  BY DEF Inside, Leaving, IsMaster, MasterLeaves, BecomesMaster, Blocking, SetPoints, WaitPoints

\* The count as a thread arrives and leaves.
LEMMA Counting ==
    ASSUME NEW S \in SUBSET Threads, NEW t \in Threads
    PROVE  /\ Cardinality(S) \in Nat /\ Target \in Nat
           /\ t \notin S => Cardinality(S \cup {t}) = Cardinality(S) + 1
           /\ t \in S => Cardinality(S \ {t}) = Cardinality(S) - 1 /\ Cardinality(S) >= 1
           /\ Cardinality(S) = Target => S = Threads
  <1>1. IsFiniteSet(S) /\ IsFiniteSet(Threads)
    BY WakeEventAssumption, FS_Subset
  <1>2. Cardinality(S) \in Nat /\ Target \in Nat
    BY <1>1, FS_CardinalityType DEF Target
  <1>3. t \notin S => Cardinality(S \cup {t}) = Cardinality(S) + 1
    BY <1>1, FS_AddElement
  <1>4. t \in S => Cardinality(S \ {t}) = Cardinality(S) - 1
    BY <1>1, FS_RemoveElement
  <1>5. t \in S => Cardinality(S) >= 1
    BY <1>1, <1>2, FS_EmptySet
  <1>6. Cardinality(S) = Target => S = Threads
    BY <1>1, FS_Subset DEF Target
  <1> QED
    BY <1>2, <1>3, <1>4, <1>5, <1>6

LEMMA OnlyOne ==
    ASSUME NEW S \in SUBSET Threads, NEW t \in S, Cardinality(S) = 1 PROVE S = {t}
  <1>1. IsFiniteSet(S)
    BY WakeEventAssumption, FS_Subset
  <1>2. Cardinality(S \ {t}) = 0 /\ IsFiniteSet(S \ {t})
    BY <1>1, FS_RemoveElement
  <1>3. S \ {t} = {}
    BY <1>2, FS_EmptySet
  <1> QED
    BY <1>3
-----------------------------------------------------------------------------
\* A step of thread t that leaves it on its side of the barrier.
LEMMA ThreadStays ==
    ASSUME TypeOK, PhaseInv, NEW t \in Threads, NEW p, NEW r, NEW o, pc' = [pc EXCEPT ![t] = p],
           ret' = [ret EXCEPT ![t] = r], role' = [role EXCEPT ![t] = o],
           UNCHANGED <<value, arrived, passed, masters>>,
           pc'[t] = p /\ ret'[t] = r /\ role'[t] = o => Same(t)
    PROVE  PhaseInv'
  <1>1. \A u \in Threads : Same(u)
    BY OthersSame DEF TypeOK
  <1> QED
    BY <1>1, PhaseStays

LEMMA QuietSteps ==
    ASSUME TypeOK, PhaseInv, NEW t \in Threads,
           WaitForBarrier(t) \/ Observe(t) \/ WakeSlaves(t) \/ BlockOnBarrier(t)
    PROVE  BarrierType' /\ PhaseInv'
  <1>1. /\ value \in [count : Nat, waking : BOOLEAN] /\ role[t] \in {"slave", "master", "observer"}
        /\ ret = [ret EXCEPT ![t] = ret[t]] /\ role = [role EXCEPT ![t] = role[t]]
    BY DEF TypeOK, EventType, BarrierType
  <1>2. BarrierType'
    <2>1. UNCHANGED <<value, arrived, passed, masters>>
      BY DEF WaitForBarrier, Observe, WakeSlaves, BlockOnBarrier, history
    <2>2. role' \in [Threads -> {"slave", "master", "observer"}]
      BY DEF TypeOK, BarrierType, WaitForBarrier, Observe, WakeSlaves, BlockOnBarrier, BlockAs
    <2>3. val' \in [Threads -> [count : Nat, waking : BOOLEAN]]
      <3>1. \/ val' = val \/ val' = [val EXCEPT ![t] = value] \/ val' = [val EXCEPT ![t] = NoValue]
        BY DEF WaitForBarrier, Observe, WakeSlaves, BlockOnBarrier
      <3>2. NoValue \in [count : Nat, waking : BOOLEAN] /\ val \in [Threads -> [count : Nat, waking : BOOLEAN]]
        BY DEF NoValue, TypeOK, BarrierType
      <3> QED
        BY <1>1, <3>1, <3>2
    <2> QED
      BY <2>1, <2>2, <2>3 DEF TypeOK, BarrierType
  <1> USE DEF history, Call, BlockAs, Goto, Same, WaitPoints
  <1>3. CASE WaitForBarrier(t)
    <2>1. /\ pc[t] = "idle" /\ pc' = [pc EXCEPT ![t] = "try"] /\ UNCHANGED <<value, arrived, passed, masters>>
          /\ ret' = [ret EXCEPT ![t] = ret[t]] /\ role' = [role EXCEPT ![t] = role[t]]
      BY <1>1, <1>3 DEF WaitForBarrier
    <2>2. pc'[t] = "try" => Same(t)
      BY <2>1, Places, PlacesNext
    <2> QED
      BY <1>2, <2>1, <2>2, ThreadStays
  <1>4. CASE Observe(t)
    <2>1. /\ pc[t] = "try" /\ pc' = [pc EXCEPT ![t] = "queue"] /\ UNCHANGED <<value, arrived, passed, masters>>
          /\ ret' = [ret EXCEPT ![t] = "queued"] /\ role' = [role EXCEPT ![t] = "observer"]
      BY <1>4 DEF Observe
    <2>2. pc'[t] = "queue" /\ role'[t] = "observer" => Same(t)
      BY <2>1, Places, PlacesNext
    <2> QED
      BY <1>2, <2>1, <2>2, ThreadStays
  <1>5. CASE WakeSlaves(t)
    <2>1. /\ pc[t] = "wakeSlaves" /\ pc' = [pc EXCEPT ![t] = "queue"] /\ UNCHANGED <<value, arrived, passed, masters>>
          /\ ret' = [ret EXCEPT ![t] = "queued"] /\ role' = [role EXCEPT ![t] = "master"]
      BY <1>5 DEF WakeSlaves
    <2>2. pc'[t] = "queue" /\ role'[t] = "master" => Same(t)
      BY <2>1, Places, PlacesNext
    <2> QED
      BY <1>2, <2>1, <2>2, ThreadStays
  <1>6. CASE BlockOnBarrier(t)
    <2>1. PICK p \in {"set", "block"} :
             /\ pc[t] = "queued" /\ pc' = [pc EXCEPT ![t] = p] /\ UNCHANGED <<value, arrived, passed, masters>>
             /\ ret' = [ret EXCEPT ![t] = "unblocked"] /\ role' = [role EXCEPT ![t] = role[t]]
      BY <1>1, <1>6 DEF BlockOnBarrier
    <2>2. pc'[t] = p /\ ret'[t] = "unblocked" /\ role'[t] = role[t] => Same(t)
      BY <2>1, Places, PlacesNext
    <2> QED
      BY <1>2, <2>1, <2>2, ThreadStays
  <1> QED
    BY <1>3, <1>4, <1>5, <1>6

LEMMA ArriveStep ==
    ASSUME TypeOK, PhaseInv, NEW t \in Threads, Arrive(t) PROVE BarrierType' /\ PhaseInv'
  <1> USE DEF Call, BlockAs, Goto
  <1>1. /\ value \in [count : Nat, waking : BOOLEAN] /\ role[t] \in {"slave", "master", "observer"}
        /\ ret = [ret EXCEPT ![t] = ret[t]] /\ role = [role EXCEPT ![t] = role[t]] /\ pc = [pc EXCEPT ![t] = pc[t]]
        /\ pc[t] = "try" /\ passed' = passed /\ masters' = masters /\ ~val[t].waking
        /\ val[t] \in [count : Nat, waking : BOOLEAN]
    BY DEF TypeOK, EventType, BarrierType, Arrive
  <1>2. CASE value # val[t]
    <2>1. /\ val' = [val EXCEPT ![t] = value] /\ UNCHANGED <<value, arrived, passed, masters, pc, ret, role>>
      BY <1>1, <1>2 DEF Arrive
    <2>2. BarrierType'
      BY <1>1, <2>1 DEF TypeOK, BarrierType
    <2>3. \A u \in Threads : Same(u)
      BY <2>1, MovesStaySame
    <2> QED
      BY <2>1, <2>2, <2>3, PhaseStays
  <1>3. CASE value = val[t]
    <2> DEFINE count == value.count + 1
    <2>1. /\ ~value.waking /\ count \in Nat /\ value' = [count |-> count, waking |-> count = Target]
          /\ arrived' = [arrived EXCEPT ![t] = arrived[t] + 1] /\ val' = [val EXCEPT ![t] = NoValue]
          /\ (count = Target) \in BOOLEAN
      BY <1>1, <1>3 DEF Arrive, LastArrival
    <2>2. PICK p \in {"queue", "set"}, r \in {"queued", "wakeSlaves"}, o \in {"slave", "master", "observer"} :
             /\ pc' = [pc EXCEPT ![t] = p] /\ ret' = [ret EXCEPT ![t] = r] /\ role' = [role EXCEPT ![t] = o]
             /\ count = Target => p = "set" /\ r = "wakeSlaves"
             /\ count # Target => p = "queue" /\ o = "slave"
      BY <1>1, <1>3 DEF Arrive, LastArrival
    <2>3. BarrierType'
      BY <1>1, <2>1, <2>2 DEF TypeOK, BarrierType, NoValue
    <2>4. \A u \in Threads \ {t} : Same(u)
      BY <2>2, OthersSame DEF TypeOK
    <2>5. pc'[t] = p /\ ret'[t] = r /\ role'[t] = o
      BY <2>2, OthersSame DEF TypeOK
    <2>6. ~Inside(t) /\ ~Leaving(t) /\ ~MasterLeaves(t) /\ ~IsMaster(t)
      BY <1>1, Places
    <2>7. /\ Inside(t)' /\ ~Leaving(t)' /\ ~MasterLeaves(t)' /\ (IsMaster(t)' <=> count = Target)
          /\ pc'[t] # "leave"
      BY <2>2, <2>5, PlacesNext DEF WaitPoints
    <2>8. InsideSet' = InsideSet \cup {t} /\ t \notin InsideSet
      BY <2>4, <2>6, <2>7 DEF InsideSet, Same
    <2>9. value'.count = Cardinality(InsideSet)'
      <3>1. Cardinality(InsideSet \cup {t}) = Cardinality(InsideSet) + 1
        BY <2>8, Counting DEF InsideSet
      <3> QED
        BY <2>1, <2>8, <3>1 DEF PhaseInv
    <2>10. arrived \in [Threads -> Nat] /\ arrived'[t] = arrived[t] + 1 /\ \A u \in Threads \ {t} : arrived'[u] = arrived[u]
      BY <2>1 DEF TypeOK, BarrierType
    <2>11. \A u \in Threads : arrived'[u] = IF Inside(u)' \/ Leaving(u)' THEN passed'[u] + 1 ELSE passed'[u]
      BY <1>1, <2>4, <2>6, <2>7, <2>10 DEF PhaseInv, Same
    <2>12. PICK k \in Nat : InPhase(k)
      BY DEF PhaseInv
    <2>13. /\ \A u \in Threads : arrived[u] = IF Inside(u) THEN k + 1 ELSE k
           /\ \A u \in Threads : ~IsMaster(u) /\ (Inside(u) => pc[u] # "leave")
           /\ (\A u \in Threads : ~MasterLeaves(u)) => masters = k
           /\ \A m \in Threads : MasterLeaves(m) =>
                masters + 1 = k /\ \A u \in Threads : MasterLeaves(u) => u = m
      BY <2>1, <2>12 DEF InPhase
    <2>14. \A u \in Threads : pc'[u] # "leave"
      BY <2>4, <2>7, <2>13, Places DEF Same
    <2>15. \A u \in Threads : arrived'[u] = IF Inside(u)' THEN k + 1 ELSE k
      BY <2>4, <2>6, <2>7, <2>10, <2>13 DEF Same
    <2>16. \A u \in Threads : MasterLeaves(u)' <=> MasterLeaves(u)
      BY <2>4, <2>6, <2>7 DEF Same
    <2>17. \A u \in Threads \ {t} : ~IsMaster(u)'
      BY <2>4, <2>13 DEF Same
    <2>18. CASE count # Target
      <3>1. InPhase(k)'
        BY <1>1, <2>1, <2>7, <2>13, <2>14, <2>15, <2>16, <2>17, <2>18 DEF InPhase
      <3> QED
        BY <2>3, <2>9, <2>11, <2>14, <3>1 DEF PhaseInv
    <2>19. CASE count = Target
      <3>1. InsideSet' = Threads
        BY <2>1, <2>8, <2>9, <2>19, Counting DEF InsideSet
      <3>2. \A u \in Threads : Inside(u)' /\ ~MasterLeaves(u)'
        BY <3>1, PlacesNext DEF InsideSet
      <3>3. masters = k
        BY <2>13, <2>16, <3>2
      <3>4. \A u \in Threads : arrived'[u] = k + 1
        BY <2>15, <3>2
      <3>5. IsMaster(t)' /\ \A u \in Threads : IsMaster(u)' => u = t
        BY <2>7, <2>17, <2>19
      <3>6. InPhase(k + 1)'
        BY <1>1, <2>1, <2>19, <3>2, <3>3, <3>4, <3>5 DEF InPhase
      <3>7. k + 1 \in Nat
        OBVIOUS
      <3> QED
        BY <2>3, <2>9, <2>11, <2>14, <3>6, <3>7 DEF PhaseInv
    <2> QED
      BY <2>18, <2>19
  <1> QED
    BY <1>2, <1>3

LEMMA UnblockedStep ==
    ASSUME TypeOK, PhaseInv, NEW t \in Threads, Unblocked(t) PROVE BarrierType' /\ PhaseInv'
  <1> USE DEF history, Call, BlockAs, Goto
  <1>1. /\ value \in [count : Nat, waking : BOOLEAN] /\ role[t] \in {"slave", "master", "observer"}
        /\ ret = [ret EXCEPT ![t] = ret[t]] /\ role = [role EXCEPT ![t] = role[t]]
        /\ pc[t] = "unblocked" /\ UNCHANGED <<value, arrived, passed, masters>>
    BY DEF TypeOK, EventType, BarrierType, Unblocked
  <1>2. role' = role /\ (val' = val \/ val' = [val EXCEPT ![t] = value])
    BY <1>1 DEF Unblocked
  <1>3. BarrierType'
    <2>1. val' \in [Threads -> [count : Nat, waking : BOOLEAN]]
      BY <1>1, <1>2 DEF TypeOK, BarrierType
    <2> QED
      BY <1>1, <1>2, <2>1 DEF TypeOK, BarrierType
  <1>4. CASE role[t] = "observer"
    <2>1. pc' = [pc EXCEPT ![t] = "try"] /\ ret' = [ret EXCEPT ![t] = ret[t]] /\ role' = [role EXCEPT ![t] = role[t]]
      BY <1>1, <1>4 DEF Unblocked
    <2>2. pc'[t] = "try" => Same(t)
      BY <1>1, <1>4, Places, PlacesNext DEF Same, WaitPoints
    <2> QED
      BY <1>1, <1>3, <2>1, <2>2, ThreadStays
  <1>5. CASE role[t] # "observer" /\ ~WaitIsOver(role[t], value)
    <2>1. pc' = [pc EXCEPT ![t] = "queue"] /\ ret' = [ret EXCEPT ![t] = "queued"] /\ role' = [role EXCEPT ![t] = role[t]]
      BY <1>1, <1>5 DEF Unblocked
    <2>2. pc'[t] = "queue" /\ role'[t] = role[t] => Same(t)
      BY <1>1, Places, PlacesNext DEF Same, WaitPoints
    <2> QED
      BY <1>1, <1>3, <2>1, <2>2, ThreadStays
  <1>6. CASE role[t] # "observer" /\ WaitIsOver(role[t], value)
    <2>1. pc' = [pc EXCEPT ![t] = "leave"] /\ ret' = [ret EXCEPT ![t] = ret[t]] /\ role' = [role EXCEPT ![t] = role[t]]
      BY <1>1, <1>6 DEF Unblocked
    <2>2. pc'[t] = "leave" /\ role'[t] = role[t] /\ \A u \in Threads \ {t} : Same(u)
      BY <2>1, OthersSame DEF TypeOK
    <2>3. Inside(t) /\ ~Leaving(t) /\ ~MasterLeaves(t) /\ (IsMaster(t) <=> role[t] = "master")
      BY <1>1, <1>6, Places DEF WaitPoints
    <2>4. Inside(t)' /\ ~Leaving(t)' /\ ~MasterLeaves(t)' /\ (IsMaster(t)' <=> role[t] = "master")
      BY <2>2, PlacesNext
    <2>5. InsideSet' = InsideSet
      BY <2>2, <2>3, <2>4 DEF InsideSet, Same
    <2>6. value'.count = Cardinality(InsideSet)'
      BY <1>1, <2>5 DEF PhaseInv
    <2>7. \A u \in Threads : arrived'[u] = IF Inside(u)' \/ Leaving(u)' THEN passed'[u] + 1 ELSE passed'[u]
      BY <1>1, <2>2, <2>3, <2>4 DEF PhaseInv, Same
    <2>8. role[t] = "master" => InsideSet' = {t}
      <3> SUFFICES ASSUME role[t] = "master" PROVE InsideSet = {t}
        BY <2>5
      <3>1. value.count = 1 /\ value.count = Cardinality(InsideSet) /\ t \in InsideSet
        BY <1>6, <2>3 DEF WaitIsOver, PhaseInv, InsideSet
      <3>2. InsideSet \in SUBSET Threads
        BY DEF InsideSet
      <3>3. Cardinality(InsideSet) = 1
        BY <3>1
      <3> QED
        BY <3>1, <3>2, <3>3, OnlyOne
    <2>9. \A u \in Threads : pc'[u] = "leave" => /\ role'[u] # "observer"
                                                 /\ role'[u] = "master" => InsideSet' = {u}
      BY <1>6, <2>2, <2>5, <2>8 DEF PhaseInv, Same
    <2>10. PICK k \in Nat : InPhase(k)
      BY DEF PhaseInv
    <2>11. value.waking
      <3>1. CASE role[t] = "slave"
        BY <1>6, <3>1 DEF WaitIsOver
      <3>2. CASE role[t] = "master"
        BY <1>1, <2>3, <2>10, <3>2 DEF InPhase
      <3> QED
        BY <1>1, <1>6, <3>1, <3>2
    <2>12. InPhase(k)'
      <3>1. \A u \in Threads : (IsMaster(u)' <=> IsMaster(u)) /\ (MasterLeaves(u)' <=> MasterLeaves(u))
        BY <2>2, <2>3, <2>4 DEF Same
      <3> QED
        BY <1>1, <2>10, <2>11, <3>1 DEF InPhase
    <2> QED
      BY <1>3, <2>6, <2>7, <2>9, <2>12 DEF PhaseInv
  <1> QED
    BY <1>4, <1>5, <1>6

\* A thread leaves only while the others of its phase are woken.
LEMMA WakingWhenLeaving ==
    ASSUME PhaseInv, BarrierType, NEW t \in Threads, pc[t] = "leave"
    PROVE  /\ value.waking /\ Inside(t) /\ ~Leaving(t) /\ t \in InsideSet
           /\ \E k \in Nat : /\ \A u \in Threads : arrived[u] = k /\ ~MasterLeaves(u)
                             /\ masters + 1 = k
                             /\ \E m \in Threads : IsMaster(m) /\ \A u \in Threads : IsMaster(u) => u = m
  <1>1. Inside(t) /\ ~Leaving(t)
    BY Places
  <1>2. PICK k \in Nat : InPhase(k)
    BY DEF PhaseInv
  <1>3. value.waking
    BY <1>1, <1>2 DEF InPhase
  <1>4. /\ \A u \in Threads : arrived[u] = k /\ ~MasterLeaves(u)
        /\ masters + 1 = k
        /\ \E m \in Threads : IsMaster(m) /\ \A u \in Threads : IsMaster(u) => u = m
    BY <1>2, <1>3 DEF InPhase
  <1> QED
    BY <1>1, <1>3, <1>4 DEF InsideSet

LEMMA LeaveSlaveStep ==
    ASSUME TypeOK, PhaseInv, NEW t \in Threads, LeaveSlave(t) PROVE BarrierType' /\ PhaseInv'
  <1>1. /\ pc[t] = "leave" /\ role[t] = "slave" /\ UNCHANGED <<val, role, arrived, passed, masters>>
        /\ value' = [value EXCEPT !.count = value.count - 1] /\ value \in [count : Nat, waking : BOOLEAN]
        /\ role = [role EXCEPT ![t] = role[t]] /\ ret = [ret EXCEPT ![t] = ret[t]]
    BY DEF LeaveSlave, history, TypeOK, EventType, BarrierType
  <1>2. PICK p \in {"set", "return"}, r \in {"return", ret[t]} :
           /\ pc' = [pc EXCEPT ![t] = p] /\ ret' = [ret EXCEPT ![t] = r] /\ role' = [role EXCEPT ![t] = "slave"]
           /\ p = "set" => r = "return"
    BY <1>1 DEF LeaveSlave, Call, Goto
  <1>3. pc'[t] = p /\ ret'[t] = r /\ role'[t] = "slave" /\ \A u \in Threads \ {t} : Same(u)
    BY <1>2, OthersSame DEF TypeOK
  <1>4. /\ value.waking /\ Inside(t) /\ ~Leaving(t) /\ t \in InsideSet
        /\ \E k \in Nat : /\ \A u \in Threads : arrived[u] = k /\ ~MasterLeaves(u)
                          /\ masters + 1 = k
                          /\ \E m \in Threads : IsMaster(m) /\ \A u \in Threads : IsMaster(u) => u = m
    BY <1>1, WakingWhenLeaving DEF TypeOK
  <1>5. ~Inside(t)' /\ Leaving(t)' /\ ~MasterLeaves(t)' /\ ~IsMaster(t)' /\ pc'[t] # "leave"
    BY <1>2, <1>3, PlacesNext
  <1>6. ~IsMaster(t)
    BY <1>1, Places
  <1>7. InsideSet' = InsideSet \ {t}
    BY <1>3, <1>4, <1>5 DEF InsideSet, Same
  <1>8. /\ value'.count = Cardinality(InsideSet)' /\ value'.waking
        /\ value' \in [count : Nat, waking : BOOLEAN]
    <2>1. /\ Cardinality(InsideSet \ {t}) = Cardinality(InsideSet) - 1 /\ Cardinality(InsideSet) >= 1
          /\ value.count = Cardinality(InsideSet)
      BY <1>4, Counting DEF InsideSet, PhaseInv
    <2>2. value.count - 1 \in Nat /\ value'.count = value.count - 1 /\ value'.waking
      BY <1>1, <1>4, <2>1
    <2>3. value' \in [count : Nat, waking : BOOLEAN]
      BY <1>1, <2>2
    <2> QED
      BY <1>7, <2>1, <2>2, <2>3
  <1>9. BarrierType'
    BY <1>1, <1>8 DEF TypeOK, BarrierType
  <1>10. \A u \in Threads : arrived'[u] = IF Inside(u)' \/ Leaving(u)' THEN passed'[u] + 1 ELSE passed'[u]
    BY <1>1, <1>3, <1>4, <1>5 DEF PhaseInv, Same
  <1>11. \A u \in Threads : pc'[u] = "leave" => role'[u] # "observer" /\ role'[u] # "master"
    <2> SUFFICES ASSUME NEW u \in Threads, u # t, pc'[u] = "leave" PROVE role'[u] # "observer" /\ role'[u] # "master"
      BY <1>5
    <2>1. pc[u] = "leave" /\ role'[u] = role[u]
      BY <1>3 DEF Same
    <2> QED
      BY <1>4, <2>1 DEF PhaseInv
  <1>12. \E k \in Nat : InPhase(k)'
    <2>1. \A u \in Threads : (IsMaster(u)' <=> IsMaster(u)) /\ (MasterLeaves(u)' => MasterLeaves(u))
      BY <1>3, <1>5, <1>6 DEF Same
    <2> QED
      BY <1>1, <1>4, <1>8, <2>1 DEF InPhase
  <1> QED
    BY <1>8, <1>9, <1>10, <1>11, <1>12 DEF PhaseInv

LEMMA LeaveMasterStep ==
    ASSUME TypeOK, PhaseInv, NEW t \in Threads, LeaveMaster(t) PROVE BarrierType' /\ PhaseInv'
  <1>1. /\ pc[t] = "leave" /\ role[t] = "master" /\ UNCHANGED <<val, role, arrived, passed, masters>>
        /\ value' = [value EXCEPT !.count = value.count - 1, !.waking = FALSE]
        /\ value \in [count : Nat, waking : BOOLEAN] /\ role = [role EXCEPT ![t] = role[t]]
    BY DEF LeaveMaster, history, TypeOK, BarrierType
  <1>2. pc' = [pc EXCEPT ![t] = "set"] /\ ret' = [ret EXCEPT ![t] = "return"] /\ role' = [role EXCEPT ![t] = "master"]
    BY <1>1 DEF LeaveMaster, Call, Goto
  <1>3. pc'[t] = "set" /\ ret'[t] = "return" /\ role'[t] = "master" /\ \A u \in Threads \ {t} : Same(u)
    BY <1>2, OthersSame DEF TypeOK
  <1>4. PICK k \in Nat : /\ \A u \in Threads : arrived[u] = k /\ ~MasterLeaves(u)
                         /\ masters + 1 = k
    BY <1>1, WakingWhenLeaving DEF TypeOK
  <1>5. Inside(t) /\ InsideSet = {t}
    BY <1>1, Places DEF PhaseInv
  <1>6. ~Inside(t)' /\ Leaving(t)' /\ MasterLeaves(t)'
    BY <1>3, PlacesNext
  <1>7. \A u \in Threads : ~Inside(u)' /\ ~IsMaster(u)' /\ pc'[u] # "leave"
    <2>1. \A u \in Threads \ {t} : ~Inside(u)
      BY <1>5 DEF InsideSet
    <2>2. \A u \in Threads : ~Inside(u)'
      BY <1>3, <1>6, <2>1 DEF Same
    <2> QED
      BY <2>2, PlacesNext
  <1>8. InsideSet' = {}
    BY <1>7 DEF InsideSet
  <1>9. value'.count = 0 /\ ~value'.waking /\ value' \in [count : Nat, waking : BOOLEAN]
    <2>1. value.count = Cardinality(InsideSet) /\ Cardinality(InsideSet \ {t}) = Cardinality(InsideSet) - 1
      BY <1>5, Counting DEF PhaseInv, InsideSet
    <2>2. Cardinality({}) = 0 /\ InsideSet \ {t} = {}
      BY <1>5, FS_EmptySet
    <2>3. value.count - 1 = 0
      BY <1>1, <2>1, <2>2
    <2>4. value' = [count |-> value.count - 1, waking |-> FALSE]
      BY <1>1
    <2>5. value' = [count |-> 0, waking |-> FALSE]
      BY <2>3, <2>4
    <2> QED
      BY <2>5
  <1>10. value'.count = Cardinality(InsideSet)'
    BY <1>8, <1>9, FS_EmptySet
  <1>11. BarrierType'
    BY <1>1, <1>9 DEF TypeOK, BarrierType
  <1>12. \A u \in Threads : arrived'[u] = IF Inside(u)' \/ Leaving(u)' THEN passed'[u] + 1 ELSE passed'[u]
    BY <1>1, <1>3, <1>5, <1>6 DEF PhaseInv, Same
  <1>13. \A u \in Threads \ {t} : ~MasterLeaves(u)'
    BY <1>3, <1>4 DEF Same
  <1>14. InPhase(k)'
    BY <1>1, <1>4, <1>6, <1>7, <1>9, <1>13 DEF InPhase
  <1> QED
    BY <1>7, <1>10, <1>11, <1>12, <1>14 DEF PhaseInv

LEMMA ReturnStep ==
    ASSUME TypeOK, PhaseInv, NEW t \in Threads, Return(t) PROVE BarrierType' /\ PhaseInv'
  <1>1. /\ pc[t] = "return" /\ UNCHANGED <<value, val, role, arrived>>
        /\ passed' = [passed EXCEPT ![t] = passed[t] + 1]
        /\ masters' = IF role[t] = "master" THEN masters + 1 ELSE masters
        /\ pc' = [pc EXCEPT ![t] = "idle"] /\ ret' = [ret EXCEPT ![t] = ret[t]] /\ role' = [role EXCEPT ![t] = role[t]]
    BY DEF Return, Goto, TypeOK, EventType, BarrierType
  <1>2. pc'[t] = "idle" /\ \A u \in Threads \ {t} : Same(u)
    BY <1>1, OthersSame DEF TypeOK
  <1>3. /\ ~Inside(t) /\ ~IsMaster(t) /\ Leaving(t) /\ (MasterLeaves(t) <=> role[t] = "master")
        /\ ~Inside(t)' /\ ~IsMaster(t)' /\ ~Leaving(t)' /\ ~MasterLeaves(t)'
    BY <1>1, <1>2, Places, PlacesNext
  <1>4. BarrierType'
    BY <1>1 DEF TypeOK, BarrierType
  <1>5. InsideSet' = InsideSet
    BY <1>2, <1>3 DEF InsideSet, Same
  <1>6. /\ value'.count = Cardinality(InsideSet)'
        /\ \A u \in Threads : pc'[u] = "leave" => /\ role'[u] # "observer"
                                                  /\ role'[u] = "master" => InsideSet' = {u}
    BY <1>1, <1>2, <1>5 DEF PhaseInv, Same
  <1>7. \A u \in Threads : arrived'[u] = IF Inside(u)' \/ Leaving(u)' THEN passed'[u] + 1 ELSE passed'[u]
    <2>1. passed'[t] = passed[t] + 1 /\ \A u \in Threads \ {t} : passed'[u] = passed[u]
      BY <1>1 DEF TypeOK, BarrierType
    <2> QED
      BY <1>1, <1>2, <1>3, <2>1 DEF PhaseInv, Same
  <1>8. PICK k \in Nat : InPhase(k)
    BY DEF PhaseInv
  <1>9. \A u \in Threads : /\ Inside(u)' <=> Inside(u)
                           /\ IsMaster(u)' <=> IsMaster(u)
                           /\ pc'[u] = "leave" => pc[u] = "leave"
                           /\ MasterLeaves(u)' <=> MasterLeaves(u) /\ u # t
    BY <1>2, <1>3 DEF Same
  <1>10. CASE value.waking
    <2>1. masters' = masters
      BY <1>1, <1>3, <1>8, <1>10 DEF InPhase
    <2>2. InPhase(k)'
      BY <1>1, <1>8, <1>9, <1>10, <2>1 DEF InPhase
    <2> QED
      BY <1>4, <1>6, <1>7, <2>2 DEF PhaseInv
  <1>11. CASE ~value.waking
    <2>1. /\ \A u \in Threads : arrived'[u] = IF Inside(u)' THEN k + 1 ELSE k
          /\ \A u \in Threads : ~IsMaster(u)' /\ (Inside(u)' => pc'[u] # "leave")
      BY <1>1, <1>8, <1>9, <1>11 DEF InPhase
    <2>2. CASE role[t] = "master"
      <3>1. masters' = k /\ \A u \in Threads : ~MasterLeaves(u)'
        BY <1>1, <1>3, <1>8, <1>9, <1>11, <2>2 DEF InPhase
      <3>2. InPhase(k)'
        BY <1>1, <1>11, <2>1, <3>1 DEF InPhase
      <3> QED
        BY <1>4, <1>6, <1>7, <3>2 DEF PhaseInv
    <2>3. CASE role[t] # "master"
      <3>1. masters' = masters /\ \A u \in Threads : MasterLeaves(u)' <=> MasterLeaves(u)
        BY <1>1, <1>3, <1>9, <2>3
      <3>2. InPhase(k)'
        BY <1>1, <1>8, <1>11, <2>1, <3>1 DEF InPhase
      <3> QED
        BY <1>4, <1>6, <1>7, <3>2 DEF PhaseInv
    <2> QED
      BY <2>2, <2>3
  <1> QED
    BY <1>10, <1>11

LEMMA PhaseInit == ASSUME Init PROVE BarrierType /\ PhaseInv
  <1>1. BarrierType
    BY DEF Init, BarrierType, NoValue
  <1>2. \A t \in Threads : pc[t] = "idle" /\ ~Inside(t) /\ ~Leaving(t) /\ ~IsMaster(t) /\ ~MasterLeaves(t)
    BY Places DEF Init
  <1>3. InsideSet = {} /\ Cardinality(InsideSet) = 0
    BY <1>2, FS_EmptySet DEF InsideSet
  <1>4. InPhase(0)
    BY <1>2 DEF Init, NoValue, InPhase
  <1> QED
    BY <1>1, <1>2, <1>3, <1>4 DEF Init, NoValue, PhaseInv

LEMMA PhaseNext == ASSUME TypeOK, EventInv, PhaseInv, [Next]_vars PROVE BarrierType' /\ PhaseInv'
  <1>1. ASSUME NEW t \in Threads, WakeEventStep(t), UNCHANGED <<value, val, role, history>>
        PROVE  BarrierType' /\ PhaseInv'
    <2>1. UNCHANGED <<value, val, role, arrived, passed, masters>>
      BY <1>1 DEF history
    <2>2. \A u \in Threads : Same(u)
      BY <1>1, <2>1, EventMoves, MovesStaySame
    <2> QED
      BY <2>1, <2>2, PhaseStays DEF TypeOK, BarrierType
  <1>2. CASE UNCHANGED vars
    <2>1. UNCHANGED <<value, val, role, arrived, passed, masters, pc, ret>>
      BY <1>2 DEF vars
    <2>2. \A u \in Threads : Same(u)
      BY <2>1, MovesStaySame
    <2> QED
      BY <2>1, <2>2, PhaseStays DEF TypeOK, BarrierType
  <1> QED
    BY <1>1, <1>2, QuietSteps, ArriveStep, UnblockedStep, LeaveSlaveStep, LeaveMasterStep, ReturnStep
       DEF Next, BarrierStep

\* The types, the lists of wait blocks and the phases of the barrier hold throughout.
THEOREM Invariance == Spec => []IInv
  <1>1. Init => IInv
    BY EventInit0, PhaseInit DEF IInv, TypeOK, EventInv
  <1>2. IInv /\ [Next]_vars => IInv'
    BY EventNext, PhaseNext DEF IInv, TypeOK, EventInv
  <1> QED
    BY <1>1, <1>2, PTL DEF Spec

\* PhWaitForBarrier lets nobody through before all have arrived, and returns TRUE
\* to exactly one thread of each phase.
THEOREM PhasesAreComplete == Spec => []PhaseComplete
  <1>1. ASSUME IInv PROVE PhaseComplete
    <2>1. PICK k \in Nat : InPhase(k)
      BY <1>1 DEF IInv, PhaseInv
    <2>2. /\ \A t \in Threads : arrived[t] = IF Inside(t) \/ Leaving(t) THEN passed[t] + 1 ELSE passed[t]
          /\ arrived \in [Threads -> Nat] /\ passed \in [Threads -> Nat]
      BY <1>1 DEF IInv, TypeOK, BarrierType, PhaseInv
    <2>3. \A t \in Threads : arrived[t] \in {k, k + 1} /\ passed[t] <= k /\ (value.waking => arrived[t] = k)
      BY <2>1, <2>2 DEF InPhase
    <2>4. \A s, t \in Threads : passed[s] <= arrived[t] /\ arrived[t] <= arrived[s] + 1
      BY <2>2, <2>3
    <2>5. ASSUME \A t \in Threads : pc[t] = "idle" /\ passed[t] = arrived[t], NEW t \in Threads
          PROVE  masters = passed[t]
      <3>1. \A u \in Threads : ~Inside(u) /\ ~IsMaster(u) /\ ~MasterLeaves(u)
        BY <2>5, Places
      <3>2. ~value.waking
        BY <2>1, <3>1 DEF InPhase
      <3> QED
        BY <2>1, <2>5, <3>1, <3>2 DEF InPhase
    <2> QED
      BY <2>4, <2>5 DEF PhaseComplete
  <1> QED
    BY <1>1, Invariance, PTL
-----------------------------------------------------------------------------
(***************************************************************************)
(* The provider thread.  The invariant says who holds the lock, that the two*)
(* lists share out the registrations, and, while clients only boost, that  *)
(* the boosted providers are counted and come first.                       *)
(***************************************************************************)
\* No element comes twice; the points at which the thread holds the lock, looks at a
\* registration, and at which a client works on one.
Once(s) == \A k, m \in DOMAIN s : s[k] = s[m] => k = m
InPass == {"pick", "test", "yield", "clear", "clearWrite", "run", "readd"}
Looking == {"test", "yield", "clear", "clearWrite", "run"}
Working == {"enable", "boost", "boostWrite", "unregister", "unregLock"}

\* Who is where: the lock is held at the points between acquire and release, and a
\* client that works on a registration, or has its flags word, still owns it.
ControlInv ==
    /\ point[Thread] \in ThreadPoints /\ \A c \in Clients : point[c] \in ClientPoints
    /\ lock = Thread <=> point[Thread] \in InPass
    /\ \A c \in Clients : lock = c <=> point[c] = "boostWrite"
    /\ state = "Stopped" => point[Thread] = "exited"
    /\ point[Thread] = "clearWrite" => word[Thread] \in Flags
    /\ \A c \in Clients :
        /\ point[c] # "idle" => usage[c] # {}
        /\ point[c] = "enable" => "enable" \in usage[c]
        /\ point[c] \in {"unregister", "unregLock"} => "unregister" \in usage[c]
        /\ point[c] \in Working => op[c] \in registered
        /\ point[c] \in {"enable", "boostWrite", "unregister"} => word[c] \in Flags

\* The registrations are in one of the two lists, once.
ListsInv ==
    /\ Once(list) /\ Once(temp)
    /\ ToSet(list) \cap ToSet(temp) = {} /\ ToSet(list) \cup ToSet(temp) = registered
    /\ point[Thread] \in {"loop", "wait", "exited"} => temp = <<>>
    /\ point[Thread] \in Looking => current \in ToSet(temp)

\* The provider p is boosted, or at the front of the list and about to be.
Ahead(p) == Boosted(p) \/ \E c \in Clients : point[c] = "boostWrite" /\ op[c] = p
BoostedFirst(l) == \A k, m \in DOMAIN l : k < m /\ Ahead(l[m]) => Ahead(l[k])

\* While clients only boost: the count is right and the boosted providers come first.
BoostData ==
    /\ registered = Providers /\ \A p \in Providers : ~flags[p].unregistering
    /\ boostCount = Cardinality(BoostedSet)
    /\ BoostedFirst(list)
    /\ \A c \in Clients : point[c] = "boostWrite" =>
            word[c] = flags[op[c]] /\ ~Boosted(op[c]) /\ op[c] \in ToSet(list)
\* In a pass for boosts, only the provider the thread has just taken is boosted in temp.
BoostThread ==
    /\ point[Thread] = "clearWrite" => word[Thread] = flags[current] /\ status = "ALERTED"
    /\ point[Thread] = "clear" => status = "ALERTED"
    /\ status = "ALERTED" =>
        /\ \A p \in ToSet(temp) : Boosted(p) => p = current /\ point[Thread] \in {"test", "clear", "clearWrite"}
        /\ point[Thread] \in {"test", "clear", "clearWrite"} => Boosted(current)
BoostInv == usage = Boosters => BoostData /\ BoostThread

ProviderInv == ProviderTypeOK /\ ControlInv /\ ListsInv /\ BoostInv
-----------------------------------------------------------------------------
(* Sequences *)

LEMMA Appended ==
    ASSUME NEW S, NEW s \in Seq(S), NEW c \in S, Once(s), c \notin ToSet(s)
    PROVE  /\ Append(s, c) \in Seq(S) /\ Once(Append(s, c)) /\ ToSet(Append(s, c)) = ToSet(s) \cup {c}
           /\ \A k \in DOMAIN Append(s, c) : \/ k \in DOMAIN s /\ Append(s, c)[k] = s[k]
                                             \/ Append(s, c)[k] = c /\ \A m \in DOMAIN s : m < k
  <1> DEFINE r == Append(s, c)
  <1>1. /\ r \in Seq(S) /\ Len(r) = Len(s) + 1 /\ r[Len(s) + 1] = c /\ Len(s) \in Nat
        /\ \A i \in 1..Len(s) : r[i] = s[i]
    OBVIOUS
  <1>2. DOMAIN r = 1..(Len(s) + 1) /\ DOMAIN s = 1..Len(s)
    BY <1>1
  <1> HIDE DEF r
  <1>3. \A i \in DOMAIN r : (i \in DOMAIN s /\ r[i] = s[i]) \/ (i = Len(s) + 1 /\ r[i] = c)
    BY <1>1, <1>2
  <1>4. \A i \in DOMAIN s : s[i] # c /\ s[i] \in ToSet(s) /\ i \in DOMAIN r /\ r[i] = s[i] /\ i < Len(s) + 1
    BY <1>1, <1>2 DEF ToSet
  <1>5. Once(r)
    BY <1>3, <1>4 DEF Once
  <1>6. ToSet(r) = ToSet(s) \cup {c}
    <2>1. Len(s) + 1 \in DOMAIN r
      BY <1>1, <1>2
    <2>2. ToSet(r) \subseteq ToSet(s) \cup {c}
      BY <1>3, <1>4 DEF ToSet
    <2>3. ToSet(s) \subseteq ToSet(r) /\ c \in ToSet(r)
      BY <1>1, <1>4, <2>1 DEF ToSet
    <2> QED
      BY <2>2, <2>3
  <1> QED
    BY <1>1, <1>3, <1>4, <1>5, <1>6 DEF r

LEMMA TailOnce ==
    ASSUME NEW S, NEW s \in Seq(S), Once(s), s # <<>>
    PROVE  /\ Tail(s) \in Seq(S) /\ Head(s) \in S /\ Once(Tail(s))
           /\ ToSet(Tail(s)) = ToSet(s) \ {Head(s)} /\ Head(s) \in ToSet(s)
           /\ Len(s) = 1 <=> Tail(s) = <<>>
  <1> DEFINE r == Tail(s)
  <1>1. /\ r \in Seq(S) /\ Len(r) = Len(s) - 1 /\ Len(s) \in Nat /\ Head(s) \in S /\ Len(s) >= 1
        /\ \A i \in 1..(Len(s) - 1) : r[i] = s[i + 1]
        /\ Head(s) = s[1]
    OBVIOUS
  <1>2. DOMAIN r = 1..(Len(s) - 1) /\ DOMAIN s = 1..Len(s)
    BY <1>1
  <1>3. Len(s) = 1 <=> r = <<>>
    <2>1. Len(r) = 0 <=> r = <<>>
      <3> HIDE DEF r
      <3> QED
        BY <1>1, EmptySeq
    <2> QED
      BY <1>1, <2>1
  <1> HIDE DEF r
  <1>4. \A i \in DOMAIN r : i + 1 \in DOMAIN s /\ r[i] = s[i + 1] /\ i + 1 # 1 /\ i \in Nat
    BY <1>1, <1>2
  <1>5. 1 \in DOMAIN s
    BY <1>1, <1>2
  <1>6. \A j \in DOMAIN s : j # 1 => j - 1 \in DOMAIN r /\ r[j - 1] = s[j]
    BY <1>1, <1>2
  <1>7. Once(r)
    <2> SUFFICES ASSUME NEW k \in DOMAIN r, NEW m \in DOMAIN r, r[k] = r[m] PROVE k = m
      BY DEF Once
    <2>1. k + 1 = m + 1
      BY <1>4 DEF Once
    <2> QED
      BY <1>4, <2>1
  <1>8. ToSet(r) = ToSet(s) \ {Head(s)}
    <2>1. ToSet(r) \subseteq ToSet(s) \ {Head(s)}
      BY <1>1, <1>4, <1>5 DEF ToSet, Once
    <2>2. ToSet(s) \ {Head(s)} \subseteq ToSet(r)
      BY <1>1, <1>6 DEF ToSet
    <2> QED
      BY <2>1, <2>2
  <1> QED
    BY <1>1, <1>3, <1>5, <1>7, <1>8 DEF r, ToSet

LEMMA Removed ==
    ASSUME NEW S, NEW s \in Seq(S), NEW k \in DOMAIN s, Once(s)
    PROVE  /\ RemoveAt(s, k) \in Seq(S) /\ Once(RemoveAt(s, k))
           /\ ToSet(RemoveAt(s, k)) = ToSet(s) \ {s[k]}
           /\ \E f \in [DOMAIN RemoveAt(s, k) -> DOMAIN s] :
                /\ \A i \in DOMAIN RemoveAt(s, k) : RemoveAt(s, k)[i] = s[f[i]]
                /\ \A i, j \in DOMAIN RemoveAt(s, k) : (i < j <=> f[i] < f[j]) /\ (i = j <=> f[i] = f[j])
  <1> DEFINE r == RemoveAt(s, k)
  <1>1. Len(s) \in Nat /\ k \in 1..Len(s) /\ DOMAIN s = 1..Len(s)
    OBVIOUS
  <1>2. /\ SubSeq(s, 1, k - 1) \in Seq(S) /\ Len(SubSeq(s, 1, k - 1)) = k - 1
        /\ \A i \in 1..(k - 1) : SubSeq(s, 1, k - 1)[i] = s[i]
    BY <1>1
  <1>3. /\ SubSeq(s, k + 1, Len(s)) \in Seq(S) /\ Len(SubSeq(s, k + 1, Len(s))) = Len(s) - k
        /\ \A i \in 1..(Len(s) - k) : SubSeq(s, k + 1, Len(s))[i] = s[i + k]
    BY <1>1
  <1>4. /\ r \in Seq(S) /\ Len(r) = Len(s) - 1 /\ DOMAIN r = 1..(Len(s) - 1)
        /\ \A i \in 1..(Len(s) - 1) : r[i] = IF i < k THEN s[i] ELSE s[i + 1]
    <2> DEFINE p == SubSeq(s, 1, k - 1)
               q == SubSeq(s, k + 1, Len(s))
    <2>1. r = p \o q /\ p \in Seq(S) /\ q \in Seq(S) /\ Len(p) = k - 1 /\ Len(q) = Len(s) - k
      BY <1>2, <1>3 DEF RemoveAt
    <2>2. \A i \in 1..(k - 1) : p[i] = s[i]
      BY <1>2
    <2>3. \A i \in 1..(Len(s) - k) : q[i] = s[i + k]
      BY <1>3
    <2> HIDE DEF p, q, r
    <2>4. /\ r \in Seq(S) /\ Len(r) = Len(p) + Len(q)
          /\ \A i \in 1..(Len(p) + Len(q)) : r[i] = IF i <= Len(p) THEN p[i] ELSE q[i - Len(p)]
      BY <2>1, ConcatProperties
    <2>5. Len(p) + Len(q) = Len(s) - 1 /\ DOMAIN r = 1..(Len(s) - 1)
      <3>1. ASSUME NEW x, NEW y, x = k - 1, y = Len(s) - k PROVE x + y = Len(s) - 1
        BY <1>1, <3>1
      <3>2. Len(p) + Len(q) = Len(s) - 1
        BY <2>1, <3>1
      <3>3. DOMAIN r = 1..Len(r)
        BY <2>4
      <3> QED
        BY <2>4, <3>2, <3>3
    <2>6. ASSUME NEW i \in 1..(Len(s) - 1) PROVE r[i] = IF i < k THEN s[i] ELSE s[i + 1]
      <3>1. CASE i < k
        <4>1. i \in 1..(k - 1) /\ i <= k - 1
          BY <1>1, <3>1
        <4>2. r[i] = p[i]
          BY <2>1, <2>4, <2>5, <4>1
        <4> QED
          BY <2>2, <3>1, <4>1, <4>2
      <3>2. CASE ~(i < k)
        <4>1. i - Len(p) \in 1..(Len(s) - k) /\ (i - Len(p)) + k = i + 1 /\ ~(i <= Len(p))
          BY <1>1, <2>1, <3>2
        <4> QED
          BY <2>3, <2>4, <2>5, <3>2, <4>1
      <3> QED
        BY <3>1, <3>2
    <2> QED
      BY <2>4, <2>5, <2>6
  <1> HIDE DEF r
  <1> DEFINE f(i) == IF i < k THEN i ELSE i + 1
  <1>5. \A i \in DOMAIN r : f(i) \in DOMAIN s /\ f(i) # k /\ r[i] = s[f(i)] /\ i \in Nat
    BY <1>1, <1>4
  <1>6. \A i, j \in Nat : f(i) = f(j) => i = j
    BY <1>1
  <1>7. ASSUME NEW j \in DOMAIN s, j # k PROVE \E i \in DOMAIN r : f(i) = j
    <2>1. CASE j < k
      BY <1>1, <1>4, <2>1
    <2>2. CASE j > k
      <3>1. j - 1 \in DOMAIN r /\ f(j - 1) = j
        BY <1>1, <1>4, <2>2
      <3> QED
        BY <3>1
    <2> QED
      BY <1>1, <1>7, <2>1, <2>2
  <1> HIDE DEF f
  <1>8. Once(r)
    BY <1>5, <1>6 DEF Once
  <1>9. ToSet(r) = ToSet(s) \ {s[k]}
    <2>1. ToSet(r) \subseteq ToSet(s) \ {s[k]}
      BY <1>5 DEF ToSet, Once
    <2>2. ToSet(s) \ {s[k]} \subseteq ToSet(r)
      BY <1>5, <1>7 DEF ToSet
    <2> QED
      BY <2>1, <2>2
  <1>10. \E g \in [DOMAIN r -> DOMAIN s] :
            /\ \A i \in DOMAIN r : r[i] = s[g[i]]
            /\ \A i, j \in DOMAIN r : (i < j <=> g[i] < g[j]) /\ (i = j <=> g[i] = g[j])
    <2> DEFINE g == [i \in DOMAIN r |-> f(i)]
    <2>1. g \in [DOMAIN r -> DOMAIN s] /\ \A i \in DOMAIN r : g[i] = f(i) /\ r[i] = s[g[i]]
      BY <1>5
    <2>2. \A i, j \in DOMAIN r : (i < j <=> f(i) < f(j)) /\ (i = j <=> f(i) = f(j))
      BY <1>1, <1>4 DEF f
    <2> HIDE DEF g
    <2> QED
      BY <2>1, <2>2
  <1> QED
    BY <1>4, <1>8, <1>9, <1>10 DEF r

LEMMA Empty == ASSUME NEW S PROVE Once(<<>>) /\ ToSet(<<>>) = {} /\ <<>> \in Seq(S)
  BY DEF Once, ToSet

LEMMA SeqElements == ASSUME NEW S, NEW s \in Seq(S)
                     PROVE  /\ ToSet(s) \subseteq S /\ DOMAIN s = 1..Len(s) /\ Len(s) \in Nat
                            /\ \A k \in DOMAIN s : s[k] \in ToSet(s)
                            /\ \A x \in ToSet(s) : \E k \in DOMAIN s : s[k] = x
  BY DEF ToSet

LEMMA FirstPut ==
    ASSUME NEW S, NEW s \in Seq(S), NEW x \in S, Once(s), x \notin ToSet(s)
    PROVE  /\ PutFirst(x, s) \in Seq(S) /\ Once(PutFirst(x, s)) /\ ToSet(PutFirst(x, s)) = ToSet(s) \cup {x}
           /\ \A k \in DOMAIN PutFirst(x, s) :
                \/ k = 1 /\ PutFirst(x, s)[k] = x
                \/ k - 1 \in DOMAIN s /\ PutFirst(x, s)[k] = s[k - 1] /\ k > 1
  <1> DEFINE r == PutFirst(x, s)
             p == <<x>>
  <1>1. p \in Seq(S) /\ Len(p) = 1 /\ p[1] = x /\ Len(s) \in Nat /\ DOMAIN s = 1..Len(s)
    OBVIOUS
  <1>2. r = p \o s
    BY DEF PutFirst
  <1> HIDE DEF p, r
  <1>3. /\ r \in Seq(S) /\ Len(r) = Len(p) + Len(s)
        /\ \A i \in 1..(Len(p) + Len(s)) : r[i] = IF i <= Len(p) THEN p[i] ELSE s[i - Len(p)]
    BY <1>1, <1>2, ConcatProperties
  <1>4. /\ DOMAIN r = 1..(Len(s) + 1) /\ r[1] = x
        /\ \A i \in 1..(Len(s) + 1) : i # 1 => r[i] = s[i - 1]
    <2>1. Len(r) = Len(s) + 1
      BY <1>1, <1>3
    <2>2. DOMAIN r = 1..(Len(s) + 1)
      BY <1>3, <2>1
    <2>3. ASSUME NEW i \in 1..(Len(s) + 1) PROVE r[i] = IF i <= 1 THEN p[i] ELSE s[i - 1]
      BY <1>1, <1>3, <2>1
    <2> QED
      BY <1>1, <2>2, <2>3
  <1>5. \A k \in DOMAIN r : (k = 1 /\ r[k] = x) \/ (k - 1 \in DOMAIN s /\ r[k] = s[k - 1] /\ k > 1)
    BY <1>1, <1>4
  <1>6. \A m \in DOMAIN s : m + 1 \in DOMAIN r /\ r[m + 1] = s[m] /\ s[m] # x
    <2>1. \A m \in DOMAIN s : s[m] # x
      BY DEF ToSet
    <2> QED
      BY <1>1, <1>4, <2>1
  <1>7. Once(r)
    <2> SUFFICES ASSUME NEW k \in DOMAIN r, NEW m \in DOMAIN r, r[k] = r[m] PROVE k = m
      BY DEF Once
    <2>1. CASE k = 1 \/ m = 1
      BY <1>4, <1>5, <1>6, <2>1
    <2>2. CASE k # 1 /\ m # 1
      <3>1. k - 1 = m - 1
        BY <1>5, <2>2 DEF Once
      <3> QED
        BY <1>1, <1>4, <3>1
    <2> QED
      BY <2>1, <2>2
  <1>8. ToSet(r) = ToSet(s) \cup {x}
    <2>1. ToSet(r) \subseteq ToSet(s) \cup {x}
      BY <1>5 DEF ToSet
    <2>2. ToSet(s) \cup {x} \subseteq ToSet(r)
      <3>1. 1 \in DOMAIN r
        BY <1>1, <1>4
      <3> QED
        BY <1>4, <1>6, <3>1 DEF ToSet
    <2> QED
      BY <2>1, <2>2
  <1> QED
    BY <1>3, <1>5, <1>7, <1>8 DEF r

LEMMA UnlinkedIs ==
    ASSUME NEW S, NEW s \in Seq(S), NEW x, Once(s)
    PROVE  /\ Unlinked(s, x) \in Seq(S) /\ Once(Unlinked(s, x)) /\ ToSet(Unlinked(s, x)) = ToSet(s) \ {x}
           /\ \E f \in [DOMAIN Unlinked(s, x) -> DOMAIN s] :
                /\ \A i \in DOMAIN Unlinked(s, x) : Unlinked(s, x)[i] = s[f[i]]
                /\ \A i, j \in DOMAIN Unlinked(s, x) : (i < j <=> f[i] < f[j]) /\ (i = j <=> f[i] = f[j])
  <1>1. CASE \E k \in DOMAIN s : s[k] = x
    <2> DEFINE n == CHOOSE k \in DOMAIN s : s[k] = x
    <2>1. n \in DOMAIN s /\ s[n] = x
      BY <1>1
    <2>2. Unlinked(s, x) = RemoveAt(s, n)
      BY <1>1 DEF Unlinked
    <2> HIDE DEF n
    <2> QED
      BY <2>1, <2>2, Removed
  <1>2. CASE ~\E k \in DOMAIN s : s[k] = x
    <2>1. Unlinked(s, x) = s
      BY <1>2 DEF Unlinked
    <2>2. ToSet(s) = ToSet(s) \ {x}
      BY <1>2 DEF ToSet
    <2> DEFINE f == [i \in DOMAIN s |-> i]
    <2>3. f \in [DOMAIN s -> DOMAIN s] /\ \A i \in DOMAIN s : f[i] = i
      OBVIOUS
    <2> HIDE DEF f
    <2> QED
      BY <2>1, <2>2, <2>3
  <1> QED
    BY <1>1, <1>2

\* Two sequences without repetition and without a common element.
LEMMA ConcatOnce ==
    ASSUME NEW S, NEW s \in Seq(S), NEW t \in Seq(S), Once(s), Once(t), ToSet(s) \cap ToSet(t) = {}
    PROVE  /\ ToSet(s \o t) = ToSet(s) \cup ToSet(t)
           /\ Len(s \o t) = Cardinality(ToSet(s \o t))
  <1> DEFINE r == s \o t
             n == Len(s) + Len(t)
  <1>1. Len(s) \in Nat /\ Len(t) \in Nat /\ DOMAIN s = 1..Len(s) /\ DOMAIN t = 1..Len(t) /\ n \in Nat
    OBVIOUS
  <1>2. /\ r \in Seq(S) /\ Len(r) = n
        /\ \A i \in 1..n : r[i] = IF i <= Len(s) THEN s[i] ELSE t[i - Len(s)]
    BY ConcatProperties
  <1> HIDE DEF r
  <1>3. DOMAIN r = 1..n
    BY <1>2
  <1>4. \A i \in DOMAIN r : \/ i \in DOMAIN s /\ r[i] = s[i]
                            \/ i - Len(s) \in DOMAIN t /\ r[i] = t[i - Len(s)]
    BY <1>1, <1>2, <1>3
  <1>5. \A i \in DOMAIN s : i \in DOMAIN r /\ r[i] = s[i]
    BY <1>1, <1>2, <1>3
  <1>6. \A i \in DOMAIN t : i + Len(s) \in DOMAIN r /\ r[i + Len(s)] = t[i]
    <2> SUFFICES ASSUME NEW i \in DOMAIN t PROVE i + Len(s) \in DOMAIN r /\ r[i + Len(s)] = t[i]
      OBVIOUS
    <2>1. i + Len(s) \in 1..n /\ ~(i + Len(s) <= Len(s)) /\ (i + Len(s)) - Len(s) = i
      BY <1>1
    <2> QED
      BY <1>2, <1>3, <2>1
  <1>7. ToSet(r) = ToSet(s) \cup ToSet(t)
    <2>1. ToSet(r) \subseteq ToSet(s) \cup ToSet(t)
      BY <1>4 DEF ToSet
    <2>2. ToSet(s) \subseteq ToSet(r)
      BY <1>5 DEF ToSet
    <2>3. ToSet(t) \subseteq ToSet(r)
      <3> SUFFICES ASSUME NEW x \in ToSet(t) PROVE x \in ToSet(r)
        OBVIOUS
      <3>1. PICK i \in DOMAIN t : t[i] = x
        BY DEF ToSet
      <3> QED
        BY <1>6, <3>1 DEF ToSet
    <2> QED
      BY <2>1, <2>2, <2>3
  <1>8. ASSUME NEW i \in DOMAIN r, NEW j \in DOMAIN r, r[i] = r[j] PROVE i = j
    <2>a. \A k \in DOMAIN s, m \in DOMAIN t : s[k] # t[m]
      BY DEF ToSet
    <2>1. CASE i \in DOMAIN s /\ r[i] = s[i] /\ j \in DOMAIN s /\ r[j] = s[j]
      BY <1>8, <2>1 DEF Once
    <2>2. CASE i - Len(s) \in DOMAIN t /\ r[i] = t[i - Len(s)] /\ j - Len(s) \in DOMAIN t /\ r[j] = t[j - Len(s)]
      <3>1. i - Len(s) = j - Len(s)
        BY <1>8, <2>2 DEF Once
      <3> QED
        BY <1>1, <1>3, <3>1
    <2> QED
      BY <1>4, <1>8, <2>a, <2>1, <2>2
  <1>9. ExistsBijection(1..n, ToSet(r))
    <2>1. r \in [1..n -> ToSet(r)]
      BY <1>2, <1>3 DEF ToSet
    <2>2. r \in Bijection(1..n, ToSet(r))
      <3>1. IsInjective(r)
        BY <1>8 DEF IsInjective
      <3>2. \A x \in ToSet(r) : \E i \in 1..n : r[i] = x
        BY <1>3 DEF ToSet
      <3> QED
        BY <2>1, <3>1, <3>2 DEF Bijection, Injection, Surjection
    <2> QED
      BY <2>2 DEF ExistsBijection
  <1>10. Cardinality(ToSet(r)) = n
    <2> HIDE DEF n
    <2> QED
      BY <1>1, <1>9, FS_CountingElements
  <1> QED
    BY <1>2, <1>7, <1>10 DEF r
-----------------------------------------------------------------------------
(* Frames *)

LEMMA Kinds == /\ \A c \in Clients : c \in Actors /\ c # Thread /\ c # None
               /\ Thread \in Actors /\ Thread # None /\ None \notin Providers
               /\ IsFiniteSet(Providers) /\ Cardinality(Providers) \in Nat
               /\ Modulus \in Nat /\ Modulus > Cardinality(Providers)
  BY ProviderAssumption, FS_CardinalityType DEF Actors

\* Nobody but a manager has an operation while somebody may unregister.
LEMMA OneManager ==
    ASSUME ProviderTypeOK, NEW c \in Clients, usage[c] # {"boost"}, usage[c] # {}
    PROVE  usage # Boosters /\ \A d \in Clients : d # c => usage[d] = {}
  <1>1. CASE usage = Boosters
    BY <1>1 DEF Boosters
  <1>2. CASE usage = Manager
    <2> DEFINE m == CHOOSE d \in Clients : TRUE
    <2>1. \A d \in Clients : d # m => usage[d] = {}
      BY <1>2 DEF Manager
    <2>2. usage # Boosters
      BY DEF Boosters
    <2> HIDE DEF m
    <2> QED
      BY <2>1, <2>2
  <1> QED
    BY <1>1, <1>2 DEF ProviderTypeOK

LEMMA ClientMove ==
    ASSUME ProviderTypeOK, NEW c \in Clients, NEW q \in ClientPoints, point' = [point EXCEPT ![c] = q]
    PROVE  /\ point' \in [Actors -> ThreadPoints \cup ClientPoints] /\ point'[Thread] = point[Thread]
           /\ \A d \in Clients : point'[d] = IF d = c THEN q ELSE point[d]
  BY Kinds DEF ProviderTypeOK

LEMMA ThreadMove ==
    ASSUME ProviderTypeOK, NEW q \in ThreadPoints, point' = [point EXCEPT ![Thread] = q]
    PROVE  /\ point' \in [Actors -> ThreadPoints \cup ClientPoints] /\ point'[Thread] = q
           /\ \A d \in Clients : point'[d] = point[d]
  BY Kinds DEF ProviderTypeOK

LEMMA ListsSame ==
    ASSUME ListsInv, UNCHANGED <<list, temp, registered>>,
           point'[Thread] \in {"loop", "wait", "exited"} => temp = <<>>,
           point'[Thread] \in Looking => current' \in ToSet(temp)
    PROVE  ListsInv'
  BY DEF ListsInv

LEMMA DataSame ==
    ASSUME BoostData, UNCHANGED <<list, registered, flags, boostCount>>,
           \A c \in Clients : /\ point'[c] = "boostWrite" <=> point[c] = "boostWrite"
                              /\ point[c] = "boostWrite" => op'[c] = op[c] /\ word'[c] = word[c]
    PROVE  BoostData'
  <1>1. BoostedSet' = BoostedSet
    BY DEF BoostedSet
  <1>2. \A p : Ahead(p)' <=> Ahead(p)
    BY DEF Ahead, Boosted
  <1>3. BoostedFirst(list)'
    BY <1>2 DEF BoostedFirst, BoostData
  <1> QED
    BY <1>1, <1>3 DEF BoostData, Boosted

\* A step of client c outside its section under the lock.
LEMMA QuietClient ==
    ASSUME ProviderInv, NEW c \in Clients, NEW q \in ClientPoints \ {"boostWrite"}, point[c] # "boostWrite",
           point' = [point EXCEPT ![c] = q],
           UNCHANGED <<lock, list, temp, boostCount, flags, current, status, registered, usage>>,
           (state = "Stopped")' => point[Thread] = "exited",
           \A a \in Actors : a # c => word'[a] = word[a],
           \A d \in Clients : d # c => op'[d] = op[d],
           q # "idle" => usage[c] # {},
           q = "enable" => "enable" \in usage[c],
           q \in {"unregister", "unregLock"} => "unregister" \in usage[c],
           q \in Working => op'[c] \in registered,
           q \in {"enable", "unregister"} => word'[c] \in Flags
    PROVE  ControlInv' /\ ListsInv' /\ BoostInv'
  <1>1. /\ point'[Thread] = point[Thread] /\ \A d \in Clients : point'[d] = IF d = c THEN q ELSE point[d]
    BY ClientMove DEF ProviderInv
  <1>2. ControlInv'
    <2>1. ASSUME NEW d \in Clients
          PROVE  /\ point'[d] \in ClientPoints /\ (lock' = d <=> point'[d] = "boostWrite")
                 /\ point'[d] # "idle" => usage'[d] # {}
                 /\ point'[d] = "enable" => "enable" \in usage'[d]
                 /\ point'[d] \in {"unregister", "unregLock"} => "unregister" \in usage'[d]
                 /\ point'[d] \in Working => op'[d] \in registered'
                 /\ point'[d] \in {"enable", "boostWrite", "unregister"} => word'[d] \in Flags
      <3>1. CASE d = c
        BY <1>1, <3>1 DEF ProviderInv, ControlInv
      <3>2. CASE d # c
        BY <1>1, <3>2, Kinds DEF ProviderInv, ControlInv
      <3> QED
        BY <3>1, <3>2
    <2>2. point'[Thread] = "clearWrite" => word'[Thread] \in Flags
      BY <1>1, Kinds DEF ProviderInv, ControlInv
    <2> QED
      BY <1>1, <2>1, <2>2 DEF ProviderInv, ControlInv
  <1>3. ListsInv'
    BY <1>1, ListsSame DEF ProviderInv, ListsInv
  <1>4. BoostInv'
    <2> SUFFICES ASSUME usage = Boosters PROVE BoostData' /\ BoostThread'
      BY DEF BoostInv
    <2>1. BoostData'
      BY <1>1, DataSame, Kinds DEF ProviderInv, BoostInv
    <2>2. BoostThread'
      BY <1>1, Kinds DEF ProviderInv, BoostInv, BoostThread, Boosted
    <2> QED
      BY <2>1, <2>2
  <1> QED
    BY <1>2, <1>3, <1>4

\* A step of the thread that does not touch the lists.
LEMMA QuietThread ==
    ASSUME ProviderInv, NEW q \in ThreadPoints, point' = [point EXCEPT ![Thread] = q],
           UNCHANGED <<list, temp, boostCount, flags, registered, usage, op, state>>,
           \A c \in Clients : word'[c] = word[c],
           lock' = Thread <=> q \in InPass,
           \A c \in Clients : lock' = c <=> lock = c,
           point[Thread] # "exited", q # "clearWrite" \/ word'[Thread] \in Flags,
           q \in {"loop", "wait", "exited"} => temp = <<>>,
           q \in Looking => current' \in ToSet(temp),
           usage = Boosters => BoostThread'
    PROVE  ControlInv' /\ ListsInv' /\ BoostInv'
  <1>1. /\ point'[Thread] = q /\ \A d \in Clients : point'[d] = point[d]
    BY ThreadMove DEF ProviderInv
  <1>2. ControlInv'
    BY <1>1 DEF ProviderInv, ControlInv
  <1>3. ListsInv'
    BY <1>1, ListsSame DEF ProviderInv
  <1>4. BoostInv'
    BY <1>1, DataSame DEF ProviderInv, BoostInv
  <1> QED
    BY <1>2, <1>3, <1>4
-----------------------------------------------------------------------------
(* The thread *)

\* The thread holds the lock: no client is in its section.
LEMMA Alone ==
    ASSUME ProviderInv, point[Thread] \in InPass
    PROVE  lock = Thread /\ (\A c \in Clients : point[c] # "boostWrite") /\ \A p : Ahead(p) <=> Boosted(p)
  <1>1. lock = Thread /\ \A c \in Clients : point[c] # "boostWrite"
    BY Kinds DEF ProviderInv, ControlInv
  <1> QED
    BY <1>1 DEF Ahead

LEMMA BeginPassStep == ASSUME ProviderInv, BeginPass PROVE ProviderInv'
  <1> DEFINE q == IF state = "Stopping" THEN "exited" ELSE "pick"
  <1>1. /\ point' = [point EXCEPT ![Thread] = q] /\ point[Thread] = "loop"
        /\ IF state = "Stopping" THEN UNCHANGED <<lock, temp>> ELSE lock = None /\ lock' = Thread /\ temp' = <<>>
        /\ UNCHANGED <<list, boostCount, state, flags, runId, alerted, status, current,
                   word, op, future, registered, usage, calls, ticks>>
    BY DEF BeginPass, MoveTo, Acquire, bounds
  <1>2. temp = <<>> /\ temp' = temp
    BY <1>1 DEF ProviderInv, ListsInv
  <1>3. q \in ThreadPoints /\ q \in {"exited", "pick"}
    BY DEF ThreadPoints
  <1>a. /\ point' \in [Actors -> ThreadPoints \cup ClientPoints] /\ point'[Thread] = q
        /\ \A d \in Clients : point'[d] = point[d]
    BY <1>1, <1>3, ThreadMove DEF ProviderInv
  <1>4. ProviderTypeOK'
    <2>1. lock' \in Actors \cup {None}
      BY <1>1, Kinds DEF ProviderInv, ProviderTypeOK
    <2> QED
      BY <1>1, <1>2, <1>a, <2>1 DEF ProviderInv, ProviderTypeOK
  <1>5. (lock' = Thread <=> q \in InPass) /\ \A c \in Clients : lock' = c <=> lock = c
    BY <1>1, Kinds DEF ProviderInv, ControlInv, InPass
  <1>6. usage = Boosters => BoostThread'
    BY <1>1, <1>2, <1>3, <1>a DEF ProviderInv, BoostInv, BoostThread, Boosted, ToSet
  <1> QED
    <2>1. q \notin Looking /\ q # "clearWrite" /\ point[Thread] # "exited"
      BY <1>1, <1>3 DEF Looking
    <2> HIDE DEF q
    <2> QED
      BY <1>1, <1>2, <1>3, <1>4, <1>5, <1>6, <2>1, QuietThread DEF ProviderInv

LEMMA TestStep == ASSUME ProviderInv, Test PROVE ProviderInv'
  <1>1. PICK q \in {"run", "pick", "yield", "clear"} :
            /\ point' = [point EXCEPT ![Thread] = q]
            /\ status # "ALERTED" => q \in {"run", "pick"}
            /\ status = "ALERTED" => q = IF flags[current].unregistering THEN "yield" ELSE "clear"
    BY DEF Test, MoveTo
  <1>2. /\ point[Thread] = "test"
        /\ UNCHANGED <<lock, list, temp, boostCount, state, flags, runId, alerted, status,
                   current, word, op, future, registered, usage, calls, ticks>>
    BY DEF Test, lists, bounds
  <1>3. q \in ThreadPoints /\ q \in InPass
    BY DEF ThreadPoints, InPass
  <1>a. /\ point' \in [Actors -> ThreadPoints \cup ClientPoints] /\ point'[Thread] = q
        /\ \A d \in Clients : point'[d] = point[d]
    BY <1>1, <1>3, ThreadMove DEF ProviderInv
  <1>4. ProviderTypeOK'
    BY <1>2, <1>a DEF ProviderInv, ProviderTypeOK
  <1>5. lock' = Thread /\ current \in ToSet(temp)
    BY <1>2, Alone DEF InPass, ProviderInv, ListsInv, Looking
  <1>6. usage = Boosters => BoostThread'
    <2> SUFFICES ASSUME usage = Boosters PROVE BoostThread'
      OBVIOUS
    <2>1. BoostThread /\ current \in Providers /\ ~flags[current].unregistering
      BY <1>5, SeqElements DEF ProviderInv, BoostInv, ProviderTypeOK, BoostData
    <2> QED
      BY <1>1, <1>2, <1>a, <2>1 DEF BoostThread, Boosted
  <1> QED
    BY <1>1, <1>2, <1>3, <1>4, <1>5, <1>6, QuietThread DEF ProviderInv

\* The lock is given up, and taken again.
LEMMA LockStep == ASSUME ProviderInv, Yield \/ Run \/ Again PROVE ProviderInv'
  <1> DEFINE q == IF point[Thread] = "again" THEN "pick" ELSE "again"
  <1>1. /\ point' = [point EXCEPT ![Thread] = q] /\ point[Thread] \in {"yield", "run", "again"}
        /\ IF point[Thread] = "again" THEN lock = None /\ lock' = Thread ELSE lock = Thread /\ lock' = None
        /\ UNCHANGED <<list, temp, boostCount, state, flags, alerted, status,
                   current, word, op, future, registered, usage, calls, ticks>>
    BY DEF Yield, Run, Again, MoveTo, Acquire, Release, lists, bounds
  <1>2. runId' \in [Providers -> Nat]
    <2>1. CASE Run
      <3>1. current \in Providers
        BY <2>1, SeqElements DEF Run, ProviderInv, ListsInv, Looking, ProviderTypeOK
      <3> QED
        BY <2>1, <3>1 DEF Run, ProviderInv, ProviderTypeOK
    <2>2. CASE Yield \/ Again
      BY <2>2 DEF Yield, Again, ProviderInv, ProviderTypeOK
    <2> QED
      BY <2>1, <2>2
  <1>3. q \in ThreadPoints /\ q \in {"pick", "again"}
    BY DEF ThreadPoints
  <1>a. /\ point' \in [Actors -> ThreadPoints \cup ClientPoints] /\ point'[Thread] = q
        /\ \A d \in Clients : point'[d] = point[d]
    BY <1>1, <1>3, ThreadMove DEF ProviderInv
  <1>4. ProviderTypeOK'
    <2>1. lock' \in Actors \cup {None}
      BY <1>1, Kinds
    <2> QED
      BY <1>1, <1>2, <1>a, <2>1 DEF ProviderInv, ProviderTypeOK
  <1>5. (lock' = Thread <=> q \in InPass) /\ \A c \in Clients : lock' = c <=> lock = c
    BY <1>1, Kinds DEF InPass
  <1>6. usage = Boosters => BoostThread'
    BY <1>1, <1>3, <1>a DEF ProviderInv, BoostInv, BoostThread, Boosted
  <1> QED
    <2>1. q \notin Looking /\ q # "clearWrite" /\ q \notin {"loop", "wait", "exited"} /\ point[Thread] # "exited"
      BY <1>1, <1>3 DEF Looking
    <2> HIDE DEF q
    <2> QED
      BY <1>1, <1>3, <1>4, <1>5, <1>6, <2>1, QuietThread DEF ProviderInv

LEMMA ClearReadStep == ASSUME ProviderInv, ClearRead PROVE ProviderInv'
  <1>1. /\ point' = [point EXCEPT ![Thread] = "clearWrite"] /\ point[Thread] = "clear"
        /\ word' = [word EXCEPT ![Thread] = flags[current]]
        /\ UNCHANGED <<lock, list, temp, boostCount, state, flags, runId, alerted, status,
                   current, op, future, registered, usage, calls, ticks>>
    BY DEF ClearRead, ReadFlags, MoveTo, lists, bounds
  <1>3. "clearWrite" \in ThreadPoints /\ "clearWrite" \in InPass
    BY DEF ThreadPoints, InPass
  <1>a. /\ point' \in [Actors -> ThreadPoints \cup ClientPoints] /\ point'[Thread] = "clearWrite"
        /\ \A d \in Clients : point'[d] = point[d]
    BY <1>1, <1>3, ThreadMove DEF ProviderInv
  <1>5. lock = Thread /\ current \in ToSet(temp) /\ current \in Providers /\ flags[current] \in Flags
    <2>1. lock = Thread /\ current \in ToSet(temp)
      BY <1>1, Alone DEF InPass, ProviderInv, ListsInv, Looking
    <2> QED
      BY <2>1, SeqElements DEF ProviderInv, ProviderTypeOK
  <1>b. word'[Thread] = flags[current] /\ \A c \in Clients : word'[c] = word[c]
    BY <1>1, Kinds DEF ProviderInv, ProviderTypeOK
  <1>4. ProviderTypeOK'
    BY <1>1, <1>a, <1>5, Kinds DEF ProviderInv, ProviderTypeOK
  <1>6. usage = Boosters => BoostThread'
    BY <1>1, <1>a, <1>b DEF ProviderInv, BoostInv, BoostThread, Boosted
  <1> QED
    BY <1>1, <1>3, <1>4, <1>5, <1>6, <1>b, QuietThread DEF ProviderInv

LEMMA EndPassStep == ASSUME ProviderInv, EndPass PROVE ProviderInv'
  <1>1. /\ point' = [point EXCEPT ![Thread] = "readd"] /\ point[Thread] = "pick" /\ current' = None
        /\ UNCHANGED <<lock, list, temp, boostCount, state, flags, runId, alerted, status,
                   word, op, future, registered, usage, calls, ticks>>
    BY DEF EndPass, MoveTo, lists, bounds
  <1>3. "readd" \in ThreadPoints /\ "readd" \in InPass /\ "readd" \notin Looking
    BY DEF ThreadPoints, InPass, Looking
  <1>a. /\ point' \in [Actors -> ThreadPoints \cup ClientPoints] /\ point'[Thread] = "readd"
        /\ \A d \in Clients : point'[d] = point[d]
    BY <1>1, <1>3, ThreadMove DEF ProviderInv
  <1>4. ProviderTypeOK'
    BY <1>1, <1>a DEF ProviderInv, ProviderTypeOK
  <1>5. lock = Thread
    BY <1>1, Alone DEF InPass
  <1>6. usage = Boosters => BoostThread'
    BY <1>1, <1>a DEF ProviderInv, BoostInv, BoostThread, Boosted
  <1> QED
    BY <1>1, <1>3, <1>4, <1>5, <1>6, QuietThread DEF ProviderInv

LEMMA ReAddedStep == ASSUME ProviderInv, ReAdded PROVE ProviderInv'
  <1>1. /\ point' = [point EXCEPT ![Thread] = "wait"] /\ point[Thread] = "readd" /\ lock = Thread /\ lock' = None
        /\ temp = <<>>
        /\ UNCHANGED <<list, temp, boostCount, state, flags, runId, alerted, status, current,
                   word, op, future, registered, usage, calls, ticks>>
    BY DEF ReAdded, Release, MoveTo, lists, bounds
  <1>3. "wait" \in ThreadPoints /\ "wait" \notin InPass /\ "wait" \notin Looking
    BY DEF ThreadPoints, InPass, Looking
  <1>a. /\ point' \in [Actors -> ThreadPoints \cup ClientPoints] /\ point'[Thread] = "wait"
        /\ \A d \in Clients : point'[d] = point[d]
    BY <1>1, <1>3, ThreadMove DEF ProviderInv
  <1>4. ProviderTypeOK'
    BY <1>1, <1>a DEF ProviderInv, ProviderTypeOK
  <1>5. lock' # Thread /\ \A c \in Clients : lock' = c <=> lock = c
    BY <1>1, Kinds
  <1>6. usage = Boosters => BoostThread'
    BY <1>1, <1>a DEF ProviderInv, BoostInv, BoostThread, Boosted
  <1> QED
    BY <1>1, <1>3, <1>4, <1>5, <1>6, QuietThread DEF ProviderInv

LEMMA WaitStep == ASSUME ProviderInv, Alert \/ Tick PROVE ProviderInv'
  <1>1. /\ point' = [point EXCEPT ![Thread] = "loop"] /\ point[Thread] = "wait" /\ status' \in {"ALERTED", "WAIT_0"}
        /\ alerted' \in BOOLEAN /\ ticks' \in Nat
        /\ UNCHANGED <<lock, list, temp, boostCount, state, flags, runId, current,
                   word, op, future, registered, usage, calls>>
    <2>a. alerted \in BOOLEAN /\ ticks \in Nat
      BY DEF ProviderInv, ProviderTypeOK
    <2>1. CASE Alert
      BY <2>1, <2>a DEF Alert, MoveTo, lists, bounds
    <2>2. CASE Tick
      BY <2>2, <2>a DEF Tick, MoveTo, lists
    <2> QED
      BY <2>1, <2>2
  <1>3. "loop" \in ThreadPoints /\ "loop" \notin InPass /\ "loop" \notin Looking
    BY DEF ThreadPoints, InPass, Looking
  <1>a. /\ point' \in [Actors -> ThreadPoints \cup ClientPoints] /\ point'[Thread] = "loop"
        /\ \A d \in Clients : point'[d] = point[d]
    BY <1>1, <1>3, ThreadMove DEF ProviderInv
  <1>4. ProviderTypeOK'
    BY <1>1, <1>a DEF ProviderInv, ProviderTypeOK
  <1>5. lock # Thread /\ temp = <<>>
    BY <1>1 DEF ProviderInv, ControlInv, ListsInv, InPass
  <1>6. usage = Boosters => BoostThread'
    BY <1>1, <1>a, <1>5, Empty DEF BoostThread
  <1> QED
    BY <1>1, <1>3, <1>4, <1>5, <1>6, QuietThread DEF ProviderInv

LEMMA PickStep == ASSUME ProviderInv, Pick PROVE ProviderInv'
  <1>1. /\ point' = [point EXCEPT ![Thread] = "test"] /\ point[Thread] = "pick" /\ current' = Head(list)
        /\ list' = Tail(list) /\ temp' = Append(temp, Head(list)) /\ list # <<>>
        /\ status = "ALERTED" => boostCount # 0
        /\ UNCHANGED <<lock, boostCount, state, flags, runId, alerted, status,
                   word, op, future, registered, usage, calls, ticks>>
    BY DEF Pick, PassOver, MoveTo, bounds
  <1>3. "test" \in ThreadPoints /\ "test" \in InPass /\ "test" \in Looking
    BY DEF ThreadPoints, InPass, Looking
  <1>a. /\ point' \in [Actors -> ThreadPoints \cup ClientPoints] /\ point'[Thread] = "test"
        /\ \A d \in Clients : point'[d] = point[d]
    BY <1>1, <1>3, ThreadMove DEF ProviderInv
  <1>b. lock = Thread /\ (\A c \in Clients : point[c] # "boostWrite") /\ \A p : Ahead(p) <=> Boosted(p)
    BY <1>1, Alone DEF InPass
  <1> DEFINE h == Head(list)
  <1>c. list \in Seq(Providers) /\ Once(list) /\ temp \in Seq(Providers) /\ Once(temp)
    BY DEF ProviderInv, ProviderTypeOK, ListsInv
  <1>d. /\ Tail(list) \in Seq(Providers) /\ h \in Providers /\ Once(Tail(list))
        /\ ToSet(Tail(list)) = ToSet(list) \ {h} /\ h \in ToSet(list)
    BY <1>1, <1>c, TailOnce
  <1>e. h \notin ToSet(temp)
    BY <1>d DEF ProviderInv, ListsInv
  <1>f. /\ temp' \in Seq(Providers) /\ Once(temp') /\ ToSet(temp') = ToSet(temp) \cup {h}
    BY <1>1, <1>c, <1>d, <1>e, Appended
  <1>g. DOMAIN Tail(list) = 1..(Len(list) - 1) /\ h = list[1] /\ Len(list) \in Nat /\ DOMAIN list = 1..Len(list)
        /\ (\A i \in 1..(Len(list) - 1) : Tail(list)[i] = list[i + 1]) /\ Len(list) >= 1
    BY <1>1, <1>c
  <1> HIDE DEF h
  <1>4. ProviderTypeOK'
    BY <1>1, <1>a, <1>d, <1>f DEF ProviderInv, ProviderTypeOK, h
  <1>5. ControlInv'
    BY <1>1, <1>3, <1>a, <1>b DEF ProviderInv, ControlInv
  <1>6. ListsInv'
    <2>1. /\ Once(list') /\ ToSet(list') = ToSet(list) \ {h} /\ current' = h
      BY <1>1, <1>d DEF h
    <2>2. ToSet(list') \cap ToSet(temp') = {} /\ ToSet(list') \cup ToSet(temp') = registered'
      BY <1>1, <1>d, <1>f, <2>1 DEF ProviderInv, ListsInv
    <2> QED
      BY <1>a, <1>f, <2>1, <2>2 DEF ListsInv, Once, ToSet
  <1>7. BoostInv'
    <2> SUFFICES ASSUME usage = Boosters PROVE BoostData' /\ BoostThread'
      BY <1>1 DEF BoostInv
    <2>0. BoostData /\ BoostThread
      BY DEF ProviderInv, BoostInv
    <2>1. BoostedSet' = BoostedSet
      BY <1>1 DEF BoostedSet
    <2>2. \A p : Ahead(p)' <=> Ahead(p)
      BY <1>1, <1>a DEF Ahead, Boosted
    <2>3. BoostedFirst(Tail(list))
      <3> SUFFICES ASSUME NEW k \in DOMAIN Tail(list), NEW m \in DOMAIN Tail(list), k < m, Ahead(Tail(list)[m])
                   PROVE  Ahead(Tail(list)[k])
        BY DEF BoostedFirst
      <3>1. k + 1 \in DOMAIN list /\ m + 1 \in DOMAIN list /\ k + 1 < m + 1
            /\ Tail(list)[k] = list[k + 1] /\ Tail(list)[m] = list[m + 1]
        BY <1>g
      <3> QED
        BY <2>0, <3>1 DEF BoostData, BoostedFirst
    <2>4. BoostedFirst(list)'
      BY <1>1, <2>2, <2>3 DEF BoostedFirst
    <2>5. BoostData'
      BY <1>1, <1>a, <1>b, <2>0, <2>1, <2>4 DEF BoostData, Boosted
    <2>6. status = "ALERTED" => Boosted(h) /\ \A p \in ToSet(temp) : ~Boosted(p)
      <3> SUFFICES ASSUME status = "ALERTED" PROVE Boosted(h) /\ \A p \in ToSet(temp) : ~Boosted(p)
        OBVIOUS
      <3>1. \A p \in ToSet(temp) : ~Boosted(p)
        BY <1>1, <2>0 DEF BoostThread
      <3>2. BoostedSet # {}
        BY <1>1, <2>0, FS_EmptySet DEF BoostData
      <3>3. PICK p \in registered : Boosted(p)
        BY <3>2 DEF BoostedSet, Boosted
      <3>4. p \in ToSet(list)
        BY <3>1, <3>3 DEF ProviderInv, ListsInv
      <3>5. PICK m \in DOMAIN list : list[m] = p
        BY <3>4 DEF ToSet
      <3>6. 1 \in DOMAIN list /\ (m = 1 \/ 1 < m)
        BY <1>g
      <3>7. Ahead(list[1])
        BY <1>b, <2>0, <3>3, <3>5, <3>6 DEF BoostData, BoostedFirst
      <3> QED
        BY <1>b, <1>g, <3>1, <3>7
    <2>7. BoostThread'
      BY <1>1, <1>a, <1>f, <2>6 DEF BoostThread, Boosted, h
    <2> QED
      BY <2>5, <2>7
  <1> QED
    BY <1>4, <1>5, <1>6, <1>7 DEF ProviderInv

LEMMA BoostedCount ==
    ASSUME ProviderTypeOK
    PROVE  /\ IsFiniteSet(BoostedSet) /\ Cardinality(BoostedSet) \in Nat
           /\ Cardinality(BoostedSet) < Modulus
  <1>1. BoostedSet \subseteq Providers
    BY DEF BoostedSet, ProviderTypeOK
  <1>2. /\ IsFiniteSet(BoostedSet) /\ Cardinality(BoostedSet) <= Cardinality(Providers)
    BY <1>1, Kinds, FS_Subset
  <1>3. Cardinality(BoostedSet) \in Nat
    BY <1>2, FS_CardinalityType
  <1> QED
    BY <1>2, <1>3, Kinds

LEMMA ModStep ==
    ASSUME NEW n \in 0..Modulus-1
    PROVE  /\ (n + 1) % Modulus \in 0..Modulus-1 /\ (n - 1) % Modulus \in 0..Modulus-1
           /\ n + 1 < Modulus => (n + 1) % Modulus = n + 1
           /\ n > 0 => (n - 1) % Modulus = n - 1
  <1>1. Modulus \in Nat /\ Modulus > 0
    BY Kinds
  <1> QED
    BY <1>1

LEMMA ClearWriteStep == ASSUME ProviderInv, ClearWrite PROVE ProviderInv'
  <1> DEFINE w == [word[Thread] EXCEPT !.boosting = FALSE]
  <1>1. /\ point' = [point EXCEPT ![Thread] = "run"] /\ point[Thread] = "clearWrite"
        /\ flags' = [flags EXCEPT ![current] = w]
        /\ boostCount' = (boostCount - 1) % Modulus
        /\ UNCHANGED <<lock, list, temp, state, runId, alerted, status, current, word, op,
                   future, registered, usage, calls, ticks>>
    BY DEF ClearWrite, BoostTaken, MoveTo, bounds, lists
  <1>3. "run" \in ThreadPoints /\ "run" \in InPass /\ "run" \in Looking
    BY DEF ThreadPoints, InPass, Looking
  <1>a. /\ point' \in [Actors -> ThreadPoints \cup ClientPoints] /\ point'[Thread] = "run"
        /\ \A d \in Clients : point'[d] = point[d]
    BY <1>1, <1>3, ThreadMove DEF ProviderInv
  <1>b. lock = Thread /\ (\A c \in Clients : point[c] # "boostWrite") /\ \A p : Ahead(p) <=> Boosted(p)
    BY <1>1, Alone DEF InPass
  <1>c. current \in ToSet(temp) /\ current \in Providers /\ current \in registered /\ current \notin ToSet(list)
    <2>1. current \in ToSet(temp)
      BY <1>1 DEF ProviderInv, ListsInv, Looking
    <2> QED
      BY <2>1, SeqElements DEF ProviderInv, ProviderTypeOK, ListsInv
  <1>d. w \in Flags /\ w.boosting = FALSE /\ w.unregistering = word[Thread].unregistering
    BY <1>1 DEF ProviderInv, ControlInv, Flags
  <1> HIDE DEF w
  <1>e. flags' \in [Providers -> Flags] /\ flags'[current] = w /\ \A p \in Providers : p # current => flags'[p] = flags[p]
    BY <1>1, <1>c, <1>d DEF ProviderInv, ProviderTypeOK
  <1>4. ProviderTypeOK'
    <2>1. boostCount' \in 0..Modulus-1
      BY <1>1, ModStep DEF ProviderInv, ProviderTypeOK
    <2> QED
      BY <1>1, <1>a, <1>e, <2>1 DEF ProviderInv, ProviderTypeOK
  <1>5. ControlInv'
    BY <1>1, <1>3, <1>a, <1>b DEF ProviderInv, ControlInv
  <1>6. ListsInv'
    BY <1>1, <1>a, <1>c, ListsSame DEF ProviderInv
  <1>7. BoostInv'
    <2> SUFFICES ASSUME usage = Boosters PROVE BoostData' /\ BoostThread'
      BY <1>1 DEF BoostInv
    <2>0. BoostData /\ BoostThread
      BY DEF ProviderInv, BoostInv
    <2>a. word[Thread] = flags[current] /\ status = "ALERTED" /\ Boosted(current)
      BY <1>1, <2>0 DEF BoostThread
    <2>1. BoostedSet' = BoostedSet \ {current} /\ current \in BoostedSet
      BY <1>1, <1>c, <1>d, <1>e, <2>a DEF BoostedSet, Boosted, ProviderInv, ProviderTypeOK
    <2>2. boostCount' = Cardinality(BoostedSet')
      <3>1. Cardinality(BoostedSet \ {current}) = Cardinality(BoostedSet) - 1 /\ Cardinality(BoostedSet) # 0
        BY <2>1, BoostedCount, FS_RemoveElement, FS_EmptySet DEF ProviderInv
      <3>2. boostCount > 0 /\ boostCount \in 0..Modulus-1
        BY <2>0, <3>1, BoostedCount DEF BoostData, ProviderInv, ProviderTypeOK
      <3>3. boostCount' = boostCount - 1
        BY <1>1, <3>2, ModStep
      <3> QED
        BY <2>0, <2>1, <3>1, <3>3 DEF BoostData
    <2>3. \A p \in ToSet(list) : Ahead(p)' <=> Ahead(p)
      BY <1>1, <1>a, <1>b, <1>c, <1>e, SeqElements DEF Ahead, Boosted, ProviderInv, ProviderTypeOK
    <2>4. BoostedFirst(list)'
      BY <1>1, <2>0, <2>3, SeqElements DEF BoostedFirst, BoostData, ProviderInv, ProviderTypeOK
    <2>5. BoostData'
      <3>1. \A p \in Providers : ~flags'[p].unregistering
        BY <1>c, <1>d, <1>e, <2>0, <2>a DEF BoostData
      <3> QED
        BY <1>1, <1>a, <1>b, <2>0, <2>2, <2>4, <3>1 DEF BoostData
    <2>7. BoostThread'
      <3>1. \A p \in ToSet(temp) : ~flags'[p].boosting
        <4> SUFFICES ASSUME NEW p \in ToSet(temp) PROVE ~flags'[p].boosting
          OBVIOUS
        <4>1. p \in Providers
          BY SeqElements DEF ProviderInv, ProviderTypeOK
        <4> QED
          BY <1>d, <1>e, <2>0, <2>a, <4>1 DEF BoostThread, Boosted
      <3> QED
        BY <1>1, <1>a, <3>1 DEF BoostThread, Boosted
    <2> QED
      BY <2>5, <2>7
  <1> QED
    BY <1>4, <1>5, <1>6, <1>7 DEF ProviderInv

LEMMA FirstPutOrder ==
    ASSUME NEW s \in Seq(Providers), NEW x \in Providers, Once(s), x \notin ToSet(s), BoostedFirst(s), Ahead(x)
    PROVE  BoostedFirst(PutFirst(x, s))
  <1> DEFINE r == PutFirst(x, s)
  <1>1. \A k \in DOMAIN r : \/ k = 1 /\ r[k] = x
                            \/ k - 1 \in DOMAIN s /\ r[k] = s[k - 1] /\ k > 1
    BY FirstPut
  <1>2. r \in Seq(Providers)
    BY FirstPut
  <1> HIDE DEF r
  <1>a. DOMAIN r = 1..Len(r) /\ Len(r) \in Nat
    BY <1>2
  <1>3. ASSUME NEW k \in DOMAIN r, NEW m \in DOMAIN r, k < m, Ahead(r[m]) PROVE Ahead(r[k])
    <2>1. CASE k = 1
      BY <1>1, <2>1
    <2>2. CASE k # 1
      <3>1. /\ k - 1 \in DOMAIN s /\ r[k] = s[k - 1] /\ m - 1 \in DOMAIN s /\ r[m] = s[m - 1] /\ k - 1 < m - 1
        BY <1>1, <1>a, <1>3, <2>2
      <3> QED
        BY <1>3, <3>1 DEF BoostedFirst
    <2> QED
      BY <2>1, <2>2
  <1> QED
    BY <1>3 DEF r, BoostedFirst

LEMMA AppendedOrder ==
    ASSUME NEW s \in Seq(Providers), NEW x \in Providers, Once(s), x \notin ToSet(s), BoostedFirst(s), ~Ahead(x)
    PROVE  BoostedFirst(Append(s, x))
  <1> DEFINE r == Append(s, x)
  <1>1. \A k \in DOMAIN r : \/ k \in DOMAIN s /\ r[k] = s[k]
                            \/ r[k] = x /\ \A m \in DOMAIN s : m < k
    BY Appended
  <1>2. DOMAIN r = 1..(Len(s) + 1) /\ DOMAIN s = 1..Len(s) /\ Len(s) \in Nat
    OBVIOUS
  <1> HIDE DEF r
  <1>3. ASSUME NEW k \in DOMAIN r, NEW m \in DOMAIN r, k < m, Ahead(r[m]) PROVE Ahead(r[k])
    <2>1. m \in DOMAIN s /\ r[m] = s[m]
      BY <1>1, <1>3
    <2>2. k \in DOMAIN s /\ r[k] = s[k]
      <3>1. k \in DOMAIN s
        BY <1>2, <1>3, <2>1
      <3> QED
        BY <1>1, <1>2, <1>3, <3>1
    <2> QED
      BY <1>3, <2>1, <2>2 DEF BoostedFirst
  <1> QED
    BY <1>3 DEF r, BoostedFirst

LEMMA ReAddStep == ASSUME ProviderInv, ReAdd PROVE ProviderInv'
  <1> DEFINE h == Head(temp)
  <1>1. /\ point[Thread] = "readd" /\ temp # <<>>
        /\ list' = IF Boosted(h) THEN PutFirst(h, list) ELSE Append(list, h)
        /\ temp' = Tail(temp)
        /\ UNCHANGED <<lock, boostCount, state, flags, runId, alerted, status, current, point, word,
                   op, future, registered, usage, calls, ticks>>
    BY DEF ReAdd, bounds
  <1>b. lock = Thread /\ (\A c \in Clients : point[c] # "boostWrite") /\ \A p : Ahead(p) <=> Boosted(p)
    BY <1>1, Alone DEF InPass
  <1>c. list \in Seq(Providers) /\ Once(list) /\ temp \in Seq(Providers) /\ Once(temp)
    BY DEF ProviderInv, ProviderTypeOK, ListsInv
  <1>d. /\ Tail(temp) \in Seq(Providers) /\ h \in Providers /\ Once(Tail(temp))
        /\ ToSet(Tail(temp)) = ToSet(temp) \ {h} /\ h \in ToSet(temp)
    BY <1>1, <1>c, TailOnce
  <1>e. h \notin ToSet(list)
    BY <1>d DEF ProviderInv, ListsInv
  <1> HIDE DEF h
  <1>f. /\ list' \in Seq(Providers) /\ Once(list') /\ ToSet(list') = ToSet(list) \cup {h}
    <2>1. CASE Boosted(h)
      BY <1>1, <1>c, <1>d, <1>e, <2>1, FirstPut
    <2>2. CASE ~Boosted(h)
      BY <1>1, <1>c, <1>d, <1>e, <2>2, Appended
    <2> QED
      BY <2>1, <2>2
  <1>4. ProviderTypeOK'
    BY <1>1, <1>d, <1>f DEF ProviderInv, ProviderTypeOK
  <1>5. ControlInv'
    BY <1>1 DEF ProviderInv, ControlInv
  <1>6. ListsInv'
    <2>1. Once(temp') /\ ToSet(temp') = ToSet(temp) \ {h}
      BY <1>1, <1>d
    <2>2. ToSet(list') \cap ToSet(temp') = {} /\ ToSet(list') \cup ToSet(temp') = registered'
      BY <1>1, <1>d, <1>f, <2>1 DEF ProviderInv, ListsInv
    <2>3. point'[Thread] \notin Looking /\ point'[Thread] \notin {"loop", "wait", "exited"}
      BY <1>1 DEF Looking
    <2> QED
      BY <1>f, <2>1, <2>2, <2>3 DEF ListsInv, Once, ToSet
  <1>7. BoostInv'
    <2> SUFFICES ASSUME usage = Boosters PROVE BoostData' /\ BoostThread'
      BY <1>1 DEF BoostInv
    <2>0. BoostData /\ BoostThread
      BY DEF ProviderInv, BoostInv
    <2>1. BoostedSet' = BoostedSet
      BY <1>1 DEF BoostedSet
    <2>2. \A p : Ahead(p)' <=> Ahead(p)
      BY <1>1 DEF Ahead, Boosted
    <2>3. BoostedFirst(list')
      <3>1. CASE Boosted(h)
        BY <1>1, <1>b, <1>c, <1>d, <1>e, <2>0, <3>1, FirstPutOrder DEF BoostData
      <3>2. CASE ~Boosted(h)
        BY <1>1, <1>b, <1>c, <1>d, <1>e, <2>0, <3>2, AppendedOrder DEF BoostData
      <3> QED
        BY <3>1, <3>2
    <2>4. BoostedFirst(list)'
      BY <2>2, <2>3 DEF BoostedFirst
    <2>5. BoostData'
      BY <1>1, <1>b, <2>0, <2>1, <2>4 DEF BoostData
    <2>7. BoostThread'
      BY <1>1, <1>d, <2>0 DEF BoostThread, Boosted
    <2> QED
      BY <2>5, <2>7
  <1> QED
    BY <1>4, <1>5, <1>6, <1>7 DEF ProviderInv
-----------------------------------------------------------------------------
(* The clients *)

LEMMA MayCallIs == ASSUME NEW c \in Clients, NEW k, MayCall(c, k), ProviderInv
                   PROVE  point[c] = "idle" /\ k \in usage[c] /\ calls' \in Nat /\ usage[c] # {}
  BY DEF MayCall, ProviderInv, ProviderTypeOK

\* The steps of a client before and after its section under the lock.
LEMMA ReadStep == ASSUME ProviderInv, NEW c \in Clients, EnableRead(c) \/ UnregisterRead(c) PROVE ProviderInv'
  <1>1. PICK q \in {"enable", "unregister"}, p \in Providers :
            /\ MayCall(c, q) /\ p \in registered
            /\ op' = [op EXCEPT ![c] = p] /\ word' = [word EXCEPT ![c] = flags[p]]
            /\ point' = [point EXCEPT ![c] = q]
    BY DEF EnableRead, UnregisterRead, Begin, ReadFlags, MoveTo
  <1>2. UNCHANGED <<lock, list, temp, boostCount, state, flags, runId, alerted, status,
                   current, future, registered, usage, ticks>>
    BY DEF EnableRead, UnregisterRead, lists, chosen
  <1>3. point[c] = "idle" /\ q \in usage[c] /\ calls' \in Nat /\ usage[c] # {}
    BY <1>1, MayCallIs
  <1>4. /\ q \in ClientPoints \ {"boostWrite"} /\ flags[p] \in Flags
    BY DEF ClientPoints, ProviderInv, ProviderTypeOK
  <1>5. /\ word' \in [Actors -> Flags \cup {None}] /\ op' \in [Clients -> Providers \cup {None}]
        /\ word'[c] \in Flags /\ op'[c] = p
        /\ \A a \in Actors : a # c => word'[a] = word[a]
        /\ \A d \in Clients : d # c => op'[d] = op[d]
    BY <1>1, <1>4, Kinds DEF ProviderInv, ProviderTypeOK
  <1>6. ProviderTypeOK'
    <2>1. point' \in [Actors -> ThreadPoints \cup ClientPoints]
      BY <1>1, <1>4, ClientMove DEF ProviderInv
    <2> QED
      BY <1>2, <1>3, <1>5, <2>1 DEF ProviderInv, ProviderTypeOK
  <1>7. ControlInv' /\ ListsInv' /\ BoostInv'
    <2>1. /\ q = "enable" => "enable" \in usage[c]
          /\ q \in {"unregister", "unregLock"} => "unregister" \in usage[c]
      BY <1>3
    <2>2. (state = "Stopped")' => point[Thread] = "exited"
      BY <1>2 DEF ProviderInv, ControlInv
    <2> QED
      BY <1>1, <1>2, <1>3, <1>4, <1>5, <2>1, <2>2, QuietClient
  <1> QED
    BY <1>6, <1>7 DEF ProviderInv

LEMMA BoostTestStep == ASSUME ProviderInv, NEW c \in Clients, BoostTest(c) PROVE ProviderInv'
  <1>1. PICK q \in {"idle", "boost"}, p \in Providers :
            /\ MayCall(c, "boost") /\ p \in registered
            /\ op' = [op EXCEPT ![c] = p]
            /\ point' = [point EXCEPT ![c] = q]
    BY DEF BoostTest, Begin, MoveTo
  <1>2. UNCHANGED <<lock, list, temp, boostCount, state, flags, runId, alerted, status,
                   current, word, future, registered, usage, ticks>>
    BY DEF BoostTest, lists, chosen
  <1>3. point[c] = "idle" /\ calls' \in Nat /\ usage[c] # {}
    BY <1>1, MayCallIs
  <1>4. /\ q \in ClientPoints \ {"boostWrite"}
    BY DEF ClientPoints
  <1>5. /\ op' \in [Clients -> Providers \cup {None}] /\ op'[c] = p
        /\ \A d \in Clients : d # c => op'[d] = op[d]
    BY <1>1 DEF ProviderInv, ProviderTypeOK
  <1>6. ProviderTypeOK'
    <2>1. point' \in [Actors -> ThreadPoints \cup ClientPoints]
      BY <1>1, <1>4, ClientMove DEF ProviderInv
    <2> QED
      BY <1>2, <1>3, <1>5, <2>1 DEF ProviderInv, ProviderTypeOK
  <1>7. ControlInv' /\ ListsInv' /\ BoostInv'
    <2>2. (state = "Stopped")' => point[Thread] = "exited"
      BY <1>2 DEF ProviderInv, ControlInv
    <2> QED
      BY <1>1, <1>2, <1>3, <1>4, <1>5, <2>2, QuietClient
  <1> QED
    BY <1>6, <1>7 DEF ProviderInv

LEMMA PointStep ==
    ASSUME ProviderInv, NEW c \in Clients,
           BoostRefused(c) \/ BoostAlert(c) \/ Stop(c) \/ StopAlert(c) \/ StopReturn(c)
    PROVE  ProviderInv'
  <1>1. PICK q \in {"idle", "stopAlert", "stopping"} : point' = [point EXCEPT ![c] = q]
    BY DEF BoostRefused, BoostAlert, Stop, StopAlert, StopReturn, MoveTo
  <1>2. /\ UNCHANGED <<lock, list, temp, boostCount, flags, runId, status,
                   current, word, op, future, registered, usage, ticks>>
        /\ point[c] \in {"boost", "alert", "idle", "stopAlert", "stopping"} /\ usage[c] # {}
        /\ state' \in {"Running", "Stopping", "Stopped"}
        /\ alerted' = alerted \/ alerted' = TRUE
        /\ calls' \in Nat
        /\ (state' = "Stopped") => point[Thread] = "exited"
    <2> USE DEF lists, bounds, chosen
    <2>0. /\ state \in {"Running", "Stopping", "Stopped"} /\ calls \in Nat
          /\ state = "Stopped" => point[Thread] = "exited"
          /\ point[c] # "idle" => usage[c] # {}
      BY DEF ProviderInv, ProviderTypeOK, ControlInv
    <2>1. CASE BoostRefused(c)
      BY <2>0, <2>1 DEF BoostRefused
    <2>2. CASE BoostAlert(c)
      BY <2>0, <2>2 DEF BoostAlert, Alerted
    <2>3. CASE Stop(c)
      BY <2>0, <2>3 DEF Stop, MayCall
    <2>4. CASE StopAlert(c)
      BY <2>0, <2>4 DEF StopAlert
    <2>5. CASE StopReturn(c)
      BY <2>0, <2>5 DEF StopReturn
    <2> QED
      BY <2>1, <2>2, <2>3, <2>4, <2>5
  <1>4. /\ q \in ClientPoints \ {"boostWrite"} /\ point[c] # "boostWrite"
    BY <1>2 DEF ClientPoints
  <1>6. ProviderTypeOK'
    <2>1. point' \in [Actors -> ThreadPoints \cup ClientPoints]
      BY <1>1, <1>4, ClientMove DEF ProviderInv
    <2>2. alerted' \in BOOLEAN
      BY <1>2 DEF ProviderInv, ProviderTypeOK
    <2> QED
      BY <1>2, <2>1, <2>2 DEF ProviderInv, ProviderTypeOK
  <1>7. ControlInv' /\ ListsInv' /\ BoostInv'
    <2>1. q \notin Working
      BY DEF Working
    <2> QED
      BY <1>1, <1>2, <1>4, <2>1, QuietClient
  <1> QED
    BY <1>6, <1>7 DEF ProviderInv

LEMMA StartStep == ASSUME ProviderInv, NEW c \in Clients, Start(c) PROVE ProviderInv'
  <1>1. /\ point' = [point EXCEPT ![Thread] = "loop"] /\ state = "Stopped" /\ state' = "Running"
        /\ alerted' = FALSE /\ status' = "SUCCESS"
        /\ UNCHANGED <<lock, list, temp, boostCount, flags, runId, current, word, op, future,
                   registered, usage, calls, ticks>>
    BY DEF Start, MoveTo, lists, bounds
  <1>2. point[Thread] = "exited" /\ lock # Thread /\ temp = <<>>
    BY <1>1 DEF ProviderInv, ControlInv, ListsInv, InPass
  <1>3. "loop" \in ThreadPoints /\ "loop" \notin InPass /\ "loop" \notin Looking
    BY DEF ThreadPoints, InPass, Looking
  <1>a. /\ point' \in [Actors -> ThreadPoints \cup ClientPoints] /\ point'[Thread] = "loop"
        /\ \A d \in Clients : point'[d] = point[d]
    BY <1>1, <1>3, ThreadMove DEF ProviderInv
  <1>4. ProviderTypeOK'
    BY <1>1, <1>a DEF ProviderInv, ProviderTypeOK
  <1>5. ControlInv'
    BY <1>1, <1>2, <1>3, <1>a DEF ProviderInv, ControlInv
  <1>6. ListsInv'
    BY <1>1, <1>2, <1>3, <1>a, ListsSame DEF ProviderInv
  <1>7. BoostInv'
    BY <1>1, <1>a, DataSame DEF ProviderInv, BoostInv, BoostThread
  <1> QED
    BY <1>4, <1>5, <1>6, <1>7 DEF ProviderInv

\* The unlocked write of a flags word: only a manager's.
LEMMA WriteStep == ASSUME ProviderInv, NEW c \in Clients, EnableWrite(c) \/ UnregisterWrite(c) PROVE ProviderInv'
  <1>1. PICK q \in {"idle", "unregLock"} : point' = [point EXCEPT ![c] = q] /\ (q = "unregLock" => point[c] = "unregister")
    BY DEF EnableWrite, UnregisterWrite, MoveTo
  <1>2. /\ UNCHANGED <<lock, list, temp, boostCount, state, runId, alerted, status,
                   current, word, op, future, registered, usage, calls, ticks>>
        /\ point[c] \in {"enable", "unregister"}
    BY DEF EnableWrite, UnregisterWrite, lists, bounds
  <1>a. word[c] \in Flags /\ op[c] \in registered /\ op[c] \in Providers
    BY <1>2 DEF ProviderInv, ControlInv, Working, ProviderTypeOK
  <1>b. flags' \in [Providers -> Flags]
    <2>1. \E w \in Flags : flags' = [flags EXCEPT ![op[c]] = w]
      <3>1. CASE EnableWrite(c)
        <4>1. PICK b \in BOOLEAN : flags' = [flags EXCEPT ![op[c]] = [word[c] EXCEPT !.enabled = b]]
          BY <3>1 DEF EnableWrite
        <4>2. [word[c] EXCEPT !.enabled = b] \in Flags
          BY <1>a DEF Flags
        <4> QED
          BY <4>1, <4>2
      <3>2. CASE UnregisterWrite(c)
        <4>1. flags' = [flags EXCEPT ![op[c]] = [word[c] EXCEPT !.unregistering = TRUE]]
          BY <3>2 DEF UnregisterWrite
        <4>2. [word[c] EXCEPT !.unregistering = TRUE] \in Flags
          BY <1>a DEF Flags
        <4> QED
          BY <4>1, <4>2
      <3> QED
        BY <3>1, <3>2
    <2> QED
      BY <2>1 DEF ProviderInv, ProviderTypeOK
  <1>c. q \in ClientPoints
    BY DEF ClientPoints
  <1>d. /\ point' \in [Actors -> ThreadPoints \cup ClientPoints] /\ point'[Thread] = point[Thread]
        /\ \A d \in Clients : point'[d] = IF d = c THEN q ELSE point[d]
    BY <1>1, <1>c, ClientMove DEF ProviderInv
  <1>4. ProviderTypeOK'
    BY <1>2, <1>b, <1>d DEF ProviderInv, ProviderTypeOK
  <1>5. ControlInv'
    BY <1>1, <1>2, <1>a, <1>c, <1>d, Kinds DEF ProviderInv, ControlInv
  <1>6. ListsInv'
    BY <1>2, <1>d, ListsSame DEF ProviderInv, ListsInv
  <1>7. BoostInv'
    <2>1. usage[c] # {"boost"} /\ usage[c] # {}
      BY <1>2 DEF ProviderInv, ControlInv
    <2> QED
      BY <1>2, <2>1, OneManager DEF ProviderInv, BoostInv
  <1> QED
    BY <1>4, <1>5, <1>6, <1>7 DEF ProviderInv

LEMMA UnlinkedOrder ==
    ASSUME NEW s \in Seq(Providers), NEW x, Once(s), BoostedFirst(s)
    PROVE  BoostedFirst(Unlinked(s, x))
  BY UnlinkedIs DEF BoostedFirst

LEMMA BoostMoveStep == ASSUME ProviderInv, NEW c \in Clients, BoostMove(c) PROVE ProviderInv'
  <1> DEFINE p == op[c]
             l == Unlinked(list, p)
  <1>1. /\ point' = [point EXCEPT ![c] = "boostWrite"] /\ point[c] = "boost" /\ lock = None /\ lock' = c
        /\ ~Boosted(p)
        /\ list' = PutFirst(p, l) /\ temp' = Unlinked(temp, p)
        /\ word' = [word EXCEPT ![c] = flags[p]]
        /\ UNCHANGED <<boostCount, state, flags, runId, alerted, status, current, op,
                   future, registered, usage, calls, ticks>>
    BY DEF BoostMove, Acquire, Refused, ReadFlags, MoveTo, bounds, Boosted
  <1>2. "boostWrite" \in ClientPoints
    BY DEF ClientPoints
  <1>a. /\ point' \in [Actors -> ThreadPoints \cup ClientPoints] /\ point'[Thread] = point[Thread]
        /\ \A d \in Clients : point'[d] = IF d = c THEN "boostWrite" ELSE point[d]
    BY <1>1, <1>2, ClientMove DEF ProviderInv
  <1>b. p \in registered /\ p \in Providers /\ flags[p] \in Flags
    BY <1>1 DEF ProviderInv, ControlInv, Working, ProviderTypeOK
  <1>c. /\ word' \in [Actors -> Flags \cup {None}] /\ word'[c] = flags[p]
        /\ \A a \in Actors : a # c => word'[a] = word[a]
    BY <1>1, <1>b, Kinds DEF ProviderInv, ProviderTypeOK
  <1>d. point[Thread] \notin InPass /\ point[Thread] \notin Looking /\ \A d \in Clients : point[d] # "boostWrite"
    BY <1>1, Kinds DEF ProviderInv, ControlInv, InPass, Looking
  <1>e. list \in Seq(Providers) /\ Once(list) /\ temp \in Seq(Providers) /\ Once(temp)
    BY DEF ProviderInv, ProviderTypeOK, ListsInv
  <1>f. l \in Seq(Providers) /\ Once(l) /\ ToSet(l) = ToSet(list) \ {p}
    BY <1>e, UnlinkedIs
  <1>g. temp' \in Seq(Providers) /\ Once(temp') /\ ToSet(temp') = ToSet(temp) \ {p}
    BY <1>1, <1>e, UnlinkedIs
  <1> HIDE DEF p, l
  <1>h. list' \in Seq(Providers) /\ Once(list') /\ ToSet(list') = ToSet(l) \cup {p}
    BY <1>1, <1>b, <1>f, FirstPut
  <1>4. ProviderTypeOK'
    <2>1. lock' \in Actors \cup {None}
      BY <1>1, Kinds
    <2> QED
      BY <1>1, <1>a, <1>c, <1>g, <1>h, <2>1 DEF ProviderInv, ProviderTypeOK
  <1>5. ControlInv'
    <2>1. \A d \in Clients : lock' = d <=> point'[d] = "boostWrite"
      BY <1>1, <1>a, <1>d
    <2>2. lock' = Thread <=> point'[Thread] \in InPass
      BY <1>1, <1>a, <1>d, Kinds
    <2>3. point'[Thread] = "clearWrite" => word'[Thread] \in Flags
      BY <1>a, <1>d DEF InPass
    <2>4. ASSUME NEW d \in Clients
          PROVE  /\ point'[d] \in ClientPoints
                 /\ point'[d] # "idle" => usage'[d] # {}
                 /\ point'[d] = "enable" => "enable" \in usage'[d]
                 /\ point'[d] \in {"unregister", "unregLock"} => "unregister" \in usage'[d]
                 /\ point'[d] \in Working => op'[d] \in registered'
                 /\ point'[d] \in {"enable", "boostWrite", "unregister"} => word'[d] \in Flags
      <3>1. CASE d = c
        BY <1>1, <1>2, <1>a, <1>b, <1>c, <3>1 DEF ProviderInv, ControlInv, p
      <3>2. CASE d # c
        BY <1>1, <1>a, <1>c, <3>2, Kinds DEF ProviderInv, ControlInv
      <3> QED
        BY <3>1, <3>2
    <2> QED
      BY <1>1, <1>a, <2>1, <2>2, <2>3, <2>4 DEF ProviderInv, ControlInv
  <1>6. ListsInv'
    <2>1. ToSet(list') \cap ToSet(temp') = {} /\ ToSet(list') \cup ToSet(temp') = registered'
      BY <1>1, <1>b, <1>f, <1>g, <1>h DEF ProviderInv, ListsInv
    <2>2. point'[Thread] \in {"loop", "wait", "exited"} => temp' = <<>>
      <3> SUFFICES ASSUME point[Thread] \in {"loop", "wait", "exited"} PROVE temp' = <<>>
        BY <1>a
      <3>1. temp = <<>>
        BY DEF ProviderInv, ListsInv
      <3>2. \A k \in DOMAIN temp : temp[k] # p
        BY <3>1
      <3> QED
        BY <1>1, <3>1, <3>2 DEF Unlinked
    <2> QED
      BY <1>a, <1>d, <1>g, <1>h, <2>1, <2>2 DEF ListsInv, Once, ToSet
  <1>7. BoostInv'
    <2> SUFFICES ASSUME usage = Boosters PROVE BoostData' /\ BoostThread'
      BY <1>1 DEF BoostInv
    <2>0. BoostData /\ BoostThread
      BY DEF ProviderInv, BoostInv
    <2>1. BoostedSet' = BoostedSet
      BY <1>1 DEF BoostedSet
    <2>2. \A x : IF x = p THEN Ahead(x)' ELSE Ahead(x)' <=> Ahead(x)
      BY <1>1, <1>a, <1>d DEF Ahead, Boosted, p
    <2>3. BoostedFirst(l)
      BY <1>e, <2>0, UnlinkedOrder DEF BoostData, l
    <2>4. BoostedFirst(list)'
      <3>1. \A k \in DOMAIN list' : \/ k = 1 /\ list'[k] = p
                                    \/ k - 1 \in DOMAIN l /\ list'[k] = l[k - 1] /\ k > 1
        BY <1>1, <1>b, <1>f, FirstPut
      <3>2. DOMAIN list' = 1..Len(list') /\ Len(list') \in Nat
        BY <1>h
      <3>3. \A k \in DOMAIN l : l[k] # p
        BY <1>f DEF ToSet
      <3>4. ASSUME NEW k \in DOMAIN list', NEW m \in DOMAIN list', k < m, Ahead(list[m])'
            PROVE  Ahead(list[k])'
        <4>1. CASE k = 1
          BY <2>2, <3>1, <4>1
        <4>2. CASE k # 1
          <5>1. /\ k - 1 \in DOMAIN l /\ list'[k] = l[k - 1] /\ m - 1 \in DOMAIN l /\ list'[m] = l[m - 1]
                /\ k - 1 < m - 1
            BY <3>1, <3>2, <3>4, <4>2
          <5>2. Ahead(l[m - 1]) /\ Ahead(l[k - 1])
            BY <2>2, <2>3, <3>3, <3>4, <5>1 DEF BoostedFirst
          <5> QED
            BY <2>2, <3>3, <5>1, <5>2
        <4> QED
          BY <4>1, <4>2
      <3> QED
        BY <3>4 DEF BoostedFirst
    <2>5. BoostData'
      <3>1. ASSUME NEW d \in Clients, point'[d] = "boostWrite"
            PROVE  word'[d] = flags'[op'[d]] /\ ~flags'[op'[d]].boosting /\ op'[d] \in ToSet(list')
        <4>1. d = c
          BY <1>a, <1>d, <3>1
        <4> QED
          BY <1>1, <1>c, <1>h, <4>1 DEF Boosted, p
      <3> QED
        BY <1>1, <2>0, <2>1, <2>4, <3>1 DEF BoostData, Boosted
    <2>7. BoostThread'
      BY <1>1, <1>a, <1>d, <1>g, <2>0 DEF BoostThread, Boosted, InPass
    <2> QED
      BY <2>5, <2>7
  <1> QED
    BY <1>4, <1>5, <1>6, <1>7 DEF ProviderInv

LEMMA BoostWriteStep == ASSUME ProviderInv, NEW c \in Clients, BoostWrite(c) PROVE ProviderInv'
  <1> DEFINE p == op[c]
             w == [word[c] EXCEPT !.boosting = TRUE]
  <1>1. /\ point' = [point EXCEPT ![c] = "alert"] /\ point[c] = "boostWrite" /\ lock = c /\ lock' = None
        /\ flags' = [flags EXCEPT ![p] = w]
        /\ boostCount' = (boostCount + 1) % Modulus
        /\ future' = [future EXCEPT ![p] = runId[p] + 1]
        /\ UNCHANGED <<list, temp, state, runId, alerted, status, current, word, op, registered, usage, calls, ticks>>
    BY DEF BoostWrite, Release, MoveTo, lists, bounds
  <1>2. "alert" \in ClientPoints /\ "alert" \notin Working
    BY DEF ClientPoints, Working
  <1>a. /\ point' \in [Actors -> ThreadPoints \cup ClientPoints] /\ point'[Thread] = point[Thread]
        /\ \A d \in Clients : point'[d] = IF d = c THEN "alert" ELSE point[d]
    BY <1>1, <1>2, ClientMove DEF ProviderInv
  <1>b. p \in registered /\ p \in Providers
    BY <1>1 DEF ProviderInv, ControlInv, Working, ProviderTypeOK
  <1>c. w \in Flags /\ w.boosting /\ w.unregistering = word[c].unregistering
    BY <1>1 DEF ProviderInv, ControlInv, Flags
  <1>d. /\ \A d \in Clients : d # c => point[d] # "boostWrite"
        /\ point[Thread] \notin InPass
    BY <1>1, Kinds DEF ProviderInv, ControlInv
  <1> HIDE DEF w, p
  <1>e. flags' \in [Providers -> Flags] /\ flags'[p] = w /\ \A x \in Providers : x # p => flags'[x] = flags[x]
    BY <1>1, <1>b, <1>c DEF ProviderInv, ProviderTypeOK
  <1>4. ProviderTypeOK'
    <2>1. boostCount' \in 0..Modulus-1
      BY <1>1, ModStep DEF ProviderInv, ProviderTypeOK
    <2>2. future' \in [Providers -> Nat]
      BY <1>1, <1>b DEF ProviderInv, ProviderTypeOK
    <2> QED
      BY <1>1, <1>a, <1>e, <2>1, <2>2 DEF ProviderInv, ProviderTypeOK
  <1>5. ControlInv'
    <2>1. \A d \in Clients : lock' = d <=> point'[d] = "boostWrite"
      BY <1>1, <1>a, <1>d, Kinds
    <2>2. lock' = Thread <=> point'[Thread] \in InPass
      BY <1>1, <1>a, <1>d, Kinds
    <2> QED
      BY <1>1, <1>2, <1>a, <2>1, <2>2 DEF ProviderInv, ControlInv
  <1>6. ListsInv'
    BY <1>1, <1>a, ListsSame DEF ProviderInv, ListsInv
  <1>7. BoostInv'
    <2> SUFFICES ASSUME usage = Boosters PROVE BoostData' /\ BoostThread'
      BY <1>1 DEF BoostInv
    <2>0. BoostData /\ BoostThread
      BY DEF ProviderInv, BoostInv
    <2>a. word[c] = flags[p] /\ ~Boosted(p) /\ p \in ToSet(list)
      BY <1>1, <2>0 DEF BoostData, p
    <2>1. BoostedSet' = BoostedSet \cup {p} /\ p \notin BoostedSet
      BY <1>1, <1>b, <1>c, <1>e, <2>a DEF BoostedSet, Boosted, ProviderInv, ProviderTypeOK
    <2>2. boostCount' = Cardinality(BoostedSet')
      <3>1. Cardinality(BoostedSet') = Cardinality(BoostedSet) + 1
        BY <2>1, BoostedCount, FS_AddElement DEF ProviderInv
      <3>2. Cardinality(BoostedSet') < Modulus
        <4>1. BoostedSet' \subseteq Providers
          BY <1>1 DEF BoostedSet, ProviderInv, ProviderTypeOK
        <4>2. Cardinality(BoostedSet') <= Cardinality(Providers)
          BY <4>1, Kinds, FS_Subset
        <4>3. Cardinality(BoostedSet') \in Nat
          BY <3>1, BoostedCount DEF ProviderInv
        <4> QED
          BY <4>2, <4>3, Kinds
      <3>3. boostCount = Cardinality(BoostedSet) /\ boostCount \in 0..Modulus-1
        BY <2>0 DEF BoostData, ProviderInv, ProviderTypeOK
      <3>4. boostCount' = boostCount + 1
        BY <1>1, <3>1, <3>2, <3>3, ModStep
      <3> QED
        BY <3>1, <3>3, <3>4
    <2>3. \A x \in Providers : Ahead(x)' <=> Ahead(x)
      <3> SUFFICES ASSUME NEW x \in Providers PROVE Ahead(x)' <=> Ahead(x)
        OBVIOUS
      <3>1. CASE x = p
        <4>1. Ahead(x)
          BY <1>1, <3>1 DEF Ahead, p
        <4>2. Ahead(x)'
          BY <1>c, <1>e, <3>1 DEF Ahead, Boosted
        <4> QED
          BY <4>1, <4>2
      <3>2. CASE x # p
        <4>1. Boosted(x)' <=> Boosted(x)
          BY <1>e, <3>2 DEF Boosted
        <4>2. ~\E d \in Clients : point[d] = "boostWrite" /\ op[d] = x
          BY <1>d, <3>2 DEF p
        <4>3. ~\E d \in Clients : point'[d] = "boostWrite" /\ op'[d] = x
          BY <1>a, <1>d
        <4> QED
          BY <4>1, <4>2, <4>3 DEF Ahead
      <3> QED
        BY <3>1, <3>2
    <2>4. BoostedFirst(list)'
      <3>1. \A k \in DOMAIN list : list[k] \in Providers
        BY SeqElements DEF ProviderInv, ProviderTypeOK
      <3> QED
        BY <1>1, <2>0, <2>3, <3>1 DEF BoostedFirst, BoostData
    <2>5. BoostData'
      <3>1. \A x \in Providers : ~flags'[x].unregistering
        BY <1>b, <1>c, <1>e, <2>0, <2>a DEF BoostData
      <3>2. \A d \in Clients : point'[d] # "boostWrite"
        BY <1>a, <1>d
      <3> QED
        BY <1>1, <2>0, <2>2, <2>4, <3>1, <3>2 DEF BoostData
    <2>7. BoostThread'
      <3>1. p \notin ToSet(temp)
        BY <2>a DEF ProviderInv, ListsInv
      <3>2. \A x \in ToSet(temp) : x \in Providers /\ x # p
        BY <3>1, SeqElements DEF ProviderInv, ProviderTypeOK
      <3> QED
        BY <1>1, <1>a, <1>d, <1>e, <2>0, <3>2 DEF BoostThread, Boosted, InPass
    <2> QED
      BY <2>5, <2>7
  <1> QED
    BY <1>4, <1>5, <1>6, <1>7 DEF ProviderInv

LEMMA UnregisterStep == ASSUME ProviderInv, NEW c \in Clients, Unregister(c) PROVE ProviderInv'
  <1> DEFINE p == op[c]
  <1>1. /\ point' = [point EXCEPT ![c] = "idle"] /\ point[c] = "unregLock" /\ lock = None
        /\ list' = Unlinked(list, p) /\ temp' = Unlinked(temp, p)
        /\ boostCount' = IF flags[p].boosting THEN (boostCount - 1) % Modulus ELSE boostCount
        /\ future' = [future EXCEPT ![p] = 0] /\ registered' = registered \ {p}
        /\ UNCHANGED <<lock, state, flags, runId, alerted, status, current, word, op, usage, calls, ticks>>
    BY DEF Unregister, TakenFromTemp, MoveTo, bounds
  <1>2. "idle" \in ClientPoints
    BY DEF ClientPoints
  <1>a. /\ point' \in [Actors -> ThreadPoints \cup ClientPoints] /\ point'[Thread] = point[Thread]
        /\ \A d \in Clients : point'[d] = IF d = c THEN "idle" ELSE point[d]
    BY <1>1, <1>2, ClientMove DEF ProviderInv
  <1>b. p \in registered /\ p \in Providers /\ "unregister" \in usage[c]
    BY <1>1 DEF ProviderInv, ControlInv, Working, ProviderTypeOK
  <1>c. usage # Boosters /\ \A d \in Clients : d # c => usage[d] = {}
    BY <1>b, OneManager DEF ProviderInv
  <1>d. point[Thread] \notin InPass /\ point[Thread] \notin Looking /\ \A d \in Clients : d # c => point[d] = "idle"
    BY <1>1, <1>c, Kinds DEF ProviderInv, ControlInv, InPass, Looking
  <1>e. list \in Seq(Providers) /\ Once(list) /\ temp \in Seq(Providers) /\ Once(temp)
    BY DEF ProviderInv, ProviderTypeOK, ListsInv
  <1>f. list' \in Seq(Providers) /\ Once(list') /\ ToSet(list') = ToSet(list) \ {p}
    BY <1>1, <1>e, UnlinkedIs
  <1>g. temp' \in Seq(Providers) /\ Once(temp') /\ ToSet(temp') = ToSet(temp) \ {p}
    BY <1>1, <1>e, UnlinkedIs
  <1> HIDE DEF p
  <1>4. ProviderTypeOK'
    <2>1. boostCount' \in 0..Modulus-1
      BY <1>1, ModStep DEF ProviderInv, ProviderTypeOK
    <2>2. future' \in [Providers -> Nat] /\ registered' \subseteq Providers
      BY <1>1, <1>b DEF ProviderInv, ProviderTypeOK
    <2> QED
      BY <1>1, <1>a, <1>f, <1>g, <2>1, <2>2 DEF ProviderInv, ProviderTypeOK
  <1>5. ControlInv'
    <2>1. \A d \in Clients : point'[d] = "idle"
      BY <1>a, <1>d
    <2>2. \A d \in Clients : lock' # d
      BY <1>1, Kinds
    <2>3. lock' = Thread <=> point'[Thread] \in InPass
      BY <1>1, <1>a, <1>d, Kinds
    <2>4. point'[Thread] # "clearWrite"
      BY <1>a, <1>d DEF InPass
    <2> QED
      BY <1>1, <1>2, <1>a, <2>1, <2>2, <2>3, <2>4 DEF ProviderInv, ControlInv, Working
  <1>6. ListsInv'
    <2>1. ToSet(list') \cap ToSet(temp') = {} /\ ToSet(list') \cup ToSet(temp') = registered'
      BY <1>1, <1>b, <1>f, <1>g DEF ProviderInv, ListsInv
    <2>2. point'[Thread] \in {"loop", "wait", "exited"} => temp' = <<>>
      <3> SUFFICES ASSUME point[Thread] \in {"loop", "wait", "exited"} PROVE temp' = <<>>
        BY <1>a
      <3>1. temp = <<>>
        BY DEF ProviderInv, ListsInv
      <3>2. \A k \in DOMAIN temp : temp[k] # p
        BY <3>1
      <3> QED
        BY <1>1, <3>1, <3>2 DEF Unlinked
    <2> QED
      BY <1>a, <1>d, <1>f, <1>g, <2>1, <2>2 DEF ListsInv, Once, ToSet
  <1>7. BoostInv'
    BY <1>1, <1>c DEF BoostInv
  <1> QED
    BY <1>4, <1>5, <1>6, <1>7 DEF ProviderInv

LEMMA RegisterStep == ASSUME ProviderInv, NEW c \in Clients, Register(c) PROVE ProviderInv'
  <1>0. PICK p \in Providers :
        /\ p \notin registered
        /\ flags' = [flags EXCEPT ![p] = [enabled |-> FALSE, unregistering |-> FALSE, boosting |-> FALSE]]
        /\ runId' = [runId EXCEPT ![p] = 0]
        /\ list' = Append(list, p)
        /\ registered' = registered \cup {p}
    BY DEF Register
  <1>1. /\ MayCall(c, "register") /\ lock = None
        /\ UNCHANGED <<lock, temp, boostCount, state, alerted, status, current, point, word, op,
                   future, usage, ticks>>
    BY DEF Register, chosen
  <1>2. "register" \in usage[c] /\ calls' \in Nat
    BY <1>1, MayCallIs
  <1>3. usage # Boosters
    BY <1>2, OneManager DEF ProviderInv
  <1>e. list \in Seq(Providers) /\ Once(list) /\ p \notin ToSet(list) /\ p \notin ToSet(temp)
    BY <1>0 DEF ProviderInv, ProviderTypeOK, ListsInv
  <1>f. list' \in Seq(Providers) /\ Once(list') /\ ToSet(list') = ToSet(list) \cup {p}
    BY <1>0, <1>e, Appended
  <1>4. ProviderTypeOK'
    <2>1. flags' \in [Providers -> Flags] /\ runId' \in [Providers -> Nat]
      BY <1>0 DEF ProviderInv, ProviderTypeOK, Flags
    <2> QED
      BY <1>0, <1>1, <1>2, <1>f, <2>1 DEF ProviderInv, ProviderTypeOK
  <1>5. ControlInv'
    BY <1>0, <1>1 DEF ProviderInv, ControlInv
  <1>6. ListsInv'
    <2>1. ToSet(list') \cap ToSet(temp) = {} /\ ToSet(list') \cup ToSet(temp) = registered'
      BY <1>0, <1>e, <1>f DEF ProviderInv, ListsInv
    <2> QED
      BY <1>1, <1>f, <2>1 DEF ProviderInv, ListsInv, Once, ToSet
  <1>7. BoostInv'
    BY <1>1, <1>3 DEF BoostInv
  <1> QED
    BY <1>4, <1>5, <1>6, <1>7 DEF ProviderInv

LEMMA AllOnce ==
    ASSUME NEW s \in SetToSeqs(Providers)
    PROVE  s \in Seq(Providers) /\ Once(s) /\ ToSet(s) = Providers
  <1> DEFINE n == Cardinality(Providers)
  <1>1. n \in Nat /\ IsFiniteSet(Providers)
    BY Kinds
  <1>2. s \in [1..n -> Providers] /\ \A i, j \in 1..n : i # j => s[i] # s[j]
    BY DEF SetToSeqs
  <1>3. Cardinality(1..n) = n
    BY <1>1, FS_Interval
  <1>4. s \in Injection(1..n, Providers)
    BY <1>2 DEF Injection, IsInjective
  <1>5. s \in Surjection(1..n, Providers)
    BY <1>1, <1>3, <1>4, FS_Injection
  <1>6. \A p \in Providers : \E i \in 1..n : s[i] = p
    BY <1>5 DEF Surjection
  <1> HIDE DEF n
  <1>7. s \in Seq(Providers)
    BY <1>1, <1>2
  <1>8. DOMAIN s = 1..n
    BY <1>2
  <1>9. ToSet(s) = Providers
    BY <1>2, <1>6, <1>8 DEF ToSet
  <1>10. Once(s)
    BY <1>2, <1>8 DEF Once
  <1> QED
    BY <1>7, <1>9, <1>10

LEMMA InitStep == ASSUME ProviderInit PROVE ProviderInv
  <1>1. list \in Seq(Providers) /\ Once(list) /\ ToSet(list) = Providers
    BY AllOnce DEF ProviderInit
  <1>2. /\ temp = <<>> /\ registered = Providers /\ lock = None /\ boostCount = 0 /\ state = "Running"
        /\ point = [a \in Actors |-> IF a = Thread THEN "loop" ELSE "idle"]
        /\ status = "SUCCESS" /\ current = None
    BY DEF ProviderInit
  <1>3. point[Thread] = "loop" /\ \A c \in Clients : point[c] = "idle"
    BY <1>2, Kinds
  <1>4. /\ flags \in [Providers -> Flags]
        /\ \A p \in Providers : ~flags[p].unregistering /\ ~flags[p].boosting
    BY DEF ProviderInit, Flags
  <1>5. ProviderTypeOK
    <2>1. boostCount \in 0..Modulus-1
      BY <1>2, Kinds
    <2>2. point \in [Actors -> ThreadPoints \cup ClientPoints]
      BY <1>2 DEF ThreadPoints, ClientPoints
    <2>3. temp \in Seq(Providers)
      BY <1>2
    <2> QED
      BY <1>1, <1>2, <1>4, <2>1, <2>2, <2>3 DEF ProviderInit, ProviderTypeOK
  <1>6. ControlInv
    <2>1. lock # Thread /\ \A c \in Clients : lock # c
      BY <1>2, Kinds
    <2> QED
      BY <1>2, <1>3, <2>1 DEF ControlInv, ThreadPoints, ClientPoints, InPass, Working
  <1>7. ListsInv
    <2>1. Once(temp) /\ ToSet(temp) = {}
      BY <1>2, Empty
    <2> QED
      BY <1>1, <1>2, <1>3, <2>1 DEF ListsInv, Looking
  <1>8. BoostInv
    <2>1. BoostedSet = {}
      BY <1>2, <1>4 DEF BoostedSet
    <2>2. boostCount = Cardinality(BoostedSet)
      BY <1>2, <2>1, FS_EmptySet
    <2>3. BoostedFirst(list)
      <3>1. \A p \in Providers : ~Ahead(p)
        BY <1>3, <1>4 DEF Ahead, Boosted
      <3>2. \A k \in DOMAIN list : list[k] \in Providers
        BY <1>1
      <3> QED
        BY <3>1, <3>2 DEF BoostedFirst
    <2> QED
      BY <1>2, <1>3, <1>4, <2>2, <2>3 DEF BoostInv, BoostData, BoostThread
  <1> QED
    BY <1>5, <1>6, <1>7, <1>8 DEF ProviderInv

LEMMA Unchanged == ASSUME ProviderInv, UNCHANGED providerVars PROVE ProviderInv'
  <1> USE DEF providerVars
  <1>1. ProviderTypeOK' /\ ControlInv'
    BY DEF ProviderInv, ProviderTypeOK, ControlInv
  <1>2. ListsInv'
    BY ListsSame DEF ProviderInv, ListsInv
  <1>3. BoostInv'
    BY DataSame DEF ProviderInv, BoostInv, BoostThread, Boosted
  <1> QED
    BY <1>1, <1>2, <1>3 DEF ProviderInv

\* The lock, the two lists and the boosts agree with where the provider thread and the
\* clients are, throughout.
THEOREM ProviderInvariance == ProviderSpec => []ProviderInv
  <1>1. ProviderInit => ProviderInv
    BY InitStep
  <1>2. ProviderInv /\ [ProviderNext]_providerVars => ProviderInv'
    <2> SUFFICES ASSUME ProviderInv, [ProviderNext]_providerVars PROVE ProviderInv'
      OBVIOUS
    <2>1. CASE UNCHANGED providerVars
      BY <2>1, Unchanged
    <2>2. CASE ThreadStep
      BY <2>2, BeginPassStep, PickStep, TestStep, LockStep, ClearReadStep, ClearWriteStep, EndPassStep,
         ReAddStep, ReAddedStep, WaitStep DEF ThreadStep
    <2>3. CASE Tick
      BY <2>3, WaitStep
    <2>4. ASSUME NEW c \in Clients, ClientGoesOn(c) PROVE ProviderInv'
      BY <2>4, WriteStep, PointStep, BoostMoveStep, BoostWriteStep, UnregisterStep DEF ClientGoesOn
    <2>5. ASSUME NEW c \in Clients, ClientCall(c) PROVE ProviderInv'
      BY <2>5, ReadStep, BoostTestStep, RegisterStep, PointStep, StartStep DEF ClientCall
    <2> QED
      BY <2>1, <2>2, <2>3, <2>4, <2>5 DEF ProviderNext
  <1> QED
    BY <1>1, <1>2, PTL DEF ProviderSpec

LEMMA Partition == ASSUME ProviderInv PROVE InOneList
  <1>1. /\ ToSet(list \o temp) = ToSet(list) \cup ToSet(temp)
        /\ Len(list \o temp) = Cardinality(ToSet(list \o temp))
    BY ConcatOnce DEF ProviderInv, ProviderTypeOK, ListsInv
  <1> QED
    BY <1>1 DEF ProviderInv, InOneList, ListsInv

\* Every registration is in exactly one of the provider list and the pass's own list, so
\* that RemoveEntryList of PhUnregisterProvider always takes it off the right one.
THEOREM ProvidersInOneList == ProviderSpec => []InOneList
  BY ProviderInvariance, Partition, PTL

LEMMA Counted == ASSUME ProviderInv PROVE BoostsCounted
  <1> SUFFICES ASSUME usage = Boosters
               PROVE  /\ Quiet => /\ boostCount = Cardinality(BoostedSet)
                                  /\ point[Thread] \in {"loop", "wait", "exited"} =>
                                     \A i, j \in DOMAIN list : i < j /\ Boosted(list[j]) => Boosted(list[i])
                      /\ point[Thread] = "clear" => flags[current].boosting
    BY DEF BoostsCounted
  <1>1. BoostData /\ BoostThread
    BY DEF ProviderInv, BoostInv
  <1>2. point[Thread] = "clear" => flags[current].boosting
    BY <1>1 DEF BoostThread, Boosted
  <1>3. ASSUME Quiet PROVE \A p : Ahead(p) <=> Boosted(p)
    <2>1. \A c \in Clients : point[c] # "boostWrite"
      BY <1>3, Kinds DEF Quiet, ProviderInv, ControlInv
    <2> QED
      BY <2>1 DEF Ahead
  <1> QED
    BY <1>1, <1>2, <1>3 DEF BoostData, BoostedFirst

\* While clients only boost: with the lock free, BoostCount is the number of boosted
\* providers and these are in front of the others, and a boost pass takes no other.
THEOREM BoostsAreCounted == ProviderSpec => []BoostsCounted
  BY ProviderInvariance, Counted, PTL

LEMMA RunRegistered ==
    ASSUME ProviderInv, ProviderNext PROVE \A p \in Providers : runId'[p] > runId[p] => p \in registered
  <1> SUFFICES ASSUME NEW p \in Providers, runId'[p] > runId[p] PROVE p \in registered
    OBVIOUS
  <1>a. runId \in [Providers -> Nat] /\ ~(runId[p] > runId[p])
    BY DEF ProviderInv, ProviderTypeOK
  <1>1. runId' # runId
    BY <1>a
  <1>2. CASE Run
    <2>1. current \in registered
      BY <1>2 DEF Run, ProviderInv, ListsInv, Looking
    <2>2. p = current
      BY <1>2, <1>a DEF Run
    <2> QED
      BY <2>1, <2>2
  <1>3. ASSUME NEW c \in Clients, Register(c) PROVE p \in registered
    <2>1. PICK x \in Providers : runId' = [runId EXCEPT ![x] = 0]
      BY <1>3 DEF Register
    <2> QED
      BY <1>a, <2>1
  <1>4. CASE ThreadStep \/ Tick
    BY <1>1, <1>2, <1>4 DEF ThreadStep, BeginPass, Pick, Test, Yield, ClearRead, ClearWrite, Again, EndPass,
       ReAdd, ReAdded, Alert, Tick
  <1>5. ASSUME NEW c \in Clients, ClientGoesOn(c) PROVE p \in registered
    BY <1>1, <1>5 DEF ClientGoesOn, EnableWrite, BoostRefused, BoostMove, BoostWrite, BoostAlert, UnregisterWrite,
       Unregister, StopAlert, StopReturn
  <1>6. ASSUME NEW c \in Clients, ClientCall(c) PROVE p \in registered
    BY <1>1, <1>3, <1>6 DEF ClientCall, EnableRead, BoostTest, UnregisterRead, Stop, Start
  <1> QED
    BY <1>4, <1>5, <1>6 DEF ProviderNext

\* Once PhUnregisterProvider has returned the provider thread starts no run of the provider,
\* although it gives the lock up around each call and walks on from there.
THEOREM UnregisteredIsNotRun == ProviderSpec => NotRunUnregistered
  <1>1. ProviderInv /\ [ProviderNext]_providerVars => [\A p \in Providers : runId'[p] > runId[p] => p \in registered]_providerVars
    BY RunRegistered
  <1> QED
    BY <1>1, ProviderInvariance, PTL DEF ProviderSpec, NotRunUnregistered
=============================================================================
