---------------------------- MODULE InitOnceProofs ----------------------------
(***************************************************************************)
(* Proofs about the fast event and about one-time initialization on top of *)
(* it, for any number of threads and of calls.  The argument follows the   *)
(* kernel event: while the event is not set, and until the setter has      *)
(* signaled it, every waiter holds the handle that is in EventHandle, and  *)
(* nobody closes a handle before the last reference is gone.               *)
(***************************************************************************)
EXTENDS InitOnce, FiniteSetTheorems, TLAPS

\* The threads that hold a reference.
UserPoints == SetPoints \cup WaitPoints \cup {"deref"}
Users == {t \in Threads : pc[t] \in UserPoints}
NUsers == Cardinality(Users)

Setting(t) == pc[t] \in SetPoints
Closing(t) == pc[t] \in {"close", "clear"}

\* One thread signals, and nobody closes the handle while it does or others wait.
Quiet ==
    /\ ~set => \A t \in Threads : ~Setting(t) /\ ~Closing(t)
    /\ \A t, u \in Threads : Setting(t) \/ pc[t] = "block" => ~Closing(u)
    /\ \A t, u \in Threads : Setting(t) /\ Setting(u) => t = u

\* A new kernel event belongs to the thread that made it until it is published.
Owned ==
    /\ handle # NULL => kernel[handle] # "unused"
    /\ \A t \in Threads : mine[t] # NULL => kernel[mine[t]] # "unused"
    /\ \A t \in Threads : pc[t] = "publish" =>
         /\ mine[t] # NULL /\ kernel[mine[t]] = "open" /\ mine[t] # handle
         /\ \A u \in Threads : u # t => mine[u] # mine[t]

\* Until the setter has signaled, waiters hold what is in EventHandle.
Shared == \A t \in Threads : /\ pc[t] \in {"recheck", "block", "deref"} => mine[t] = handle /\ handle # NULL
                             /\ pc[t] = "reload" => handle # NULL
Kept ==
    /\ handle # NULL => IsOpen(handle) \/ \E u \in Threads : pc[u] = "clear"
    /\ ~set \/ (\E s \in Threads : Setting(s)) => Shared
    /\ \A t \in Threads : pc[t] = "setKernel" => mine[t] = handle /\ handle # NULL
    /\ \A t \in Threads : pc[t] = "block" => IsOpen(mine[t])

\* A signaled kernel event is the one in EventHandle, and will be closed.
Signaled ==
    \A h \in Handles : kernel[h] = "signaled" =>
      /\ set /\ handle = h
      /\ \E t \in Threads : t \in Users \/ pc[t] = "close"
      /\ \A u \in Threads : pc[u] \in {"setKernel", "recheck", "block", "deref", "close"} => mine[u] = h
      /\ \A u \in Threads : pc[u] # "clear"

EventInv == /\ TypeOK /\ ReferencesCounted /\ Quiet /\ Owned /\ Kept /\ Signaled /\ TrueMeansSet
-----------------------------------------------------------------------------
\* The threads run the program of PhBeginInitOnce or use the bare event.
OncePhases == {"begin", "elect", "initialize", "wait", "waiting", "setting", "use"}
Electing == {"initialize", "setting"}
OnceInv ==
    /\ initializing \in BOOLEAN
    /\ \/ phase = [t \in Threads |-> "event"]
       \/ /\ phase \in [Threads -> OncePhases]
          /\ \A t \in Threads : phase[t] \notin {"waiting", "setting"} => pc[t] = "idle"
          /\ ~initializing => ~set /\ \A t \in Threads : phase[t] \notin Electing
          /\ \A t, u \in Threads : phase[t] \in Electing /\ phase[u] \in Electing => t = u
          /\ \A t \in Threads : /\ phase[t] = "initialize" => ~set
                                /\ phase[t] \in {"use", "setting"} => set
                                /\ phase[t] = "waiting" =>
                                     /\ ~timed[t]
                                     /\ pc[t] \in {"idle", "deref", "close", "clear"} => set

IInv == EventInv /\ OnceInv
-----------------------------------------------------------------------------
LEMMA RefsAre ==
    /\ ReferencesCounted <=> refs = NUsers + (IF set THEN 0 ELSE 1)
    /\ ReferencesCounted' <=> refs' = NUsers' + (IF set' THEN 0 ELSE 1)
  BY DEF ReferencesCounted, NUsers, Users, UserPoints

LEMMA UsersFinite == TypeOK => IsFiniteSet(Users) /\ NUsers \in Nat
  <1>1. IsFiniteSet(Users)
    BY EventAssumption, FS_Subset DEF Users
  <1> QED
    BY <1>1, FS_CardinalityType DEF NUsers

\* One thread goes from one point to another.
LEMMA Move ==
    ASSUME TypeOK, NEW t \in Threads, NEW p \in Points, pc' = [pc EXCEPT ![t] = p]
    PROVE  /\ pc'[t] = p /\ (\A u \in Threads : u # t => pc'[u] = pc[u]) /\ pc' \in [Threads -> Points]
           /\ NUsers \in Nat /\ NUsers' \in Nat
           /\ (t \in Users <=> p \in UserPoints) => NUsers' = NUsers
           /\ t \notin Users /\ p \in UserPoints => NUsers' = NUsers + 1
           /\ t \in Users /\ p \notin UserPoints => NUsers' = NUsers - 1
           /\ t \in Users <=> pc[t] \in UserPoints
  <1>1. pc'[t] = p /\ (\A u \in Threads : u # t => pc'[u] = pc[u]) /\ pc' \in [Threads -> Points]
    BY DEF TypeOK
  <1>2. IsFiniteSet(Users) /\ NUsers \in Nat
    BY UsersFinite
  <1>3. CASE t \in Users <=> p \in UserPoints
    <2>1. Users' = Users
      BY <1>1, <1>3 DEF Users
    <2> QED
      BY <1>1, <1>2, <1>3, <2>1 DEF NUsers, Users
  <1>4. CASE t \notin Users /\ p \in UserPoints
    <2>1. Users' = Users \cup {t}
      BY <1>1, <1>4 DEF Users
    <2>2. Cardinality(Users \cup {t}) = Cardinality(Users) + 1
      BY <1>2, <1>4, FS_AddElement
    <2>3. NUsers' = NUsers + 1
      BY <2>1, <2>2 DEF NUsers
    <2>4. NUsers' \in Nat /\ (t \in Users <=> pc[t] \in UserPoints)
      BY <1>2, <2>3 DEF Users
    <2> QED
      BY <1>1, <1>2, <1>4, <2>3, <2>4
  <1>5. CASE t \in Users /\ p \notin UserPoints
    <2>1. Users' = Users \ {t}
      BY <1>1, <1>5 DEF Users
    <2>2. Cardinality(Users \ {t}) = Cardinality(Users) - 1 /\ IsFiniteSet(Users \ {t})
      BY <1>2, <1>5, FS_RemoveElement
    <2>3. Cardinality(Users \ {t}) \in Nat
      BY <2>2, FS_CardinalityType
    <2> QED
      BY <1>1, <1>2, <1>5, <2>1, <2>2, <2>3 DEF NUsers, Users
  <1> QED
    BY <1>3, <1>4, <1>5

\* The last reference is dropped: nobody else has one, and the event is set.
LEMMA LastUser ==
    ASSUME EventInv, NEW t \in Users
    PROVE  NUsers >= 1 /\ (refs = 1 => set /\ \A u \in Users : u = t)
  <1>1. IsFiniteSet(Users) /\ NUsers \in Nat
    BY UsersFinite DEF EventInv
  <1>2. Cardinality(Users \ {t}) = NUsers - 1 /\ IsFiniteSet(Users \ {t})
    BY <1>1, FS_RemoveElement DEF NUsers
  <1>3. Cardinality(Users \ {t}) \in Nat
    BY <1>2, FS_CardinalityType
  <1>4. NUsers >= 1
    BY <1>1, <1>2, <1>3
  <1>5. ASSUME refs = 1 PROVE set /\ \A u \in Users : u = t
    <2>1. refs = NUsers + (IF set THEN 0 ELSE 1)
      BY RefsAre DEF EventInv
    <2>2. set /\ NUsers = 1
      BY <1>1, <1>4, <1>5, <2>1
    <2>3. Users \ {t} = {}
      BY <1>2, <2>2, FS_EmptySet
    <2> QED
      BY <2>2, <2>3
  <1> QED
    BY <1>4, <1>5
-----------------------------------------------------------------------------
LEMMA SetBitStep ==
    ASSUME EventInv, NEW t \in Threads, pc[t] = "idle", SetBit(t), calls' \in Nat PROVE EventInv'
  <1> USE DEF UserPoints, SetPoints, WaitPoints, Points
  <1>1. PICK p \in {"idle", "setRead"} :
           /\ pc' = [pc EXCEPT ![t] = p] /\ set' = TRUE /\ (p = "setRead" <=> ~set)
           /\ UNCHANGED <<refs, handle, kernel, mine, timed, result, resets>>
    BY DEF SetBit, Goto, FirstSetter, locals
  <1>2. /\ pc'[t] = p /\ (\A u \in Threads : u # t => pc'[u] = pc[u]) /\ pc' \in [Threads -> Points]
        /\ NUsers \in Nat /\ NUsers' \in Nat /\ (IF set THEN NUsers' = NUsers ELSE NUsers' = NUsers + 1)
    BY <1>1, Move DEF EventInv
  <1>3. TypeOK'
    BY <1>1, <1>2 DEF EventInv, TypeOK
  <1>4. ReferencesCounted'
    <2>1. refs = NUsers + (IF set THEN 0 ELSE 1) /\ (IF set' THEN 0 ELSE 1) = 0 /\ refs' = refs
      BY <1>1, RefsAre DEF EventInv
    <2>2. refs' = NUsers' + 0
      <3>1. CASE set
        BY <1>2, <2>1, <3>1
      <3>2. CASE ~set
        BY <1>2, <2>1, <3>2
      <3> QED
        BY <3>1, <3>2
    <2> QED
      BY <2>1, <2>2, RefsAre
  <1>5. Quiet'
    BY <1>1, <1>2 DEF EventInv, Quiet, Setting, Closing
  <1>6. Owned'
    BY <1>1, <1>2 DEF EventInv, TypeOK, Owned
  <1>7. Kept'
    BY <1>1, <1>2 DEF EventInv, TypeOK, Owned, Quiet, Kept, Shared, IsOpen, Setting, Closing
  <1>8. Signaled'
    BY <1>1, <1>2 DEF EventInv, TypeOK, Owned, Quiet, Kept, Shared, Signaled, Setting, Closing, Users
  <1>9. TrueMeansSet'
    BY <1>1, <1>2 DEF EventInv, TypeOK, Quiet, Setting, TrueMeansSet
  <1> QED
    BY <1>3, <1>4, <1>5, <1>6, <1>7, <1>8, <1>9 DEF EventInv

LEMMA TestStep ==
    ASSUME EventInv, NEW t \in Threads, NEW finite \in BOOLEAN, pc[t] = "idle", Test(t, finite), calls' \in Nat PROVE EventInv'
  <1> USE DEF UserPoints, SetPoints, WaitPoints, Points
  <1>1. PICK p \in {"idle", "ref"} :
           /\ pc' = [pc EXCEPT ![t] = p] /\ timed' = [timed EXCEPT ![t] = finite]
           /\ UNCHANGED <<set, refs, handle, kernel, mine, result, resets>>
    BY DEF Test, Goto, event
  <1>2. /\ pc'[t] = p /\ (\A u \in Threads : u # t => pc'[u] = pc[u]) /\ pc' \in [Threads -> Points]
        /\ NUsers \in Nat /\ NUsers' \in Nat /\ NUsers' = NUsers
    BY <1>1, Move DEF EventInv
  <1>3. TypeOK'
    BY <1>1, <1>2 DEF EventInv, TypeOK
  <1>4. ReferencesCounted'
    BY <1>1, <1>2, RefsAre DEF EventInv, TypeOK
  <1>5. Quiet'
    BY <1>1, <1>2 DEF EventInv, Quiet, Setting, Closing
  <1>6. Owned'
    BY <1>1, <1>2 DEF EventInv, TypeOK, Owned
  <1>7. Kept'
    BY <1>1, <1>2 DEF EventInv, TypeOK, Owned, Quiet, Kept, Shared, IsOpen, Setting, Closing
  <1>8. Signaled'
    BY <1>1, <1>2 DEF EventInv, TypeOK, Owned, Quiet, Kept, Shared, Signaled, Setting, Closing, Users
  <1>9. TrueMeansSet'
    BY <1>1, <1>2 DEF EventInv, TypeOK, Quiet, Setting, TrueMeansSet
  <1> QED
    BY <1>3, <1>4, <1>5, <1>6, <1>7, <1>8, <1>9 DEF EventInv

LEMMA ReferenceStep ==
    ASSUME EventInv, NEW t \in Threads, Reference(t) PROVE EventInv'
  <1> USE DEF UserPoints, SetPoints, WaitPoints, Points
  <1>1. /\ pc[t] = "ref" /\ pc' = [pc EXCEPT ![t] = "readHandle"] /\ UNCHANGED <<set, handle, kernel, mine, timed, result, calls, resets>>
        /\ refs' = refs + 1
    BY DEF Reference, Goto, event, locals, counters
  <1>2. /\ pc'[t] = "readHandle" /\ (\A u \in Threads : u # t => pc'[u] = pc[u]) /\ pc' \in [Threads -> Points]
        /\ NUsers \in Nat /\ NUsers' \in Nat /\ NUsers' = NUsers + 1
    BY <1>1, Move DEF EventInv
  <1>3. TypeOK'
    BY <1>1, <1>2 DEF EventInv, TypeOK
  <1>4. ReferencesCounted'
    BY <1>1, <1>2, RefsAre DEF EventInv, TypeOK
  <1>5. Quiet'
    BY <1>1, <1>2 DEF EventInv, Quiet, Setting, Closing
  <1>6. Owned'
    BY <1>1, <1>2 DEF EventInv, TypeOK, Owned
  <1>7. Kept'
    BY <1>1, <1>2 DEF EventInv, TypeOK, Owned, Quiet, Kept, Shared, IsOpen, Setting, Closing
  <1>8. Signaled'
    BY <1>1, <1>2 DEF EventInv, TypeOK, Owned, Quiet, Kept, Shared, Signaled, Setting, Closing, Users
  <1>9. TrueMeansSet'
    BY <1>1, <1>2 DEF EventInv, TypeOK, Quiet, Setting, TrueMeansSet
  <1> QED
    BY <1>3, <1>4, <1>5, <1>6, <1>7, <1>8, <1>9 DEF EventInv

LEMMA ReadHandleStep ==
    ASSUME EventInv, NEW t \in Threads, ReadHandle(t) PROVE EventInv'
  <1> USE DEF UserPoints, SetPoints, WaitPoints, Points
  <1>1. PICK p \in {"recheck", "create"} :
           /\ pc[t] = "readHandle" /\ pc' = [pc EXCEPT ![t] = p] /\ UNCHANGED <<set, refs, handle, kernel, timed, result, calls, resets>>
           /\ mine' = [mine EXCEPT ![t] = handle] /\ (p = "recheck" <=> handle # NULL)
    BY DEF ReadHandle, Goto, event, locals, counters
  <1>2. /\ pc'[t] = p /\ (\A u \in Threads : u # t => pc'[u] = pc[u]) /\ pc' \in [Threads -> Points]
        /\ NUsers \in Nat /\ NUsers' \in Nat /\ NUsers' = NUsers
    BY <1>1, Move DEF EventInv
  <1>3. TypeOK'
    BY <1>1, <1>2 DEF EventInv, TypeOK
  <1>4. ReferencesCounted'
    BY <1>1, <1>2, RefsAre DEF EventInv, TypeOK
  <1>5. Quiet'
    BY <1>1, <1>2 DEF EventInv, Quiet, Setting, Closing
  <1>6. Owned'
    BY <1>1, <1>2 DEF EventInv, TypeOK, Owned
  <1>7. Kept'
    BY <1>1, <1>2 DEF EventInv, TypeOK, Owned, Quiet, Kept, Shared, IsOpen, Setting, Closing
  <1>8. Signaled'
    BY <1>1, <1>2 DEF EventInv, TypeOK, Owned, Quiet, Kept, Shared, Signaled, Setting, Closing, Users
  <1>9. TrueMeansSet'
    BY <1>1, <1>2 DEF EventInv, TypeOK, Quiet, Setting, TrueMeansSet
  <1> QED
    BY <1>3, <1>4, <1>5, <1>6, <1>7, <1>8, <1>9 DEF EventInv

LEMMA CreateHandleStep ==
    ASSUME EventInv, NEW t \in Threads, CreateHandle(t) PROVE EventInv'
  <1> USE DEF UserPoints, SetPoints, WaitPoints, Points
  <1>1. PICK h \in Handles :
           /\ pc[t] = "create" /\ pc' = [pc EXCEPT ![t] = "publish"] /\ kernel[h] = "unused"
           /\ kernel' = [kernel EXCEPT ![h] = "open"] /\ mine' = [mine EXCEPT ![t] = h]
           /\ UNCHANGED <<set, refs, handle, timed, result, calls, resets>>
    BY DEF CreateHandle, Goto, Unused, counters
  <1>2. /\ pc'[t] = "publish" /\ (\A u \in Threads : u # t => pc'[u] = pc[u]) /\ pc' \in [Threads -> Points]
        /\ NUsers \in Nat /\ NUsers' \in Nat /\ NUsers' = NUsers /\ h # NULL
    BY <1>1, Move, EventAssumption DEF EventInv, Handles
  <1>3. TypeOK'
    BY <1>1, <1>2 DEF EventInv, TypeOK
  <1>4. ReferencesCounted'
    BY <1>1, <1>2, RefsAre DEF EventInv, TypeOK
  <1>5. Quiet'
    BY <1>1, <1>2 DEF EventInv, Quiet, Setting, Closing
  <1>6. Owned'
    BY <1>1, <1>2 DEF EventInv, TypeOK, Owned
  <1>7. Kept'
    BY <1>1, <1>2 DEF EventInv, TypeOK, Owned, Quiet, Kept, Shared, IsOpen, Setting, Closing
  <1>8. Signaled'
    BY <1>1, <1>2 DEF EventInv, TypeOK, Owned, Quiet, Kept, Shared, Signaled, Setting, Closing, Users
  <1>9. TrueMeansSet'
    BY <1>1, <1>2 DEF EventInv, TypeOK, Quiet, Setting, TrueMeansSet
  <1> QED
    BY <1>3, <1>4, <1>5, <1>6, <1>7, <1>8, <1>9 DEF EventInv

LEMMA PublishStep ==
    ASSUME EventInv, NEW t \in Threads, Publish(t) PROVE EventInv'
  <1> USE DEF UserPoints, SetPoints, WaitPoints, Points
  <1>1. PICK p \in {"recheck", "reload"} :
           /\ pc[t] = "publish" /\ pc' = [pc EXCEPT ![t] = p] /\ UNCHANGED <<set, refs, mine, timed, result, calls, resets>>
           /\ p = "recheck" => handle = NULL /\ handle' = mine[t] /\ kernel' = kernel
           /\ p = "reload" => handle # NULL /\ handle' = handle /\ kernel' = [kernel EXCEPT ![mine[t]] = "closed"]
    BY DEF Publish, Goto, locals, counters
  <1>2. /\ pc'[t] = p /\ (\A u \in Threads : u # t => pc'[u] = pc[u]) /\ pc' \in [Threads -> Points]
        /\ NUsers \in Nat /\ NUsers' \in Nat /\ NUsers' = NUsers
    BY <1>1, Move DEF EventInv
  <1>3. TypeOK'
    BY <1>1, <1>2 DEF EventInv, TypeOK
  <1>4. ReferencesCounted'
    BY <1>1, <1>2, RefsAre DEF EventInv, TypeOK
  <1>5. Quiet'
    BY <1>1, <1>2 DEF EventInv, Quiet, Setting, Closing
  <1>6. Owned'
    BY <1>1, <1>2 DEF EventInv, TypeOK, Owned
  <1>7. Kept'
    BY <1>1, <1>2 DEF EventInv, TypeOK, Owned, Quiet, Kept, Shared, IsOpen, Setting, Closing
  <1>8. Signaled'
    BY <1>1, <1>2, EventAssumption DEF Handles, EventInv, TypeOK, Owned, Quiet, Kept, Shared, Signaled, Setting, Closing, Users
  <1>9. TrueMeansSet'
    BY <1>1, <1>2 DEF EventInv, TypeOK, Quiet, Setting, TrueMeansSet
  <1> QED
    BY <1>3, <1>4, <1>5, <1>6, <1>7, <1>8, <1>9 DEF EventInv

LEMMA ReloadStep ==
    ASSUME EventInv, NEW t \in Threads, Reload(t) PROVE EventInv'
  <1> USE DEF UserPoints, SetPoints, WaitPoints, Points
  <1>1. /\ pc[t] = "reload" /\ pc' = [pc EXCEPT ![t] = "recheck"] /\ UNCHANGED <<set, refs, handle, kernel, timed, result, calls, resets>>
        /\ mine' = [mine EXCEPT ![t] = handle]
    BY DEF Reload, Goto, event, locals, counters
  <1>2. /\ pc'[t] = "recheck" /\ (\A u \in Threads : u # t => pc'[u] = pc[u]) /\ pc' \in [Threads -> Points]
        /\ NUsers \in Nat /\ NUsers' \in Nat /\ NUsers' = NUsers
    BY <1>1, Move DEF EventInv
  <1>3. TypeOK'
    BY <1>1, <1>2 DEF EventInv, TypeOK
  <1>4. ReferencesCounted'
    BY <1>1, <1>2, RefsAre DEF EventInv, TypeOK
  <1>5. Quiet'
    BY <1>1, <1>2 DEF EventInv, Quiet, Setting, Closing
  <1>6. Owned'
    BY <1>1, <1>2 DEF EventInv, TypeOK, Owned
  <1>7. Kept'
    BY <1>1, <1>2 DEF EventInv, TypeOK, Owned, Quiet, Kept, Shared, IsOpen, Setting, Closing
  <1>8. Signaled'
    BY <1>1, <1>2 DEF EventInv, TypeOK, Owned, Quiet, Kept, Shared, Signaled, Setting, Closing, Users
  <1>9. TrueMeansSet'
    BY <1>1, <1>2 DEF EventInv, TypeOK, Quiet, Setting, TrueMeansSet
  <1> QED
    BY <1>3, <1>4, <1>5, <1>6, <1>7, <1>8, <1>9 DEF EventInv

LEMMA RecheckStep ==
    ASSUME EventInv, NEW t \in Threads, Recheck(t) PROVE EventInv'
  <1> USE DEF UserPoints, SetPoints, WaitPoints, Points
  <1>1. PICK p \in {"deref", "block"} :
           /\ pc[t] = "recheck" /\ pc' = [pc EXCEPT ![t] = p] /\ UNCHANGED <<set, refs, handle, kernel, mine, timed, calls, resets>>
           /\ result' = [result EXCEPT ![t] = set] /\ (p = "deref" <=> set)
    BY DEF Recheck, Goto, event, locals, counters, RecheckSet
  <1>2. /\ pc'[t] = p /\ (\A u \in Threads : u # t => pc'[u] = pc[u]) /\ pc' \in [Threads -> Points]
        /\ NUsers \in Nat /\ NUsers' \in Nat /\ NUsers' = NUsers
    BY <1>1, Move DEF EventInv
  <1>3. TypeOK'
    BY <1>1, <1>2 DEF EventInv, TypeOK
  <1>4. ReferencesCounted'
    BY <1>1, <1>2, RefsAre DEF EventInv, TypeOK
  <1>5. Quiet'
    BY <1>1, <1>2 DEF EventInv, Quiet, Setting, Closing
  <1>6. Owned'
    BY <1>1, <1>2 DEF EventInv, TypeOK, Owned
  <1>7. Kept'
    BY <1>1, <1>2 DEF EventInv, TypeOK, Owned, Quiet, Kept, Shared, IsOpen, Setting, Closing
  <1>8. Signaled'
    BY <1>1, <1>2 DEF EventInv, TypeOK, Owned, Quiet, Kept, Shared, Signaled, Setting, Closing, Users
  <1>9. TrueMeansSet'
    BY <1>1, <1>2 DEF EventInv, TypeOK, Quiet, Setting, TrueMeansSet
  <1> QED
    BY <1>3, <1>4, <1>5, <1>6, <1>7, <1>8, <1>9 DEF EventInv

LEMMA UnblockStep ==
    ASSUME EventInv, NEW t \in Threads, Unblock(t) PROVE EventInv'
  <1> USE DEF UserPoints, SetPoints, WaitPoints, Points
  <1>1. PICK r \in BOOLEAN :
           /\ pc[t] = "block" /\ pc' = [pc EXCEPT ![t] = "deref"] /\ (r => kernel[mine[t]] = "signaled")
           /\ result' = [result EXCEPT ![t] = r]
           /\ UNCHANGED <<set, refs, handle, kernel, mine, timed, calls, resets>>
    BY DEF Unblock, Goto, WaitSatisfied, event, counters
  <1>2. /\ pc'[t] = "deref" /\ (\A u \in Threads : u # t => pc'[u] = pc[u]) /\ pc' \in [Threads -> Points]
        /\ NUsers \in Nat /\ NUsers' \in Nat /\ NUsers' = NUsers
    BY <1>1, Move DEF EventInv
  <1>3. TypeOK'
    BY <1>1, <1>2 DEF EventInv, TypeOK
  <1>4. ReferencesCounted'
    BY <1>1, <1>2, RefsAre DEF EventInv, TypeOK
  <1>5. Quiet'
    BY <1>1, <1>2 DEF EventInv, Quiet, Setting, Closing
  <1>6. Owned'
    BY <1>1, <1>2 DEF EventInv, TypeOK, Owned
  <1>7. Kept'
    BY <1>1, <1>2 DEF EventInv, TypeOK, Owned, Quiet, Kept, Shared, IsOpen, Setting, Closing
  <1>8. Signaled'
    BY <1>1, <1>2 DEF EventInv, TypeOK, Owned, Quiet, Kept, Shared, Signaled, Setting, Closing, Users
  <1>9. TrueMeansSet'
    BY <1>1, <1>2 DEF EventInv, TypeOK, Kept, Signaled, IsOpen, TrueMeansSet
  <1> QED
    BY <1>3, <1>4, <1>5, <1>6, <1>7, <1>8, <1>9 DEF EventInv

LEMMA SetReadHandleStep ==
    ASSUME EventInv, NEW t \in Threads, SetReadHandle(t) PROVE EventInv'
  <1> USE DEF UserPoints, SetPoints, WaitPoints, Points
  <1>1. PICK p \in {"setKernel", "deref"} :
           /\ pc[t] = "setRead" /\ pc' = [pc EXCEPT ![t] = p] /\ UNCHANGED <<set, refs, handle, kernel, timed, result, calls, resets>>
           /\ mine' = [mine EXCEPT ![t] = handle] /\ (p = "setKernel" <=> handle # NULL)
    BY DEF SetReadHandle, Goto, event, locals, counters
  <1>2. /\ pc'[t] = p /\ (\A u \in Threads : u # t => pc'[u] = pc[u]) /\ pc' \in [Threads -> Points]
        /\ NUsers \in Nat /\ NUsers' \in Nat /\ NUsers' = NUsers
    BY <1>1, Move DEF EventInv
  <1>3. TypeOK'
    BY <1>1, <1>2 DEF EventInv, TypeOK
  <1>4. ReferencesCounted'
    BY <1>1, <1>2, RefsAre DEF EventInv, TypeOK
  <1>5. Quiet'
    BY <1>1, <1>2 DEF EventInv, Quiet, Setting, Closing
  <1>6. Owned'
    BY <1>1, <1>2 DEF EventInv, TypeOK, Owned
  <1>7. Kept'
    BY <1>1, <1>2 DEF EventInv, TypeOK, Owned, Quiet, Kept, Shared, IsOpen, Setting, Closing
  <1>8. Signaled'
    BY <1>1, <1>2 DEF EventInv, TypeOK, Owned, Quiet, Kept, Shared, Signaled, Setting, Closing, Users
  <1>9. TrueMeansSet'
    BY <1>1, <1>2 DEF EventInv, TypeOK, Quiet, Setting, TrueMeansSet
  <1> QED
    BY <1>3, <1>4, <1>5, <1>6, <1>7, <1>8, <1>9 DEF EventInv

LEMMA SetKernelStep ==
    ASSUME EventInv, NEW t \in Threads, SetKernel(t) PROVE EventInv'
  <1> USE DEF UserPoints, SetPoints, WaitPoints, Points
  <1>1. /\ pc[t] = "setKernel" /\ pc' = [pc EXCEPT ![t] = "deref"] /\ UNCHANGED <<set, refs, handle, mine, timed, result, calls, resets>>
        /\ kernel' = [kernel EXCEPT ![mine[t]] = IF kernel[mine[t]] = "open" THEN "signaled" ELSE kernel[mine[t]]]
    BY DEF SetKernel, Goto, event, locals, counters
  <1>2. /\ pc'[t] = "deref" /\ (\A u \in Threads : u # t => pc'[u] = pc[u]) /\ pc' \in [Threads -> Points]
        /\ NUsers \in Nat /\ NUsers' \in Nat /\ NUsers' = NUsers
    BY <1>1, Move DEF EventInv
  <1>3. TypeOK'
    BY <1>1, <1>2 DEF EventInv, TypeOK
  <1>4. ReferencesCounted'
    BY <1>1, <1>2, RefsAre DEF EventInv, TypeOK
  <1>5. Quiet'
    BY <1>1, <1>2 DEF EventInv, Quiet, Setting, Closing
  <1>6. Owned'
    BY <1>1, <1>2 DEF EventInv, TypeOK, Owned
  <1>7. Kept'
    BY <1>1, <1>2 DEF EventInv, TypeOK, Owned, Quiet, Kept, Shared, IsOpen, Setting, Closing
  <1>8. Signaled'
    BY <1>1, <1>2 DEF EventInv, TypeOK, Owned, Quiet, Kept, Shared, Signaled, Setting, Closing, Users
  <1>9. TrueMeansSet'
    BY <1>1, <1>2 DEF EventInv, TypeOK, Quiet, Setting, TrueMeansSet
  <1> QED
    BY <1>3, <1>4, <1>5, <1>6, <1>7, <1>8, <1>9 DEF EventInv

LEMMA DereferenceStep ==
    ASSUME EventInv, NEW t \in Threads, Dereference(t) PROVE EventInv'
  <1> USE DEF UserPoints, SetPoints, WaitPoints, Points
  <1> DEFINE p == IF LastReference(refs) /\ mine[t] # NULL THEN "close" ELSE "idle"
  <1>1. /\ pc[t] = "deref" /\ pc' = [pc EXCEPT ![t] = p] /\ refs' = refs - 1 /\ p \in {"close", "idle"}
        /\ UNCHANGED <<set, handle, kernel, mine, timed, result, calls, resets>>
    BY DEF Dereference, Goto, event, locals, counters
  <1>2. t \in Users /\ refs \in Nat
    BY <1>1 DEF Users, EventInv, TypeOK
  <1>3. NUsers >= 1 /\ (refs = 1 => set /\ \A u \in Users : u = t)
    BY <1>2, LastUser
  <1>4. p = "close" <=> refs = 1 /\ mine[t] # NULL
    BY <1>2 DEF LastReference
  <1> HIDE DEF p
  <1>5. /\ pc'[t] = p /\ (\A u \in Threads : u # t => pc'[u] = pc[u]) /\ pc' \in [Threads -> Points]
        /\ NUsers \in Nat /\ NUsers' \in Nat /\ NUsers' = NUsers - 1
    BY <1>1, Move DEF EventInv
  <1>6. refs = NUsers + (IF set THEN 0 ELSE 1) /\ set \in BOOLEAN
    BY RefsAre DEF EventInv, TypeOK
  <1>7. TypeOK'
    <2>1. refs' \in Nat
      BY <1>1, <1>2, <1>3, <1>5, <1>6
    <2> QED
      BY <1>1, <1>5, <2>1 DEF EventInv, TypeOK
  <1>8. ReferencesCounted'
    <2>1. refs' = NUsers' + (IF set' THEN 0 ELSE 1)
      BY <1>1, <1>5, <1>6
    <2> QED
      BY <2>1, RefsAre
  <1>9. p = "close" => set /\ \A u \in Threads : u # t => pc[u] \notin UserPoints
    BY <1>3, <1>4 DEF Users
  <1>10. Quiet'
    BY <1>1, <1>5, <1>9 DEF EventInv, Quiet, Setting, Closing
  <1>11. Owned'
    BY <1>1, <1>5 DEF EventInv, TypeOK, Owned
  <1>12. Kept'
    BY <1>1, <1>5 DEF EventInv, TypeOK, Owned, Quiet, Kept, Shared, IsOpen, Setting, Closing
  <1>13. Signaled'
    <2> SUFFICES ASSUME NEW h \in Handles, kernel'[h] = "signaled"
                 PROVE  /\ set' /\ handle' = h
                        /\ \E u \in Threads : u \in Users' \/ pc'[u] = "close"
                        /\ \A u \in Threads : pc'[u] \in {"setKernel", "recheck", "block", "deref", "close"}
                                              => mine'[u] = h
                        /\ \A u \in Threads : pc'[u] # "clear"
      BY DEF Signaled
    <2>1. /\ set /\ handle = h /\ mine[t] = h /\ h # NULL
          /\ \A u \in Threads : pc[u] \in {"setKernel", "recheck", "block", "deref", "close"} => mine[u] = h
          /\ \A u \in Threads : pc[u] # "clear"
      BY <1>1, EventAssumption DEF EventInv, Signaled, Handles
    <2>2. \E u \in Threads : u \in Users' \/ pc'[u] = "close"
      <3>1. CASE refs = 1
        BY <1>4, <1>5, <2>1, <3>1
      <3>2. CASE refs # 1
        <4>1. NUsers' # 0
          BY <1>2, <1>3, <1>5, <1>6, <2>1, <3>2
        <4>2. Users' # {}
          BY <4>1, FS_EmptySet DEF NUsers
        <4> QED
          BY <4>2 DEF Users
      <3> QED
        BY <3>1, <3>2
    <2> QED
      BY <1>1, <1>5, <2>1, <2>2
  <1>14. TrueMeansSet'
    BY <1>1, <1>5 DEF EventInv, TypeOK, TrueMeansSet
  <1> QED
    BY <1>7, <1>8, <1>10, <1>11, <1>12, <1>13, <1>14 DEF EventInv

LEMMA CloseHandleStep ==
    ASSUME EventInv, NEW t \in Threads, CloseHandle(t) PROVE EventInv'
  <1> USE DEF UserPoints, SetPoints, WaitPoints, Points
  <1>1. /\ pc[t] = "close" /\ pc' = [pc EXCEPT ![t] = "clear"] /\ UNCHANGED <<set, refs, handle, mine, timed, result, calls, resets>>
        /\ kernel' = [kernel EXCEPT ![mine[t]] = "closed"]
    BY DEF CloseHandle, Goto, event, locals, counters
  <1>2. /\ pc'[t] = "clear" /\ (\A u \in Threads : u # t => pc'[u] = pc[u]) /\ pc' \in [Threads -> Points]
        /\ NUsers \in Nat /\ NUsers' \in Nat /\ NUsers' = NUsers
    BY <1>1, Move DEF EventInv
  <1>3. TypeOK'
    BY <1>1, <1>2 DEF EventInv, TypeOK
  <1>4. ReferencesCounted'
    BY <1>1, <1>2, RefsAre DEF EventInv, TypeOK
  <1>5. Quiet'
    BY <1>1, <1>2 DEF EventInv, Quiet, Setting, Closing
  <1>6. Owned'
    BY <1>1, <1>2 DEF EventInv, TypeOK, Owned
  <1>7. Kept'
    BY <1>1, <1>2 DEF EventInv, TypeOK, Owned, Quiet, Kept, Shared, IsOpen, Setting, Closing
  <1>8. Signaled'
    BY <1>1, <1>2 DEF EventInv, TypeOK, Owned, Quiet, Kept, Shared, Signaled, Setting, Closing, Users
  <1>9. TrueMeansSet'
    BY <1>1, <1>2 DEF EventInv, TypeOK, Quiet, Setting, TrueMeansSet
  <1> QED
    BY <1>3, <1>4, <1>5, <1>6, <1>7, <1>8, <1>9 DEF EventInv

LEMMA ClearHandleStep ==
    ASSUME EventInv, NEW t \in Threads, ClearHandle(t) PROVE EventInv'
  <1> USE DEF UserPoints, SetPoints, WaitPoints, Points
  <1>1. /\ pc[t] = "clear" /\ pc' = [pc EXCEPT ![t] = "idle"] /\ UNCHANGED <<set, refs, kernel, mine, timed, result, calls, resets>>
        /\ handle' = NULL
    BY DEF ClearHandle, Goto, event, locals, counters
  <1>2. /\ pc'[t] = "idle" /\ (\A u \in Threads : u # t => pc'[u] = pc[u]) /\ pc' \in [Threads -> Points]
        /\ NUsers \in Nat /\ NUsers' \in Nat /\ NUsers' = NUsers
    BY <1>1, Move DEF EventInv
  <1>3. TypeOK'
    BY <1>1, <1>2 DEF EventInv, TypeOK
  <1>4. ReferencesCounted'
    BY <1>1, <1>2, RefsAre DEF EventInv, TypeOK
  <1>5. Quiet'
    BY <1>1, <1>2 DEF EventInv, Quiet, Setting, Closing
  <1>6. Owned'
    BY <1>1, <1>2 DEF EventInv, TypeOK, Owned
  <1>7. Kept'
    BY <1>1, <1>2 DEF EventInv, TypeOK, Owned, Quiet, Kept, Shared, IsOpen, Setting, Closing
  <1>8. Signaled'
    BY <1>1, <1>2 DEF EventInv, TypeOK, Owned, Quiet, Kept, Shared, Signaled, Setting, Closing, Users
  <1>9. TrueMeansSet'
    BY <1>1, <1>2 DEF EventInv, TypeOK, Quiet, Setting, TrueMeansSet
  <1> QED
    BY <1>3, <1>4, <1>5, <1>6, <1>7, <1>8, <1>9 DEF EventInv

\* PhfResetEvent: nobody uses the event, and its kernel event is closed or not signaled.
LEMMA ResetStep == ASSUME EventInv, Reset PROVE EventInv'
  <1> USE DEF UserPoints, SetPoints, WaitPoints
  <1>1. /\ \A t \in Threads : pc[t] = "idle"
        /\ set' = FALSE /\ refs' = 1 /\ resets' = resets + 1
        /\ UNCHANGED <<handle, kernel, pc, mine, timed, result, calls>>
    BY DEF Reset, locals
  <1>2. TypeOK'
    <2>1. 1 \in Nat /\ resets + 1 \in Nat /\ FALSE \in BOOLEAN
      BY DEF EventInv, TypeOK
    <2> QED
      BY <1>1, <2>1 DEF EventInv, TypeOK
  <1>3. Users = {} /\ Users' = {}
    BY <1>1 DEF Users
  <1>4. ReferencesCounted'
    <2>1. NUsers' = 0
      BY <1>3, FS_EmptySet DEF NUsers
    <2> QED
      BY <1>1, <2>1, RefsAre
  <1>5. Quiet' /\ Owned' /\ Kept' /\ TrueMeansSet'
    BY <1>1 DEF EventInv, Quiet, Owned, Kept, Shared, TrueMeansSet, Setting, Closing, IsOpen
  <1>6. Signaled'
    BY <1>1, <1>3 DEF EventInv, Signaled
  <1> QED
    BY <1>2, <1>4, <1>5, <1>6 DEF EventInv

LEMMA RestSteps ==
    ASSUME EventInv, NEW t \in Threads, SetRest(t) \/ WaitRest(t) \/ DereferenceSteps(t) PROVE EventInv'
  BY SetReadHandleStep, SetKernelStep, ReferenceStep, ReadHandleStep, CreateHandleStep, PublishStep,
     ReloadStep, RecheckStep, UnblockStep, DereferenceStep, CloseHandleStep, ClearHandleStep
     DEF SetRest, WaitRest, DereferenceSteps

LEMMA EventStays == ASSUME EventInv, UNCHANGED vars PROVE EventInv'
  <1>1. UNCHANGED <<set, refs, handle, kernel, pc, mine, timed, result, calls, resets>>
    BY DEF vars
  <1>2. TypeOK' /\ ReferencesCounted' /\ TrueMeansSet'
    BY <1>1 DEF EventInv, TypeOK, ReferencesCounted, TrueMeansSet
  <1>3. Quiet' /\ Owned' /\ Kept' /\ Signaled'
    BY <1>1 DEF EventInv, Quiet, Owned, Kept, Shared, Signaled, Setting, Closing, IsOpen, Users
  <1> QED
    BY <1>2, <1>3 DEF EventInv

LEMMA PlainNext == ASSUME EventInv, Next PROVE EventInv'
  <1>1. ASSUME NEW t \in Threads, Call(t) PROVE calls' \in Nat /\ pc[t] = "idle"
    BY <1>1 DEF Call, EventInv, TypeOK
  <1>2. ASSUME NEW t \in Threads, SetCall(t) PROVE EventInv'
    BY <1>1, <1>2, SetBitStep DEF SetCall
  <1>3. ASSUME NEW t \in Threads, WaitCall(t) PROVE EventInv'
    BY <1>1, <1>3, TestStep DEF WaitCall
  <1> QED
    BY <1>2, <1>3, RestSteps, ResetStep DEF Next

LEMMA EventBegins == ASSUME Init PROVE EventInv
  <1> USE DEF UserPoints, SetPoints, WaitPoints
  <1>1. /\ set = FALSE /\ refs = 1 /\ handle = NULL /\ kernel = [h \in Handles |-> "unused"]
        /\ pc = [t \in Threads |-> "idle"] /\ mine = [t \in Threads |-> NULL]
        /\ timed = [t \in Threads |-> FALSE] /\ result = [t \in Threads |-> FALSE]
        /\ calls = 0 /\ resets = 0
    BY DEF Init
  <1>2. TypeOK
    BY <1>1 DEF TypeOK, Points
  <1>3. Users = {}
    BY <1>1 DEF Users
  <1>4. ReferencesCounted
    <2>1. NUsers = 0
      BY <1>3, FS_EmptySet DEF NUsers
    <2> QED
      BY <1>1, <2>1, RefsAre
  <1>5. Quiet /\ Owned /\ Kept /\ Signaled /\ TrueMeansSet
    BY <1>1 DEF Quiet, Owned, Kept, Shared, Signaled, TrueMeansSet, Setting, Closing
  <1> QED
    BY <1>2, <1>4, <1>5 DEF EventInv
-----------------------------------------------------------------------------
\* How the event's own steps look to one-time initialization.
LEMMA EventSteps ==
    ASSUME EventInv, NEW t \in Threads, SetRest(t) \/ WaitRest(t) \/ DereferenceSteps(t)
    PROVE  /\ set' = set /\ timed' = timed /\ pc[t] # "idle"
           /\ \A u \in Threads : u # t => pc'[u] = pc[u]
           /\ pc'[t] \in {"idle", "deref", "close", "clear"} =>
                set \/ timed[t] \/ pc[t] \in {"idle", "deref", "close", "clear"}
  <1> USE DEF Goto, event, locals, counters
  <1>1. pc \in [Threads -> Points] /\ mine \in [Threads -> Handles \cup {NULL}]
    BY DEF EventInv, TypeOK
  <1>2. CASE SetRest(t)
    <2>1. set
      BY <1>2 DEF SetRest, SetReadHandle, SetKernel, EventInv, Quiet, Setting, SetPoints
    <2> QED
      BY <1>1, <1>2, <2>1 DEF SetRest, SetReadHandle, SetKernel
  <1>3. CASE Reference(t) \/ ReadHandle(t) \/ CreateHandle(t) \/ Publish(t) \/ Reload(t) \/ Recheck(t)
    BY <1>1, <1>3 DEF Reference, ReadHandle, CreateHandle, Publish, Reload, Recheck, RecheckSet
  <1>4. CASE Unblock(t)
    <2>1. pc[t] = "block" /\ (kernel[mine[t]] = "signaled" \/ timed[t])
      BY <1>4 DEF Unblock
    <2>2. set \/ timed[t]
      BY <1>1, <2>1 DEF EventInv, Kept, IsOpen, Signaled
    <2> QED
      BY <1>1, <1>4, <2>2 DEF Unblock
  <1>5. CASE DereferenceSteps(t)
    BY <1>1, <1>5 DEF DereferenceSteps, Dereference, CloseHandle, ClearHandle
  <1> QED
    BY <1>2, <1>3, <1>4, <1>5 DEF WaitRest

\* What OnceInv says of one thread that runs the program.
OnceThread(t) ==
    /\ phase[t] \in OncePhases
    /\ phase[t] \notin {"waiting", "setting"} => pc[t] = "idle"
    /\ ~initializing => phase[t] \notin Electing
    /\ phase[t] = "initialize" => ~set
    /\ phase[t] \in {"use", "setting"} => set
    /\ phase[t] = "waiting" => ~timed[t] /\ (pc[t] \in {"idle", "deref", "close", "clear"} => set)

OnceRun ==
    /\ phase = [t \in Threads |-> phase[t]] /\ initializing \in BOOLEAN
    /\ ~initializing => ~set
    /\ \A t \in Threads : OnceThread(t)
    /\ \A t, u \in Threads : phase[t] \in Electing /\ phase[u] \in Electing => t = u

LEMMA OnceIs ==
    /\ OnceInv <=> (initializing \in BOOLEAN /\ phase = [t \in Threads |-> "event"]) \/ OnceRun
    /\ OnceInv' <=> (initializing' \in BOOLEAN /\ phase' = [t \in Threads |-> "event"]) \/ OnceRun'
  BY DEF OnceInv, OnceRun, OnceThread

LEMMA OnceStepKeeps ==
    ASSUME EventInv, OnceRun, NEW t \in Threads, OnceStep(t) PROVE EventInv' /\ OnceRun'
  <1> USE DEF OncePhases, Electing
  <1>1. /\ \A u \in Threads : OnceThread(u)
        /\ initializing \in BOOLEAN /\ (~initializing => ~set) /\ set \in BOOLEAN
        /\ pc \in [Threads -> Points] /\ timed \in [Threads -> BOOLEAN] /\ calls \in Nat
        /\ phase = [u \in Threads |-> phase[u]]
    BY DEF OnceRun, EventInv, TypeOK
  <1>2. ASSUME NEW p, phase' = [phase EXCEPT ![t] = p]
        PROVE  /\ phase'[t] = p /\ (\A u \in Threads : u # t => phase'[u] = phase[u])
               /\ phase' = [u \in Threads |-> phase'[u]]
    BY <1>1, <1>2
  <1>3. CASE BeginTest(t)
    <2>1. /\ phase[t] = "begin" /\ initializing' = initializing
          /\ UNCHANGED <<set, pc, timed>> /\ UNCHANGED vars
          /\ phase' = [phase EXCEPT ![t] = IF set THEN "use" ELSE "elect"]
      BY <1>3 DEF BeginTest, Enter, vars
    <2>2. /\ phase'[t] = IF set THEN "use" ELSE "elect"
          /\ (\A u \in Threads : u # t => phase'[u] = phase[u]) /\ phase' = [u \in Threads |-> phase'[u]]
      BY <1>2, <2>1
    <2>3. \A u \in Threads : OnceThread(u)'
      BY <1>1, <2>1, <2>2 DEF OnceThread
    <2> QED
      BY <1>1, <2>1, <2>2, <2>3, EventStays DEF OnceRun
  <1>4. CASE BeginElect(t)
    <2>1. /\ phase[t] = "elect" /\ initializing' = TRUE
          /\ UNCHANGED <<set, pc, timed>> /\ UNCHANGED vars
          /\ phase' = [phase EXCEPT ![t] = IF initializing THEN "wait" ELSE "initialize"]
      BY <1>1, <1>4 DEF BeginElect, Enter, vars, Elected
    <2>2. /\ phase'[t] = IF initializing THEN "wait" ELSE "initialize"
          /\ (\A u \in Threads : u # t => phase'[u] = phase[u]) /\ phase' = [u \in Threads |-> phase'[u]]
      BY <1>2, <2>1
    <2>3. \A u \in Threads : OnceThread(u)'
      BY <1>1, <2>1, <2>2 DEF OnceThread
    <2>4. \A u, w \in Threads : phase'[u] \in Electing /\ phase'[w] \in Electing => u = w
      BY <1>1, <2>1, <2>2 DEF OnceRun, OnceThread
    <2> QED
      BY <1>1, <2>1, <2>2, <2>3, <2>4, EventStays DEF OnceRun
  <1>5. CASE BeginWait(t)
    <2>1. PICK p \in {"idle", "ref"} :
             /\ phase[t] = "wait" /\ pc[t] = "idle" /\ initializing' = initializing /\ set' = set
             /\ calls' = calls /\ pc' = [pc EXCEPT ![t] = p] /\ (p = "idle" => set)
             /\ timed' = [timed EXCEPT ![t] = FALSE] /\ phase' = [phase EXCEPT ![t] = "waiting"]
      BY <1>5 DEF BeginWait, Test, Enter, Goto, event
    <2>2. /\ phase'[t] = "waiting"
          /\ (\A u \in Threads : u # t => phase'[u] = phase[u]) /\ phase' = [u \in Threads |-> phase'[u]]
      BY <1>2, <2>1
    <2>3. \A u \in Threads : OnceThread(u)'
      BY <1>1, <2>1, <2>2 DEF OnceThread
    <2>4. EventInv'
      BY <1>1, <1>5, <2>1, TestStep DEF BeginWait
    <2> QED
      BY <1>1, <2>1, <2>2, <2>3, <2>4 DEF OnceRun
  <1>6. CASE End(t)
    <2>1. PICK p \in {"idle", "setRead"} :
             /\ phase[t] = "initialize" /\ initializing' = initializing /\ set' = TRUE /\ timed' = timed
             /\ calls' = calls /\ pc' = [pc EXCEPT ![t] = p] /\ phase' = [phase EXCEPT ![t] = "setting"]
      BY <1>6 DEF End, SetBit, Enter, Goto, locals
    <2>2. /\ phase'[t] = "setting"
          /\ (\A u \in Threads : u # t => phase'[u] = phase[u]) /\ phase' = [u \in Threads |-> phase'[u]]
      BY <1>2, <2>1
    <2>3. initializing /\ pc[t] = "idle" /\ \A u \in Threads : u # t => phase[u] # "initialize"
      BY <1>1, <2>1 DEF OnceRun, OnceThread
    <2>4. \A u \in Threads : OnceThread(u)'
      BY <1>1, <2>1, <2>2, <2>3 DEF OnceThread
    <2>5. EventInv'
      BY <1>1, <1>6, <2>1, <2>3, SetBitStep DEF End
    <2> QED
      BY <1>1, <2>1, <2>2, <2>3, <2>4, <2>5 DEF OnceRun
  <1>7. CASE EventStep(t)
    <2>1. /\ SetRest(t) \/ WaitRest(t) \/ DereferenceSteps(t)
          /\ initializing' = initializing /\ phase' = phase
      BY <1>7 DEF EventStep
    <2>2. /\ set' = set /\ timed' = timed /\ pc[t] # "idle"
          /\ \A u \in Threads : u # t => pc'[u] = pc[u]
          /\ pc'[t] \in {"idle", "deref", "close", "clear"} =>
               set \/ timed[t] \/ pc[t] \in {"idle", "deref", "close", "clear"}
      BY <2>1, EventSteps
    <2>3. \A u \in Threads : OnceThread(u)'
      BY <1>1, <2>1, <2>2 DEF OnceThread
    <2> QED
      BY <1>1, <2>1, <2>2, <2>3, RestSteps DEF OnceRun
  <1>8. CASE EventReturn(t)
    <2>1. /\ phase[t] \in {"waiting", "setting"} /\ pc[t] = "idle" /\ initializing' = initializing
          /\ UNCHANGED <<set, pc, timed>> /\ UNCHANGED vars
          /\ phase' = [phase EXCEPT ![t] = "use"]
      BY <1>8 DEF EventReturn, Enter, vars
    <2>2. /\ phase'[t] = "use"
          /\ (\A u \in Threads : u # t => phase'[u] = phase[u]) /\ phase' = [u \in Threads |-> phase'[u]]
      BY <1>2, <2>1
    <2>3. \A u \in Threads : OnceThread(u)'
      BY <1>1, <2>1, <2>2 DEF OnceThread
    <2> QED
      BY <1>1, <2>1, <2>2, <2>3, EventStays DEF OnceRun
  <1> QED
    BY <1>3, <1>4, <1>5, <1>6, <1>7, <1>8 DEF OnceStep

LEMMA InvInit == ASSUME OnceInit PROVE IInv
  <1>1. EventInv
    BY EventBegins DEF OnceInit
  <1>2. OnceInv
    BY DEF OnceInit, Init, OnceInv, OncePhases, Electing
  <1> QED
    BY <1>1, <1>2 DEF IInv

LEMMA InvNext == ASSUME IInv, [OnceNext]_onceVars PROVE IInv'
  <1>1. CASE UNCHANGED onceVars
    <2>1. UNCHANGED vars /\ UNCHANGED <<initializing, phase, set, pc, timed>>
      BY <1>1 DEF onceVars, vars
    <2> QED
      BY <2>1, EventStays DEF IInv, OnceInv
  <1>2. CASE PlainUse
    <2>1. EventInv' /\ UNCHANGED <<initializing, phase>> /\ \A t \in Threads : phase[t] = "event"
      BY <1>2, PlainNext DEF PlainUse, IInv
    <2>2. phase = [t \in Threads |-> "event"]
      BY <2>1 DEF IInv, OnceInv, OncePhases
    <2> QED
      BY <2>1, <2>2 DEF IInv, OnceInv
  <1>3. ASSUME NEW t \in Threads, OnceStep(t) PROVE IInv'
    <2>1. CASE OnceRun
      BY <1>3, <2>1, OnceStepKeeps, OnceIs DEF IInv
    <2>2. CASE phase = [u \in Threads |-> "event"]
      <3>1. EventStep(t)
        BY <1>3, <2>2 DEF OnceStep, BeginTest, BeginElect, BeginWait, End, EventReturn
      <3>2. EventInv' /\ UNCHANGED <<initializing, phase>>
        BY <3>1, RestSteps DEF EventStep, IInv
      <3> QED
        BY <2>2, <3>2 DEF IInv, OnceInv
    <2> QED
      BY <2>1, <2>2, OnceIs DEF IInv
  <1> QED
    BY <1>1, <1>2, <1>3 DEF OnceNext

\* The types, the references, the kernel event and the election hold throughout.
THEOREM Invariance == OnceSpec => []IInv
  BY InvInit, InvNext, PTL DEF OnceSpec

\* Every reference is counted, and a waiter of PhfWaitForEvent blocks on a kernel
\* event that is open and that the setter will find.
THEOREM HandleIsKept == OnceSpec => []HandleKept
  <1>1. IInv => HandleKept
    BY DEF IInv, EventInv, HandleKept, BlockedOnLiveHandle, Kept, Shared
  <1> QED
    BY <1>1, Invariance, PTL

\* PhfWaitForEvent says TRUE only when the event is set, also after a reset.
THEOREM TrueIsSet == OnceSpec => []TrueMeansSet
  <1>1. IInv => TrueMeansSet
    BY DEF IInv, EventInv
  <1> QED
    BY <1>1, Invariance, PTL

\* PhBeginInitOnce elects one thread, and the others go on when it has finished.
THEOREM InitializedOnce == OnceSpec => []InitializedBeforeUse
  <1>1. ASSUME IInv PROVE InitializedBeforeUse
    <2> DEFINE E == {t \in Threads : phase[t] \in Electing}
    <2>1. \A t, u \in E : t = u
      BY <1>1 DEF IInv, OnceInv, Electing
    <2>2. Cardinality(E) <= 1
      <3>1. CASE E = {}
        BY <3>1, FS_EmptySet
      <3>2. CASE E # {}
        <4>1. PICK e : E = {e}
          BY <2>1, <3>2
        <4>2. Cardinality({e}) = 1
          BY FS_Singleton
        <4> QED
          BY <4>1, <4>2
      <3> QED
        BY <3>1, <3>2
    <2>3. (\E t \in Threads : phase[t] = "use") => \A t \in Threads : phase[t] # "initialize"
      BY <1>1 DEF IInv, OnceInv, OncePhases, Electing
    <2> QED
      BY <2>2, <2>3 DEF InitializedBeforeUse, Electing
  <1> QED
    BY <1>1, Invariance, PTL
=============================================================================
