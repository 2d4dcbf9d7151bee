------------------------------- MODULE Rundown -------------------------------
(***************************************************************************)
(* Rundown protection, phlib/sync.c and the inline fast paths of           *)
(* phlib/include/phbasesup.h.  Users acquire and release the protection;   *)
(* waiters run it down.  Protection->Value is either a reference count or, *)
(* once rundown is active, the address of the waiter's stack wait block    *)
(* (None when there was nobody to wait for), so it is a record here.       *)
(* A step is one access to shared memory.                                  *)
(***************************************************************************)
EXTENDS Integers, FiniteSets

CONSTANTS Users,        \* threads that use the protected resource
          Waiters,      \* threads that call PhWaitForRundownProtection
          None,         \* no wait block
          AddressCount, \* what a wait block address reads as a count (value >> 1)
          MaxWaits      \* bound: calls of PhWaitForRundownProtection

ASSUME RundownAssumption ==
    /\ IsFiniteSet(Users) /\ IsFiniteSet(Waiters)
    /\ Users \cap Waiters = {} /\ None \notin Waiters
    /\ AddressCount \in Nat /\ AddressCount > Cardinality(Users)
    /\ MaxWaits \in Nat

VARIABLES value,      \* Protection->Value
          point, lastRead, \* per thread: control point, last value it read
          blockCount, \* waitBlock.Count of each waiter
          signaled,   \* waitBlock.WakeEvent is set
          waits       \* calls of PhWaitForRundownProtection so far

rundownVars == <<value, point, lastRead, blockCount, signaled, waits>>

Callers == Users \cup Waiters
References(n) == [active |-> FALSE, count |-> n, block |-> None]
Active(b) == [active |-> TRUE, count |-> 0, block |-> b]

MoveTo(t, label) == point' = [point EXCEPT ![t] = label]
Read(t) == lastRead' = [lastRead EXCEPT ![t] = value]

RundownInit == /\ value = References(0)
               /\ point = [t \in Callers |-> "idle"]
               /\ lastRead = [t \in Callers |-> References(0)]
               /\ blockCount = [w \in Waiters |-> 0]
               /\ signaled = [w \in Waiters |-> FALSE]
               /\ waits = 0
-----------------------------------------------------------------------------
(* PhAcquireRundownProtection, PhfAcquireRundownProtection *)

RefuseNever(v) == FALSE
Refuses(v) == v.active

AcquireRead(u) ==
    /\ point[u] \in {"idle", "acqRead"}
    /\ Read(u)
    /\ MoveTo(u, IF Refuses(value) THEN "idle" ELSE "acqCas")
    /\ UNCHANGED <<value, blockCount, signaled, waits>>

AcquireCas(u) ==
    /\ point[u] = "acqCas"
    /\ \/ /\ value = lastRead[u]
          /\ value' = References(value.count + 1)
          /\ MoveTo(u, "held")
       \/ /\ value # lastRead[u]
          /\ MoveTo(u, "acqRead")
          /\ UNCHANGED value
    /\ UNCHANGED <<lastRead, blockCount, signaled, waits>>
-----------------------------------------------------------------------------
(* PhReleaseRundownProtection, PhfReleaseRundownProtection *)

ReleaseRead(u) ==
    /\ point[u] \in {"held", "relRead"}
    /\ Read(u)
    /\ MoveTo(u, IF value.active THEN "relDec" ELSE "relCas")
    /\ UNCHANGED <<value, blockCount, signaled, waits>>

ReleaseCas(u) ==
    /\ point[u] = "relCas"
    /\ \/ /\ value = lastRead[u]
          /\ value' = References(value.count - 1)
          /\ MoveTo(u, "idle")
       \/ /\ value # lastRead[u]
          /\ MoveTo(u, "relRead")
          /\ UNCHANGED value
    /\ UNCHANGED <<lastRead, blockCount, signaled, waits>>

OneLeft(newCount) == newCount = 1
LastUser(newCount) == newCount = 0

\* _InterlockedDecrementPointer(&waitBlock->Count) == 0
ReleaseDecrement(u) ==
    /\ point[u] = "relDec"
    /\ LET b == lastRead[u].block IN
       /\ blockCount' = [blockCount EXCEPT ![b] = @ - 1]
       /\ MoveTo(u, IF LastUser(blockCount[b] - 1) THEN "setBit" ELSE "idle")
    /\ UNCHANGED <<value, lastRead, signaled, waits>>

\* PhSetEvent(&waitBlock->WakeEvent), first access: the set bit.  From here the
\* waiter may return and its wait block is no longer there.
SetBit(u) ==
    /\ point[u] = "setBit"
    /\ signaled' = [signaled EXCEPT ![lastRead[u].block] = TRUE]
    /\ MoveTo(u, "setRest")
    /\ UNCHANGED <<value, lastRead, blockCount, waits>>

\* The rest of PhfSetEvent: read EventHandle, drop the event's reference.
SetRest(u) ==
    /\ point[u] = "setRest"
    /\ MoveTo(u, "idle")
    /\ UNCHANGED <<value, lastRead, blockCount, signaled, waits>>
-----------------------------------------------------------------------------
(* PhWaitForRundownProtection, PhfWaitForRundownProtection *)

\* The CAS of 0 to PH_RUNDOWN_ACTIVE, made inline and again by the function.
WaitFast(w) ==
    /\ point[w] \in {"idle", "done", "wFast"}
    /\ IF point[w] = "wFast" THEN UNCHANGED waits
                          ELSE waits < MaxWaits /\ waits' = waits + 1
    /\ IF value \in {References(0), Active(None)}
       THEN value' = Active(None) /\ MoveTo(w, "done")
       ELSE /\ MoveTo(w, IF point[w] = "wFast" THEN "wRead" ELSE "wFast")
            /\ UNCHANGED value
    /\ UNCHANGED <<lastRead, blockCount, signaled>>

AddressOf(v) == IF v.block = None THEN 0 ELSE AddressCount
CountOneLess(v) == IF v.active THEN AddressOf(v) ELSE IF v.count = 0 THEN 0 ELSE v.count - 1
\* count = value >> PH_RUNDOWN_REF_SHIFT, whatever the value holds
CountOf(v) == IF v.active THEN AddressOf(v) ELSE v.count

\* Read the value, initialise the wait block, save the count in it.
WaitRead(w) ==
    /\ point[w] = "wRead"
    /\ Read(w)
    /\ blockCount' = [blockCount EXCEPT ![w] = CountOf(value)]
    /\ signaled' = [signaled EXCEPT ![w] = FALSE]
    /\ MoveTo(w, "wCas")
    /\ UNCHANGED <<value, waits>>

WaitCas(w) ==
    /\ point[w] = "wCas"
    /\ \/ /\ value = lastRead[w]
          /\ value' = Active(w)
          /\ MoveTo(w, IF CountOf(lastRead[w]) # 0 THEN "wBlock" ELSE "done")
       \/ /\ value # lastRead[w]
          /\ MoveTo(w, "wRead")
          /\ UNCHANGED value
    /\ UNCHANGED <<lastRead, blockCount, signaled, waits>>

\* PhWaitForEvent(&waitBlock.WakeEvent, None) returns and with it the frame.
WaitBlock(w) ==
    /\ point[w] = "wBlock"
    /\ signaled[w]
    /\ MoveTo(w, "done")
    /\ UNCHANGED <<value, lastRead, blockCount, signaled, waits>>
-----------------------------------------------------------------------------
Acquire(u) == AcquireRead(u) \/ AcquireCas(u)
Release(u) == ReleaseRead(u) \/ ReleaseCas(u) \/ ReleaseDecrement(u)
              \/ SetBit(u) \/ SetRest(u)
Wait(w) == WaitFast(w) \/ WaitRead(w) \/ WaitCas(w) \/ WaitBlock(w)

RundownNext == \/ \E u \in Users : Acquire(u) \/ Release(u)
               \/ \E w \in Waiters : Wait(w)

\* Callers are scheduled, and a user that holds the protection releases it.
Fairness == /\ \A u \in Users : WF_rundownVars(Release(u))
            /\ \A w \in Waiters : WF_rundownVars(WaitRead(w) \/ WaitCas(w) \/ WaitBlock(w))

RundownSpec == RundownInit /\ [][RundownNext]_rundownVars
RundownFairSpec == RundownSpec /\ Fairness
-----------------------------------------------------------------------------
UserPoints == {"idle", "acqRead", "acqCas", "held", "relRead", "relCas",
               "relDec", "setBit", "setRest"}
WaiterPoints == {"idle", "wFast", "wRead", "wCas", "wBlock", "done"}
Values == [active : {FALSE}, count : Nat, block : {None}]
          \cup [active : {TRUE}, count : {0}, block : Waiters \cup {None}]

\* The type of the state.
RundownTypeOK == /\ value \in Values
                 /\ point \in [Callers -> UserPoints \cup WaiterPoints]
                 /\ \A u \in Users : point[u] \in UserPoints
                 /\ \A w \in Waiters : point[w] \in WaiterPoints
                 /\ lastRead \in [Callers -> Values]
                 /\ blockCount \in [Waiters -> Nat]
                 /\ signaled \in [Waiters -> BOOLEAN]
                 /\ waits \in Nat

\* Users between a successful acquire and the decrement that gives it back.
Holders == {u \in Users : point[u] \in {"held", "relRead", "relCas", "relDec"}}

\* sync.c:27-28: once PhWaitForRundownProtection has returned nobody uses the
\* resource, and nobody will: the caller may free it.
RundownComplete == \A w \in Waiters : point[w] = "done" => Holders = {} /\ value.active

\* Once rundown is active the set of users only shrinks: acquires that read the
\* value before it was activated must fail at their CAS.
NoAcquireAfterRundown == [][value.active => Holders' \subseteq Holders]_rundownVars

\* No reference is lost when the count moves from Value into the wait block: the
\* block of the thread that began the rundown, while it is the one installed,
\* counts exactly the users that are still inside.
CountConserved ==
    /\ ~value.active => value.count = Cardinality(Holders)
    /\ \A w \in Waiters : point[w] = "wBlock" /\ ~lastRead[w].active /\ value = Active(w)
                            => blockCount[w] = Cardinality(Holders)

\* The rundown ends: when the protection is waited for once, a waiter that blocks
\* is woken by the last of the users it counted, whoever that turns out to be.
WaiterReturns == [](waits <= 1) => \A w \in Waiters : point[w] = "wBlock" ~> point[w] = "done"
=============================================================================
