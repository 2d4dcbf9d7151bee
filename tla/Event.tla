-------------------------------- MODULE Event --------------------------------
(***************************************************************************)
(* The fast event of phlib/sync.c.  Event->Value holds the set bit and a   *)
(* reference count for EventHandle, a kernel event that the first waiter   *)
(* creates and the last reference closes.  A step is one access to shared  *)
(* memory or one system call; the local variable eventHandle of each       *)
(* thread is mine[t].                                                      *)
(***************************************************************************)
EXTENDS Integers, FiniteSets

CONSTANTS Threads,
          NULL,
          MaxCalls,  \* bound: calls of PhSetEvent and PhWaitForEvent, kernel events
          MaxResets  \* bound: calls of PhResetEvent

ASSUME EventAssumption ==
    /\ IsFiniteSet(Threads) /\ MaxCalls \in Nat /\ MaxResets \in Nat
    /\ NULL \notin 1..MaxCalls

VARIABLES set, refs,   \* Event->Value
          handle,      \* Event->EventHandle
          kernel,      \* the state of every kernel event ever created
          pc, mine, timed, result,
          calls, resets

vars == <<set, refs, handle, kernel, pc, mine, timed, result, calls, resets>>
event == <<set, refs, handle, kernel>>
locals == <<mine, timed, result>>
counters == <<calls, resets>>

Handles == 1..MaxCalls
Unused == {h \in Handles : kernel[h] = "unused"}

Goto(t, label) == pc' = [pc EXCEPT ![t] = label]

\* PhInitializeEvent
Init == /\ set = FALSE /\ refs = 1 /\ handle = NULL
        /\ kernel = [h \in Handles |-> "unused"]
        /\ pc = [t \in Threads |-> "idle"]
        /\ mine = [t \in Threads |-> NULL]
        /\ timed = [t \in Threads |-> FALSE]
        /\ result = [t \in Threads |-> FALSE]
        /\ calls = 0 /\ resets = 0

\* A thread makes another call (guard of the first step of each operation).
Call(t) == pc[t] = "idle" /\ calls < MaxCalls /\ calls' = calls + 1
-----------------------------------------------------------------------------
(* PhpDereferenceEvent *)

OneReferenceLeft(n) == n - 1 = 1
LastReference(n) == n - 1 = 0

Dereference(t) ==
    /\ pc[t] = "deref"
    /\ refs' = refs - 1
    /\ Goto(t, IF LastReference(refs) /\ mine[t] # NULL THEN "close" ELSE "idle")
    /\ UNCHANGED <<set, handle, kernel, locals, counters>>

\* NtClose(EventHandle)
CloseHandle(t) ==
    /\ pc[t] = "close"
    /\ kernel' = [kernel EXCEPT ![mine[t]] = "closed"]
    /\ Goto(t, "clear")
    /\ UNCHANGED <<set, refs, handle, locals, counters>>

\* Event->EventHandle = NULL
ClearHandle(t) ==
    /\ pc[t] = "clear"
    /\ handle' = NULL
    /\ Goto(t, "idle")
    /\ UNCHANGED <<set, refs, kernel, locals, counters>>
-----------------------------------------------------------------------------
(* PhfSetEvent *)

\* "Only proceed if the event isn't set already."
FirstSetter(wasSet) == ~wasSet

\* _InterlockedBitTestAndSetPointer
SetBit(t) ==
    /\ set' = TRUE
    /\ Goto(t, IF FirstSetter(set) THEN "setRead" ELSE "idle")
    /\ UNCHANGED <<refs, handle, kernel, locals, resets>>

SetCall(t) == Call(t) /\ SetBit(t)

SetReadHandle(t) ==
    /\ pc[t] = "setRead"
    /\ mine' = [mine EXCEPT ![t] = handle]
    /\ Goto(t, IF handle # NULL THEN "setKernel" ELSE "deref")
    /\ UNCHANGED <<event, timed, result, counters>>

\* NtSetEvent
SetKernel(t) ==
    /\ pc[t] = "setKernel"
    /\ kernel' = [kernel EXCEPT ![mine[t]] = IF @ = "open" THEN "signaled" ELSE @]
    /\ Goto(t, "deref")
    /\ UNCHANGED <<set, refs, handle, locals, counters>>
-----------------------------------------------------------------------------
(* PhWaitForEvent, PhfWaitForEvent *)

\* The first test: return at once when set, or when the timeout is zero.
Test(t, finite) ==
    /\ timed' = [timed EXCEPT ![t] = finite]
    /\ \/ set /\ Goto(t, "idle")
       \/ ~set /\ Goto(t, "ref")
       \/ ~set /\ finite /\ Goto(t, "idle")
    /\ UNCHANGED <<event, mine, result, resets>>

WaitCall(t) == Call(t) /\ \E finite \in BOOLEAN : Test(t, finite)

\* PhpReferenceEvent
Reference(t) ==
    /\ pc[t] = "ref"
    /\ refs' = refs + 1
    /\ Goto(t, "readHandle")
    /\ UNCHANGED <<set, handle, kernel, locals, counters>>

ReadHandle(t) ==
    /\ pc[t] = "readHandle"
    /\ mine' = [mine EXCEPT ![t] = handle]
    /\ Goto(t, IF handle # NULL THEN "recheck" ELSE "create")
    /\ UNCHANGED <<event, timed, result, counters>>

\* NtCreateEvent
CreateHandle(t) ==
    /\ pc[t] = "create" /\ Unused # {}
    /\ LET h == CHOOSE h \in Unused : TRUE IN
       /\ kernel' = [kernel EXCEPT ![h] = "open"]
       /\ mine' = [mine EXCEPT ![t] = h]
    /\ Goto(t, "publish")
    /\ UNCHANGED <<set, refs, handle, timed, result, counters>>

\* The CAS of EventHandle from NULL; the loser closes its own handle.
Publish(t) ==
    /\ pc[t] = "publish"
    /\ \/ /\ handle = NULL
          /\ handle' = mine[t]
          /\ Goto(t, "recheck")
          /\ UNCHANGED kernel
       \/ /\ handle # NULL
          /\ kernel' = [kernel EXCEPT ![mine[t]] = "closed"]
          /\ Goto(t, "reload")
          /\ UNCHANGED handle
    /\ UNCHANGED <<set, refs, locals, counters>>

Reload(t) ==
    /\ pc[t] = "reload"
    /\ mine' = [mine EXCEPT ![t] = handle]
    /\ Goto(t, "recheck")
    /\ UNCHANGED <<event, timed, result, counters>>

RecheckNever(t) == FALSE
\* "Essential: check the event one last time to see if it is set."
RecheckSet(t) == set

Recheck(t) ==
    /\ pc[t] = "recheck"
    /\ result' = [result EXCEPT ![t] = RecheckSet(t)]
    /\ Goto(t, IF RecheckSet(t) THEN "deref" ELSE "block")
    /\ UNCHANGED <<event, mine, timed, counters>>

NtSuccess(status) == status \in {"STATUS_WAIT_0", "STATUS_TIMEOUT"}
WaitSatisfied(status) == status = "STATUS_WAIT_0"

\* NtWaitForSingleObject returns: signaled, or timed out.
Unblock(t) ==
    /\ pc[t] = "block"
    /\ \E status \in {"STATUS_WAIT_0", "STATUS_TIMEOUT"} :
        /\ status = "STATUS_WAIT_0" => kernel[mine[t]] = "signaled"
        /\ status = "STATUS_TIMEOUT" => timed[t]
        /\ result' = [result EXCEPT ![t] = WaitSatisfied(status)]
    /\ Goto(t, "deref")
    /\ UNCHANGED <<event, mine, timed, counters>>
-----------------------------------------------------------------------------
\* PhfResetEvent, called while no other thread uses the event.
Reset ==
    /\ \A t \in Threads : pc[t] = "idle"
    /\ set /\ resets < MaxResets
    /\ set' = FALSE /\ refs' = 1 /\ resets' = resets + 1
    /\ UNCHANGED <<handle, kernel, pc, locals, calls>>

SetRest(t) == SetReadHandle(t) \/ SetKernel(t)
WaitRest(t) == \/ Reference(t) \/ ReadHandle(t) \/ CreateHandle(t) \/ Publish(t)
               \/ Reload(t) \/ Recheck(t) \/ Unblock(t)
DereferenceSteps(t) == Dereference(t) \/ CloseHandle(t) \/ ClearHandle(t)

Next == \/ \E t \in Threads : \/ SetCall(t) \/ SetRest(t)
                              \/ WaitCall(t) \/ WaitRest(t)
                              \/ DereferenceSteps(t)
        \/ Reset

Spec == Init /\ [][Next]_vars
-----------------------------------------------------------------------------
SetPoints == {"setRead", "setKernel"}
WaitPoints == {"readHandle", "create", "publish", "reload", "recheck", "block"}
Points == {"idle", "ref", "deref", "close", "clear"} \cup SetPoints \cup WaitPoints

\* The type of the state.
TypeOK == /\ set \in BOOLEAN /\ refs \in Nat /\ handle \in Handles \cup {NULL}
          /\ kernel \in [Handles -> {"unused", "open", "signaled", "closed"}]
          /\ pc \in [Threads -> Points]
          /\ mine \in [Threads -> Handles \cup {NULL}]
          /\ timed \in [Threads -> BOOLEAN] /\ result \in [Threads -> BOOLEAN]
          /\ calls \in Nat /\ resets \in Nat

IsOpen(h) == h \in Handles /\ kernel[h] \in {"open", "signaled"}

\* The reference count covers every thread that may still use the handle, plus
\* one for an event that is not set: no interleaving of late waiters, time-outs
\* and the setter loses or doubles a reference.
ReferencesCounted ==
    refs = Cardinality({t \in Threads : pc[t] \in SetPoints \cup WaitPoints \cup {"deref"}})
           + (IF set THEN 0 ELSE 1)

\* NtWaitForSingleObject is only ever given an open handle, and while the event
\* is not set that handle is the one a setter will find in EventHandle.
BlockedOnLiveHandle ==
    \A t \in Threads : pc[t] = "block" => /\ IsOpen(mine[t])
                                          /\ ~set => handle = mine[t]

\* The kernel event is there for whoever waits on it: both parts above, and the type.
HandleKept == TypeOK /\ ReferencesCounted /\ BlockedOnLiveHandle

\* PhfWaitForEvent returns TRUE only when the event was set (sync.c:119), also
\* for an event that is reset and used again.
TrueMeansSet == \A t \in Threads : pc[t] = "deref" /\ result[t] => set

\* An event that is set releases every thread blocked on it (sync.c:89).
SetReleasesWaiters == \A t \in Threads : pc[t] = "block" /\ set ~> pc[t] # "block"
=============================================================================
