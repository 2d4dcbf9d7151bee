------------------------------- MODULE Barrier -------------------------------
(***************************************************************************)
(* The barrier of phlib/sync.c on top of the wake event.  Barrier->Value   *)
(* counts the threads that have arrived and has a bit that says that they  *)
(* are being woken; the target is the number of threads.                   *)
(***************************************************************************)
EXTENDS WakeEvent

CONSTANT MaxPhases  \* bound: calls of PhWaitForBarrier made by each thread

ASSUME BarrierAssumption == MaxPhases \in Nat /\ Threads # {}

VARIABLES value,   \* Barrier->Value
          val,     \* per thread: value in PhfWaitForBarrier
          role,    \* per thread: why it blocks
          arrived, \* history: how often each thread was counted
          passed,  \* history: how often each thread has returned
          masters  \* history: how often TRUE was returned

vars == <<eventVars, pc, ret, value, val, role, arrived, passed, masters>>
history == <<arrived, passed, masters>>

Target == Cardinality(Threads)
NoValue == [count |-> 0, waking |-> FALSE]

\* PhInitializeBarrier
Init == /\ EventInit
        /\ value = NoValue /\ val = [t \in Threads |-> NoValue]
        /\ pc = [t \in Threads |-> "idle"] /\ ret = [t \in Threads |-> "idle"]
        /\ role = [t \in Threads |-> "slave"]
        /\ arrived = [t \in Threads |-> 0] /\ passed = [t \in Threads |-> 0]
        /\ masters = 0

\* Call the wake event and go on at label.
Call(t, operation, label) == Goto(t, operation) /\ ret' = [ret EXCEPT ![t] = label]
BlockAs(t, r) == Call(t, "queue", "queued") /\ role' = [role EXCEPT ![t] = r]

WaitForBarrier(t) ==
    /\ pc[t] = "idle" /\ passed[t] < MaxPhases
    /\ val' = [val EXCEPT ![t] = value]
    /\ Goto(t, "try")
    /\ UNCHANGED <<eventVars, ret, value, role, history>>

LastButOne(count) == count + 1 >= Target
LastArrival(count) == count = Target

\* The CAS that counts this thread; the last one becomes the master.
Arrive(t) ==
    /\ pc[t] = "try" /\ ~val[t].waking
    /\ IF value = val[t]
       THEN LET count == val[t].count + 1 IN
            /\ value' = [count |-> count, waking |-> LastArrival(count)]
            /\ arrived' = [arrived EXCEPT ![t] = @ + 1]
            /\ val' = [val EXCEPT ![t] = NoValue]
            /\ \/ ~LastArrival(count) /\ BlockAs(t, "slave")
               \/ LastArrival(count) /\ Call(t, "set", "wakeSlaves") /\ UNCHANGED role
       ELSE /\ val' = [val EXCEPT ![t] = value]
            /\ UNCHANGED <<value, arrived, pc, ret, role>>
    /\ UNCHANGED <<eventVars, passed, masters>>

\* "We're too early; other threads are still waking."
Observe(t) ==
    /\ pc[t] = "try" /\ val[t].waking
    /\ BlockAs(t, "observer")
    /\ val' = [val EXCEPT ![t] = NoValue]
    /\ UNCHANGED <<eventVars, value, history>>

WakeSlaves(t) ==
    /\ pc[t] = "wakeSlaves"
    /\ BlockAs(t, "master")
    /\ UNCHANGED <<eventVars, value, val, history>>
-----------------------------------------------------------------------------
(* PhpBlockOnBarrier *)

WaitIsOver(r, v) == \/ r = "master" /\ v.count = 1
                    \/ r = "slave" /\ v.waking
                    \/ r = "observer" /\ ~v.waking
NeverCancel(r, v) == FALSE
\* The wait is not needed any more once the block is queued.
Cancel(r, v) == WaitIsOver(r, v)

BlockOnBarrier(t) ==
    /\ pc[t] = "queued"
    /\ Call(t, IF Cancel(role[t], value) THEN "set" ELSE "block", "unblocked")
    /\ UNCHANGED <<eventVars, value, val, role, history>>

\* Back in PhfWaitForBarrier: test Value again.
Unblocked(t) ==
    /\ pc[t] = "unblocked"
    /\ \/ /\ role[t] = "observer"
          /\ val' = [val EXCEPT ![t] = value]
          /\ Goto(t, "try") /\ UNCHANGED <<ret, role>>
       \/ /\ role[t] # "observer" /\ WaitIsOver(role[t], value)
          /\ Goto(t, "leave") /\ UNCHANGED <<val, ret, role>>
       \/ /\ role[t] # "observer" /\ ~WaitIsOver(role[t], value)
          /\ BlockAs(t, role[t]) /\ UNCHANGED val
    /\ UNCHANGED <<eventVars, value, history>>
-----------------------------------------------------------------------------
\* Decrement the count to allow the master to continue; return FALSE.
LeaveSlave(t) ==
    /\ pc[t] = "leave" /\ role[t] = "slave"
    /\ value' = [value EXCEPT !.count = @ - 1]
    /\ IF value.count - 1 = 1 THEN Call(t, "set", "return")
                              ELSE Goto(t, "return") /\ UNCHANGED ret
    /\ UNCHANGED <<eventVars, val, role, history>>

\* Clear the waking bit and wake the observers; return TRUE.
LeaveMaster(t) ==
    /\ pc[t] = "leave" /\ role[t] = "master"
    /\ value' = [value EXCEPT !.count = @ - 1, !.waking = FALSE]
    /\ Call(t, "set", "return")
    /\ UNCHANGED <<eventVars, val, role, history>>

Return(t) ==
    /\ pc[t] = "return"
    /\ passed' = [passed EXCEPT ![t] = @ + 1]
    /\ masters' = IF role[t] = "master" THEN masters + 1 ELSE masters
    /\ Goto(t, "idle")
    /\ UNCHANGED <<eventVars, ret, value, val, role, arrived>>

BarrierStep(t) == \/ Arrive(t) \/ Observe(t) \/ WakeSlaves(t) \/ BlockOnBarrier(t)
                  \/ Unblocked(t) \/ LeaveSlave(t) \/ LeaveMaster(t) \/ Return(t)
                  \/ /\ WakeEventStep(t)
                     /\ UNCHANGED <<value, val, role, history>>

Next == \E t \in Threads : WaitForBarrier(t) \/ BarrierStep(t)

\* Threads are scheduled, and every thread comes back to the barrier.
Spec == Init /\ [][Next]_vars
             /\ \A t \in Threads : WF_vars(WaitForBarrier(t) \/ BarrierStep(t))
-----------------------------------------------------------------------------
\* Nobody gets through a phase before everybody has arrived at it, however fast
\* a thread comes back while others are still waking; and sync.c:254: "TRUE for an
\* unspecified thread after each phase, and FALSE for all other threads".
PhaseComplete ==
    /\ \A s, t \in Threads : passed[s] <= arrived[t] /\ arrived[t] <= arrived[s] + 1
    /\ (\A t \in Threads : pc[t] = "idle" /\ passed[t] = arrived[t])
          => \A t \in Threads : masters = passed[t]

\* Every thread gets through every phase: no slave, master or observer sleeps
\* through the one signal that was meant for it.
EveryoneFinishes == <>(\A t \in Threads : passed[t] = MaxPhases)
=============================================================================
