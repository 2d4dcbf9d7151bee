------------------------------- MODULE InitOnce -------------------------------
(***************************************************************************)
(* One-time initialization (phlib/sync.c, phbasesup.h): bit 31 of          *)
(* the event's Value elects the initializing thread, the event releases    *)
(* the others.  Every thread runs                                          *)
(*    if (PhBeginInitOnce(o)) { initialize; PhEndInitOnce(o); }  use;      *)
(* or, in other behaviours, every thread uses the bare event as it likes.  *)
(***************************************************************************)
EXTENDS Event

VARIABLES initializing, \* PH_INITONCE_INITIALIZING
          phase         \* per thread: where it is in the program above, or "event"

onceVars == <<vars, initializing, phase>>

Enter(t, p) == phase' = [phase EXCEPT ![t] = p]

OnceInit == /\ Init
            /\ initializing = FALSE
            /\ phase \in {[t \in Threads |-> "begin"], [t \in Threads |-> "event"]}

\* PhBeginInitOnce: the inline test of the set bit.
BeginTest(t) ==
    /\ phase[t] = "begin"
    /\ Enter(t, IF set THEN "use" ELSE "elect")
    /\ UNCHANGED <<vars, initializing>>

AnyElected(wasInitializing) == TRUE
Elected(wasInitializing) == ~wasInitializing

\* PhfBeginInitOnce: _InterlockedBitTestAndSetPointer, the loser waits.
BeginElect(t) ==
    /\ phase[t] = "elect"
    /\ initializing' = TRUE
    /\ \/ Elected(initializing) /\ Enter(t, "initialize") /\ UNCHANGED vars
       \/ ~Elected(initializing) /\ Enter(t, "wait") /\ UNCHANGED vars

\* PhWaitForEvent(&InitOnce->Event, NULL)
BeginWait(t) ==
    /\ phase[t] = "wait" /\ pc[t] = "idle"
    /\ Test(t, FALSE) /\ UNCHANGED calls
    /\ Enter(t, "waiting")
    /\ UNCHANGED initializing

\* PhEndInitOnce
End(t) ==
    /\ phase[t] = "initialize"
    /\ SetBit(t) /\ UNCHANGED calls
    /\ Enter(t, "setting")
    /\ UNCHANGED initializing

\* The event operation begun by BeginWait or End goes on, and then returns.
EventStep(t) == /\ SetRest(t) \/ WaitRest(t) \/ DereferenceSteps(t)
                /\ UNCHANGED <<initializing, phase>>
EventReturn(t) ==
    /\ phase[t] \in {"waiting", "setting"} /\ pc[t] = "idle"
    /\ Enter(t, "use")
    /\ UNCHANGED <<vars, initializing>>

OnceStep(t) == BeginTest(t) \/ BeginElect(t) \/ BeginWait(t) \/ End(t)
               \/ EventStep(t) \/ EventReturn(t)

\* Nothing makes a thread call again.
PlainUse == /\ \A t \in Threads : phase[t] = "event"
            /\ Next /\ UNCHANGED <<initializing, phase>>

OnceNext == PlainUse \/ \E t \in Threads : OnceStep(t)

\* Threads are scheduled, and the initialization code terminates.
OnceSpec == /\ OnceInit /\ [][OnceNext]_onceVars
            /\ \A t \in Threads : WF_onceVars(OnceStep(t))
-----------------------------------------------------------------------------
\* The initialization code runs at most once, and nobody uses the resource
\* before it has finished: the initializing thread is past it.
InitializedBeforeUse ==
    /\ Cardinality({t \in Threads : phase[t] \in {"initialize", "setting"}}) <= 1
    /\ (\E t \in Threads : phase[t] = "use")
          => \A t \in Threads : phase[t] # "initialize"
=============================================================================
