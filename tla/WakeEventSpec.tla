---------------------------- MODULE WakeEventSpec ----------------------------
(***************************************************************************)
(* What a wake event promises its users: a thread registers, and may go on *)
(* once somebody has set the event since.  Setting it lets everybody go    *)
(* who is registered at that moment; nothing is remembered for later.      *)
(***************************************************************************)
EXTENDS FiniteSets

CONSTANT Threads

VARIABLES registered, \* threads between PhQueueWakeEvent and the end of their wait
          waiting     \* those of them that no call has woken yet

wakeVars == <<registered, waiting>>

WakeInit == registered = {} /\ waiting = {}

Register(t) == /\ t \notin registered
               /\ registered' = registered \cup {t}
               /\ waiting' = waiting \cup {t}

WakeEverybody == waiting' = {} /\ UNCHANGED registered

GoOn(t) == /\ t \in registered \ waiting
           /\ registered' = registered \ {t}
           /\ UNCHANGED waiting

WakeNext == WakeEverybody \/ \E t \in Threads : Register(t) \/ GoOn(t)

WakeSpec == WakeInit /\ [][WakeNext]_wakeVars
=============================================================================
