------------------------------ MODULE WakeEvent ------------------------------
(***************************************************************************)
(* The wake event of phlib/queuedlock.c: a lock-free list of wait blocks   *)
(* that live on the stacks of the waiters.  block[t] is the one of thread  *)
(* t, head is WakeEvent->Value.  A step is one access to shared memory or  *)
(* one call of the keyed event.  A user of the wake event puts a thread at *)
(* "queue", "set" or "block" and finds it at ret[t] afterwards.            *)
(***************************************************************************)
EXTENDS Integers, FiniteSets

CONSTANTS Threads, NULL

ASSUME WakeEventAssumption == IsFiniteSet(Threads) /\ NULL \notin Threads

VARIABLES head,    \* WakeEvent->Value
          block,   \* per thread: Next and the spinning flag of its wait block
          queued,  \* threads whose stack holds a wait block that is in use
          pc, ret, \* per thread: control point, where to go on afterwards
          at       \* per thread: waitBlock of PhfSetWakeEvent

eventVars == <<head, block, queued, at>>

NoBlock == [next |-> NULL, spinning |-> FALSE]

EventInit == /\ head = NULL /\ queued = {}
             /\ block = [t \in Threads |-> NoBlock]
             /\ at = [t \in Threads |-> NULL]

Goto(t, label) == pc' = [pc EXCEPT ![t] = label]
-----------------------------------------------------------------------------
(* PhfQueueWakeEvent *)

QueueRead(t) ==
    /\ pc[t] = "queue"
    /\ block' = [block EXCEPT ![t] = [next |-> head, spinning |-> TRUE]]
    /\ queued' = queued \cup {t}
    /\ Goto(t, "queueCas")
    /\ UNCHANGED <<head, at, ret>>

PushBlindly(t) == TRUE
\* The CAS of Value from the block's Next to the block succeeds.
NothingPushed(t) == head = block[t].next

QueueCas(t) ==
    /\ pc[t] = "queueCas"
    /\ IF NothingPushed(t)
       THEN head' = t /\ Goto(t, ret[t]) /\ UNCHANGED block
       ELSE block' = [block EXCEPT ![t].next = head] /\ UNCHANGED <<head, pc>>
    /\ UNCHANGED <<queued, at, ret>>
-----------------------------------------------------------------------------
(* PhpBlockOnQueuedWaitBlock, without a time-out *)

\* The frame with the wait block is left.
Leave(t) == /\ block' = [block EXCEPT ![t] = NoBlock]
            /\ queued' = queued \ {t}

\* Spinning, or the bit test and reset, finds that the thread was woken already.
BlockOver(t) ==
    /\ pc[t] = "block" /\ ~block[t].spinning
    /\ Leave(t) /\ Goto(t, ret[t])
    /\ UNCHANGED <<head, at, ret>>

\* The spinning bit is reset by the waiter: it waits for the keyed event.
BlockKeyed(t) ==
    /\ pc[t] = "block" /\ block[t].spinning
    /\ block' = [block EXCEPT ![t].spinning = FALSE]
    /\ Goto(t, "keyed")
    /\ UNCHANGED <<head, queued, at, ret>>
-----------------------------------------------------------------------------
(* PhSetWakeEvent, PhfSetWakeEvent; a thread with a block cancels its wait *)

Cancelling(t) == t \in queued
AfterWalk(t) == IF Cancelling(t) THEN "cancelled" ELSE ret[t]

\* "We can simply skip the function call if there's nothing to wake."
SetTest(t) ==
    /\ pc[t] = "set"
    /\ Goto(t, IF head # NULL \/ Cancelling(t) THEN "pop" ELSE ret[t])
    /\ UNCHANGED <<eventVars, ret>>

\* Pop all waiters.
SetPop(t) ==
    /\ pc[t] = "pop"
    /\ head' = NULL
    /\ at' = [at EXCEPT ![t] = head]
    /\ Goto(t, IF head = NULL THEN AfterWalk(t) ELSE "walk")
    /\ UNCHANGED <<block, queued, ret>>

GoOnWalking(t, b) == /\ at' = [at EXCEPT ![t] = b]
                     /\ Goto(t, IF b = NULL THEN AfterWalk(t) ELSE "walk")

\* PhpUnblockQueuedWaitBlock, after Next is read: the waiter is still spinning.
UnblockSpinning(t) ==
    /\ pc[t] = "walk" /\ block[at[t]].spinning
    /\ block' = [block EXCEPT ![at[t]].spinning = FALSE]
    /\ GoOnWalking(t, block[at[t]].next)
    /\ UNCHANGED <<head, queued, ret>>

\* It waits for the keyed event, or will: NtReleaseKeyedEvent meets it there.
UnblockKeyed(t) ==
    /\ pc[t] = "walk" /\ ~block[at[t]].spinning
    /\ Goto(t, "release")
    /\ UNCHANGED <<eventVars, ret>>

Rendezvous(t, w) ==
    /\ pc[t] = "release" /\ at[t] = w /\ pc[w] = "keyed"
    /\ at' = [at EXCEPT ![t] = block[w].next]
    /\ pc' = [pc EXCEPT ![w] = ret[w],
                        ![t] = IF block[w].next = NULL THEN AfterWalk(t) ELSE "walk"]
    /\ Leave(w)
    /\ UNCHANGED <<head, ret>>

NoWaitForUnblock(t) == FALSE
\* "The solution is to (always) wait for an unblock."
MustWaitForUnblock(t) == block[t].spinning

Cancelled(t) ==
    /\ pc[t] = "cancelled"
    /\ IF MustWaitForUnblock(t)
       THEN Goto(t, "block") /\ UNCHANGED <<block, queued>>
       ELSE Leave(t) /\ Goto(t, ret[t])
    /\ UNCHANGED <<head, at, ret>>

WakeEventStep(t) == \/ QueueRead(t) \/ QueueCas(t) \/ BlockOver(t) \/ BlockKeyed(t)
                    \/ SetTest(t) \/ SetPop(t) \/ UnblockSpinning(t) \/ UnblockKeyed(t)
                    \/ Cancelled(t) \/ \E w \in Threads : Rendezvous(t, w)

WakePoints == {"queue", "queueCas", "block", "keyed", "set", "pop", "walk", "release", "cancelled"}
-----------------------------------------------------------------------------
\* queuedlock.c:1138-1154: a thread that pops wait blocks finds every one of them
\* on the stack of a thread that is still there, also when the wait is cancelled.
BlocksLive == \A t \in Threads : pc[t] \in {"walk", "release"} => at[t] \in queued

\* The blocks that can be reached from h: they are in every set of blocks that has h
\* and with every block the next one.
FollowsLinks(S) == \A b \in S : block[b].next # NULL => block[b].next \in S
Chain(h) == {b \in Threads : \A S \in SUBSET Threads :
                (h # NULL => h \in S) /\ FollowsLinks(S) => b \in S}

Wake == INSTANCE WakeEventSpec WITH
          registered <- {t \in queued : pc[t] # "queueCas"}, waiting <- Chain(head)

\* The list of wait blocks implements the wake event: a waiter that is queued is
\* woken by the next call and by no earlier one, and nobody goes on unwoken.
ImplementsWakeEvent == Wake!WakeSpec
=============================================================================
