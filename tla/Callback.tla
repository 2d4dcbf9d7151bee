------------------------------- MODULE Callback -------------------------------
(***************************************************************************)
(* The callback object of phlib/basesup.c and the condition variable       *)
(* (phlib/queuedlock.c) its unregistering threads sleep on.  ListLock is   *)
(* the reader-writer lock that QueuedLock.tla implements: readers holds    *)
(* it shared; a section under the exclusive lock is one step, taken when   *)
(* nobody holds it shared.  A client owns one registration structure, and  *)
(* may free it whenever the registration is not in use.                    *)
(***************************************************************************)
EXTENDS Integers, Sequences, SequencesExt, FiniteSets

CONSTANTS Clients, Invokers, NULL,
          MaxRounds,   \* bound: registrations made by a client
          MaxInvokes   \* bound: calls of PhInvokeCallback by an invoker

ASSUME CallbackAssumption ==
    /\ IsFiniteSet(Invokers) /\ NULL \notin Clients \cup Invokers /\ Clients \cap Invokers = {}
    /\ MaxRounds \in Nat /\ MaxInvokes \in Nat

VARIABLES list,          \* Callback->ListHead
          busy,          \* per client: Registration->Busy
          unregistering, \* clients whose Registration->Unregistering is TRUE
          readers,       \* invokers that hold ListLock shared
          sleepers,      \* BusyCondition: wait blocks, the first pushed first
          point, rounds,
          at,            \* per invoker: listEntry, NULL for the list head
          val,           \* per invoker: the value given to PhpfWakeQueuedLockEx
          waking,        \* per invoker: blocks taken and not unblocked yet
          due            \* history, per invoker: registrations it has still to call

callbackVars == <<list, busy, unregistering, readers, sleepers, point, rounds, at, val, waking, due>>
condition == <<sleepers, val, waking>>

CallbackInit == /\ list = <<>> /\ busy = [c \in Clients |-> 0] /\ unregistering = {}
                /\ readers = {} /\ sleepers = <<>>
                /\ point = [t \in Clients \cup Invokers |-> "idle"]
                /\ rounds = [t \in Clients \cup Invokers |-> 0]
                /\ at = [i \in Invokers |-> NULL]
                /\ val = [i \in Invokers |-> <<>>] /\ waking = [i \in Invokers |-> <<>>]
                /\ due = [i \in Invokers |-> {}]

Goto(t, label) == point' = [point EXCEPT ![t] = label]
LockFree == readers = {}
-----------------------------------------------------------------------------
(* PhRegisterCallbackEx *)

Register(c) ==
    /\ point[c] = "idle" /\ rounds[c] < MaxRounds
    /\ rounds' = [rounds EXCEPT ![c] = @ + 1]
    /\ busy' = [busy EXCEPT ![c] = 0]
    /\ unregistering' = unregistering \ {c}
    /\ Goto(c, "insert")
    /\ UNCHANGED <<list, readers, condition, at, due>>

Insert(c) ==
    /\ point[c] = "insert" /\ LockFree
    /\ list' = Append(list, c)
    /\ Goto(c, "registered")
    /\ UNCHANGED <<busy, unregistering, readers, condition, rounds, at, due>>
-----------------------------------------------------------------------------
(* PhUnregisterCallback *)

Unregister(c) ==
    /\ point[c] = "registered"
    /\ unregistering' = unregistering \cup {c}
    /\ due' = [i \in Invokers |-> due[i] \ {c}]
    /\ Goto(c, "lock")
    /\ UNCHANGED <<list, busy, readers, condition, rounds, at>>

WaitNever(c) == FALSE
\* "Wait for the callback to be unbusy."
MustWait(c) == busy[c] # 0

\* PhfWaitForCondition pushes the wait block before it releases the lock.
Sleep(c) ==
    /\ point[c] = "lock" /\ LockFree /\ MustWait(c)
    /\ sleepers' = Append(sleepers, c)
    /\ Goto(c, "asleep")
    /\ UNCHANGED <<list, busy, unregistering, readers, val, waking, rounds, at, due>>

RemoveEntry(c) ==
    /\ point[c] = "lock" /\ LockFree /\ ~MustWait(c)
    /\ \E k \in DOMAIN list : list[k] = c /\ list' = RemoveAt(list, k)
    /\ Goto(c, "idle")
    /\ UNCHANGED <<busy, unregistering, readers, condition, rounds, at, due>>
-----------------------------------------------------------------------------
(* PhInvokeCallback *)

\* listEntry->Flink
Following(r) == LET n == IF r = NULL THEN 0 ELSE CHOOSE k \in DOMAIN list : list[k] = r
                IN IF n < Len(list) THEN list[n + 1] ELSE NULL

Invoke(i) ==
    /\ point[i] = "idle" /\ rounds[i] < MaxInvokes
    /\ rounds' = [rounds EXCEPT ![i] = @ + 1]
    /\ readers' = readers \cup {i}
    /\ due' = [due EXCEPT ![i] = ToSet(list) \ unregistering]
    /\ Goto(i, "next")
    /\ UNCHANGED <<list, busy, unregistering, condition, at>>

NextEntry(i) ==
    /\ point[i] = "next"
    /\ at' = [at EXCEPT ![i] = Following(at[i])]
    /\ Goto(i, IF Following(at[i]) = NULL THEN "end" ELSE "entry")
    /\ UNCHANGED <<list, busy, unregistering, readers, condition, rounds, due>>

AfterSkipStop == "end"
AfterSkip == "next"

\* "Don't bother executing the callback function if it is being unregistered."
Skip(i) ==
    /\ point[i] = "entry" /\ at[i] \in unregistering
    /\ Goto(i, AfterSkip)
    /\ UNCHANGED <<list, busy, unregistering, readers, condition, rounds, at, due>>

\* Unregistering was found FALSE.
Test(i) ==
    /\ point[i] = "entry" /\ at[i] \notin unregistering
    /\ Goto(i, "enter")
    /\ UNCHANGED <<list, busy, unregistering, readers, condition, rounds, at, due>>

Enter(i) ==
    /\ point[i] = "enter"
    /\ busy' = [busy EXCEPT ![at[i]] = @ + 1]
    /\ readers' = readers \ {i}
    /\ due' = [due EXCEPT ![i] = @ \ {at[i]}]
    /\ Goto(i, "function")
    /\ UNCHANGED <<list, unregistering, condition, rounds, at>>

FunctionReturns(i) ==
    /\ point[i] = "function"
    /\ readers' = readers \cup {i}
    /\ Goto(i, "returned")
    /\ UNCHANGED <<list, busy, unregistering, condition, rounds, at, due>>

Decrement(i) ==
    /\ point[i] = "returned"
    /\ busy' = [busy EXCEPT ![at[i]] = @ - 1]
    /\ Goto(i, IF busy[at[i]] = 1 THEN "last" ELSE "next")
    /\ UNCHANGED <<list, unregistering, readers, condition, rounds, at, due>>

\* "Someone started unregistering while the callback function was executing."
\* PhfPulseAllCondition reads Condition->Value.
Pulse(i) ==
    /\ point[i] = "last"
    /\ Goto(i, IF at[i] \in unregistering /\ sleepers # <<>> THEN "pulse" ELSE "next")
    /\ UNCHANGED <<list, busy, unregistering, readers, condition, rounds, at, due>>

EndInvoke(i) ==
    /\ point[i] = "end"
    /\ readers' = readers \ {i}
    /\ at' = [at EXCEPT ![i] = NULL]
    /\ Goto(i, "idle")
    /\ UNCHANGED <<list, busy, unregistering, condition, rounds, due>>
-----------------------------------------------------------------------------
(* PhpfWakeQueuedLockEx with IgnoreOwned and WakeAll *)

\* Condition->Value is read again for the call.
PulseRead(i) ==
    /\ point[i] = "pulse"
    /\ val' = [val EXCEPT ![i] = sleepers]
    /\ Goto(i, "prepare")
    /\ UNCHANGED <<list, busy, unregistering, readers, sleepers, waking, rounds, at, due>>

TakeOne(s) == SubSeq(s, 1, 1)
TakeAll(s) == s

\* There are waiters, and they are still there: otherwise the walk faults.
Walkable(i) == val[i] # <<>> /\ \A c \in ToSet(val[i]) : point[c] = "asleep"

\* PhpPrepareToWakeQueuedLock follows the list to its last block, then the CAS.
Prepare(i) ==
    /\ point[i] = "prepare" /\ Walkable(i)
    /\ IF sleepers = val[i]
       THEN /\ sleepers' = SubSeq(sleepers, Len(TakeAll(val[i])) + 1, Len(sleepers))
            /\ waking' = [waking EXCEPT ![i] = TakeAll(val[i])]
            /\ val' = [val EXCEPT ![i] = <<>>]
            /\ Goto(i, "unblock")
       ELSE /\ val' = [val EXCEPT ![i] = sleepers]
            /\ UNCHANGED <<sleepers, waking, point>>
    /\ UNCHANGED <<list, busy, unregistering, readers, rounds, at, due>>

\* PhpUnblockQueuedWaitBlock; the woken thread takes the lock again.
Unblock(i) ==
    /\ point[i] = "unblock" /\ waking[i] # <<>>
    /\ waking' = [waking EXCEPT ![i] = Tail(@)]
    /\ point' = [point EXCEPT ![i] = IF Len(waking[i]) = 1 THEN "next" ELSE "unblock",
                              ![Head(waking[i])] = "lock"]
    /\ UNCHANGED <<list, busy, unregistering, readers, sleepers, val, rounds, at, due>>

ClientStep(c) == Insert(c) \/ Sleep(c) \/ RemoveEntry(c)
InvokerStep(i) == \/ NextEntry(i) \/ Skip(i) \/ Test(i) \/ Enter(i) \/ FunctionReturns(i)
                  \/ Decrement(i) \/ Pulse(i) \/ EndInvoke(i)
                  \/ PulseRead(i) \/ Prepare(i) \/ Unblock(i)

CallbackNext == \/ \E c \in Clients : Register(c) \/ Unregister(c) \/ ClientStep(c)
                \/ \E i \in Invokers : Invoke(i) \/ InvokerStep(i)

\* Threads are scheduled and callback functions return.
CallbackSpec == /\ CallbackInit /\ [][CallbackNext]_callbackVars
                /\ \A c \in Clients : WF_callbackVars(ClientStep(c))
                /\ \A i \in Invokers : WF_callbackVars(InvokerStep(i))
-----------------------------------------------------------------------------
InUse(i) == point[i] \in {"entry", "enter", "function", "returned", "last", "pulse", "prepare", "unblock"}

\* basesup.c:6342: "It is guaranteed that the callback function will not be in
\* execution once this function returns"; nor does an invocation that started
\* earlier use the registration, which its owner may have freed.
NotInUseOnceUnregistered ==
    \A i \in Invokers, c \in Clients : InUse(i) /\ at[i] = c => point[c] \in {"registered", "lock", "asleep"}

\* Two invokers pulse at once and the second finds no waiter, or a block that is no
\* longer in use, contrary to the remarks of PhpfWakeQueuedLockEx (queuedlock.c:596-599):
\* what it does then is undefined.
Faulted == \E i \in Invokers : point[i] = "prepare" /\ ~Walkable(i)

\* An invocation calls every function that was registered when it began and that
\* nobody has started to unregister, although the list changes during the calls.
EveryoneIsNotified == \A i \in Invokers : point[i] \in {"idle", "end"} => due[i] = {}

\* PhUnregisterCallback returns once the functions in execution have: of several
\* sleeping threads, the one whose callback is no longer busy is woken.  (Where two
\* invokers have raced into Faulted nothing is claimed.)
UnregisterReturns == \A c \in Clients : point[c] = "lock" ~> point[c] = "idle" \/ Faulted
=============================================================================
