------------------------------- MODULE Provider -------------------------------
(***************************************************************************)
(* Provider threads, phlib/provider.c: a thread that runs its registered   *)
(* providers when a timer fires, and at once the ones a client boosts.     *)
(* providerThread->Lock is modelled; the bit fields Enabled, Unregistering *)
(* and Boosting of a registration share one word, so that changing one of  *)
(* them is a read (saved in word[a]) and a write of all three, and clients *)
(* change Enabled and Unregistering without the lock.                      *)
(***************************************************************************)
EXTENDS Integers, Sequences, SequencesExt

CONSTANTS Providers, Clients, None,
          MaxCalls, \* bound: calls made by clients
          MaxTicks, \* bound: times the timer fires
          Modulus   \* 2^32, the range of BoostCount

Thread == "thread"
Actors == Clients \cup {Thread}

ASSUME ProviderAssumption ==
    /\ IsFiniteSet(Providers) /\ IsFiniteSet(Clients)
    /\ Clients # {} /\ None \notin Providers \cup Actors /\ Thread \notin Clients
    /\ MaxCalls \in Nat /\ MaxTicks \in Nat
    /\ Modulus \in Nat /\ Modulus > Cardinality(Providers)

VARIABLES lock,         \* owner of Lock
          list, temp,   \* ListHead, tempListHead
          boostCount,   \* BoostCount
          state,        \* State: Running, Stopping, Stopped
          flags, runId, \* per registration
          alerted,      \* an alert is pending for the thread
          status,       \* the thread's status variable
          current,      \* the registration the thread is looking at
          point, word,     \* per actor: control point, saved flags word
          op,           \* per client: the registration it works on
          usage,        \* per client: the operations it performs
          future,       \* per provider: last FutureRunId promised
          registered,   \* registrations between register and unregister
          calls, ticks

providerVars == <<lock, list, temp, boostCount, state, flags, runId, alerted, status,
                  current, point, word, op, usage, future, registered, calls, ticks>>
lists == <<list, temp>>
bounds == <<usage, calls, ticks>>
chosen == <<usage, ticks>>

MoveTo(a, label) == point' = [point EXCEPT ![a] = label]
Acquire(a) == lock = None /\ lock' = a
Release(a) == lock = a /\ lock' = None
ReadFlags(a, p) == word' = [word EXCEPT ![a] = flags[p]]

\* Every client boosts at any time, or one client, the only one that registers and
\* unregisters providers, does whatever a client can do.
Boosters == [c \in Clients |-> {"boost"}]
Manager == [c \in Clients |-> IF c = CHOOSE d \in Clients : TRUE
                              THEN {"boost", "unregister", "register", "enable", "stop"}
                              ELSE {}]

MayCall(c, k) == /\ point[c] = "idle" /\ k \in usage[c]
                 /\ calls < MaxCalls
                 /\ calls' = calls + 1

\* The providers were registered and enabled before the thread is started.
ProviderInit == /\ lock = None
                /\ list \in SetToSeqs(Providers) /\ temp = <<>>
                /\ boostCount = 0 /\ state = "Running"
                /\ flags \in [Providers -> [enabled : BOOLEAN, unregistering : {FALSE},
                                            boosting : {FALSE}]]
                /\ runId = [p \in Providers |-> 0]
                /\ alerted = FALSE /\ status = "SUCCESS" /\ current = None
                /\ point = [a \in Actors |-> IF a = Thread THEN "loop" ELSE "idle"]
                /\ word = [a \in Actors |-> None] /\ op = [c \in Clients |-> None]
                /\ usage \in {Boosters, Manager} /\ future = [p \in Providers |-> 0]
                /\ registered = Providers /\ calls = 0 /\ ticks = 0
-----------------------------------------------------------------------------
(* PhpProviderThreadStart *)

\* The test of State, and the lock at the start of a pass.
BeginPass ==
    /\ point[Thread] = "loop"
    /\ IF state = "Stopping"
       THEN MoveTo(Thread, "exited") /\ UNCHANGED <<lock, temp>>
       ELSE Acquire(Thread) /\ temp' = <<>> /\ MoveTo(Thread, "pick")
    /\ UNCHANGED <<list, boostCount, state, flags, runId, alerted, status, current,
                   word, op, future, registered, bounds>>

PassOver(l) == (status = "ALERTED" /\ boostCount = 0) \/ l = <<>>

\* RemoveHeadList(&ListHead), InsertTailList(&tempListHead)
Pick ==
    /\ point[Thread] = "pick" /\ ~PassOver(list)
    /\ current' = Head(list)
    /\ list' = Tail(list) /\ temp' = Append(temp, Head(list))
    /\ MoveTo(Thread, "test")
    /\ UNCHANGED <<lock, boostCount, state, flags, runId, alerted, status, word, op,
                   future, registered, bounds>>

Test ==
    /\ point[Thread] = "test"
    /\ LET f == flags[current]
           timerPass == IF f.enabled /\ ~f.unregistering THEN "run" ELSE "pick"
           boostPass == IF f.unregistering THEN "yield" ELSE "clear"
       IN MoveTo(Thread, IF status = "ALERTED" THEN boostPass ELSE timerPass)
    /\ UNCHANGED <<lock, lists, boostCount, state, flags, runId, alerted, status,
                   current, word, op, future, registered, bounds>>

\* Release and acquire the lock so that PhUnregisterProvider can fix BoostCount.
Yield ==
    /\ point[Thread] = "yield"
    /\ Release(Thread)
    /\ MoveTo(Thread, "again")
    /\ UNCHANGED <<lists, boostCount, state, flags, runId, alerted, status, current,
                   word, op, future, registered, bounds>>

\* Boosting = FALSE; BoostCount--
ClearRead ==
    /\ point[Thread] = "clear"
    /\ ReadFlags(Thread, current)
    /\ MoveTo(Thread, "clearWrite")
    /\ UNCHANGED <<lock, lists, boostCount, state, flags, runId, alerted, status,
                   current, op, future, registered, bounds>>

BoostForgotten(n) == n
BoostTaken(n) == (n - 1) % Modulus

ClearWrite ==
    /\ point[Thread] = "clearWrite"
    /\ flags' = [flags EXCEPT ![current] = [word[Thread] EXCEPT !.boosting = FALSE]]
    /\ boostCount' = BoostTaken(boostCount)
    /\ MoveTo(Thread, "run")
    /\ UNCHANGED <<lock, lists, state, runId, alerted, status, current, word, op,
                   future, registered, bounds>>

\* RunId++ under the lock, which is then given up; the function is called without it,
\* at any moment before "again".
Run ==
    /\ point[Thread] = "run"
    /\ runId' = [runId EXCEPT ![current] = @ + 1]
    /\ Release(Thread)
    /\ MoveTo(Thread, "again")
    /\ UNCHANGED <<lists, boostCount, state, flags, alerted, status, current, word, op,
                   future, registered, bounds>>

\* The function has returned, or the lock was given up for an unregister.
Again ==
    /\ point[Thread] = "again"
    /\ Acquire(Thread)
    /\ MoveTo(Thread, "pick")
    /\ UNCHANGED <<lists, boostCount, state, flags, runId, alerted, status, current,
                   word, op, future, registered, bounds>>

\* The pass is over: the temporary list is re-added, one registration a step.
EndPass ==
    /\ point[Thread] = "pick" /\ PassOver(list)
    /\ current' = None
    /\ MoveTo(Thread, "readd")
    /\ UNCHANGED <<lock, lists, boostCount, state, flags, runId, alerted, status, word, op,
                   future, registered, bounds>>

Boosted(p) == flags[p].boosting
PutFirst(p, l) == <<p>> \o l

\* Boosted providers go to the front, the others to the back.
ReAdd ==
    /\ point[Thread] = "readd" /\ temp # <<>>
    /\ list' = IF Boosted(Head(temp)) THEN PutFirst(Head(temp), list)
                                      ELSE Append(list, Head(temp))
    /\ temp' = Tail(temp)
    /\ UNCHANGED <<lock, boostCount, state, flags, runId, alerted, status, current, point, word,
                   op, future, registered, bounds>>

ReAdded ==
    /\ point[Thread] = "readd" /\ temp = <<>>
    /\ Release(Thread)
    /\ MoveTo(Thread, "wait")
    /\ UNCHANGED <<lists, boostCount, state, flags, runId, alerted, status, current, word, op,
                   future, registered, bounds>>

\* The alertable NtWaitForSingleObject on the timer.
Alert ==
    /\ point[Thread] = "wait" /\ alerted
    /\ alerted' = FALSE /\ status' = "ALERTED"
    /\ MoveTo(Thread, "loop")
    /\ UNCHANGED <<lock, lists, boostCount, state, flags, runId, current, word, op,
                   future, registered, bounds>>

Tick ==
    /\ point[Thread] = "wait" /\ ticks < MaxTicks
    /\ ticks' = ticks + 1 /\ status' = "WAIT_0"
    /\ MoveTo(Thread, "loop")
    /\ UNCHANGED <<lock, lists, boostCount, state, flags, runId, alerted, current, word,
                   op, future, registered, usage, calls>>
-----------------------------------------------------------------------------
\* Client c begins operation k on a registration it still owns.
Begin(c, k, p) ==
    /\ MayCall(c, k) /\ p \in registered
    /\ op' = [op EXCEPT ![c] = p]

(* PhSetEnabledProvider: read and write the flags word, no lock *)

EnableRead(c) ==
    /\ \E p \in Providers : Begin(c, "enable", p) /\ ReadFlags(c, p)
    /\ MoveTo(c, "enable")
    /\ UNCHANGED <<lock, lists, boostCount, state, flags, runId, alerted, status,
                   current, future, registered, chosen>>

EnableWrite(c) ==
    /\ point[c] = "enable"
    /\ \E b \in BOOLEAN : flags' = [flags EXCEPT ![op[c]] = [word[c] EXCEPT !.enabled = b]]
    /\ MoveTo(c, "idle")
    /\ UNCHANGED <<lock, lists, boostCount, state, runId, alerted, status, current, word,
                   op, future, registered, bounds>>
-----------------------------------------------------------------------------
(* PhBoostProvider *)

\* The test of Unregistering, before the lock is taken.
BoostTest(c) ==
    /\ \E p \in Providers : /\ Begin(c, "boost", p)
                            /\ MoveTo(c, IF flags[p].unregistering THEN "idle" ELSE "boost")
    /\ UNCHANGED <<lock, lists, boostCount, state, flags, runId, alerted, status,
                   current, word, future, registered, chosen>>

Refused(p) == flags[p].boosting \/ state # "Running"

BoostRefused(c) ==
    /\ point[c] = "boost" /\ lock = None
    /\ Refused(op[c])
    /\ MoveTo(c, "idle")
    /\ UNCHANGED <<lock, lists, boostCount, state, flags, runId, alerted, status,
                   current, word, op, future, registered, bounds>>

\* RemoveEntryList: l without the entry of p.
Unlinked(l, p) == IF \E k \in DOMAIN l : l[k] = p
                  THEN RemoveAt(l, CHOOSE k \in DOMAIN l : l[k] = p) ELSE l

\* Under the lock: move the registration to the front; the bit is read here and
\* written by BoostWrite.
BoostMove(c) ==
    /\ point[c] = "boost" /\ Acquire(c)
    /\ ~Refused(op[c])
    /\ list' = PutFirst(op[c], Unlinked(list, op[c]))
    /\ temp' = Unlinked(temp, op[c])
    /\ ReadFlags(c, op[c])
    /\ MoveTo(c, "boostWrite")
    /\ UNCHANGED <<boostCount, state, flags, runId, alerted, status, current, op,
                   future, registered, bounds>>

BoostWrite(c) ==
    /\ point[c] = "boostWrite"
    /\ flags' = [flags EXCEPT ![op[c]] = [word[c] EXCEPT !.boosting = TRUE]]
    /\ boostCount' = (boostCount + 1) % Modulus
    /\ future' = [future EXCEPT ![op[c]] = runId[op[c]] + 1]
    /\ Release(c)
    /\ MoveTo(c, "alert")
    /\ UNCHANGED <<lists, state, runId, alerted, status, current, word, op, registered, bounds>>

AlertLost(pending) == pending
Alerted(pending) == TRUE

\* NtAlertThread
BoostAlert(c) ==
    /\ point[c] = "alert"
    /\ alerted' = Alerted(alerted)
    /\ MoveTo(c, "idle")
    /\ UNCHANGED <<lock, lists, boostCount, state, flags, runId, status, current, word,
                   op, future, registered, bounds>>
-----------------------------------------------------------------------------
(* PhUnregisterProvider *)

UnregisterRead(c) ==
    /\ \E p \in Providers :
        /\ \A d \in Clients : op[d] = p => point[d] \notin {"unregister", "unregLock"}
        /\ Begin(c, "unregister", p) /\ ReadFlags(c, p)
    /\ MoveTo(c, "unregister")
    /\ UNCHANGED <<lock, lists, boostCount, state, flags, runId, alerted, status,
                   current, future, registered, chosen>>

UnregisterWrite(c) ==
    /\ point[c] = "unregister"
    /\ flags' = [flags EXCEPT ![op[c]] = [word[c] EXCEPT !.unregistering = TRUE]]
    /\ MoveTo(c, "unregLock")
    /\ UNCHANGED <<lock, lists, boostCount, state, runId, alerted, status, current, word,
                   op, future, registered, bounds>>

LeftInTemp(p) == temp
TakenFromTemp(p) == Unlinked(temp, p)

\* Under the lock: leave the list it is in, fix the boost count.
Unregister(c) ==
    /\ point[c] = "unregLock" /\ lock = None
    /\ list' = Unlinked(list, op[c]) /\ temp' = TakenFromTemp(op[c])
    /\ boostCount' = IF flags[op[c]].boosting THEN (boostCount - 1) % Modulus
                                              ELSE boostCount
    /\ future' = [future EXCEPT ![op[c]] = 0]
    /\ registered' = registered \ {op[c]}
    /\ MoveTo(c, "idle")
    /\ UNCHANGED <<lock, state, flags, runId, alerted, status, current, word, op, bounds>>
-----------------------------------------------------------------------------
(* PhRegisterProvider, PhStopProviderThread, PhStartProviderThread *)

Register(c) ==
    /\ MayCall(c, "register") /\ lock = None
    /\ \E p \in Providers :
        /\ p \notin registered /\ current # p /\ \A d \in Clients : point[d] # "idle" => op[d] # p
        /\ flags' = [flags EXCEPT ![p] = [enabled |-> FALSE, unregistering |-> FALSE,
                                          boosting |-> FALSE]]
        /\ runId' = [runId EXCEPT ![p] = 0]
        /\ list' = Append(list, p)
        /\ registered' = registered \cup {p}
    /\ UNCHANGED <<lock, temp, boostCount, state, alerted, status, current, point, word, op,
                   future, chosen>>

Stop(c) ==
    /\ MayCall(c, "stop") /\ state = "Running"
    /\ state' = "Stopping"
    /\ MoveTo(c, "stopAlert")
    /\ UNCHANGED <<lock, lists, boostCount, flags, runId, alerted, status, current, word,
                   op, future, registered, chosen>>

\* NtAlertThread; the thread may have seen State and be gone already.
StopAlert(c) ==
    /\ point[c] = "stopAlert"
    /\ alerted' = TRUE
    /\ MoveTo(c, "stopping")
    /\ UNCHANGED <<lock, lists, boostCount, state, flags, runId, status, current, word, op,
                   future, registered, bounds>>

\* The wait for the thread ends; its handle is closed.
StopReturn(c) ==
    /\ point[c] = "stopping" /\ point[Thread] = "exited"
    /\ state' = "Stopped"
    /\ MoveTo(c, "idle")
    /\ UNCHANGED <<lock, lists, boostCount, flags, runId, alerted, status, current, word,
                   op, future, registered, bounds>>

\* PhStartProviderThread creates a new thread.
Start(c) ==
    /\ point[c] = "idle" /\ state = "Stopped"
    /\ state' = "Running" /\ alerted' = FALSE /\ status' = "SUCCESS"
    /\ MoveTo(Thread, "loop")
    /\ UNCHANGED <<lock, lists, boostCount, flags, runId, current, word, op, future,
                   registered, bounds>>
-----------------------------------------------------------------------------
ThreadStep == \/ BeginPass \/ Pick \/ Test \/ Yield \/ ClearRead \/ ClearWrite
              \/ Run \/ Again \/ EndPass \/ ReAdd \/ ReAdded \/ Alert
ClientGoesOn(c) == \/ EnableWrite(c)
                   \/ BoostRefused(c) \/ BoostMove(c) \/ BoostWrite(c) \/ BoostAlert(c)
                   \/ UnregisterWrite(c) \/ Unregister(c)
                   \/ StopAlert(c) \/ StopReturn(c)
ClientCall(c) == \/ EnableRead(c) \/ BoostTest(c) \/ UnregisterRead(c)
                 \/ Register(c) \/ Stop(c) \/ Start(c)

ProviderNext == \/ ThreadStep \/ Tick
                \/ \E c \in Clients : ClientGoesOn(c) \/ ClientCall(c)

\* Provider functions return and threads are scheduled; no tick is promised.
Fairness == /\ WF_providerVars(ThreadStep)
            /\ \A c \in Clients : WF_providerVars(ClientGoesOn(c))

ProviderSpec == ProviderInit /\ [][ProviderNext]_providerVars
ProviderFairSpec == ProviderSpec /\ Fairness
-----------------------------------------------------------------------------
ThreadPoints == {"loop", "pick", "test", "yield", "clear", "clearWrite", "run",
                 "again", "readd", "wait", "exited"}
ClientPoints == {"idle", "enable", "boost", "boostWrite", "alert", "unregister",
                 "unregLock", "stopAlert", "stopping"}
Flags == [enabled : BOOLEAN, unregistering : BOOLEAN, boosting : BOOLEAN]

\* The type of the state.
ProviderTypeOK ==
    /\ lock \in Actors \cup {None} /\ list \in Seq(Providers) /\ temp \in Seq(Providers)
    /\ boostCount \in 0..Modulus-1 /\ state \in {"Running", "Stopping", "Stopped"}
    /\ flags \in [Providers -> Flags] /\ runId \in [Providers -> Nat]
    /\ alerted \in BOOLEAN /\ status \in {"SUCCESS", "ALERTED", "WAIT_0"}
    /\ current \in Providers \cup {None}
    /\ point \in [Actors -> ThreadPoints \cup ClientPoints]
    /\ word \in [Actors -> Flags \cup {None}] /\ op \in [Clients -> Providers \cup {None}]
    /\ future \in [Providers -> Nat] /\ registered \subseteq Providers
    /\ usage \in {Boosters, Manager} /\ calls \in Nat /\ ticks \in Nat

Quiet == lock = None
BoostedSet == {p \in registered : flags[p].boosting}

\* provider.c:110: "at all times when the mutex is not acquired every single
\* provider must be in a list": a registered provider is in one of the two lists
\* once, and its links are never those of two lists; and the state has its type.
InOneList == /\ ProviderTypeOK
             /\ Quiet => /\ ToSet(list \o temp) = registered
                         /\ Len(list \o temp) = Cardinality(registered)

\* While clients only boost, BoostCount is the number of providers with Boosting set,
\* which are all in front of the others when the thread is not in a pass, so that
\* (provider.c:129) "we will never mistakenly boost normal providers": the provider
\* taken for a boost is boosted.
BoostsCounted ==
    usage = Boosters =>
       /\ Quiet => /\ boostCount = Cardinality(BoostedSet)
                   /\ point[Thread] \in {"loop", "wait", "exited"} =>
                        \A i, j \in DOMAIN list : i < j /\ Boosted(list[j]) => Boosted(list[i])
       /\ point[Thread] = "clear" => flags[current].boosting

\* PhBoostProvider promises the run FutureRunId: it starts without a tick.
BoostRuns ==
    usage = Boosters => \A p \in Providers : future[p] > runId[p] ~> future[p] <= runId[p]

\* Once PhUnregisterProvider has returned the thread starts no run of the provider
\* (RunId++ under the lock), wherever the registration was when it was removed.  The call
\* of a run that was started before comes after the unlock and may come after the return.
NotRunUnregistered ==
    [][\A p \in Providers : runId'[p] > runId[p] => p \in registered]_providerVars
=============================================================================
