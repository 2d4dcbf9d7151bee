------------------------------ MODULE WorkQueue ------------------------------
(***************************************************************************)
(* The thread pool of phlib/workqueue.c.  Clients queue items, wait for    *)
(* the queue and delete it; workers are created on demand, time out when   *)
(* there is no work, and exit.  Sections under QueueLock and StateLock are *)
(* one step; reads the code makes outside them are steps of their own.     *)
(* The rundown protection is used through its contract (module Rundown):   *)
(* one reference per live worker, and no acquire once rundown has begun.   *)
(* PhpGetSemaphoreWorkQueue publishes the semaphore with one CAS before    *)
(* its first use, so the semaphore is just its count of tokens.  Items are *)
(* alike, and so are workers that do not exist yet: which one is taken is  *)
(* fixed by CHOOSE.                                                        *)
(***************************************************************************)
EXTENDS Integers, Sequences, FiniteSets

CONSTANTS Clients, Workers, Items, None,
          MinimumThreads, MaximumThreads,
          MaxFailures   \* bound: failing calls of PhCreateThreadEx

ASSUME WorkQueueAssumption ==
    /\ IsFiniteSet(Clients) /\ IsFiniteSet(Workers) /\ IsFiniteSet(Items)
    /\ None \notin Items
    /\ MinimumThreads \in Nat /\ MaximumThreads \in Nat /\ MaxFailures \in Nat
    /\ MinimumThreads <= MaximumThreads /\ MaximumThreads < Cardinality(Workers)

VARIABLES queue,       \* QueueListHead
          busy,        \* BusyCount
          current,     \* CurrentThreads
          tokens,      \* the semaphore
          terminating, \* Terminating
          rundown,     \* RundownProtect is active
          waiting,     \* threads blocked on QueueEmptyCondition
          wpc, item,   \* per worker: control point and workQueueItem
          cpc, seen,   \* per client: control point and the BusyCount it read
          status,      \* per item: new, queued, running, executed, freed
          failures

shared == <<queue, busy, current, tokens, terminating, rundown, waiting>>
workers == <<wpc, item>>
clients == <<cpc, seen>>
workQueueVars == <<shared, workers, clients, status, failures>>

WGoto(w, label) == wpc' = [wpc EXCEPT ![w] = label]
CGoto(c, label) == cpc' = [cpc EXCEPT ![c] = label]
Live == {w \in Workers : wpc[w] # "none"}

\* PhInitializeWorkQueue
WorkQueueInit == /\ queue = <<>> /\ busy = 0 /\ current = 0 /\ tokens = 0
                 /\ terminating = FALSE /\ rundown = FALSE /\ waiting = {}
                 /\ wpc = [w \in Workers |-> "none"] /\ item = [w \in Workers |-> None]
                 /\ cpc = [c \in Clients |-> "idle"] /\ seen = [c \in Clients |-> 0]
                 /\ status = [i \in Items |-> "new"]
                 /\ failures = 0
-----------------------------------------------------------------------------
(* PhQueueItemWorkQueueEx *)

Enqueue(c) ==
    /\ cpc[c] = "idle" /\ ~terminating
    /\ \E i \in Items : status[i] = "new"
    /\ LET i == CHOOSE i \in Items : status[i] = "new" IN
       /\ queue' = Append(queue, i)
       /\ status' = [status EXCEPT ![i] = "queued"]
    /\ busy' = busy + 1
    /\ CGoto(c, "signal")
    /\ UNCHANGED <<current, tokens, terminating, rundown, waiting, workers,
                   seen, failures>>

\* NtReleaseSemaphore(..., 1, NULL)
Signal(c) ==
    /\ cpc[c] = "signal"
    /\ tokens' = tokens + 1
    /\ CGoto(c, "readBusy")
    /\ UNCHANGED <<queue, busy, current, terminating, rundown, waiting, workers,
                   seen, status, failures>>

ReadBusyCount(c) ==
    /\ cpc[c] = "readBusy"
    /\ seen' = [seen EXCEPT ![c] = busy]
    /\ CGoto(c, "check")
    /\ UNCHANGED <<shared, workers, status, failures>>

CheckThreads(c) ==
    /\ cpc[c] = "check"
    /\ CGoto(c, IF seen[c] >= current /\ current < MaximumThreads
                THEN "create" ELSE "idle")
    /\ seen' = [seen EXCEPT ![c] = 0]  \* dead from here on
    /\ UNCHANGED <<shared, workers, status, failures>>

NoRecheck(n) == TRUE
\* "Lock and re-check."
BelowMaximum(n) == n < MaximumThreads

\* PhpCreateWorkQueueThread, under StateLock: it may be refused by the rundown
\* protection, and PhCreateThreadEx may fail.
CreateThread(c) ==
    /\ cpc[c] = "create"
    /\ BelowMaximum(current) /\ ~rundown
    /\ \E w \in Workers : wpc[w] = "none"
    /\ WGoto(CHOOSE w \in Workers : wpc[w] = "none", "top")
    /\ current' = current + 1
    /\ CGoto(c, "idle")
    /\ UNCHANGED <<queue, busy, tokens, terminating, rundown, waiting, item, seen,
                   status, failures>>

CreateFails(c) ==
    /\ cpc[c] = "create"
    /\ \/ (~BelowMaximum(current) \/ rundown) /\ UNCHANGED failures
       \/ /\ BelowMaximum(current) /\ failures < MaxFailures
          /\ failures' = failures + 1
    /\ CGoto(c, "idle")
    /\ UNCHANGED <<shared, workers, seen, status>>
-----------------------------------------------------------------------------
(* PhpWorkQueueThreadStart.  Its first test, more threads than the limit, is *)
(* never true: see ThreadsCounted.                                           *)

Top(w) ==
    /\ wpc[w] = "top"
    /\ WGoto(w, IF terminating THEN "noWork" ELSE "wait")
    /\ UNCHANGED <<shared, item, clients, status, failures>>

\* NtWaitForSingleObject returns STATUS_WAIT_0, or times out while there is no
\* token: the kernel hands a token to a waiting thread at once.
Woken(w) ==
    /\ wpc[w] = "wait" /\ tokens > 0
    /\ tokens' = tokens - 1
    /\ WGoto(w, "woken")
    /\ UNCHANGED <<queue, busy, current, terminating, rundown, waiting, item,
                   clients, status, failures>>

\* status == STATUS_WAIT_0 fails
AfterTimeout == "noWork"

Timeout(w) ==
    /\ wpc[w] = "wait" /\ tokens = 0
    /\ WGoto(w, AfterTimeout)
    /\ UNCHANGED <<shared, item, clients, status, failures>>

TestTerminating(w) ==
    /\ wpc[w] = "woken"
    /\ WGoto(w, IF terminating THEN "noWork" ELSE "dequeue")
    /\ UNCHANGED <<shared, item, clients, status, failures>>

\* RemoveHeadList under QueueLock; PhPulseCondition wakes one waiter, which leaves
\* QueueEmptyCondition and tests the list again.
Dequeue(w) ==
    /\ wpc[w] = "dequeue" /\ queue # <<>>
    /\ queue' = Tail(queue)
    /\ item' = [item EXCEPT ![w] = Head(queue)]
    /\ status' = [status EXCEPT ![Head(queue)] = "running"]
    /\ IF queue' = <<>> /\ waiting # {}
       THEN \E c \in waiting : waiting' = waiting \ {c} /\ CGoto(c, "rewait")
       ELSE UNCHANGED <<waiting, cpc>>
    /\ WGoto(w, "run")
    /\ UNCHANGED <<busy, current, tokens, terminating, rundown, seen, failures>>

\* PhpExecuteWorkQueueItem returns.
Execute(w) ==
    /\ wpc[w] = "run"
    /\ status' = [status EXCEPT ![item[w]] = "executed"]
    /\ WGoto(w, "executed")
    /\ UNCHANGED <<shared, item, clients, failures>>

Decremented(n) == n - 1

\* _InterlockedDecrement(&BusyCount), PhpDestroyWorkQueueItem
Finish(w) ==
    /\ wpc[w] = "executed"
    /\ busy' = Decremented(busy)
    /\ status' = [status EXCEPT ![item[w]] = "freed"]
    /\ item' = [item EXCEPT ![w] = None]
    /\ WGoto(w, "top")
    /\ UNCHANGED <<queue, current, tokens, terminating, rundown, waiting, clients,
                   failures>>

KeepNone(n) == TRUE
\* A thread without work exits unless it is one of the minimum.
MayExit(n) == terminating \/ n > MinimumThreads

NoWork(w) ==
    /\ wpc[w] = "noWork"
    /\ \/ MayExit(current) /\ current' = current - 1 /\ WGoto(w, "exit")
       \/ ~MayExit(current) /\ WGoto(w, "top") /\ UNCHANGED current
    /\ UNCHANGED <<queue, busy, tokens, terminating, rundown, waiting, item, clients,
                   status, failures>>

\* PhReleaseRundownProtection; the thread ends.
Exit(w) ==
    /\ wpc[w] = "exit"
    /\ WGoto(w, "none")
    /\ UNCHANGED <<shared, item, clients, status, failures>>
-----------------------------------------------------------------------------
(* PhWaitForWorkQueue *)

WaitCall(c) ==
    /\ cpc[c] = "idle" /\ ~terminating
    /\ CGoto(c, "rewait")
    /\ UNCHANGED <<shared, workers, seen, status, failures>>

\* Under QueueLock: test the list; PhWaitForCondition releases the lock and blocks.
WaitTest(c) ==
    /\ cpc[c] = "rewait"
    /\ \/ queue = <<>> /\ CGoto(c, "waited") /\ UNCHANGED waiting
       \/ queue # <<>> /\ CGoto(c, "blocked") /\ waiting' = waiting \cup {c}
    /\ UNCHANGED <<queue, busy, current, tokens, terminating, rundown, workers, seen,
                   status, failures>>

WaitReturn(c) ==
    /\ cpc[c] = "waited"
    /\ CGoto(c, "idle")
    /\ UNCHANGED <<shared, workers, seen, status, failures>>
-----------------------------------------------------------------------------
(* PhDeleteWorkQueue, called once the clients have stopped using the queue *)

DeleteCall(c) ==
    /\ \A d \in Clients : cpc[d] = "idle"
    /\ ~terminating /\ terminating' = TRUE
    /\ CGoto(c, "delSignal")
    /\ UNCHANGED <<queue, busy, current, tokens, rundown, waiting, workers, seen,
                   status, failures>>

OneToken(n) == 1
WakeCount(n) == n

\* NtReleaseSemaphore(SemaphoreHandle, CurrentThreads, NULL)
DeleteSignal(c) ==
    /\ cpc[c] = "delSignal"
    /\ tokens' = tokens + WakeCount(current)
    /\ CGoto(c, "delRundown")
    /\ UNCHANGED <<queue, busy, current, terminating, rundown, waiting, workers, seen,
                   status, failures>>

DeleteRundown(c) ==
    /\ cpc[c] = "delRundown"
    /\ rundown' = TRUE
    /\ CGoto(c, "delWait")
    /\ UNCHANGED <<queue, busy, current, tokens, terminating, waiting, workers, seen,
                   status, failures>>

NotHeldUp(threads) == TRUE
\* What PhWaitForRundownProtection waits for.
RunDown(threads) == threads = {}

\* PhWaitForRundownProtection returns; the un-executed items are freed.
DeleteFree(c) ==
    /\ cpc[c] = "delWait" /\ RunDown(Live)
    /\ status' = [i \in Items |-> IF \E k \in DOMAIN queue : queue[k] = i
                                  THEN "freed" ELSE status[i]]
    /\ CGoto(c, "deleted")
    /\ UNCHANGED <<shared, workers, seen, failures>>
-----------------------------------------------------------------------------
WorkerGoesOn(w) == \/ Top(w) \/ Woken(w) \/ TestTerminating(w) \/ Dequeue(w)
                   \/ Execute(w) \/ Finish(w) \/ NoWork(w) \/ Exit(w)
ClientGoesOn(c) == \/ Signal(c) \/ ReadBusyCount(c) \/ CheckThreads(c)
                   \/ CreateThread(c) \/ CreateFails(c)
                   \/ WaitTest(c) \/ WaitReturn(c)
                   \/ DeleteSignal(c) \/ DeleteRundown(c) \/ DeleteFree(c)

WorkQueueNext == \/ \E w \in Workers : WorkerGoesOn(w) \/ Timeout(w)
                 \/ \E c \in Clients : ClientGoesOn(c) \/ Enqueue(c) \/ WaitCall(c) \/ DeleteCall(c)

\* Threads run and work items terminate; nothing is assumed of time-outs.
Fairness == /\ \A w \in Workers : WF_workQueueVars(WorkerGoesOn(w))
            /\ \A c \in Clients : WF_workQueueVars(ClientGoesOn(c))

WorkQueueSpec == WorkQueueInit /\ [][WorkQueueNext]_workQueueVars
WorkQueueFairSpec == WorkQueueSpec /\ Fairness
-----------------------------------------------------------------------------
WorkerPoints == {"none", "top", "wait", "woken", "dequeue", "run", "executed",
                 "noWork", "exit"}
ClientPoints == {"idle", "signal", "readBusy", "check", "create", "rewait", "blocked",
                 "waited", "delSignal", "delRundown", "delWait", "deleted"}

\* The type of the state.
WorkQueueTypeOK ==
    /\ queue \in Seq(Items) /\ busy \in Nat /\ current \in Nat /\ tokens \in Nat
    /\ terminating \in BOOLEAN /\ rundown \in BOOLEAN /\ waiting \subseteq Clients
    /\ wpc \in [Workers -> WorkerPoints] /\ item \in [Workers -> Items \cup {None}]
    /\ cpc \in [Clients -> ClientPoints] /\ seen \in [Clients -> Nat]
    /\ status \in [Items -> {"new", "queued", "running", "executed", "freed"}]
    /\ failures \in Nat

\* CurrentThreads is the number of workers that have not decided to exit, and
\* MaximumThreads is never exceeded although it is tested outside StateLock.
ThreadsCounted ==
    /\ current = Cardinality({w \in Live : wpc[w] # "exit"})
    /\ current <= MaximumThreads

\* Every semaphore token stands for an item: a woken worker that is not told to
\* terminate always finds work ("Make sure we got work" never fails).
TokenPerItem ==
    ~terminating => Len(queue) = tokens
                                 + Cardinality({w \in Workers : wpc[w] \in {"woken", "dequeue"}})
                                 + Cardinality({c \in Clients : cpc[c] = "signal"})

\* BusyCount counts the items queued and being executed, the measure by which
\* PhQueueItemWorkQueueEx decides that all workers are busy.
BusyCounted ==
    busy = Len(queue) + Cardinality({w \in Workers : wpc[w] \in {"run", "executed"}})

\* The three counters that decide about threads agree with what they count, in every
\* interleaving of queueing, time-outs, failures and exits (and the state has its type).
CountersAgree == WorkQueueTypeOK /\ ThreadsCounted /\ TokenPerItem /\ BusyCounted

\* When PhDeleteWorkQueue returns no worker can touch the queue any more and
\* every item that was ever queued has been freed.
DeletedClean ==
    \A c \in Clients : cpc[c] = "deleted" =>
        Live = {} /\ \A i \in Items : status[i] \in {"new", "freed"}

\* PhDeleteWorkQueue returns: the tokens it releases reach every blocked worker,
\* whatever tokens and time-outs there were, without relying on NoWorkTimeout.
DeleteReturns == terminating ~> \E c \in Clients : cpc[c] = "deleted"

\* workqueue.c:187 "Signal the semaphore once to let a worker thread continue": a
\* queued item leaves the queue, unless the creation of a thread has failed.
EveryItemRuns ==
    \A i \in Items : status[i] = "queued" ~> status[i] # "queued" \/ failures > 0
=============================================================================
