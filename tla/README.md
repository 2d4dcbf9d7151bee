# TLA+ models of System Informer

System Informer is a Windows process viewer: a GUI program (`SystemInformer/`) on a
runtime library of its own (`phlib/`), an optional kernel driver (`KSystemInformer/`)
and plugins. The library brings its own synchronization objects, thread pool, object
manager and provider threads, written with compare-and-swap on single words; everything
above rests on them, and almost none of it can be reached by a test that does not
control the scheduler. That layer is the core of this project, and with it the parts of the
driver that are built the same way: its objects, its table of processes and threads, and its
message port.

- `*.tla`: one module per component, `*Proofs` with machine-checked proofs about one component or
  two, and `MCRefObject` with the symmetry of one run;
- `MC*.cfg`: the TLC instances;
- `PROJECT.json`: components, runs, mutants of the code, the map from definitions to
  source lines, hazards and theorems.

Run a model with `tlc -config MCRundown.cfg Rundown`, a proof with `tlapm FastLockCallbackProofs.tla`.

## 1. Inventory

| component | state | operations | interacts with | what is hard | what makes it correct |
|---|---|---|---|---|---|
| rundown protection (`phlib/sync.c`) | one word: count, or address of the waiter's stack block; the block's count and event | acquire, release, wait | fast event; used by the work queue and mapped files | the count moves from the word into the block while users come and go | a wait that returns means that nobody is inside and nobody will be |
| fast event (`phlib/sync.c`) | word: set bit, reference count; handle of a kernel event made on demand | set, wait with time-out, reset, test | kernel events | creation, set, time-out and close race on a handle | nobody blocks on a dead or wrong handle; set releases everybody |
| init-once (`phlib/sync.c`) | an event and one more bit of its word | begin, end | fast event | losers arrive while the winner finishes | one initialization, finished before any use |
| wake event (`phlib/queuedlock.c`) | head of a list of stack wait blocks | queue, wait, set, cancel | keyed events; used by barrier and handle table | a cancelled block has been popped by somebody else | blocks live while followed; nobody queued is missed |
| barrier (`phlib/sync.c`) | word: count, target, waking bit; wake event | wait | wake event | threads come back while others are still waking | nobody passes early; everybody passes; one master |
| queued lock (`phlib/queuedlock.c`) | word: owned, waiters, traversing, multiple bits and a count or list head; wait blocks on stacks | acquire and release exclusive or shared, try | keyed events | the list is changed, walked and optimized without a lock | mutual exclusion; live blocks; no lost wake-up |
| fast lock (`phlib/fastlock.c`) | word: owned, waking, three counters; two semaphores | acquire, try, release, both modes | kernel semaphores | ownership is handed over in three steps | mutual exclusion; no lost wake-up |
| work queue (`phlib/workqueue.c`) | list of items, busy count, thread count, semaphore, terminating | queue, wait, delete; worker loop | rundown, queued lock, condition | threads time out and exit while items arrive; counts are read unlocked | counts are right; items run; deletion ends |
| object manager (`phlib/ref.c`) | header word (count / saved type / defer bit), deferred list | create, reference, safe reference, dereference, deferred delete, auto pool | work queue | weak lookup of a dying object; header words reused | no use after free, no double free |
| provider thread (`phlib/provider.c`) | list of registrations, boost count, flags | register, unregister, boost, enable, start, stop; thread loop | alerts and timers | callbacks run unlocked while the list changes | boosts run; no run of a removed provider is started |
| callback (`phlib/basesup.c`) | list of registrations with busy counts, lock, condition | register, unregister, invoke | queued lock, condition variable | functions run unlocked while the list changes | not in use once unregistered; everybody is notified |
| handle table (`phlib/handle.c`) | three-level table, two free lists, next value, locks | create, look up, lock, enumerate, destroy | queued lock, wake event | lock-free lists (ABA); growth without stopping lookups | a handle is in one place; an entry has one owner; nobody sleeps on |
| containers, file pool, settings | sequential data | insert, find, remove | - | boundaries | planned |
| driver objects (`kphobject.c`) | counts, pointers with lock bits, deferred list | reference, dereference, store, atomic reference, deferred delete | work items; used by the CID table and most of the driver | a store meets a reference in progress; one work item for many objects | counts exact; everything freed |
| driver CID table and tracking (`cid_table.c`, `cid_tracking.c`) | table of one to three levels, entries | track, untrack, look up, enumerate, clean up | driver objects, kernel notifications | lock-free lookup while the root is replaced | what is tracked is found |
| driver message port (`comms.c`) | clients, lock, queue and its threads, rundown | start, connect, disconnect, look at the clients, allocate, send, queue, stop | filter manager; all informers | replies awaited under a lock; stop while messages are under way, with and without a rundown reference | messages freed once; nobody with a reference left after the stop, nobody at all after the filter; stop ends |
| driver session tokens, handlers, informers | tokens, settings | requests of clients | message port | - | not modelled |
| application providers, process records, service, log | hash tables, reference counts, ring | snapshot and diff; client lifetimes | provider thread, object manager | stale snapshots | planned |
| user interface, plugins, `phnt`, tools, `peview` | - | - | - | - | not modelled |

## 2. Plan

1. Done, models: `Rundown`, `Event` with `InitOnce`, `WorkQueue`, `RefObject`,
   `Provider`, `FastLock`, `QueuedLock` against `RWLock`; `WakeEvent` against
   `WakeEventSpec`, `Barrier` on it, `Callback`, `HandleTable`; in the driver `KphObject`,
   `CidTable` on it, and `Comms`.
2. Done, theorems: every safety property of every run, that is the invariants and action
   properties of all the modules above, the refinement of `WakeEventSpec` by the wake event and
   that of `RWLock` by the queued lock (section 5).
3. Next theorems: those of the parts below, as they are modelled.
4. Then the threads of `PhCallWithTimeout` that are terminated when a query hangs, the
   process records and the snapshot-and-diff of the application's providers, auto pools,
   the service's client lifetimes, session tokens.
5. Pure structures: circular buffer, AVL tree, file pool allocation, against reference
   definitions over bounded inputs.

Runs that ask related questions of one instance are kept together: there is one run per
component or composition, and an invariant such as `ListSound` or `ObjectsSafe` is a
conjunction of named parts, each with its own comment in the module.

## 3. Modules and code

In all modules a step is one access to shared memory or one system call, or a whole
section under a lock that all accesses to the data take; a `pc` function holds where each
thread is (`point` where a proof module takes two components together, whose names must then
differ; in the same way `RundownSpec`, `CallbackSpec`, `ProviderSpec` and `WorkQueueSpec` are the
specifications of those modules, and `None` is their NULL). Names in the modules are those of the
code where possible. Spinning is
left out: it repeats a read. Interlocked operations of the code are full barriers on its
targets, and plain reads of a word are of a `volatile` or are followed by a CAS, so steps
interleave in program order.

**Rundown** (`sync.c` 344-460, inline paths of `phbasesup.h`). `value` is
`Protection->Value`: a record `References(n)` or `Active(block)`. `AcquireRead`/`AcquireCas`,
`ReleaseRead`/`ReleaseCas`/`ReleaseDecrement`/`SetBit`/`SetRest` and
`WaitFast`/`WaitRead`/`WaitCas`/`WaitBlock` are the three functions. What `value >> 1` gives
for an address is the constant `AddressCount`, a number larger than the number of users.
The event in the wait block is used by its contract; `Event` has its detail. `SetRest`, what
`PhfSetEvent` still does with the block after the bit is set, changes nothing here.

**Event** (`sync.c` 30-201). `set`, `refs` are the two parts of `Event->Value`; `kernel` is the
state of every kernel event ever created, so that a handle that is closed and used again
is told apart from a live one; there are as many as there may be calls. `Reset` is for use while nobody else uses the event, as
`sync.c` requires; its `assert(!Event->EventHandle)` (`sync.c:194`), which a release build does
not have, is not modelled.

**InitOnce** extends `Event`. Either every thread runs the begin-initialize-end program on the
actions of the event, or every thread uses the bare event as it likes.

**WorkQueue** (`workqueue.c`). Sections under `QueueLock` and `StateLock` are steps; the reads of
`BusyCount` and `CurrentThreads` outside them are steps of their own. The rundown protection
appears through its contract: `RunDown(Live)` is what the wait waits for. Creation of a
thread may fail. The debug list of queues, priorities and thread names are left out.

**RefObject** (`ref.c`, `refp.h`). `word` is the union of `RefCount` with `SavedTypeIndex` and
`DeferDelete`; `index` the union of `TypeIndex` with the list entry. The weak table is the use
`PhReferenceObjectSafe` is made for, modelled from its callers. Allocation and free lists
are "allocated" or "free" storage; auto pools and type creation are not here.

**Provider** (`provider.c`). The lock is explicit, since the thread gives it up around callbacks.
`Enabled`, `Unregistering` and `Boosting` share a word: a change of one is a read and a write of
all. `BoostCount` is modular. `Run` is `RunId++` and the unlock; the call (`provider.c:182`) is
somewhere between it and `Again`, so that what is said of a run is said of its start. `usage` says what the clients do in a behaviour: all of them
boost (`Boosters`), or one of them does everything a client can do (`Manager`).

**FastLock** (`fastlock.c`). `Decide(k, v)` is what operation `k` makes of word `v`; `Cas` installs it.
Counters are unbounded naturals (see hazards).

**QueuedLock** (`queuedlock.c`, `queuedlock.h`). `block[t]` is the wait block on thread `t`'s
stack, `queued` the threads whose block exists. Pushing, optimizing, preparing to wake,
unblocking (spinning bit or keyed event) and the release of a shared lock through the
last block are the code's own loops, one block per step. `RWLock` is the promise:
`ImplementsRWLock` is its specification under the mapping from control points to owners.

**WakeEvent** (`queuedlock.c` 1080-1190) and **Barrier** (`sync.c` 203-342). `head` and `block` are the
list; a thread is sent into an operation of the wake event by its label and comes back at
`ret[t]`. `Cancelled` is the end of `PhfSetWakeEvent` with a wait block. **WakeEventSpec** is the
promise: a set of registered threads and of those not woken yet. The mapping takes `waiting`
to `Chain(head)`, the least set of blocks that has `head` and follows the links. In `Barrier` the roles slave, master and
observer are those of `PhpBlockOnBarrier`; counts of arrivals and returns are history.

**Callback** (`basesup.c` 6290-6420). Under the shared lock every access is a step, since invokers
interleave there; a section under the exclusive lock is one. `sleepers` is the list of wait
blocks of `BusyCondition`, and `PulseRead`, `Prepare`, `Unblock` are `PhpfWakeQueuedLockEx` with
`IgnoreOwned` and `WakeAll`. `due` is the history of whom an invocation has to call.

**HandleTable** (`handle.c`). The links of the three levels come down to `tables`, the number of
level 0 tables that can be reached: each step of growth adds one, and links are not
changed; index and level arithmetic is not checked. `entry[v]` has the type and lock bits, the object, and the word shared by
`NextFreeValue` and `Value2`. The two free lists, the locks that hold off pushes to the main
list and the reversal of the alternative list are as in the code, one access per step. A lock
that a moving thread has to wait for is its own for a moment (`MoverOwns`), and a handle freed
then goes to the alternative list. The
wake event appears as `WakeEventSpec`, which `barrier` shows the code to implement. For the
properties a list is `Linked(start, stop)`: what every set has that has `start` and is closed under
`NextFreeValue`. The
repository contains no user of the table; callers lock, use and unlock as its header says.

**KphObject** (`kphobject.c`). `ref[s]` is an atomic reference: the pointer, the number of sharers
and the exclusive bit of one word. A compare-exchange loop is the exchange that succeeds;
the store writes the whole word. `item`, `started` and `flushed` follow the one work item of
the deferred list. Its actions are steps a user of the module composes with its own.

**CidTable** (`cid_table.c`, `cid_tracking.c`). `root` is `Table->Table`, a level and an address;
`links` the tables below. `Capture`, `LookupEntry` and `Expand` are the lock-free and the locked
part of `KphCidGetEntry`; `Visit` is the enumeration. For one CID the kernel reports one
creation or exit at a time, and the notification routines wait until the population is
done (`cid_tracking.c:1603`), so a tracker is a CID. CIDs are below `KPH_CID_MAX`
(`CidTableAssumption`), so the early return for others (`cid_table.c` 351-362) is not taken. What
`KphCidTableDelete` frees level by level is gone in one step (`used`), and the last reference to
the system process's context (`cid_tracking.c` 1365-1368) is not modelled. `expect` is the history of what
a reader has to find.

**Comms** (`comms.c`). Rundown protection, the push lock, the kernel queue and the filter
manager's ports are external and used by their contracts. A sender is an operation that
informer callbacks see; it may run in a client's process, which makes the forced asynchronous copy
happen. Only the sends take a rundown reference. Before, a callback looks at the clients
under the shared lock (`InformerEnabled`, `LookShared`, `LookDone`; also `KphGetConnectedClientCount`),
allocates a message and holds it as long as it likes (`AllocateMessage`, point "held"): a file
operation's message lives from its pre- to its post-operation callback (`informer_fileop.c:1796`
to 1685). `SendMessageAsync` takes the message over, `SendMessage` leaves it to the caller, who frees it
(`FreeMessage`). None of this ends with `KphCommsStop`: `KphFltUnregister` calls it first (point
"closed"), and `FltUnregisterFilter`, which is external and waits for callbacks, afterwards
(`UnregisterFilter`). Messages have numbers, and `sent` and `freed` count what was done with each.
Messages for replies, which never leave the function that allocates them, and the one of
`KphpCommsMessageNotifyCallback` (`comms.c` 660-801) are not modelled. The lock is granted in turn: a
shared request does not overtake an exclusive one that came first (`ahead`).

## 4. Runs

Where behaviours end because the bounded calls are used up, deadlock is not checked; the
liveness properties say that nobody is left behind instead. In `cidtable` and `comms` the
system itself comes to an end (`Finished`), and deadlock is checked.

| run | instance | shows |
|---|---|---|
| `rundown` | 3 users, 2 waiters, 2 waits | a returned wait means empty for good; counts conserved; a single wait ends |
| `initonce` | 3 threads; bare event: 4 calls, 1 reset | exact references, live handles, TRUE means set; one initialization, before use; waiters released |
| `workqueue` | 2 clients, 3 items, 1-2 threads, 1 failure, waits, deletion | counts, tokens, clean and terminating deletion, every item runs |
| `refobject` | 3 threads, 2 routines, 3 objects, 4 creations; symmetric | no use after free or double free, right type |
| `provider` | 2 clients, 2 providers, 3 calls, 1 tick | one list each, boosts counted and run, no run started after unregister |
| `fastlock` | 3 threads, 2 acquisitions each | exclusion, exact wake-ups, everybody finishes |
| `queuedlock` | 3 threads, 2 acquisitions each | implements `RWLock`, sound list, everybody finishes |
| `barrier` | 3 threads, 2 phases | nobody early, live blocks, implements `WakeEventSpec`, everybody finishes |
| `callback` | 2 clients with 2 registrations each, 2 invokers | not used once unregistered, everybody notified, unregister ends |
| `handletable` | 2 threads, 4 calls, tables of 2 entries, 2 locks | no handle lost or double, one owner, calls return |
| `cidtable` | 1 CID tracked twice, a reader, an enumeration, cleanup; tables of 2, `SharedMax` 1 | exact references, nothing missed, everything freed |
| `comms` | 2 clients, 2 senders (1 in a client), 1 queue thread, 2 messages | messages freed once, who may be left at the stop, nobody after the filter, clients stay, stop ends |

*Bounds.* Three threads are the least for the cases that matter: in the queued lock a
waiter, a second waiter that pushes, and a releaser; in the fast lock an owner, an
exclusive and a shared waiter; in the event a setter, the waiter that publishes a handle
and one that loses the race for it. Two acquisitions let a thread come back while another
still works on its previous wait. Three items with two threads allow one creation more
than the maximum, were the re-check missing. `MaxWaits` 2 makes the second rundown
happen. `Modulus` 16 stands for 2^32: `BoostCount` never gets near either end unless it
wraps below 0, which it would do at any modulus. A reused object needs more creations
than objects: 4 and 3. The barrier's third thread is the one that arrives for the next phase
while a slave and the master of the last are still waking, which needs 2 phases. Tables of 2
entries make the handle table grow and empty its free list within 4 calls, and 2 locks leave
handles that share one. In `cidtable` the tracked CID is 3 and another one asked for is 6: the
first needs two levels and the second three, so the root is replaced twice under the
readers; `SharedMax` 1 makes the counter of sharers full, and 2 objects are reused. In
`comms` 2 messages are enough for one in the queue, drained or held across the stop while another
is sent, and for a synchronous one and its forced copy; the second client is the one to disconnect while the first is asked. `SYMMETRY` is used
only in `refobject`, which checks no liveness.

*Fairness* is weak fairness of each thread's own steps: the scheduler runs every thread,
and what the thread calls (a work item, a provider function, an initialization routine)
returns. An owner releases its lock and a user its protection. Nothing is assumed of
timer ticks, of what clients do, or that anybody makes another call. Time-outs are assumed
to elapse in `comms` only, where every wait for a reply has a finite one
(`KphpGetTimeoutForMessage`), though `KphSetMessageTimeouts` (`comms.c` 913-946) sets no upper
bound. Nothing is assumed of when a callback sends or frees the message it holds, so that the filter
need not be unregistered. The push lock is granted in its turn, so that clients that
connect for ever do not keep a sender out. In the barrier every thread comes back for
its phases. A CAS loop may be starved by
others, but all instances bound the operations of the others.

*Mutants.* For every property `PROJECT.json` names a plausible bug in one mapped definition
(a dropped re-check, an off-by-one, a missing reset, a bit not cleared) under which TLC
finds the property violated. The mutated operators stand before the ones they replace.

## 5. Proofs

Each `*Proofs` module extends the modules it is about and proves, with TLAPS, that an invariant is
inductive (`Invariance`, or `RundownInvariance`, `CallbackInvariance` and so on for the second
component of a module) and implies the properties of the run. The theorems hold for
all values of the constants that satisfy the named assumption of the module: sets of
threads, users or items of any finite size and any bounds on calls, where TLC covers one small
instance. The invariants were model-checked first on that instance or a smaller one; where an
invariant says that there is an order or a partition, TLC took it from a few candidates or computed
it from the links. There is one lemma per
action, or per group of actions that leave the same things alone; facts that many actions
need (how moving one thread changes a cardinality, what removing an element leaves of a
sequence) are lemmas about constants, stated once.

| module | theorem | property |
|---|---|---|
| `HandleTableRundownProofs` | `HandlesStayApart`, `LockedEntriesAreMine` | `HandlesApart`, `EntryIsMine` |
| | `RundownIsComplete`, `NobodyEnters`, `CountIsConserved`; `TypeCorrect` | `RundownComplete`, `NoAcquireAfterRundown`, `CountConserved` |
| `FastLockCallbackProofs` | `ExclusiveOwnersAreAlone`, `NoWakeUpIsLost` | `MutualExclusion`, `WakeUpsExact` |
| | `RegistrationsAreKept`, `EveryoneNotified` | `NotInUseOnceUnregistered`, `EveryoneIsNotified` |
| `InitOnceProofs` | `HandleIsKept`, `TrueIsSet`, `InitializedOnce` | `HandleKept`, `TrueMeansSet`, `InitializedBeforeUse` |
| `BarrierProviderProofs` | `BlocksStayAlive`, `WakeEventRefined`, `PhasesAreComplete` | `BlocksLive`, `ImplementsWakeEvent`, `PhaseComplete` |
| | `ProvidersInOneList`, `BoostsAreCounted`, `UnregisteredIsNotRun` | `InOneList`, `BoostsCounted`, `NotRunUnregistered` |
| `QueuedLockWorkQueueProofs` | `ListsAreSound`, `QueuedLockIsRWLock` | `ListSound`, `ImplementsRWLock` |
| | `CountersAlwaysAgree`, `DeletionIsComplete` | `CountersAgree`, `DeletedClean` |
| `RefObjectProofs` | `ObjectsAreSafe` | `ObjectsSafe` |
| `CidTableProofs` | `CountsAreExact`, `LookupsMissNothing`, `UnloadingFreesAll`; `DeletionsAreCovered` | `ReferencesExact`, `NothingMissed`, `EverythingFreed`; its first part `DeferredCovered` |
| `CommsProofs` | `MessagesAreFreedOnce`, `NobodyIsLeft`, `ClientsAreKept` | `MessagesOnce`, `QuietWhenClosed`, `ClientsStay` |

**Rundown** (finite users and waiters, `AddressCount` above the number of users).
`RundownComplete` is not inductive. A waiter returns because its event was set, the event
was set by the user that took the block's count to 0, and that means "nobody inside" only
if the block counts every user inside. `IInv` therefore says where the count is:
`ValueCounts` (before rundown the word counts the holders), `BlockCounts` (the block of a
blocked waiter counts at least the holders, and while there are holders the installed
block belongs to a blocked waiter), `UserKnows` (a user at a CAS saw an inactive word; one at
the decrement has a live block; one at the set bit was the last) and `WaiterKnows`. "At
least" is needed because of a second waiter: it reads the first block's address as a
count, which is more than there are users, and installs a block that is never counted
down to 0 early. `CountConserved` needs `FirstBlock` in addition, which says that
the releasers all use the block of the thread that began the rundown.

**FastLock** (finite threads). The two properties are inductive once the type, the operation of
every thread at its CAS and the finiteness of the pending posts are added: they already compare each
field of the word with the number of threads it stands for. What a successful CAS does is
split by operation; the word it saw is the word there is, so the decision is about the
current counts.

**QueuedLock** (finite threads). The list has `Next` pointers from the newest block to the oldest,
while `Previous` and `Last` are set lazily by whoever traverses it. `ShapeInv` says that there are a rank
`n` for each block, in the order in which they were pushed, and a function `w` that says of each
block whether it is in the list (`NULL`) or which thread has taken it off to unblock it; `s` is the
newest block with a `Last` pointer and `e` the oldest one. Then `Next` leads one rank down, everything
older than `s` has its `Previous` pointer, nothing newer than `s` has a `Last` pointer, and a traversal that
began at `f` has completed the part it has come through (`Completed`). The chain of a waking thread is
linked by `Previous` and apart from the list and from the others' (`ChainOf`), so that no
block is used after its owner has gone on. `TravInv`: at most one thread traverses, and the bit in the
word says so; a thread that has seen the lock free while it traverses may rely on it that there are no
shared owners. `CountOK` is what a shared releaser needs: as long as shared owners are left nobody takes
blocks off the list, all `Last` pointers lead to the block that counts them, and the walk ends
there. `OwnInv` compares the owners with the word, in its three forms (no waiters, one owner, several).
With that, `QueuedLockIsRWLock` takes each step to one of `RWLock`: only the steps that
acquire or release change the mapped owners, and `OwnInv` gives them the guards of `RWLock`.

**HandleTable** (any threads, entries per table and locks). `ShapeInv` says that there are four
disjoint sets of entries, the main list `M`, the alternative list `A`, the chain `D` taken off the alternative
list by the thread that holds the table's lock, and the entries `R` it has reversed or made, and
a rank `n` that numbers each list from its end, so that `NextFreeValue` leads one rank down. Every
entry is in one of the sets, in use, or in the hands of one thread (`Single`). What defeats ABA is
`PopOf`: from the check after it has taken the popping lock, a thread's handle was at the head of the main list
at some moment, and as long as it is in that list the next handle that the thread has read is
right. The handle could come back into the list only by a push, which looks first whether the lock is held (a
push that was decided earlier has another handle, since this one was in the list at the check), or
from `D`, which is not put back before every lock was seen free once; `Drain` passes
the locks in turn, and a thread that still pops an entry of `D` holds one that was not passed. `GrowInv` relates
the table's lock, `tables` and `nextValue`, so that a handle that passed the check has a table. `MineInv`: an
entry is locked by one thread at most and is in use meanwhile, however it was freed and handed out
between lookup and lock. `ListLinked` and `SegmentLinked` show that the sets of the invariant are the
`Linked` sets of the property, by considering an entry whose distance from the head is least.

**Callback** (finite invokers, any clients). `ListInv`: the list has the registrations inserted
and not removed, each once, and a client in `PhUnregisterCallback` has set its flag. `BusyInv`: `Busy` counts
the invokers in the function or about to decrement. `WalkInv`: what an invoker points to
is in the list, since it is removed only with `Busy` 0 and no reader. `SleepInv` keeps each sleeping client in the
condition's list or with the one invoker that wakes it. `DueInv` gives
`EveryoneIsNotified`: what an invoker has still to call lies behind the entry it is at; removals keep
the order, and new registrations come at the end.

**Provider** (finite providers and clients, `Modulus` above the number of providers). `ControlInv`
says who holds the lock and that whoever works on a registration still owns it; `ListsInv` that
the main and the temporary list share out the registrations, each once, and that the temporary list
is empty between passes. `BoostInv` is for clients that only boost: boosted providers, or the one about to be, come
first in the main list, `BoostCount` is their number, and a pass for boosts has taken
only boosted ones; hence the count does not wrap and no normal provider is taken for a boosted one.

**InitOnce** with the event under it (finite threads; handles are never used twice). What
carries the proof is how far `EventHandle` can be trusted. `Kept`: as long as the event is not
set, or its setter has not finished, every thread past the publication holds the handle
that is in `EventHandle`, and a blocked thread's handle is open. `Quiet`: nobody closes while somebody
sets or blocks. `Owned`: a kernel event that lost the race to be published belongs to one thread.
`Signaled`: only the published one is ever signaled. The election is a second layer,
`OnceInv`, over the same threads.

**Barrier** on the wake event (finite threads). `WakeInv` describes the lists without recursion: `Reach(nx, h)`
is the least set of blocks that has `h` and is closed under the links `nx`, the list at `head`
and the chain of every walking thread have each block once, and they are pairwise apart. That is
what makes it safe to free a block when it is unblocked: no other walker comes to it.
With it every step is a step of `WakeEventSpec` or leaves its variables alone, which is
`WakeEventRefined`. `PhaseInv` adds the phases: everybody has arrived `k` times while slaves are
woken, and `k` or `k + 1` times otherwise; the count in the word is the number of threads that
are inside; a master is alone when it leaves.

**WorkQueue** (finite clients, workers and items, `MinimumThreads <= MaximumThreads`).
`Counts` compares `CurrentThreads` with the workers that run, `BusyCount` with the items queued or
executed, and the tokens of the semaphore, with the workers woken and the clients about to
signal, with the length of the list. `ClientInv` is needed for the deletion: once it has begun only the
deleting client is inside, so that nothing is queued behind it; `ItemInv` says where an item is
that was queued and not freed.

**RefObject** (finite threads and routines; the saved type is not 0). An object whose last
reference is gone must be disposed of by one hand. `HandInv` says which points of a thread or
routine hold such an object, `ListInv` that the deferred list and the lists that routines have
taken hold each waiting object once and are disjoint, `Apart` that two hands never have the same object, and `ObjectInv`
that without owners the count is not positive, so that the weak table cannot revive it, even
when the same word now holds the saved type and the defer bit.

**Comms** (finite senders, senders and queue threads apart). `StopInv` relates the driver's
position to the rundown, the port and the threads: the count of references is the number of senders
that have one (`Inside`, those at a point of `Under`), so after the wait there is none, and the queue stays empty. It cannot say
that of all the callbacks under way (`Calls`); what remains true of the others after the stop is that they share the lock only to look and hold only
a message of their own, until the filter's wait for the callbacks, after which all are idle. `WalkInv` and
`ClientInv`: a disconnect needs the lock exclusively, so what a walker, with a reference or not, has still to visit is
in the list, each client once, with the list's reference. `PlaceInv` and `SentInv`: the sets of messages in the queue, in
the drained list, with an actor and freed are disjoint and are together all that were allocated.

**CidTable** on the driver's objects (finite actors and entries, `NULL` apart from both; any objects, table sizes
and calls). A count is a number of tokens: `EntryOf`, `HeldBy`, `StoredBy` and `ReplacedBy` say which
object an entry and an actor in each of three roles has a reference to, and `CountInv` equates the
sum of their occurrences with the count. Taking a reference is safe because of `LockInv`: the shared
bits of an entry count the actors between acquire and release, and the exclusive bit
the one that stores, so that a store, which waits for the bits to drain, finds nobody who has read the old object
and not yet referenced it; `ActorInv` says that what an actor has read is still in the entry.
`DeathInv`: an object without references is at one place, an actor about to push it, the list, or
the worker. `WorkerInv`: exactly one of an actor at "queue", a queued item and a started worker is there when the list is not
empty, and none when it is, which is why the push that finds the list empty is the
right one to queue the item. `ReferencesAre` connects the tokens to the set `References` of the property.
`EverythingFreed` takes a second layer, `JInv`, proved on top of `IInv`. `LostInv`: an object whose count is 0 is
on its way to the worker. `FreshInv`: the table allocated next is not linked anywhere. `UnderInv`: a table that was
the root is the first one below the present root, which is why an expansion leaves every CID its entry
(`GrownResolves`). `ReachInv`: every entry in use is the entry of some CID. `StopInv`: the unloader is alone, and the
entries of the CIDs it has passed are empty; when it skips CIDs, it skips a table that has no entries
(`SkipResolves`).
`NothingMissed` takes a third, `KInv`. `TreeInv`: each table is linked from one place and the root from none, so
that different CIDs have different entries (`EntriesApart`). `CallInv`: only the tracker of a CID stores to
its entry before the driver is unloaded. `HeldInv` and `TrackInv`: what a tracker has found or stored is in its entry, and so is
a context as long as it is tracked; nobody who would replace it is under way. `ExpectInv` says where a reader is that has still
to find a context: it has not captured the root, or the CID resolves below the root it captured, and it is at that
entry or, in an enumeration, has not come past it. The table may grow at any of these points: what resolves below a former root
stays (`GrownStays`) and is what resolves below the present one (`UnderResolves`).

Assumptions on bounds (`MaxCalls`, `MaxOps`, `MaxMessages`, ...) say only that they are natural numbers;
a constant such as `MaximumThreads < Cardinality(Workers)` says that there are identities enough for
the threads the code may create.

*Only model-checked*:

- liveness under fairness and `ENABLED`: `WaiterReturns`, `SetReleasesWaiters`, `DeleteReturns`,
  `EveryItemRuns`, `BoostRuns`, `EveryoneFinishes`, `UnregisterReturns`, `CallsReturn`, `StopReturns`,
  which this prover does not reach.

All invariants and action properties of the runs, and both refinements, are proved. The refinements are
of the safety part: `RWLock` and `WakeEventSpec` state no fairness.

## 6. Hazards

`PROJECT.json` lists the main ones with the line where each bites and the properties that would
notice. They are of a few kinds: a word read, then changed by CAS or used (rundown, locks,
boost test); two counters of one fact (work queue, provider, fast lock); memory on a stack
or in a header that is reused while another thread holds a pointer to it; a wake-up sent
before the sleeper sleeps; a time-out racing a late signal; lock-free readers of what is
being replaced (CID table, handle table); ownership that changes hands on error paths and
during shutdown (message port).

## 7. Where the code and its remarks disagree

The models reach the following, or reading the code for them showed it; no property claims the
contrary:

- `workqueue.c:187-193`, "Signal the semaphore once to let a worker thread continue.": with
  `MinimumThreads` 0, as `PhGetGlobalWorkQueue` uses, an item queued while the last of
  `MaximumThreads` workers has timed out and not yet decremented `CurrentThreads` creates no
  thread and wakes none; it waits for the next item. `EveryItemRuns` holds with one thread
  kept and fails when `MinimumThreads` in `MCWorkQueue.cfg` is 0.
- `ref.c:244`, "The object will be freed in a worker thread": `PhpDeferDeleteObject` tests the
  list for emptiness before it pushes. If the routine flushes in between, nobody is asked to
  delete the object until the next one comes (`ref.c` 530-540). The driver's version, which
  takes the answer from the push itself, has no such gap: `EverythingFreed`.
- `provider.c:129`, "Therefore we will never mistakenly boost normal providers.": the thread
  releases and re-takes the lock for an unregistering client; if the client does not get
  it, the boost is still counted and the next provider is taken for boosted (line 159).
  `BoostsCounted` is therefore stated for clients that only boost.
- `queuedlock.c:596-599` says that the wake function is called with waiters in the list, and
  the users of a condition hold its lock. `PhInvokeCallback` pulses under the shared lock: two
  invokers can both see waiters, and the second walks an empty list or a block that is gone
  (`Faulted` in `Callback`).
- `comms.c:1113`, "The last client to connect is given authority for any reply.": the loop
  starts at the client that connected first, and honours the first to reply
  (`comms.c:1192-1195`).
- `KphCommsStop` deletes the client lock and the lookaside lists before `FltUnregisterFilter`
  (`informer_file.c` 442-449), while callbacks of the filter manager may still come. Disconnect
  callbacks use the lock. File callbacks share it to look whether an informer is enabled
  (`comms.c:238`), and may hold a message that they send or free later: the send is refused and
  the message goes back to a list that was deleted (`comms.c:127`, `informer_fileop.c:1588`).
  `QuietWhenClosed` says that these, and nobody else, may be left at the deletion.
- `provider.c:181-182`: the thread unlocks and then calls the function. The unregister may run
  in between and return before the call begins; `NotRunUnregistered` is about the start of the run
  (line 179).
- `sync.c:424`: after a rundown that had to block, the word keeps the address of the block,
  not `PH_RUNDOWN_ACTIVE`, and a second wait does not return.
- `sync.c:142-143`: a waiter that saw the event not set may reference it after the count was 0;
  the handle can be closed twice. If instead it publishes a handle after the setter has
  read none and drops its reference first, the handle stays open (`sync.c:155`,
  `phbasesup.h:458`).
- `workqueue.c:128`: `PhWaitForWorkQueue` returns when the list is empty, not when the last
  item has run, and only one of several waiters is woken (line 449).
- `provider.c:453`: `PhSetEnabledProvider` writes the flag word without the lock and may bring
  back a `Boosting` bit just cleared. `provider.c:382`: a boost that passed the test of
  `Unregistering` before the removal puts the registration back. One client manages the
  registrations in the run for this reason: two that boost and unregister one registration
  at the same time break `InOneList`.

## 8. Not modelled

- The user interface, tree lists, graphs and the plugins: their behaviour is message
  handlers of the window manager and drawing.
- `phnt` (declarations), `tools/`, third-party code and `peview`: offline or vendored.
- System-service wrappers and the driver's argument capture: pure I/O.
- Widths of the 10-bit counters of the fast lock and the 15-bit count of the event: an
  overflow needs a thousand threads or more in one wait.
- Time-outs of wake events, which no caller uses: the only one that could, `PhCallWithTimeout`,
  is called without an acquire time-out (`hndlinfo.c:2405`). `PhfPulseCondition` in detail, which
  `WorkQueue` uses by its contract; sweeping and destroying a handle table.
- The driver's handlers of client requests, informer settings, session tokens, the contents
  of process and thread contexts and lookups through APCs; in `comms.c` the start of the
  filter, which precedes everything modelled.
- Planned parts: section 2.
