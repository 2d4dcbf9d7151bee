------------------------------- MODULE Comms -------------------------------
(***************************************************************************)
(* The driver's message port (KSystemInformer/comms.c): clients connect    *)
(* and disconnect, kernel callbacks send them messages, at once or through *)
(* a queue that a few threads serve, and the driver stops it all.          *)
(*                                                                         *)
(* Only sending is under rundown protection.  A callback asks whether an   *)
(* informer is enabled and allocates a message without it, and these       *)
(* callbacks end when the filter is unregistered, after KphCommsStop.      *)
(*                                                                         *)
(* Rundown protection, the push lock of the client list, the kernel queue  *)
(* and the filter manager are external and do what their users rely on.    *)
(* A client is a process; a sender may run in one of them.                 *)
(***************************************************************************)
EXTENDS Integers, Sequences, SequencesExt, FiniteSets

CONSTANTS NULL,
          Clients,      \* processes that connect
          Senders,      \* operations seen by informer callbacks; those in Clients are the clients' own
          QueueThreads, \* KphpMessageQueueThread
          Driver,       \* the thread that starts and stops communications
          MaxMessages   \* bound: messages ever allocated

ASSUME CommsAssumption ==
    /\ MaxMessages \in Nat /\ IsFiniteSet(Senders)
    /\ Driver \notin Senders \cup QueueThreads /\ Senders \cap QueueThreads = {}

Actors == Senders \cup QueueThreads \cup {Driver}

VARIABLES port,      \* KphpFltServerPort: none, open or closed
          rundown,   \* KphpCommsRundown: references, and whether a wait has begun
          queue,     \* KphpMessageQueue
          abandoned, \* KeRundownQueue was called
          sharing,   \* actors that hold KphpConnectedClientLock shared
          blocked,   \* clients whose callback waits for the lock exclusively
          ahead,     \* per actor that asks for it shared: those of them that asked before
          list,      \* KphpConnectedClientList
          refs,      \* per client: references to its object, 0 if there is none
          pc,
          item,      \* per actor: the message it has and the client it is for
          todo,      \* per actor: clients it has still to look at
          reply,     \* per sender: NULL (none wanted), Unhandled or the client that replied
          drained,   \* items that KeRundownQueue returned
          msgs,      \* messages allocated so far, 1..msgs
          sent,      \* per message: times it went through KphpCommsSendMessage
          freed      \* per message: times it was freed

Unhandled == "KphMsgUnhandled"
clientVars == <<sharing, blocked, ahead, list, refs>>
messageVars == <<msgs, sent, freed>>
sendVars == <<item, todo, reply>>
driverVars == <<port, abandoned, drained>>
vars == <<port, rundown, queue, abandoned, clientVars, pc, sendVars, drained, messageVars>>

NoItem == [msg |-> 0, target |-> NULL]
Item(m, c) == [msg |-> m, target |-> c]

Init == /\ port = "none" /\ rundown = [refs |-> 0, down |-> FALSE]
        /\ queue = <<>> /\ abandoned = FALSE /\ drained = <<>>
        /\ sharing = {} /\ blocked = {} /\ list = <<>>
        /\ ahead = [a \in Actors |-> {}] /\ refs = [c \in Clients |-> 0]
        /\ pc = [a \in Actors |-> IF a = Driver THEN "start" ELSE
                                  IF a \in QueueThreads THEN "none" ELSE "idle"]
        /\ item = [a \in Actors |-> NoItem] /\ todo = [a \in Actors |-> <<>>]
        /\ reply = [a \in Actors |-> NULL]
        /\ msgs = 0 /\ sent = [m \in 1..MaxMessages |-> 0] /\ freed = [m \in 1..MaxMessages |-> 0]

Goto(a, label) == pc' = [pc EXCEPT ![a] = label]
Free(m) == freed' = [freed EXCEPT ![m] = @ + 1]
Queued(a) == ahead' = [ahead EXCEPT ![a] = blocked]
Granted(c) == /\ blocked' = blocked \ {c}
              /\ ahead' = [a \in Actors |-> ahead[a] \ {c}]
-----------------------------------------------------------------------------
(* KphCommsStart *)

CreateThread ==
    /\ pc[Driver] = "start"
    /\ \E t \in QueueThreads : pc[t] = "none" /\ pc' = [pc EXCEPT ![t] = "remove"]
    /\ UNCHANGED <<driverVars, rundown, queue, clientVars, sendVars, messageVars>>

CreatePort ==
    /\ pc[Driver] = "start" /\ \A t \in QueueThreads : pc[t] # "none"
    /\ port' = "open" /\ Goto(Driver, "started")
    /\ UNCHANGED <<abandoned, drained, rundown, queue, clientVars, sendVars, messageVars>>

\* A thread or the port cannot be created: the queue is run down.
StartFails ==
    /\ pc[Driver] = "start"
    /\ abandoned' = TRUE /\ Goto(Driver, "join")
    /\ UNCHANGED <<port, drained, rundown, queue, clientVars, sendVars, messageVars>>
-----------------------------------------------------------------------------
(* KphpCommsConnectNotifyCallback, KphpCommsDisconnectNotifyCallback *)

\* The callback's reference and the list's; the lock is asked for exclusively.
Connect(c) ==
    /\ port = "open" /\ refs[c] = 0
    /\ refs' = [refs EXCEPT ![c] = 2]
    /\ blocked' = blocked \cup {c}
    /\ UNCHANGED <<driverVars, rundown, queue, sharing, ahead, list, pc, sendVars, messageVars>>

EvenIfShared == TRUE
ExclusiveNow == sharing = {}

Connected(c) ==
    /\ c \in blocked /\ c \notin ToSet(list) /\ ExclusiveNow
    /\ list' = Append(list, c) /\ Granted(c)
    /\ refs' = [refs EXCEPT ![c] = @ - 1]
    /\ UNCHANGED <<driverVars, rundown, queue, sharing, pc, sendVars, messageVars>>

Disconnect(c) ==
    /\ c \in ToSet(list) \ blocked
    /\ blocked' = blocked \cup {c}
    /\ UNCHANGED <<driverVars, rundown, queue, sharing, ahead, list, refs, pc, sendVars, messageVars>>

\* The list's reference is the last one: the client object is deleted.
Disconnected(c) ==
    /\ c \in blocked /\ c \in ToSet(list) /\ ExclusiveNow
    /\ \E i \in DOMAIN list : list[i] = c /\ list' = RemoveAt(list, i)
    /\ Granted(c)
    /\ refs' = [refs EXCEPT ![c] = @ - 1]
    /\ UNCHANGED <<driverVars, rundown, queue, sharing, pc, sendVars, messageVars>>
-----------------------------------------------------------------------------
(* KphCommsInformerEnabled, KphGetConnectedClientCount: no rundown reference *)

\* Callbacks run from the start of filtering until the filter is unregistered.
Filtering == port # "none" /\ pc[Driver] # "unregistered"

InformerEnabled(a) ==
    /\ pc[a] = "idle" /\ Filtering
    /\ Goto(a, "look lock") /\ Queued(a)
    /\ UNCHANGED <<driverVars, rundown, queue, sharing, blocked, list, refs, sendVars, messageVars>>

\* The lock is granted in turn: not before an exclusive request that came first.
InTurn(a) == ahead[a] = {}

LookShared(a) ==
    /\ pc[a] = "look lock" /\ InTurn(a)
    /\ sharing' = sharing \cup {a} /\ todo' = [todo EXCEPT ![a] = list] /\ Goto(a, "look")
    /\ UNCHANGED <<driverVars, rundown, queue, blocked, ahead, list, refs, item, reply, messageVars>>

\* The clients were looked at, up to the first that has the informer enabled, or counted.
LookDone(a) ==
    /\ pc[a] = "look"
    /\ sharing' = sharing \ {a} /\ todo' = [todo EXCEPT ![a] = <<>>] /\ Goto(a, "idle")
    /\ UNCHANGED <<driverVars, rundown, queue, blocked, ahead, list, refs, item, reply, messageVars>>
-----------------------------------------------------------------------------
(* KphAllocateMessage, KphFreeMessage *)

\* The caller fills the message, as long as it takes: from a file operation's
\* pre-operation callback to its post-operation callback.
AllocateMessage(a) ==
    /\ pc[a] = "idle" /\ Filtering /\ msgs < MaxMessages
    /\ msgs' = msgs + 1 /\ item' = [item EXCEPT ![a] = Item(msgs + 1, NULL)]
    /\ Goto(a, "held")
    /\ UNCHANGED <<driverVars, rundown, queue, clientVars, todo, reply, sent, freed>>

\* The caller drops the message, or KphCommsSendMessage has returned.
FreeMessage(a) ==
    /\ pc[a] \in {"held", "sent"}
    /\ Free(item[a].msg) /\ item' = [item EXCEPT ![a] = NoItem] /\ Goto(a, "idle")
    /\ UNCHANGED <<driverVars, rundown, queue, clientVars, todo, reply, msgs, sent>>
-----------------------------------------------------------------------------
(* KphpCommsSendMessageAsync *)

Refused == rundown.down

\* The message is given away; once a rundown began it is dropped, even when
\* its lookaside list has been deleted.
SendMessageAsync(a) ==
    /\ pc[a] = "held"
    /\ IF Refused THEN /\ Free(item[a].msg) /\ item' = [item EXCEPT ![a] = NoItem]
                       /\ Goto(a, "idle") /\ UNCHANGED rundown
       ELSE /\ rundown' = [rundown EXCEPT !.refs = @ + 1]
            /\ Goto(a, "insert") /\ UNCHANGED <<item, freed>>
    /\ UNCHANGED <<driverVars, queue, clientVars, todo, reply, msgs, sent>>

\* KeInsertQueue, or no memory for the queue item.
Insert(a) ==
    /\ pc[a] = "insert"
    /\ \/ queue' = Append(queue, item[a]) /\ UNCHANGED freed
       \/ Free(item[a].msg) /\ UNCHANGED queue
    /\ item' = [item EXCEPT ![a] = NoItem] /\ Goto(a, "release")
    /\ UNCHANGED <<driverVars, rundown, clientVars, todo, reply, msgs, sent>>

NotReleased == rundown.refs
Released == rundown.refs - 1

ReleaseRundown(a) ==
    /\ pc[a] = "release"
    /\ rundown' = [rundown EXCEPT !.refs = Released]
    /\ Goto(a, IF item[a] = NoItem THEN "idle" ELSE "sent")
    /\ reply' = [reply EXCEPT ![a] = NULL]
    /\ UNCHANGED <<driverVars, queue, clientVars, item, todo, messageVars>>
-----------------------------------------------------------------------------
(* KphCommsSendMessage, KphpCommsSendMessage *)

\* The caller keeps the message; STATUS_TOO_LATE once a rundown began.
SendMessage(a) ==
    /\ pc[a] = "held"
    /\ IF Refused THEN Goto(a, "sent") /\ UNCHANGED <<rundown, reply, ahead>>
       ELSE /\ rundown' = [rundown EXCEPT !.refs = @ + 1]
            /\ reply' = [reply EXCEPT ![a] = Unhandled]
            /\ Goto(a, "lock") /\ Queued(a)
    /\ UNCHANGED <<driverVars, queue, sharing, blocked, list, refs, item, todo, messageVars>>

LockShared(a) ==
    /\ pc[a] = "lock" /\ InTurn(a)
    /\ sent' = [sent EXCEPT ![item[a].msg] = @ + 1]
    /\ sharing' = sharing \cup {a} /\ todo' = [todo EXCEPT ![a] = list] /\ Goto(a, "visit")
    /\ UNCHANGED <<driverVars, rundown, queue, blocked, ahead, list, refs, item, reply, msgs, freed>>

\* "We choose to honor the first client to reply."
AskForReply(a) == reply[a] = Unhandled

Next1(a) == todo' = [todo EXCEPT ![a] = Tail(@)]

\* Another client is the target, this one has the informer disabled, or there is no
\* memory for the copy of a message to the sender's own process.
SkipClient(a) ==
    /\ pc[a] = "visit" /\ todo[a] # <<>>
    /\ Next1(a)
    /\ UNCHANGED <<driverVars, rundown, queue, clientVars, pc, item, reply, messageVars>>

\* "Bottleneck protection": the sender's own process gets a copy, asynchronously.
ForceAsync(a) ==
    /\ pc[a] = "visit" /\ todo[a] # <<>> /\ AskForReply(a) /\ Head(todo[a]) = a
    /\ msgs < MaxMessages /\ msgs' = msgs + 1 /\ UNCHANGED sent
    /\ \/ ~Refused /\ queue' = Append(queue, Item(msgs + 1, a)) /\ UNCHANGED freed
       \/ Free(msgs + 1) /\ UNCHANGED queue
    /\ Next1(a)
    /\ UNCHANGED <<driverVars, rundown, clientVars, pc, item, reply>>

FltSendMessage(a) ==
    /\ pc[a] = "visit" /\ todo[a] # <<>>
    /\ item[a].target \in {NULL, Head(todo[a])}
    /\ ~(AskForReply(a) /\ Head(todo[a]) = a)
    /\ Goto(a, "wait")
    /\ UNCHANGED <<driverVars, rundown, queue, clientVars, sendVars, messageVars>>

\* The client answers in time, it is trusted and its reply is valid.
Replied(a) ==
    /\ pc[a] = "wait" /\ AskForReply(a)
    /\ reply' = [reply EXCEPT ![a] = Head(todo[a])]
    /\ Next1(a) /\ Goto(a, "visit")
    /\ UNCHANGED <<driverVars, rundown, queue, clientVars, item, messageVars>>

\* It took the message where no reply is wanted; the time-out, which is finite, an
\* error or a reply that does not count: the reply is initialized again.
NotReplied(a) ==
    /\ pc[a] = "wait"
    /\ reply' = IF AskForReply(a) THEN [reply EXCEPT ![a] = Unhandled] ELSE reply
    /\ Next1(a) /\ Goto(a, "visit")
    /\ UNCHANGED <<driverVars, rundown, queue, clientVars, item, messageVars>>

\* The lock is released, and the caller of KphpCommsSendMessage goes on: the queue thread
\* and the thread that stops free the queue item and its message.
Return(a) ==
    /\ pc[a] = "visit" /\ todo[a] = <<>>
    /\ sharing' = sharing \ {a}
    /\ Goto(a, CASE a \in Senders -> "release" [] a \in QueueThreads -> "remove" [] OTHER -> "drain")
    /\ IF a \in Senders THEN UNCHANGED <<item, freed>>
       ELSE Free(item[a].msg) /\ item' = [item EXCEPT ![a] = NoItem]
    /\ UNCHANGED <<driverVars, rundown, queue, blocked, ahead, list, refs, todo, reply, msgs, sent>>
-----------------------------------------------------------------------------
(* KphpMessageQueueThread *)

RemoveQueue(t) ==
    /\ pc[t] = "remove" /\ ~abandoned /\ queue # <<>>
    /\ item' = [item EXCEPT ![t] = Head(queue)] /\ queue' = Tail(queue)
    /\ Goto(t, "lock") /\ Queued(t)
    /\ UNCHANGED <<driverVars, rundown, sharing, blocked, list, refs, todo, reply, messageVars>>

\* STATUS_ABANDONED
ExitThread(t) ==
    /\ pc[t] = "remove" /\ abandoned
    /\ Goto(t, "none")
    /\ UNCHANGED <<driverVars, rundown, queue, clientVars, sendVars, messageVars>>
-----------------------------------------------------------------------------
(* KphCommsStop *)

Stop ==
    /\ pc[Driver] = "started"
    /\ rundown' = [rundown EXCEPT !.down = TRUE] /\ Goto(Driver, "wait rundown")
    /\ UNCHANGED <<driverVars, queue, clientVars, sendVars, messageVars>>

NotWaited == TRUE
RunDown == rundown.refs = 0

IgnoreRemaining == <<>>
Remaining == queue

\* KphWaitForRundown returns; KeRundownQueue.
RundownQueue ==
    /\ pc[Driver] = "wait rundown" /\ RunDown
    /\ abandoned' = TRUE /\ drained' = Remaining /\ queue' = <<>>
    /\ Goto(Driver, "join")
    /\ UNCHANGED <<port, rundown, clientVars, sendVars, messageVars>>

\* All queue threads have ended.
Join ==
    /\ pc[Driver] = "join" /\ \A t \in QueueThreads : pc[t] = "none"
    /\ Goto(Driver, IF port = "open" THEN "drain" ELSE "failed")
    /\ UNCHANGED <<driverVars, rundown, queue, clientVars, sendVars, messageVars>>

\* "Rundown any remaining items in the queue"
DrainItem ==
    /\ pc[Driver] = "drain" /\ drained # <<>>
    /\ item' = [item EXCEPT ![Driver] = Head(drained)] /\ drained' = Tail(drained)
    /\ Goto(Driver, "lock") /\ Queued(Driver)
    /\ UNCHANGED <<port, abandoned, rundown, queue, sharing, blocked, list, refs, todo, reply, messageVars>>

ClosePort ==
    /\ pc[Driver] = "drain" /\ drained = <<>>
    /\ port' = "closed" /\ Goto(Driver, "closed")
    /\ UNCHANGED <<abandoned, drained, rundown, queue, clientVars, sendVars, messageVars>>

\* KphFltUnregister goes on with FltUnregisterFilter, which waits for the callbacks.
UnregisterFilter ==
    /\ pc[Driver] = "closed" /\ \A a \in Senders : pc[a] = "idle"
    /\ Goto(Driver, "unregistered")
    /\ UNCHANGED <<driverVars, rundown, queue, clientVars, sendVars, messageVars>>
-----------------------------------------------------------------------------
Callbacks(c) == Connected(c) \/ Disconnected(c)
Calling(a) == \/ InformerEnabled(a) \/ AllocateMessage(a) \/ FreeMessage(a)
              \/ SendMessageAsync(a) \/ SendMessage(a)
Looking(a) == LookShared(a) \/ LookDone(a)
Sending(a) == \/ Insert(a) \/ ReleaseRundown(a) \/ LockShared(a) \/ SkipClient(a) \/ ForceAsync(a)
              \/ FltSendMessage(a) \/ Replied(a) \/ NotReplied(a) \/ Return(a)
Serving(t) == RemoveQueue(t) \/ ExitThread(t)
Driving == \/ CreateThread \/ CreatePort \/ StartFails \/ RundownQueue \/ Join \/ DrainItem
           \/ ClosePort \/ UnregisterFilter

\* Communications have ended and every caller has returned.
Finished == /\ pc[Driver] \in {"unregistered", "failed"} /\ \A a \in Senders : pc[a] = "idle"
            /\ blocked = {} /\ UNCHANGED vars

Next == \/ \E c \in Clients : Connect(c) \/ Disconnect(c) \/ Callbacks(c)
        \/ \E a \in Senders : Calling(a) \/ Looking(a)
        \/ \E a \in Actors : Sending(a)
        \/ \E t \in QueueThreads : Serving(t)
        \/ Driving \/ Stop \/ Finished

\* Threads and callbacks run and the push lock is granted in its turn.  Time-outs
\* elapse; nothing is assumed of what clients do, when a callback hands over the
\* message it holds or when the driver stops.
Spec == /\ Init /\ [][Next]_vars
        /\ \A a \in Senders : WF_vars(Looking(a))
        /\ \A a \in Actors : WF_vars(Sending(a))
        /\ \A t \in QueueThreads : WF_vars(Serving(t))
        /\ \A c \in Clients : WF_vars(Callbacks(c))
        /\ WF_vars(Driving)
-----------------------------------------------------------------------------
Count(m, items) == Cardinality({i \in DOMAIN items : items[i].msg = m})
Held(m) == Count(m, queue) + Count(m, drained) + Cardinality({a \in Actors : item[a].msg = m})

\* The ownership of a message, which KphCommsSendMessageAsync takes and KphCommsSendMessage
\* does not: it is in one place or was freed, once, and it is sent at most once, whatever
\* happens meanwhile: a rundown, a failed allocation, a queue that is drained by the thread
\* that stops.
MessagesOnce ==
    \A m \in 1..MaxMessages : /\ Held(m) + freed[m] = (IF m <= msgs THEN 1 ELSE 0)
                              /\ sent[m] <= 1

\* Still with a callback that has not handed it over, or to which it came back.
HeldByCaller(m) == \E a \in Senders : pc[a] \in {"held", "sent"} /\ item[a].msg = m

\* When KphCommsStop deletes the lookaside lists and the lock, or a KphCommsStart that has
\* failed returns, nobody is left whom the rundown, the queue or the threads stand for: no
\* sender is inside, nothing is queued or drained, and no queue thread runs.  Callbacks that
\* came without a reference may be left, and only they: one that looks whether an informer is
\* enabled may share the lock, one may hold a message that it allocated.  None is left, and no
\* message, when KphFltUnregister has unregistered the filter.
QuietWhenClosed ==
    /\ pc[Driver] \in {"closed", "unregistered", "failed"} =>
           /\ rundown.refs = 0 /\ queue = <<>> /\ drained = <<>>
           /\ \A t \in QueueThreads : pc[t] = "none"
           /\ \A a \in sharing : pc[a] = "look"
           /\ \A m \in 1..msgs : freed[m] = 1 \/ HeldByCaller(m)
    /\ pc[Driver] = "unregistered" => sharing = {} /\ \A m \in 1..msgs : freed[m] = 1

\* Neither the loop of KphpCommsSendMessage nor that of KphCommsInformerEnabled takes a
\* reference to a client: the lock alone keeps every client it has still to look at in the
\* list, and its object and port alive, in the first one for as long as the longest time-out.
ClientsStay ==
    \A a \in Actors : \A c \in ToSet(todo[a]) : refs[c] > 0 /\ c \in ToSet(list)

\* KphCommsStop comes to its end, though senders may be waiting for a reply of a client
\* whose own thread waits for the lock.
StopReturns == (pc[Driver] = "wait rundown") ~> (pc[Driver] = "closed")
=============================================================================
