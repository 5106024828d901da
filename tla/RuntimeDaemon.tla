--------------------------- MODULE RuntimeDaemon ---------------------------
(***************************************************************************)
(* NsCDE.Runtime.Daemon: the threads around the daemon's state.  A command *)
(* commits under the server's MVar and takes its event sequence numbers    *)
(* there; its effects and its two broadcasts happen after the MVar is      *)
(* released, in steps that interleave with those of every other handler    *)
(* and with the threads that serve the subscriptions.                      *)
(*                                                                         *)
(* A thread of Clients stands for one connection slot: it serves a command *)
(* request, answers, closes, and serves the next connection.  hello and    *)
(* query requests change nothing and are left out, as are requests that    *)
(* are rejected before they reach the state.  A subscription is known by   *)
(* its connection instead of the counter serverNextSubscriberId.           *)
(***************************************************************************)
EXTENDS RuntimeCommands

CONSTANTS Clients,           \* concurrent command connections
          Producers,         \* publish-stream connections
          Subs,              \* subscription connections, each used once
          ClientRequests,    \* commands a client may send
          ProducerRequests,  \* per producer, the frames its role may publish
          CompatLines,       \* lines other programs write to the command FIFO
          SubRequests,       \* subscription requests: mode, bootstrap, topics
          MaxEvents,         \* bound: no command is taken after this many events
          MaxFaults,         \* bound on exceptions and disconnections
          FifoCapacity       \* lines the command FIFO holds

FifoThread == "fifoLoop"
Threads == Clients \cup Producers \cup {FifoThread}

Modes == {"snapshots", "events"}

ASSUME RuntimeDaemonAssumption ==
    /\ FifoThread \notin Clients \cup Producers
    /\ Clients \cap Producers = {}
    /\ ClientRequests \subseteq Requests
    /\ ProducerRequests \in [Producers -> SUBSET Requests]
    /\ CompatLines \subseteq Requests
    /\ SubRequests \subseteq [mode: Modes, bootstrap: BOOLEAN, topics: Seq(Topics) \ {<<>>}]
    /\ MaxEvents \in Nat /\ MaxFaults \in Nat /\ FifoCapacity \in Nat

VARIABLES
    \* the rest of the MVar's ServerState, beside runtimeState
    nextEventSeq, subscribers,
    \* handler threads: program counter, and what each one still has to do
    pc, effects, topics, frames, todo, failed,
    \* the runtime command FIFO
    fifo,
    \* subscription connections
    request, phase, peerUp, queue, received,
    \* history: events issued, first event owed to a subscription, failed effects per
    \* thread, faults
    issued, registeredAt, effectFailures, faults

serverVars == <<runtimeState, styleFile, nextEventSeq, issued>>
threadVars == <<pc, effects, topics, frames, todo, failed>>
subVars == <<subscribers, request, phase, peerUp, received, registeredAt>>
vars == <<serverVars, threadVars, fifo, subVars, queue, effectFailures, faults>>

\* A handler is at "topics", "events" and "status" from the end of one broadcast, or of
\* the effects, to the start of the next one.
PCs == {"idle", "effects", "topics", "events", "status", "dead"}
Phases == {"absent", "registered", "initial", "streaming", "leaving", "gone"}

NoRequest == [mode |-> "snapshots", bootstrap |-> FALSE, topics |-> <<>>]

-----------------------------------------------------------------------------
(* Frames *)

EventFrame(seq, delta) ==
    [type |-> "event", seq |-> seq, topic |-> delta.topic, reset |-> delta.reset,
     value |-> delta.value]

StateFrame(type, topic) ==
    [type |-> type, seq |-> 0, topic |-> topic, reset |-> TRUE,
     value |-> TopicEntries(topic, runtimeState, styleFile)]

\* The effect names its failure in the payload of a session event.
ActionFailed == [topic |-> "session", reset |-> FALSE, value |-> <<"backend-action-failed">>]

\* Each delta of a transition takes the next sequence number.
RealizeEvents(start, deltas) ==
    [i \in 1..Len(deltas) |-> EventFrame(start + i - 1, deltas[i])]

WantsTopic(s, topic) == topic \in Range(request[s].topics)

WantsSnapshots(s, topic) == WantsTopic(s, topic) /\ request[s].mode = "snapshots"

\* Variant: an event subscription gets every topic.
WantsEventsOfAnyTopic(s, topic) == request[s].mode = "events"

WantsEvents(s, topic) == WantsTopic(s, topic) /\ request[s].mode = "events"

-----------------------------------------------------------------------------
Init ==
    /\ styleFile \in InitialStyles
    /\ runtimeState = LoadRuntimeState(InitialNames, InitialNames[1], "", styleFile)
    /\ nextEventSeq = 1
    /\ subscribers = {}
    /\ pc = [t \in Threads |-> "idle"]
    /\ effects = [t \in Threads |-> <<>>]
    /\ topics = [t \in Threads |-> <<>>]
    /\ frames = [t \in Threads |-> <<>>]
    /\ todo = [t \in Threads |-> <<>>]
    /\ failed = [t \in Threads |-> 0]
    /\ fifo = <<>>
    /\ request = [s \in Subs |-> NoRequest]
    /\ phase = [s \in Subs |-> "absent"]
    /\ peerUp = [s \in Subs |-> TRUE]
    /\ queue = [s \in Subs |-> <<>>]
    /\ received = [s \in Subs |-> <<>>]
    /\ issued = <<>>
    /\ registeredAt = [s \in Subs |-> 0]
    /\ effectFailures = [t \in Threads |-> 0]
    /\ faults = 0

-----------------------------------------------------------------------------
(* Commit: the body of modifyMVar, one step *)

\* Take sequence numbers for deltas and leave their frames with thread t.
IssueEvents(t, deltas) ==
    /\ nextEventSeq' = nextEventSeq + Len(deltas)
    /\ frames' = [frames EXCEPT ![t] = RealizeEvents(nextEventSeq, deltas)]
    /\ issued' = issued \o [i \in 1..Len(deltas) |->
                               [topic |-> deltas[i].topic, reset |-> deltas[i].reset,
                                value |-> deltas[i].value, by |-> t]]

\* The transitions of producers have no effects.
Commit(t, command) ==
    LET result == Handle(command, runtimeState, styleFile)
    IN  /\ pc[t] = "idle"
        /\ nextEventSeq <= MaxEvents
        /\ runtimeState' = result.state
        /\ styleFile' = result.file
        /\ IssueEvents(t, result.deltas)
        /\ topics' = [topics EXCEPT ![t] = result.topics]
        /\ effects' = [effects EXCEPT ![t] = result.effects]
        /\ pc' = [pc EXCEPT ![t] = IF result.effects = <<>> THEN "topics" ELSE "effects"]
        /\ UNCHANGED <<todo, failed, subVars, queue, effectFailures, faults>>

\* Variant: the state was stored before style.env could be written.
CommitAbortsHalfway(t, command) ==
    /\ pc[t] = "idle"
    /\ nextEventSeq <= MaxEvents
    /\ faults < MaxFaults
    /\ faults' = faults + 1
    /\ runtimeState' = Handle(command, runtimeState, styleFile).state
    /\ pc' = [pc EXCEPT ![t] = IF t \in Clients THEN "idle" ELSE "dead"]
    /\ UNCHANGED <<styleFile, nextEventSeq, issued, effects, topics, frames, todo, failed,
                   subVars, queue, effectFailures>>

\* An exception in the body (style.env, a compatibility file): the MVar gets its old
\* contents back, style.env may have been written.  The client is not answered, the
\* producer's stream is closed, the FIFO thread ends.
CommitAborts(t, command) ==
    /\ pc[t] = "idle"
    /\ nextEventSeq <= MaxEvents
    /\ faults < MaxFaults
    /\ faults' = faults + 1
    /\ styleFile' \in {styleFile, Handle(command, runtimeState, styleFile).file}
    /\ pc' = [pc EXCEPT ![t] = IF t \in Clients THEN "idle" ELSE "dead"]
    /\ UNCHANGED <<runtimeState, nextEventSeq, issued, effects, topics, frames, todo, failed,
                   subVars, queue, effectFailures>>

ClientCommand(c) ==
    /\ \E command \in ClientRequests : Commit(c, command) \/ CommitAborts(c, command)
    /\ UNCHANGED fifo

ProducerFrame(p) ==
    /\ \E command \in ProducerRequests[p] : Commit(p, command) \/ CommitAborts(p, command)
    /\ UNCHANGED fifo

FifoLine ==
    /\ fifo # <<>>
    /\ Commit(FifoThread, Head(fifo)) \/ CommitAborts(FifoThread, Head(fifo))
    /\ fifo' = Tail(fifo)

\* The read end is closed and opened again whenever the last writer has closed its own:
\* lines written between that end of file and the close are dropped.
FifoReopens ==
    /\ pc[FifoThread] = "idle"
    /\ fifo # <<>>
    /\ fifo' = <<>>
    /\ UNCHANGED <<serverVars, threadVars, subVars, queue, effectFailures, faults>>

\* Another program writes a line while the daemon has the read end open.
WriteLine ==
    /\ Len(fifo) < FifoCapacity
    /\ nextEventSeq <= MaxEvents
    /\ \E line \in CompatLines : fifo' = Append(fifo, line)
    /\ UNCHANGED <<serverVars, threadVars, subVars, queue, effectFailures, faults>>

-----------------------------------------------------------------------------
(* Effects, outside the MVar *)

\* Variant: the last effect is not recognised as the last one.
EffectOverNeverLast(t) ==
    /\ pc[t] = "effects"
    /\ effects' = [effects EXCEPT ![t] = Tail(@)]
    /\ pc' = [pc EXCEPT ![t] = IF effects[t] = <<>> THEN "topics" ELSE "effects"]
    /\ UNCHANGED <<serverVars, topics, frames, todo, subVars, queue, faults>>

\* The first effect is over, one way or the other.
EffectOver(t) ==
    /\ pc[t] = "effects"
    /\ effects' = [effects EXCEPT ![t] = Tail(@)]
    /\ pc' = [pc EXCEPT ![t] = IF Len(effects[t]) = 1 THEN "topics" ELSE "effects"]
    /\ UNCHANGED <<serverVars, topics, frames, todo, subVars, queue, faults>>

\* A line to the daemon's own FIFO needs room there: the write does not block.
EffectSucceeds(t) ==
    /\ EffectOver(t)
    /\ IF Head(effects[t]).fifo = "runtime"
       THEN Len(fifo) < FifoCapacity /\ fifo' = Append(fifo, Head(effects[t]).command)
       ELSE UNCHANGED fifo
    /\ UNCHANGED <<failed, effectFailures>>

\* Variant: the status of the effect is dropped.
EffectFailsSilently(t) ==
    /\ EffectOver(t)
    /\ Head(effects[t]).kind \in {"compat-command", "failsafe-terminal", "power"}
    /\ effectFailures' = [effectFailures EXCEPT ![t] = @ + 1]
    /\ UNCHANGED <<failed, fifo>>

\* writeCompatCommand, launchFailsafeTerminal and runPowerAction report their failure.
EffectFails(t) ==
    /\ EffectOver(t)
    /\ Head(effects[t]).kind \in {"compat-command", "failsafe-terminal", "power"}
    /\ failed' = [failed EXCEPT ![t] = @ + 1]
    /\ effectFailures' = [effectFailures EXCEPT ![t] = @ + 1]
    /\ UNCHANGED fifo

\* writeCompatCommand catches its I/O errors, the other effects do not.  handleRequest
\* catches the exception, drops the remaining effects and the statuses, still
\* broadcasts, and answers with an error; applyCompatLine does not catch it and the
\* thread ends with what it had to broadcast.
EffectThrows(t) ==
    /\ pc[t] = "effects"
    /\ Head(effects[t]).kind # "compat-command"
    /\ faults < MaxFaults
    /\ faults' = faults + 1
    /\ effectFailures' = [effectFailures EXCEPT ![t] = @ + 1]
    /\ effects' = [effects EXCEPT ![t] = <<>>]
    /\ failed' = [failed EXCEPT ![t] = 0]
    /\ IF t = FifoThread
       THEN /\ pc' = [pc EXCEPT ![t] = "dead"]
            /\ topics' = [topics EXCEPT ![t] = <<>>]
            /\ frames' = [frames EXCEPT ![t] = <<>>]
       ELSE pc' = [pc EXCEPT ![t] = "topics"] /\ UNCHANGED <<topics, frames>>
    /\ UNCHANGED <<serverVars, todo, fifo, subVars, queue>>

-----------------------------------------------------------------------------
(* Broadcasts, outside the MVar *)

\* Variants: a handler goes on before its frames are out, or when the subscribers have
\* drained their queues.
AllSentUnchecked(t) == TRUE

AllSentAndDrained(t) ==
    (\A i \in DOMAIN todo[t] : todo[t][i].to = {}) /\ (\A s \in Subs : queue[s] = <<>>)

\* The last broadcast of t has reached the queues of all its subscribers.
AllSent(t) == \A i \in DOMAIN todo[t] : todo[t][i].to = {}

\* broadcastTopics: the state and the subscribers as they are now, not at the commit.  All
\* topics are rendered in this step; the code reads style.env when it is the turn of "style".
BroadcastTopics(t) ==
    /\ pc[t] = "topics"
    /\ todo' = [todo EXCEPT ![t] =
                   [i \in DOMAIN topics[t] |->
                       [frame |-> StateFrame("state", topics[t][i]),
                        to |-> {s \in subscribers : WantsSnapshots(s, topics[t][i])}]]]
    /\ topics' = [topics EXCEPT ![t] = <<>>]
    /\ pc' = [pc EXCEPT ![t] = "events"]
    /\ UNCHANGED <<serverVars, effects, frames, failed, fifo, subVars, queue, effectFailures,
                   faults>>

\* broadcastEventFrames: the frames of the commit, the subscribers as they are now.
BroadcastEvents(t) ==
    /\ pc[t] = "events" /\ AllSent(t)
    /\ todo' = [todo EXCEPT ![t] =
                   [i \in DOMAIN frames[t] |->
                       [frame |-> frames[t][i],
                        to |-> {s \in subscribers : WantsEvents(s, frames[t][i].topic)}]]]
    /\ frames' = [frames EXCEPT ![t] = <<>>]
    /\ pc' = [pc EXCEPT ![t] = "status"]
    /\ UNCHANGED <<serverVars, effects, topics, failed, fifo, subVars, queue, effectFailures,
                   faults>>

\* Variant: every frame has a writer thread of its own.
SendFrameForked(t, s) ==
    \E i \in DOMAIN todo[t] :
        /\ s \in todo[t][i].to
        /\ queue' = [queue EXCEPT ![s] = Append(@, todo[t][i].frame)]
        /\ todo' = [todo EXCEPT ![t][i].to = @ \ {s}]
        /\ UNCHANGED <<serverVars, pc, effects, topics, frames, failed, fifo, subVars,
                       effectFailures, faults>>

\* One writeChan: frame by frame, each to its subscribers one by one.
SendFrame(t, s) ==
    \E i \in DOMAIN todo[t] :
        /\ s \in todo[t][i].to
        /\ \A j \in 1..(i - 1) : todo[t][j].to = {}
        /\ queue' = [queue EXCEPT ![s] = Append(@, todo[t][i].frame)]
        /\ todo' = [todo EXCEPT ![t][i].to = @ \ {s}]
        /\ UNCHANGED <<serverVars, pc, effects, topics, frames, failed, fifo, subVars,
                       effectFailures, faults>>

\* broadcastEffectStatusEvents: one more event per failed effect, under the MVar again.
IssueStatus(t) ==
    /\ pc[t] = "status" /\ AllSent(t) /\ failed[t] > 0
    /\ IssueEvents(t, [i \in 1..failed[t] |-> ActionFailed])
    /\ failed' = [failed EXCEPT ![t] = 0]
    /\ pc' = [pc EXCEPT ![t] = "events"]
    /\ UNCHANGED <<runtimeState, styleFile, effects, topics, todo, fifo, subVars, queue,
                   effectFailures, faults>>

\* The end of the handler, where a client is answered and its connection closed.
Finish(t) ==
    /\ pc[t] = "status" /\ AllSent(t) /\ failed[t] = 0
    /\ todo' = [todo EXCEPT ![t] = <<>>]
    /\ pc' = [pc EXCEPT ![t] = "idle"]
    /\ UNCHANGED <<serverVars, effects, topics, frames, failed, fifo, subVars, queue,
                   effectFailures, faults>>

-----------------------------------------------------------------------------
(* Subscriptions *)

Register(s) ==
    /\ phase[s] = "absent"
    /\ \E r \in SubRequests : request' = [request EXCEPT ![s] = r]
    /\ subscribers' = subscribers \cup {s}
    /\ phase' = [phase EXCEPT ![s] = "registered"]
    /\ registeredAt' = [registeredAt EXCEPT ![s] = nextEventSeq]
    /\ UNCHANGED <<serverVars, threadVars, fifo, peerUp, received, queue, effectFailures, faults>>

InitialFrames(s) ==
    LET type == IF request[s].mode = "snapshots" THEN "state" ELSE "snapshot"
    IN  IF request[s].mode = "snapshots" \/ request[s].bootstrap
        THEN [i \in 1..Len(request[s].topics) |-> StateFrame(type, request[s].topics[i])]
        ELSE <<>>

\* sendInitialState, from a state read after the registration.  The topics are written one
\* by one, and style.env is read again when it is the turn of style.
SendInitialState(s) ==
    /\ phase[s] = "registered"
    /\ IF peerUp[s] \/ InitialFrames(s) = <<>>
       THEN /\ received' = [received EXCEPT ![s] = InitialFrames(s)]
            /\ phase' = [phase EXCEPT ![s] =
                            IF InitialFrames(s) # <<>> /\ WantsTopic(s, "style")
                            THEN "initial" ELSE "streaming"]
       ELSE /\ phase' = [phase EXCEPT ![s] = "leaving"]
            /\ UNCHANGED received
    /\ UNCHANGED <<serverVars, threadVars, fifo, subscribers, request, peerUp, registeredAt,
                   queue, effectFailures, faults>>

\* The turn of style, and of the topics behind it.
SendInitialStyle(s) ==
    /\ phase[s] = "initial"
    /\ IF peerUp[s]
       THEN /\ received' = [received EXCEPT ![s] =
                               [i \in 1..Len(@) |->
                                   IF @[i].topic = "style" THEN StateFrame(@[i].type, "style")
                                   ELSE @[i]]]
            /\ phase' = [phase EXCEPT ![s] = "streaming"]
       ELSE /\ phase' = [phase EXCEPT ![s] = "leaving"]
            /\ UNCHANGED received
    /\ UNCHANGED <<serverVars, threadVars, fifo, subscribers, request, peerUp, registeredAt,
                   queue, effectFailures, faults>>

\* readChan, then a write that fails when the peer is gone.
Deliver(s) ==
    /\ phase[s] = "streaming"
    /\ queue[s] # <<>>
    /\ queue' = [queue EXCEPT ![s] = Tail(@)]
    /\ IF peerUp[s]
       THEN /\ received' = [received EXCEPT ![s] = Append(@, Head(queue[s]))]
            /\ UNCHANGED phase
       ELSE /\ phase' = [phase EXCEPT ![s] = "leaving"]
            /\ UNCHANGED received
    /\ UNCHANGED <<serverVars, threadVars, fifo, subscribers, request, peerUp, registeredAt,
                   effectFailures, faults>>

\* The queue stays with broadcasts that read the list before.
RemoveSubscriber(s) ==
    /\ phase[s] = "leaving"
    /\ subscribers' = subscribers \ {s}
    /\ phase' = [phase EXCEPT ![s] = "gone"]
    /\ UNCHANGED <<serverVars, threadVars, fifo, request, peerUp, received, registeredAt, queue,
                   effectFailures, faults>>

Served(s) == phase[s] \in {"registered", "initial", "streaming"}

PeerCloses(s) ==
    /\ Served(s)
    /\ peerUp[s]
    /\ faults < MaxFaults
    /\ faults' = faults + 1
    /\ peerUp' = [peerUp EXCEPT ![s] = FALSE]
    /\ UNCHANGED <<serverVars, threadVars, fifo, subscribers, request, phase, received,
                   registeredAt, queue, effectFailures>>

-----------------------------------------------------------------------------
HandlerStep(t) ==
    \/ EffectSucceeds(t) \/ EffectFails(t) \/ EffectThrows(t)
    \/ BroadcastTopics(t) \/ BroadcastEvents(t)
    \/ \E s \in Subs : SendFrame(t, s)
    \/ IssueStatus(t) \/ Finish(t)

SubscriptionStep(s) ==
    SendInitialState(s) \/ SendInitialStyle(s) \/ Deliver(s) \/ RemoveSubscriber(s)

\* No handler runs and no subscription that is served has a frame to deliver.
Quiescent ==
    /\ \A t \in Threads : pc[t] \in {"idle", "dead"}
    /\ \A s \in Subs : /\ phase[s] \in {"absent", "streaming", "gone"}
                       /\ phase[s] = "streaming" => queue[s] = <<>>

\* The daemon may wait for ever for the next request, and only then.
Rest == Quiescent /\ UNCHANGED vars

Next ==
    \/ \E c \in Clients : ClientCommand(c)
    \/ \E p \in Producers : ProducerFrame(p)
    \/ FifoLine
    \/ FifoReopens
    \/ WriteLine
    \/ \E t \in Threads : HandlerStep(t)
    \/ \E s \in Subs : Register(s) \/ SubscriptionStep(s) \/ PeerCloses(s)
    \/ Rest

Spec == Init /\ [][Next]_vars

\* The scheduler of the GHC runtime runs every thread that can run; nothing makes a
\* request or a disconnection happen.
Fairness ==
    /\ \A t \in Threads : WF_vars(HandlerStep(t))
    /\ \A s \in Subs : WF_vars(SubscriptionStep(s))

FairSpec == Spec /\ Fairness

-----------------------------------------------------------------------------
(* Properties *)

Sequence(q) == Len(q) \in Nat /\ q = [i \in 1..Len(q) |-> q[i]]

\* The counters, lists and program counters have the shape the handlers rely on, and a
\* thread is at its effects exactly as long as it has any.
TypeOK ==
    /\ nextEventSeq \in Nat \ {0}
    /\ subscribers \subseteq Subs
    /\ pc \in [Threads -> PCs]
    /\ \A t \in Threads : pc[t] = "effects" <=> effects[t] # <<>>
    /\ failed \in [Threads -> Nat]
    /\ phase \in [Subs -> Phases]
    /\ peerUp \in [Subs -> BOOLEAN]
    /\ request \in [Subs -> SubRequests \cup {NoRequest}]
    /\ registeredAt \in [Subs -> Nat]
    /\ effectFailures \in [Threads -> Nat]
    /\ faults \in Nat

\* The subscription was in the list before event q was issued, and asked for it.
Owed(s, q) ==
    /\ Served(s)
    /\ q >= registeredAt[s]
    /\ WantsEvents(s, issued[q].topic)

\* Thread t will put event q into the queue of s, or would if its broadcast had begun.
Holds(t, s, q) ==
    \/ \E i \in DOMAIN frames[t] : frames[t][i].seq = q
    \/ \E i \in DOMAIN todo[t] : todo[t][i].frame.seq = q /\ s \in todo[t][i].to

Carries(seq, q) == \E i \in DOMAIN seq : seq[i].seq = q

\* An event issued after a subscription was registered, on a topic it asked for, is
\* with the handler that issued it, in the subscription's queue or received, although
\* the subscriber list is read long after the event took its number.  Only the end of
\* the handler thread itself (fifoLoop, on an exception) loses events.
NoEventLost ==
    \A s \in Subs : \A q \in DOMAIN issued :
        Owed(s, q) => \/ Holds(issued[q].by, s, q)
                      \/ Carries(queue[s], q)
                      \/ Carries(received[s], q)
                      \/ pc[issued[q].by] = "dead"

\* What NoEventLost needs to be inductive: who holds which frames at which program
\* counter, and that a frame is the event its number names.
EventsAreNumbered ==
    /\ nextEventSeq \in Nat \ {0}
    /\ Sequence(issued) /\ Len(issued) = nextEventSeq - 1
    /\ \A q \in DOMAIN issued : issued[q].by \in Threads
    /\ DOMAIN frames = Threads
    /\ \A t \in Threads : \A i \in DOMAIN frames[t] :
          /\ frames[t][i].seq \in DOMAIN issued
          /\ frames[t][i].topic = issued[frames[t][i].seq].topic

ThreadsHoldFrames ==
    /\ pc \in [Threads -> PCs]
    /\ failed \in [Threads -> Nat]
    /\ DOMAIN todo = Threads
    /\ \A t \in Threads :
          /\ frames[t] # <<>> => pc[t] \in {"effects", "topics", "events"}
          /\ todo[t] # <<>> => pc[t] \in {"events", "status"}
          /\ \A i \in DOMAIN todo[t] :
                todo[t][i] = [frame |-> todo[t][i].frame, to |-> todo[t][i].to]

SubscriptionsAreListed ==
    /\ phase \in [Subs -> Phases]
    /\ request \in [Subs -> SubRequests \cup {NoRequest}]
    /\ registeredAt \in [Subs -> Nat]
    /\ DOMAIN queue = Subs /\ DOMAIN received = Subs
    /\ \A s \in Subs :
          /\ Sequence(queue[s]) /\ Sequence(received[s])
          /\ s \in subscribers <=> phase[s] \in {"registered", "initial", "streaming", "leaving"}
          /\ phase[s] \in {"absent", "registered"} => received[s] = <<>>
          /\ phase[s] = "initial" =>
                \A i \in DOMAIN received[s] :
                    received[s][i].type # "event" /\ received[s][i].seq = 0

\* Numbers, holders and subscriptions agree, and no event is lost.
BusInvariant ==
    EventsAreNumbered /\ ThreadsHoldFrames /\ SubscriptionsAreListed /\ NoEventLost

\* The frames that reached a subscription or are on their way.
Stream(s) == received[s] \o queue[s]

EventOf(t, frame) == frame.type = "event" /\ issued[frame.seq].by = t

\* The events of thread t stand in the order of their numbers.
Ascending(t, seq) ==
    \A i, j \in DOMAIN seq :
        i < j /\ EventOf(t, seq[i]) /\ EventOf(t, seq[j]) => seq[i].seq < seq[j].seq

\* The events of one thread reach a subscription in the order of their numbers, and
\* each at most once, whatever the other threads put between them.
SourceOrder == \A s \in Subs, t \in Threads : Ascending(t, Stream(s))

\* What a client that keeps the entries of the last RESET frame sees of a topic.
View(s, topic) ==
    LET last == SelectLastInSeq(received[s], LAMBDA f : f.topic = topic /\ f.reset)
    IN  IF last = 0 THEN <<>> ELSE received[s][last].value

Current(topic) == TopicEntries(topic, runtimeState, styleFile)

\* A client that was given the initial state and is still served, at rest.
Settled(s) ==
    /\ Quiescent
    /\ phase[s] = "streaming" /\ peerUp[s]
    /\ request[s].mode = "snapshots" \/ request[s].bootstrap

\* The RESET frames of a topic that such a client takes: the initial one, and the events
\* issued since its registration.
Resets(s, topic) ==
    {i \in DOMAIN received[s] :
        /\ received[s][i].topic = topic /\ received[s][i].reset
        /\ received[s][i].seq = 0 \/ received[s][i].seq >= registeredAt[s]}

\* When the daemon is at rest, a client that compares SEQ numbers itself and ignores
\* events older than its registration is up to date: the newest RESET event it received
\* carries the topic's entries, and the initial ones still hold where there is none.
\* session is never announced when the backdrop it shows changes.
NewestIsCurrent ==
    \A s \in Subs : Settled(s) /\ request[s].mode = "events" =>
        \A topic \in Range(request[s].topics) \ {"session"} :
            \E i \in Resets(s, topic) :
                /\ \A j \in Resets(s, topic) : received[s][j].seq <= received[s][i].seq
                /\ received[s][i].value = Current(topic)

\* Every event that was owed is received, unless the subscriber goes away first.
Delivered(s, q) ==
    (q \in DOMAIN issued /\ Owed(s, q)) ~> (Carries(received[s], q) \/ ~ Served(s))

LastEvent == MaxEvents + 6

EventuallyDelivered == \A s \in Subs, q \in 1..LastEvent : Delivered(s, q)

\* Every command is carried through to its answer.
CommandsFinish == \A t \in Threads : [](pc[t] # "idle" => <>(pc[t] \in {"idle", "dead"}))

-----------------------------------------------------------------------------
(* What the documents say and the interleavings do not keep *)

\* "sequenced `event` frames" (doc/README.haskell-runtime-architecture.md:120,216):
\* a subscription receives events in the order of their SEQ numbers.
SequencedDelivery ==
    \A s \in Subs :
        LET stream == Stream(s)
        IN  \A i, j \in DOMAIN stream :
                i < j /\ stream[i].type = "event" /\ stream[j].type = "event"
                => stream[i].seq < stream[j].seq

\* "bootstrap from runtime snapshots and stay current through callback-driven topic
\* updates" (README.md:38-42): at rest, what the last frame says is the state.
StaysCurrent ==
    \A s \in Subs : Settled(s) =>
        \A topic \in Range(request[s].topics) \ {"session"} : View(s, topic) = Current(topic)

OneWriter == \A p, q \in DOMAIN issued : issued[p].by = issued[q].by

\* As long as a single thread has issued events, both promises hold as they stand.
OneWriterSuffices == OneWriter => StaysCurrent /\ SequencedDelivery

\* The reports of failed effects among the events of thread t.
Reports(t) ==
    {q \in DOMAIN issued :
        issued[q].by = t /\ ~ issued[q].reset /\ issued[q].value = ActionFailed.value}

\* "surfaces backend action failures as `backend-action-failed` events on the session
\* topic instead of silently swallowing effect errors"
\* (doc/README.haskell-runtime-architecture.md:218-219).
FailuresSurfaced ==
    Quiescent => \A t \in Threads : effectFailures[t] = Cardinality(Reports(t))

-----------------------------------------------------------------------------
(* The serial machine and the event bus this module implements *)

\* Commits of concurrent handlers are commands of the serial machine, one by one.
ImplementsSerial == SerialSpec

\* The events among the frames a subscription received, and their places.
Arrivals(q) ==
    {[place |-> i, seq |-> q[i].seq] : i \in {j \in DOMAIN q : q[j].type = "event"}}

\* The topics a subscription gets events of.
Wanted(s) == IF request[s].mode = "events" THEN Range(request[s].topics) ELSE {}

Bus == INSTANCE EventBus
         WITH log <- [q \in DOMAIN issued |-> issued[q].topic],
              member <- subscribers,
              wants <- [s \in Subs |-> Wanted(s)],
              since <- registeredAt,
              got <- [s \in Subs |-> Arrivals(received[s])]

\* Events reach subscriptions as the bus promises, each at most once.
ImplementsBus == Bus!Spec
=============================================================================
