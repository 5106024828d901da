----------------------------- MODULE Backdropd -----------------------------
(***************************************************************************)
(* nscde_backdropd: one thread that follows the runtime's backdrops topic  *)
(* and replaces one swaybg process per output whenever it changes.  Its    *)
(* partners run beside it: the daemon, which announces changes, stops and  *)
(* starts; the children, which need time between fork and exec and between *)
(* a signal and their end; and whoever sends SIGTERM or SIGINT.            *)
(*                                                                         *)
(* A value of the topic stands for everything backdrop_contents_changed    *)
(* compares.  It always has a colour (a default replaces an empty one), so *)
(* outputs are always probed and children always started.  Reads of parts  *)
(* of frames belong to the client library.  Writes of backdrops.env are    *)
(* taken to succeed.                                                       *)
(***************************************************************************)
EXTENDS Integers, Sequences

CONSTANTS Values,       \* values of the backdrops topic
          Layouts,      \* output lists a probe can come to, or <<"default">>
          MaxOutputs,   \* MAX_OUTPUTS
          MaxChanges,   \* bound on changes of the topic
          MaxFaults,    \* bound on daemon stops, fork, exec and child failures
          MaxSignals    \* bound on signals to backdropd

NoValue == "unset"

ASSUME BackdropdAssumption ==
    /\ NoValue \notin Values
    /\ Layouts \subseteq Seq(STRING) \ {<<>>}
    /\ \A layout \in Layouts : Len(layout) <= MaxOutputs
    /\ MaxOutputs \in Nat /\ MaxChanges \in Nat /\ MaxFaults \in Nat /\ MaxSignals \in Nat

VARIABLES
    \* the daemon's topic, its connection to backdropd: events queued, frames written
    topic, daemonUp, connection, events, socket,
    \* backdropd: program counter, loop index of the process table, flags and fields
    pc, slot, running, leaving, onceMode, value, processes,
    \* backdrops.env
    mirror,
    \* children whose pid backdropd no longer has
    orphans,
    \* counters of the bounds
    changes, faults, signals

daemonVars == <<topic, daemonUp, connection, events, socket>>
mainVars == <<pc, slot, running, leaving, onceMode, value, processes>>
boundVars == <<changes, faults, signals>>
vars == <<daemonVars, mainVars, mirror, orphans, boundVars>>

\* Of a child: "none" is pid -1; "forked" is before exec, with backdropd's own signal
\* handler still installed; "dying" has a signal it will not survive; "dead" waits to
\* be reaped.
ChildStates == {"none", "forked", "showing", "dying", "dead"}

Over == pc \in {"ended", "failed"}

Fault == faults < MaxFaults /\ faults' = faults + 1

Init ==
    /\ topic \in Values /\ daemonUp \in BOOLEAN
    /\ connection = "none" /\ events = <<>> /\ socket = <<>>
    /\ pc = "query" /\ slot = 1
    /\ running = TRUE /\ leaving = FALSE /\ onceMode \in BOOLEAN
    /\ value = NoValue /\ processes = <<>>
    /\ mirror = [value |-> NoValue, outputs |-> <<>>]
    /\ orphans = {}
    /\ changes = 0 /\ faults = 0 /\ signals = 0

-----------------------------------------------------------------------------
(* Replacing the children: apply_backdrop_values, restart_backdrop_processes *)

\* The children are replaced from here to the end of the spawn loop.
Apply(v) ==
    /\ value' = v
    /\ pc' = "stop"
    /\ slot' = 1

SetState(s) == processes' = [processes EXCEPT ![slot].state = s]

\* Variant: the children are not waited for.
KillChildAndGoOn ==
    /\ pc = "stop" /\ slot <= Len(processes) /\ processes[slot].state # "none"
    /\ orphans' = orphans \cup {[processes[slot] EXCEPT !.state = "dying"]}
    /\ SetState("none")
    /\ slot' = slot + 1
    /\ UNCHANGED <<daemonVars, pc, running, leaving, onceMode, value, mirror, boundVars>>

\* The kill of stop_swaybg_processes.  A child that has not reached exec runs
\* backdropd's handler and goes on, unless the signal is still pending at exec.
KillChild ==
    /\ pc = "stop" /\ slot <= Len(processes)
    /\ LET state == processes[slot].state
       IN  \/ state = "showing" /\ SetState("dying")
           \/ state = "forked" /\ \E s \in {"forked", "dying"} : SetState(s)
           \/ state = "dead" /\ UNCHANGED processes
    /\ pc' = "wait"
    /\ UNCHANGED <<daemonVars, slot, running, leaving, onceMode, value, mirror, orphans, boundVars>>

SkipEmptySlot ==
    /\ pc = "stop" /\ slot <= Len(processes) /\ processes[slot].state = "none"
    /\ slot' = slot + 1
    /\ UNCHANGED <<daemonVars, pc, running, leaving, onceMode, value, processes, mirror,
                   orphans, boundVars>>

\* waitpid returns.
ReapChild ==
    /\ pc = "wait" /\ processes[slot].state = "dead"
    /\ SetState("none")
    /\ slot' = slot + 1
    /\ pc' = "stop"
    /\ UNCHANGED <<daemonVars, running, leaving, onceMode, value, mirror, orphans, boundVars>>

StopEnds ==
    /\ pc = "stop" /\ slot > Len(processes)
    /\ pc' = IF leaving THEN "ended" ELSE "probe"
    /\ UNCHANGED <<daemonVars, slot, running, leaving, onceMode, value, processes, mirror,
                   orphans, boundVars>>

\* The table refresh_output_targets makes of the compositor's answer.
EmptyTable(layout) ==
    [i \in 1..Len(layout) |-> [output |-> layout[i], state |-> "none", value |-> value]]

WriteMirror(layout) == mirror' = [value |-> value, outputs |-> layout]

\* Variant: the spawn loop goes on where the stop loop ended.
ProbeKeepsIndex ==
    /\ pc = "probe"
    /\ \E layout \in Layouts : processes' = EmptyTable(layout) /\ WriteMirror(layout)
    /\ pc' = "spawn"
    /\ UNCHANGED <<daemonVars, slot, running, leaving, onceMode, value, orphans, boundVars>>

\* refresh_output_targets, then write_backdrops_env.
Probe ==
    /\ pc = "probe"
    /\ \E layout \in Layouts : processes' = EmptyTable(layout) /\ WriteMirror(layout)
    /\ pc' = "spawn" /\ slot' = 1
    /\ UNCHANGED <<daemonVars, running, leaving, onceMode, value, orphans, boundVars>>

SpawnChild ==
    /\ pc = "spawn" /\ slot <= Len(processes)
    /\ slot' = slot + 1
    /\ \/ SetState("forked") /\ UNCHANGED faults
       \/ Fault /\ UNCHANGED processes                      \* fork failed
    /\ UNCHANGED <<daemonVars, pc, running, leaving, onceMode, value, mirror, orphans,
                   changes, signals>>

\* Back to the caller: the frame handler when there is a subscription, else main.
SpawnEnds ==
    /\ pc = "spawn" /\ slot > Len(processes)
    /\ pc' = IF onceMode THEN "ended"
             ELSE IF connection # "none" THEN "drain" ELSE "check"
    /\ UNCHANGED <<daemonVars, slot, running, leaving, onceMode, value, processes, mirror,
                   orphans, boundVars>>

-----------------------------------------------------------------------------
(* main *)

ApplyEnvironment ==
    /\ pc = "query" /\ onceMode
    /\ \E v \in Values : Apply(v)
    /\ UNCHANGED <<daemonVars, running, leaving, onceMode, processes, mirror, orphans, boundVars>>

Query ==
    /\ pc = "query" /\ daemonUp
    /\ Apply(topic)
    /\ UNCHANGED <<daemonVars, running, leaving, onceMode, processes, mirror, orphans, boundVars>>

\* The attempts, 50 of them, are used up; a failed attempt changes nothing.
QueryGivesUp ==
    /\ pc = "query" /\ ~daemonUp
    /\ pc' = "failed"
    /\ UNCHANGED <<daemonVars, slot, running, leaving, onceMode, value, processes, mirror,
                   orphans, boundVars>>

\* Variant: main returns without the last stop.
LoopTestThenReturn ==
    /\ pc = "check"
    /\ \/ /\ running
          /\ pc' = IF connection = "none" THEN "subscribe" ELSE "watch"
          /\ UNCHANGED <<connection, events, socket>>
       \/ /\ ~running
          /\ connection' = "none" /\ events' = <<>> /\ socket' = <<>> /\ pc' = "ended"
    /\ UNCHANGED <<topic, daemonUp, slot, running, leaving, onceMode, value, processes, mirror,
                   orphans, boundVars>>

\* Variant: the flag is read only while there is no subscription.
LoopTestWhenUnsubscribed ==
    /\ pc = "check"
    /\ \/ /\ running \/ connection # "none"
          /\ pc' = IF connection = "none" THEN "subscribe" ELSE "watch"
          /\ UNCHANGED <<slot, leaving>>
       \/ ~running /\ connection = "none" /\ leaving' = TRUE /\ slot' = 1 /\ pc' = "stop"
    /\ UNCHANGED <<daemonVars, running, onceMode, value, processes, mirror, orphans, boundVars>>

\* The loop's test, and what follows when it fails: teardown, then the last stop.
LoopTest ==
    /\ pc = "check"
    /\ \/ /\ running
          /\ pc' = IF connection = "none" THEN "subscribe" ELSE "watch"
          /\ UNCHANGED <<connection, events, socket, slot, leaving>>
       \/ /\ ~running
          /\ connection' = "none" /\ events' = <<>> /\ socket' = <<>>
          /\ leaving' = TRUE /\ slot' = 1 /\ pc' = "stop"
    /\ UNCHANGED <<topic, daemonUp, running, onceMode, value, processes, mirror, orphans, boundVars>>

\* Variant: the subscription asks for events without BOOTSTRAP.
SubscribeWithoutBootstrap ==
    /\ pc = "subscribe"
    /\ \/ daemonUp /\ connection' = "streaming" /\ pc' = "watch"
       \/ ~daemonUp /\ pc' = "failed" /\ UNCHANGED connection
    /\ UNCHANGED <<topic, daemonUp, events, socket, slot, running, leaving, onceMode, value,
                   processes, mirror, orphans, boundVars>>

\* setup_runtime_subscription; when it fails main returns without stopping the children.
Subscribe ==
    /\ pc = "subscribe"
    /\ \/ daemonUp /\ connection' = "asked" /\ pc' = "watch"
       \/ ~daemonUp /\ pc' = "failed" /\ UNCHANGED connection
    /\ UNCHANGED <<topic, daemonUp, events, socket, slot, running, leaving, onceMode, value,
                   processes, mirror, orphans, boundVars>>

\* From the registration of the watcher into poll, which has no timeout.
EnterPoll ==
    /\ pc = "watch"
    /\ pc' = "poll"
    /\ UNCHANGED <<daemonVars, slot, running, leaving, onceMode, value, processes, mirror,
                   orphans, boundVars>>

\* nscde_fd_reactor_run_once: a hangup goes to handle_runtime_fd_error, and only there,
\* also when there are frames to read.
PollReturns ==
    /\ pc = "poll"
    /\ \/ connection = "hangup" /\ running' = FALSE /\ pc' = "check"
       \/ connection # "hangup" /\ socket # <<>> /\ pc' = "drain" /\ UNCHANGED running
    /\ UNCHANGED <<daemonVars, slot, leaving, onceMode, value, processes, mirror, orphans, boundVars>>

\* Variant: what was received with a frame is dropped with it.
ReadFrameOnly ==
    /\ pc = "drain" /\ socket # <<>>
    /\ socket' = <<>>
    /\ IF Head(socket) # value THEN Apply(Head(socket)) ELSE UNCHANGED <<pc, slot, value>>
    /\ UNCHANGED <<topic, daemonUp, connection, events, running, leaving, onceMode, processes,
                   mirror, orphans, boundVars>>

\* One round of nscde_runtime_subscription_drain and handle_runtime_frame.
ReadFrame ==
    /\ pc = "drain" /\ socket # <<>>
    /\ socket' = Tail(socket)
    /\ IF Head(socket) # value THEN Apply(Head(socket)) ELSE UNCHANGED <<pc, slot, value>>
    /\ UNCHANGED <<topic, daemonUp, connection, events, running, leaving, onceMode, processes,
                   mirror, orphans, boundVars>>

\* Nothing left to read: the socket is empty, or closed and then torn down.
DrainEnds ==
    /\ pc = "drain" /\ socket = <<>>
    /\ pc' = "check"
    /\ connection' = IF connection = "hangup" THEN "none" ELSE connection
    /\ UNCHANGED <<topic, daemonUp, events, socket, slot, running, leaving, onceMode, value,
                   processes, mirror, orphans, boundVars>>

Main ==
    \/ KillChild \/ SkipEmptySlot \/ ReapChild \/ StopEnds \/ Probe \/ SpawnChild \/ SpawnEnds
    \/ ApplyEnvironment \/ Query \/ QueryGivesUp \/ LoopTest \/ Subscribe \/ EnterPoll
    \/ PollReturns \/ ReadFrame \/ DrainEnds

-----------------------------------------------------------------------------
(* Its partners *)

\* handle_signal.  It interrupts poll and waitpid: stop_swaybg_processes forgets the
\* child it was waiting for, ended or not.
Signal ==
    /\ signals < MaxSignals /\ ~Over
    /\ signals' = signals + 1
    /\ running' = FALSE
    /\ \/ pc = "poll" /\ pc' = "check" /\ UNCHANGED <<slot, processes, orphans>>
       \/ /\ pc = "wait" /\ processes[slot].state # "dead"
          /\ orphans' = orphans \cup {processes[slot]}
          /\ SetState("none") /\ slot' = slot + 1 /\ pc' = "stop"
       \/ /\ pc # "poll" /\ (pc = "wait" => processes[slot].state = "dead")
          /\ UNCHANGED <<pc, slot, processes, orphans>>
    /\ UNCHANGED <<daemonVars, leaving, onceMode, value, mirror, changes, faults>>

\* What a child does next by itself.
Progress == [forked |-> "showing", dying |-> "dead"]

ChildRuns(i) ==
    /\ i <= Len(processes) /\ processes[i].state \in DOMAIN Progress
    /\ processes' = [processes EXCEPT ![i].state = Progress[@]]
    /\ UNCHANGED <<daemonVars, pc, slot, running, leaving, onceMode, value, mirror, orphans, boundVars>>

\* exec fails, or swaybg ends: backdropd does not notice.
ChildFails(i) ==
    /\ i <= Len(processes) /\ processes[i].state \in {"forked", "showing"}
    /\ Fault
    /\ processes' = [processes EXCEPT ![i].state = "dead"]
    /\ UNCHANGED <<daemonVars, pc, slot, running, leaving, onceMode, value, mirror, orphans,
                   changes, signals>>

OrphanRuns(child) ==
    /\ \/ child.state = "forked" /\ orphans' = (orphans \ {child}) \cup {[child EXCEPT !.state = "showing"]}
       \/ child.state = "dying" /\ orphans' = orphans \ {child}
    /\ UNCHANGED <<daemonVars, mainVars, mirror, boundVars>>

\* A command commits another backdrop; served subscriptions are queued an event.
TopicChanges ==
    /\ daemonUp /\ changes < MaxChanges
    /\ changes' = changes + 1
    /\ topic' \in Values \ {topic}
    /\ events' = IF connection \in {"registered", "streaming"} THEN Append(events, topic') ELSE events
    /\ UNCHANGED <<daemonUp, connection, socket, mainVars, mirror, orphans, faults, signals>>

\* The daemon's side of a subscription: register, send the snapshot, then the events.
ServeSubscription ==
    /\ \/ connection = "asked" /\ connection' = "registered" /\ UNCHANGED <<events, socket>>
       \/ /\ connection = "registered" /\ connection' = "streaming"
          /\ socket' = Append(socket, topic) /\ UNCHANGED events
       \/ /\ connection = "streaming" /\ events # <<>>
          /\ socket' = Append(socket, Head(events)) /\ events' = Tail(events)
          /\ UNCHANGED connection
    /\ UNCHANGED <<topic, daemonUp, mainVars, mirror, orphans, boundVars>>

DaemonStops ==
    /\ daemonUp /\ Fault
    /\ daemonUp' = FALSE
    /\ connection' = IF connection = "none" THEN "none" ELSE "hangup"
    /\ events' = <<>>
    /\ UNCHANGED <<topic, socket, mainVars, mirror, orphans, changes, signals>>

DaemonStarts ==
    /\ ~daemonUp
    /\ daemonUp' = TRUE
    /\ topic' \in Values
    /\ UNCHANGED <<connection, events, socket, mainVars, mirror, orphans, boundVars>>

Next ==
    \/ Main \/ Signal
    \/ \E i \in 1..MaxOutputs : ChildRuns(i) \/ ChildFails(i)
    \/ \E child \in orphans : OrphanRuns(child)
    \/ TopicChanges \/ ServeSubscription \/ DaemonStops \/ DaemonStarts

Spec == Init /\ [][Next]_vars

FairSpec ==
    /\ Spec
    /\ WF_vars(Main) /\ WF_vars(ServeSubscription)
    /\ \A i \in 1..MaxOutputs : WF_vars(ChildRuns(i))

-----------------------------------------------------------------------------
(* Properties *)

Children == [output: STRING, state: ChildStates, value: Values]

Live(child) == child.state \in {"forked", "showing", "dying"}

DaemonTypeOK ==
    /\ topic \in Values /\ daemonUp \in BOOLEAN
    /\ connection \in {"none", "asked", "registered", "streaming", "hangup"}
    /\ events \in Seq(Values) /\ socket \in Seq(Values)

TableTypeOK ==
    /\ processes \in Seq(Children)
    /\ slot \in 1..Len(processes) + 1
    /\ orphans \subseteq Children

TypeOK ==
    /\ DaemonTypeOK
    /\ TableTypeOK
    /\ pc \in {"query", "stop", "wait", "probe", "spawn", "check", "subscribe", "watch",
               "poll", "drain", "ended", "failed"}
    /\ running \in BOOLEAN /\ leaving \in BOOLEAN /\ onceMode \in BOOLEAN
    /\ value \in Values \cup {NoValue}
    /\ mirror \in [value: Values \cup {NoValue}, outputs: Layouts \cup {<<>>}]
    /\ changes \in 0..MaxChanges /\ faults \in 0..MaxFaults /\ signals \in 0..MaxSignals

\* Whenever backdropd waits with nothing left to receive, the children and backdrops.env
\* show the newest value, also when the topic changed between its query and its
\* subscription, before the snapshot, or while the children were being replaced.
ShowsNewest ==
    (pc = "poll" /\ connection = "streaming" /\ socket = <<>> /\ events = <<>>)
    => /\ value = topic
       /\ mirror = [value |-> topic, outputs |-> [i \in 1..Len(processes) |-> processes[i].output]]
       /\ \A i \in 1..Len(processes) : Live(processes[i]) => processes[i].value = topic

LiveChildren == {child \in orphans \cup {processes[i] : i \in 1..Len(processes)} : Live(child)}

\* Before a signal ends it, backdropd never has swaybg processes of two backdrops alive
\* at the same time, slow ones and those it no longer knows included: all old ones are
\* reaped before the first new one is forked.
OneBackdrop == running => \A a, b \in LiveChildren : a.value = b.value

AllReaped(table, n) == \A i \in 1..n : table[i].state = "none"

\* A child is only ever forgotten while backdropd is being stopped: the table is
\* overwritten by the next probe, or given up at an orderly end, when every child in it
\* has been reaped.
NoneForgotten ==
    /\ orphans # {} => ~running
    /\ pc = "probe" \/ (pc = "ended" /\ ~onceMode) => AllReaped(processes, Len(processes))

\* The inductive invariant: the table holds children of one backdrop, and the stop loop
\* has reaped those before its index.
TableInvariant ==
    /\ pc = "wait" => slot <= Len(processes)
    /\ pc \in {"stop", "wait"} => AllReaped(processes, slot - 1)
    /\ \A i, j \in 1..Len(processes) : processes[i].value = processes[j].value

ChildrenInvariant ==
    /\ TypeOK
    /\ pc \notin {"query", "failed"} => value \in Values
    /\ TableInvariant
    /\ NoneForgotten

\* backdropd waits for a child that never saw its SIGTERM.
Stuck == pc = "wait" /\ processes[slot].state \in {"forked", "showing"}

Shown(v) ==
    /\ value = v
    /\ pc \notin {"stop", "wait", "probe", "spawn"}
    /\ \A i \in 1..Len(processes) :
          processes[i].state = "showing" \/ (faults > 0 /\ processes[i].state \in {"none", "dead"})

\* A backdrop is eventually shown on every probed output, or replaced by the next one,
\* unless backdropd is over or stuck: nothing is lost between frames, readiness and the
\* replacement of the children.
BackdropFollows ==
    \A v \in Values : (topic = v /\ ~onceMode) ~> (Shown(v) \/ topic # v \/ Stuck \/ Over)

\* A signal or a hangup ends backdropd, except one that arrives between the loop's test
\* and poll: it is noticed when the next frame arrives, if one does.
StopsWhenTold ==
    (~running /\ pc \notin {"subscribe", "watch", "poll"}) ~> (Stuck \/ Over)

\* README.md:39-41: nscde_backdropd "now bootstrap[s] from runtime snapshots and stay[s]
\* current through callback-driven topic updates".
BackdropStaysCurrent == \A v \in Values : (topic = v /\ ~onceMode) ~> (Shown(v) \/ topic # v \/ Over)
=============================================================================
