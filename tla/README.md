# Formal models of the NsCDE Wayland runtime

This directory holds TLA+ models of the NsCDE Wayland runtime, TLC configurations
that check them on small instances, and TLAPS proofs of the results that should hold
for every instance. Paths below are relative to the repository.

## 1. The system

A desktop session on the labwc compositor is a handful of processes around one
daemon, `nscde-runtime daemon` (Haskell), which owns the normalized session state:
workspaces and the current one, the window list, the style (palette, front panel
variant, focus policy, desk backdrops) and what follows from them, the backdrop of the
current desk. Everybody else reads *topics* (`session`, `panel`, `workspaces`,
`backdrops`, `windows`, `style`, ...) and sends *commands*.

```
   PyQt tools, panel, menus                    nscde_pagerd        nscde_toplevel
        |  commands, queries                        | publish-stream     |
        v                                           v                    v
   runtime.sock ---------------> nscde-runtime daemon <------- runtime command FIFO
                                  | one MVar: ServerState             (lines)
                                  | style.env, *.env files
        subscribe-events /        | effects: lines to the pager, toplevel and its own
        subscribe                 v FIFO, style artifacts, labwc reload, power
   nscde_paneld, nscde_backdropd, tools
```

| Component | Code | State | Operations | Hard behaviour | Correct when |
|---|---|---|---|---|---|
| Command handlers | `haskell/src/NsCDE/Runtime/State.hs`, `TopicState.hs` | `RuntimeState` | `handleRuntimeCommand`, `handleCompatCommandLine`, `publishProducerState` | each handler recomputes derived state and chooses the topics to announce by itself | derived state follows its sources, every change is announced, desks follow the workspaces' names |
| Style store | `Store/StyleState.hs`, `Parse/StyleState.hs` | `style.env` | read, merge, write | written before the commit it belongs to | memory is only ever what the file said |
| Daemon | `Runtime/Daemon.hs` | `MVar ServerState` (state, next sequence number, subscribers), a queue per subscription | one thread per connection, one for the FIFO | broadcasts and effects after the MVar is released; failures of effects, commits and peers | no event lost, none sent to the wrong subscriber, one order of commits, stream usable by a client |
| Protocol | `Runtime/Protocol.hs`, `Domain/Runtime.hs` | none | encode and decode frames | none | a frame means the same on both sides |
| C client library | `src/nscde_wayland_common/runtime-client.c` | frame buffer, topic caches, reactor watchers | subscribe, read, drain, publish | partial reads, several frames per read, hangup with data left | frames handed over once and in order; cache follows its contract |
| Workspace bridge | `src/nscde_pagerd/nscde_pagerd.c` | workspace slots, current name | compositor events, FIFO lines, publications | stale slot pointers, renames and switches crossing publications | daemon and compositor agree at rest |
| Window bridge | `src/nscde_toplevel/nscde_toplevel.c` | window slots | compositor events, FIFO lines, publications | commands by slot index, FIFO hangup | a command reaches the window it was meant for |
| Backdrop daemon | `src/nscde_backdropd/nscde_backdropd.c` | shown backdrop, swaybg processes | frames, spawn and stop | processes stopped between fork and exec, shared output file | one swaybg per output, showing the newest backdrop |
| Panel | `src/nscde_paneld/nscde_paneld.c` | panel state, surfaces, subpanel, frame callback | frames, pointer input, configure, closed | asynchronous surface lifecycle | a requested render is eventually shown |
| Policies, parsers, artifacts | `Policy/*`, `Parse/*`, `Backend/Labwc/*` | none | pure or one-shot | none | unit tests |

Interaction: connections are threads over one MVar; a command's effects are lines in
FIFOs (one of them the daemon's own), files and processes; a producer's frames are
commands of its own; subscribers are told through queues that broadcasts fill and
connection threads empty.

## 2. Modules

### RuntimeState: what a command does

Pure operators, no variables. `Handle(command, state, styleFile)` is
`handleRuntimeCommand`: its value is the code's `RuntimeTransition` (new state, topics,
event deltas, effects) with the new contents of `style.env`. Every constructor of
`RuntimeCommand` has an operator named after its handler; `publish-windows` and
`publish-workspaces` are the two ways a `CommandPublishState` or a producer's frame
acts. `TopicEntries` gives what a topic shows as the tuple of the state it renders, so
that "this topic has changed" is an inequality; the text of the entries is left out.
Names, palettes and images are model values (strings, with `""` for the null string). A
style file holds what was written, so that reading it is a conversion: front panel variants
and focus policies the parser does not know become its defaults. `appendMissing` is
`Outside` of the module `Lists`, a recursive function on the places of a list, which the
proofs can reason about.
The workspace list is kept as it is in the code, duplicates included. The fields no
command changes are left out, as are the colours inside a palette (a palette is its
file, or `""` when it cannot be read) and everything that follows from an image's name; the
mode of a backdrop is only whether one is named (a command without one is rejected).

### RuntimeCommands: one command at a time

`runtimeState` and `styleFile`, and two actions: `Execute` commits a handler's
result, `AbortAfterWrite` is an exception between the write of `style.env` and the
commit. `InitialStyles` are the style files the daemon may find at its start (State.hs:151
reads one that is there). This is the daemon as its users think of it, and the abstract specification of
`RuntimeDaemon`, which extends it: `SerialInit`, `SerialNext` and `SerialSpec` speak of the same
two variables as the threads do. It has no bound of its own: `MCRuntimeCommands` keeps the name list short.

### RuntimeDaemon: threads, effects, subscriptions

Every handler thread has a program counter:

| pc | code |
|---|---|
| `idle` | waiting for a request, a producer frame or a FIFO line |
| `effects` | inside `performRuntimeTransitionEffects` (one step per effect: it succeeds, reports failure, or throws) |
| `topics` | about to call `broadcastTopics` (reads the MVar: state and subscribers of *now*) |
| `events` | after it, about to call `broadcastEventFrames` (frames of the *commit*, subscribers of *now*) |
| `status` | after that, about to issue `backend-action-failed` events, or to answer |
| `dead` | thread or stream ended by an exception |

`Commit` is the body of `modifyMVar` in `handleRequest`, `applyProducerState` and
`applyCompatLine`, one step; `CommitAborts` is the same body when it throws.
`SendFrame` is one `writeChan`, so two broadcasts interleave frame by frame.
Subscriptions are connections with a phase (`absent`, `registered`, `initial`, `streaming`,
`leaving`, `gone`): `Register`, `SendInitialState` (from a state read later),
`SendInitialStyle` (the topics are written one by one, and `style.env` is read at the turn
of `style`: a command may have come in between), `Deliver`, `RemoveSubscriber`; `PeerCloses` is their peer. The FIFO's writers do not
block (`O_NONBLOCK`), so a full FIFO makes the effect fail. A written line parses back
to the command it was rendered from (names without `:` and line ends). At an end of
file the FIFO thread closes the FIFO and opens it again: `FifoReopens` drops what was
written in between.

`BroadcastTopics` renders all topics in one step, where the code reads `style.env` at the turn
of `style`. Only subscriptions in mode `snapshots` get these frames, and of the properties only
`StaysCurrent` reads theirs: it fails with two writers in any case, and with one
(`OneWriterSuffices`) nobody writes the file in between.

Left out: `hello` and `query`, which change nothing; requests rejected before they
reach the state; the end of a producer's connection (the thread is then simply idle);
environment files written at a commit other than as a cause of `CommitAborts`; start
and end of the daemon. History variables (`issued`, `registeredAt`, `effectFailures` for each
thread, `faults`) are read by guards only to bound the model (`MaxEvents`, `MaxFaults`).
`Requests` is what a thread may ever commit: the clients' requests, the producers' states and
what the FIFO's lines parse to are among them, and `SerialSpec` executes them one at a time.

### EventBus: what a subscription is promised

The abstract specification of the event stream: events are numbered, subscriptions
join and leave, and an event on a topic that was asked for reaches a member at most
once. What a subscription has got is a set of arrivals (a place in its stream and the
event's number), so that a second arrival of a number is not allowed. No order is
promised. `RuntimeDaemon` implements it with the frames of `received` as arrivals.

### Backdropd: one swaybg process per output

The whole of `nscde_backdropd`, one step per call that another process can interfere
with. The program counter follows `main` and the functions it calls:

| pc | code |
|---|---|
| `query` | the query with its retries, or the environment with `--once` |
| `stop`, `wait` | `stop_swaybg_processes`: before the kill of slot `slot`, in its `waitpid` |
| `probe`, `spawn` | `refresh_output_targets` with `write_backdrops_env`; the loop of forks |
| `check`, `subscribe` | the test of the main loop; `setup_runtime_subscription` |
| `watch`, `poll` | between that test and `poll`; inside `poll` |
| `drain` | `nscde_runtime_subscription_drain` |
| `ended`, `failed` | returned 0 or 1 |

A child is `forked` until it reaches exec: until then it has backdropd's signal handler,
so SIGTERM may do nothing to it. `dying` and `dead` separate the signal from the end.
`orphans` are children whose pid is lost because a signal interrupted their `waitpid`.
The daemon is reduced to its topic and one subscription (registered, then the snapshot,
then the events, as in `RuntimeDaemon` with one writer); it may stop and start again. A
value of the topic is all that `backdrop_contents_changed` compares, and an output list
(`Layouts`) all that a probe comes to, so truncation at `MAX_OUTPUTS` and the fallback to
one process without `-o` are lists like any other. Left out: writes of `backdrops.env`
that fail, and partial reads.

### RuntimeClient: the C client library

`runtime-client.c` in the hands of a program like the panel: one thread that polls a
subscription and from time to time makes a blocking request on another connection.

| pc | code |
|---|---|
| `subscribe` | before the subscription |
| `poll` | inside the reactor's `poll` |
| `drain` | `nscde_runtime_subscription_drain`: frames of the buffer, reads, frames again |
| `call` | a query or a control request that waits for its answer |
| `over` | the program has ended |

The daemon writes whole frames; a read cuts the stream anywhere, so that the buffer holds
whole frames and possibly a part of one (`partial`). A frame is handed over in one of two
ways, which the module keeps apart: raw, when it was complete in the buffer before the
read, or as the topic cache stands after the merge (`RESET`, overlays, `UNSET`). The
program's `on_error` drains what is left (`drainsOnError`) or does not. `Reject` is a
refused subscription, `DaemonStops` the end of the daemon. `sent`, `taken`, `handed` and
`missed` are history. The publisher's part of the library is in `Pagerd`.

### Pagerd and WorkspaceSync: the way of a workspace switch

`Pagerd` is the whole of `nscde_pagerd`: the listeners of ext-workspace (an event is
handled in the slot its listener points to, also when the table has been closed up since),
the lines of the FIFO (`ReadFifo` takes a read's lines and may cut the last one, `""` is
the rest of one; `CarryOut` carries out one after another, at `carry`), and `update_state`
with its two publications.

| pc | code |
|---|---|
| `roundtrip`, `synced` | in the second roundtrip; after it |
| `open` | the FIFO is open or not; before the publisher |
| `update`, `workspaces`, `pager` | `update_state`: entered, before the first, before the second publication |
| `poll`, `dispatch` | the loop: in `poll`; after it, dispatching events |
| `carry` | in `process_fifo_commands`, between two lines of one read |
| `over` | ended |

Several places call `update_state`; `resume` says which one it returns to. The publisher's
stream is one of `streams`, each a queue of frames with a thread of the daemon at the
other end, so frames of an old and a new stream may cross. `sigpipe` says that a write
which met SIGPIPE has returned: the program does not ignore the signal, so the first one
ends it unless it inherited an ignored one.

`WorkspaceSync` adds labwc (the user switches, creates, renames and removes; it ends; it
carries out activations) and the daemon: `SwitchCommand` commits, `SwitchEffect` writes
the line outside the MVar as in `RuntimeDaemon`, `HandleFrame` is the thread of a producer's
stream, and the daemon may stop and start again. What the daemon makes of a frame and of
a switch is `RuntimeState`'s.

### Toplevel and WindowSync: the way of a window command

`nscde_toplevel` in the same form, with what it does differently: the stream is opened
once, and a broken one stays; the FIFO is opened read-only, so that the end of its first
writer ends the program (`hup`); a command names its window by the number of its slot. At
`carry` the program is between two lines of one read. `WindowSync` adds labwc, the daemon's
windows topic and the commands: somebody picks a window in what the topic shows, and the
daemon opens the FIFO, writes and closes it in three steps (`WriteCommand`). A command
carries, as history, the window that was meant and the *epoch* of the list it was picked
from: how many windows had left the table by then.

### PanelLayout, Paneld and PanelSession: the panel

`PanelLayout` is the geometry of the front panel and its subpanels and the hit tests, as
pure operators with the metrics of the C layout contract. `Paneld` is the program:
start with two retry loops, subscription, rendering, subpanels, pointer.

| pc | code |
|---|---|
| `query`, `subscribe` | the loops that ask for every topic, and for the subscription, with their attempts |
| `drain` | what has arrived is handled before the display is opened |
| `connect`, `roundtrip`, `synced` | the display, in the roundtrip, after it |
| `poll`, `dispatch` | the loop |
| `over` | ended |

Rendering draws into one of two buffers that is not busy, asks for a frame callback and
commits; without a free buffer nothing is drawn, and `lost` remembers that. `sp` is the
record of the subpanel's surface. `open_subpanel` waits in a roundtrip that dispatches
events, among them presses which open or close a subpanel: `stack` holds the calls that
have not returned. `PanelSession` adds the compositor (configure, closed, frame callbacks,
releases, the pointer), the user, who presses on what is drawn, and the daemon's topics.
`Budgets` is a set of bounds per kind of input, one of which holds for a behaviour.

### Proof and MC modules

The modules named `...Proofs` hold the theorems (`RuntimeDaemonProofs` extends
`RuntimeCommandsProofs`, whose lemmas about the handlers it shares), and `ListFacts` facts
about sequences that most of them use. `MCRuntimeCommands`, `MCRuntimeDaemon`, `MCBackdropd`, `MCRuntimeClient`,
`MCWorkspaceSync`, `MCWindowSync` and `MCPanelSession` give the constants their small values;
`MCPanelSession` also states `PanelAnswersAsSeen`, which TLC evaluates: on a grid of 76 by 22
points over the panel, with 0, 1, 2, 4 and 6 workspaces, the hit test finds what is seen. A
definition marked *Variant* is the form a plausible mistake would give to the
definition after it; variants are used by no action and show that the properties
notice the mistake.

## 3. Runs

All sets below are small enough for an exhaustive search. Bounds of the daemon's runs:
`MaxDesk` (32 in the code) is 1 or 2, since a desk is only ever compared with the current
one; `MaxNames` (in `MCRuntimeCommands`, with `BoundedSpec`: publications after renames add names
for ever) and `MaxEvents` stop the growth of names and events, no guard of the code;
`MaxFaults` bounds the faults of a behaviour; `FifoCapacity` is 1 so that the FIFO is often
full. A commit is taken while `nextEventSeq <= MaxEvents`, and issues up to four events, so
behaviours have between two and four commits that overlap in every way.

| Run | Instance | Shows |
|---|---|---|
| `commands_serial` | three names, two palettes of which one is missing, two desks, every command, aborted commits anywhere, a new or an existing `style.env` | `StateTypeOK`; `BackdropsFollowState`; `ChangesAreAnnounced`; `StyleFollowsFile`; `CurrentStaysListed`; `DesksFollowNames` |
| `daemon_bus` | a client whose renames come back through the daemon's FIFO, other writers of the FIFO, one subscription of any mode, one fault | `TypeOK`; `BusInvariant` (with `NoEventLost`); `SourceOrder`; the refinements `ImplementsSerial` and `ImplementsBus` |
| `daemon_converges` | two clients and a workspace bridge, no faults | `NewestIsCurrent`; `FailuresSurfaced`; `OneWriterSuffices` |
| `daemon_live` | one client, one bridge, one fault, with fairness | `EventuallyDelivered`; `CommandsFinish` |
| `daemon_stale` | two clients | counterexample to `StaysCurrent` |
| `daemon_unsurfaced` | one client, one fault | counterexample to `FailuresSurfaced` |
| `backdropd_children` | two backdrops, one or two outputs, two changes, two signals, one fault, with fairness | `TypeOK`; `ShowsNewest`; `OneBackdrop`; `NoneForgotten`; `BackdropFollows`; `StopsWhenTold` |
| `backdropd_stuck` | the same without signals and faults | counterexample to `BackdropStaysCurrent` |
| `client_stream` | two topics, one of them an overlay, two keys, four frames, one request, with fairness | `TypeOK`; `FramesInOrder`; `HandedIsState`; `CacheContract`; `DrainedAtEnd`; `FramesHandedOver` |
| `pagerd_sync` | two workspaces and a third that may come, one client, two inputs of any kind, with fairness | `TypeOK`; `TracksCompositor`; `AgreesAtRest`; `Quiesces` |
| `toplevel_sync` | two windows and a third that may come, two verbs, two inputs of any kind, with fairness | `TypeOK`; `ActsOnMeant`; `ShownAtRest`; `EndsAfterWriter` |
| `paneld` | a panel with two subpanels, four states of the daemon, one of ten budgets of inputs, with fairness | `TypeOK`; `ActsOnShown`; `OneSubpanel`; `ShownInTheEnd` |

The properties, from the ones about a single commit to those about the whole system:

* `ChangesAreAnnounced`: a command announces every topic whose entries it changes,
  with an event that carries the new entries, from every reachable state, also when an
  aborted command left `style.env` ahead. The exception is `session`, which shows the
  backdrop and is announced on refresh only; the property names it.
* `DesksFollowNames`: the desk of a name (and so its backdrop), followed through renames,
  is the same after every command, whatever a bridge publishes. Two names made one by a
  rename, which nothing rejects, stand for the first of their desks. What no property
  says is that the bridge's workspace keeps its desk: the daemon knows names only, and a
  bridge that still publishes a renamed-away name gets it listed anew, behind the others.
* `CurrentStaysListed`: the current name, once listed, is so after every command.
* `NoEventLost`: the subscriber list is read after the MVar is released, and still an
  event owed to a subscription is with its handler, in the queue or received. Only the
  death of the FIFO thread loses events, which the property admits explicitly.
* `SourceOrder` against `SequencedDelivery`: in what a subscription has received and has
  queued (`Stream`), the events of one thread ascend, those of different threads need not.
* `NewestIsCurrent` against `StaysCurrent`: what a client has to do to be up to date at
  rest. It must compare `SEQ` numbers, and must ignore events older than its
  registration: the newest of the RESET frames it then takes (`Resets`) carries the topic's
  entries. Believing the last frame is enough with a single writer only
  (`OneWriterSuffices`: when all events are of one thread, `StaysCurrent` and
  `SequencedDelivery` hold as they stand).
* `FailuresSurfaced`: at rest each thread has issued exactly one event for each of its
  effects that failed; it holds as long as effects report their failure and do not throw.

* `ShowsNewest`: waiting with nothing left to receive, backdropd shows the newest
  value, whatever happened between the query, the subscription and the snapshot.
* `OneBackdrop`, `NoneForgotten`: old children are gone before new ones come, and the
  process table is never overwritten with a live child in it.
* `BackdropFollows`, `StopsWhenTold`: the liveness that does hold, with its exceptions
  spelled out: backdropd waits for a child that never saw its signal (`Stuck`), or a
  signal arrived between the loop's test and `poll`.

* `FramesInOrder`, `HandedIsState`: however the reads cut the stream nothing is lost,
  repeated or moved, and for topics whose events carry all of the topic the two ways of
  handing a frame over come to the same.
* `CacheContract`: the topic cache is the daemon's topic, except for frames that were
  complete in the buffer before the read, which the code does not merge. The exception is
  real: what such a frame says is missing from the cache until the next snapshot or `RESET`.
* `DrainedAtEnd`, `FramesHandedOver`: what the end of the daemon leaves unread is handed
  over by a program whose `on_error` drains, and no frame waits in the buffer while the
  program waits in `poll`.

* `TracksCompositor`: pagerd's table against labwc's workspaces. Its exceptions are the
  code's: a full table, a rename of the current workspace (the old name stays the
  current one), and an event handled in the slot of another workspace, because a removal
  closes up the table and the listeners keep the pointers to their old slots.
* `AgreesAtRest`: daemon and compositor agree when everything has arrived, in whatever
  order a command and the user's own switch crossed. `excuses` records what leaves the two
  apart: the table's three and frames of two streams that cross; and, until the next frame,
  a publication that failed, a failed effect, an ended daemon, a line that was cut or unknown.
* `Quiesces`: a switch comes back as an event and is published; it does not go round again.
* `ActsOnMeant`: a command by number reaches the window that was meant as long as no
  window has left the table since the list was read; without that it does not.
* `ShownAtRest`: the windows topic against labwc's windows, excepting a full table, an
  event in another window's slot, and a focus that a removal or a title has overtaken.
* `EndsAfterWriter`: the bridge ends after the first writer of its FIFO has gone, unless
  another has opened it meanwhile. pagerd avoids this by a writer of its own.
* `ActsOnShown`: a press does what was drawn under the pointer when the button went down,
  or nothing, although events wait and the panel may have changed by the time it is
  handled. Excepted are presses on a surface that has become neither the panel's nor the
  subpanel's, on the subpanel of a nested opening, and across a change of names.
* `OneSubpanel`: no surface is left behind, and the open subpanel shows what the hit tests
  take for active, unless openings nested in a roundtrip or the compositor closed one.
* `ShownInTheEnd`: the panel ends up showing the daemon's state, or has ended, or its
  subscription ended before the loop (which then never looks at it), or its last
  rendering found both buffers busy (nothing asks for another).

Two changes make one batch of frames that overtakes a child's exec, two signals an
interrupted `waitpid` during the last stop, and one fault a restart of the daemon or a
failed child; two slots let the stop loop be anywhere in the table.

`client_stream`: up to three frames in a read and four in all put frames of both topics
before, in and after a cut; two keys let an overlay leave one alone; the cache has room for
both topics, as it has for all of them in the code. `pagerd_sync`, `toplevel_sync`: two slots
for three objects fill the table, and two inputs make every crossing named above (a removal
and an event behind it, a command and a user's switch, a fault and a change); one line per
read cuts and queues lines, and one name is the beginning of another ("Two" and "Tw"), as a
cut needs. With `MaxInputs = 3`, too long for a regular run, neither has an error (1,976,390
and 937,206 states). `paneld`: each budget pairs the inputs that meet in one hazard, since all
of them at once are out of reach; two attempts let each retry loop succeed and give up; two
workspaces or none show the workspace manager with and without rows.

Distinct states: `commands_serial` 32,400; `daemon_bus` 722,155; `daemon_converges` 1,696,926; `daemon_live` 4,603;
`client_stream` 79,324; `pagerd_sync` 99,230; `toplevel_sync` 34,375; `paneld` 439,289.
Deadlock is checked except where the program may end or come to rest with every input used
(`CHECK_DEADLOCK FALSE` in the runs of the C programs).

### Three disagreements with the documents

* `daemon_stale`: two commands commit one after the other and their broadcasts overtake
  each other, so a subscriber at rest shows the older state, although README.md:38-42
  says clients "stay current". `seq` is parsed by the C client and never compared.
* `daemon_unsurfaced`: an effect that throws (unlike one that reports failure) produces
  no `backend-action-failed` event, although
  doc/README.haskell-runtime-architecture.md:218-219 says failures are surfaced "instead
  of silently swallowing effect errors".
* `backdropd_stuck`: the second of two quick changes sends SIGTERM to a child between
  fork and exec. The handler it inherited swallows the signal, swaybg starts, and backdropd
  waits in `waitpid` for ever, although README.md:39-41 names `nscde_backdropd` among the
  daemons that "stay current through callback-driven topic updates".

### Fairness

`FairSpec` assumes that a handler with something to do eventually does it and that a
subscription's thread eventually writes its next frame: weak fairness of each thread,
which is what GHC's scheduler gives runnable threads (no step waits on another thread:
queues are unbounded, the MVar is held for one step). Nothing is assumed about requests,
disconnections or faults. `EventuallyDelivered` ends with "or the subscription is no
longer served", and holds with a peer that closes at any time; a peer that stops reading
without closing blocks its own thread in the code, and only there.

`Backdropd`'s `FairSpec` has weak fairness of backdropd itself, of every child (exec, the end
of a signalled process) and of the daemon's thread for the subscription: the scheduling of
processes by the kernel. Changes, signals, faults and a restart of the daemon are never assumed.

The other C programs have the same: weak fairness of the program's own steps, of what the
compositor owes (`WorkspaceSync` and `WindowSync`: carrying out requests; `PanelSession`:
presenting a commit, with its callback and release) and of the daemon's threads
(`RuntimeClient`: serving the subscription and answering; `WorkspaceSync`: effects and frames;
`WindowSync`: publishing the topic and the three steps of a command). What a user, another
client or a fault does is never assumed.

## 4. Proofs

A theorem holds for every value of the constants: any number of windows, threads,
subscriptions, commands, faults and inputs, and any sizes of tables, pipes and reads.

* `RuntimeCommandsProofs`, of `SerialSpec`: `BackdropsAreFollowed` (`[]BackdropsFollowState`),
  `StyleIsRead` (`StyleFollowsFile`), `ChangesAreSeen` (`[]ChangesAreAnnounced`), `CommandTypesHold` (`[]StateTypeOK`), `CurrentIsKept`
  (`CurrentStaysListed`) and `DesksAreKept` (`[]DesksFollowNames`). The
  invariant adds the shape of the state (`Shaped`), because an update of a record field
  says nothing about a value that might not have the field. The lemma `HandlersFollow`
  goes through the handlers one by one: each either returns the state unchanged or ends
  with `RefreshBackdrops`, or changes only fields the plan does not read. `HandlersAnnounce`
  does the same for the topics they name; `EntriesRead` says which fields a topic shows.
  `StateInvariant` (`StateTypeOK` with `BackdropsFollowState`) carries the types through an
  aborted commit, after which the file is ahead of the state. For `DesksAreKept`, `HandlersContinue`
  says that each handler keeps the names, renames them in place, or appends others behind
  them, and `DesksContinue` that then the first place of a new name is the least of the
  places of the names it stands for. What this needs of
  the recursive `Outside`, that it only ever appends names, is shown without an induction
  rule: of the lengths for which it fails there would be a least.
* `RuntimeDaemonProofs`, in six parts.
  * `BusIsConsistent` (`Spec => []BusInvariant`) and `EventsAreNotLost`
    (`Spec => []NoEventLost`). `NoEventLost` is not inductive: when a broadcast begins, the
    frames of the commit become deliveries to the current subscribers, and for that one
    must know that the frames carry the numbers and topics of the events they stand for
    (`EventsAreNumbered`), at which program counters a thread can hold frames
    (`ThreadsHoldFrames`: beginning a broadcast overwrites `todo`, which must be sent), and
    that a subscription that is served is in the list (`SubscriptionsAreListed`, which also says that nothing but
    initial frames has been received while the initial state is being sent).
  * `DeliveredOnce` (`Spec => ImplementsBus`), the refinement of `EventBus`. `NoEventLost`
    says that an event owed is in some place; that it arrives once says that it is in one
    place at most. `DeliveryInvariant` says so of each: a thread holds frames of its own
    events (`OwnsFrames`) and sends them to those who want them (`SendsOwn`,
    `SendsWanted`), a queue holds what is wanted and not received yet, each number once
    (`QueueIsWanted`, `QueuedIsNew`), and what a thread has still to send is neither queued
    nor received (`UnsentIsNew`). `StepsAreBusSteps` maps each step to a step of the bus or
    a stutter.
  * `CommitsAreSerial` (`Spec => ImplementsSerial`), the refinement of `RuntimeCommands`. The
    daemon's own lines make it more than an unfolding: `RequestsAreAccepted` says that what
    waits in the FIFO and what the threads' effects will write was accepted.
    `DaemonKeepsState` is what that buys: every theorem of `RuntimeCommandsProofs` holds of
    the concurrent daemon.
    `DaemonTypesHold` (`Spec => []TypeOK`) follows from the same lemmas.
  * `ThreadsStayInOrder` (`Spec => []SourceOrder`). `OrderInvariant` says of each thread and
    subscription that numbers ascend in every place an event passes, and that all those of
    a later place are below all those of an earlier one.
  * `UpToDateAtRest` (`Spec => [](faults = 0 => NewestIsCurrent)`) and
    `FailuresAreReported` (`Spec => [](faults = 0 => FailuresSurfaced)`). The hypothesis is
    the one of the run, where `MaxFaults` is 0, and it is needed: an exception between the
    write of `style.env` and the commit leaves the topic ahead of every event, and
    `daemon_unsurfaced` shows the other. `CurrentInvariant` says that the newest RESET event
    of a topic carries its entries (by `ChangesAreAnnounced`'s lemma about a single commit),
    that frames say what the event of their number said, and that an initial frame holds
    until the first RESET event after the registration; `FailuresInvariant` counts a failed
    effect with its thread until its event is issued.
  * `OneWriterIsEnough` (`Spec => [](faults = 0 => OneWriterSuffices)`): what the documents
    promise and `daemon_stale` refutes holds while one thread writes, however its two
    broadcasts, the initial frames and the subscriptions interleave. `OneWriterInvariant`
    says why. What a thread holds is the state of now (`Fresh`): only it can change the
    state, and it has nothing in its hands when it does. And for each topic of a client that
    is served, the last frame of the stream says that state or a frame of it is on its way
    (`Leads`). A commit makes one be on its way for every topic it changes, a write puts the
    frame last, and the initial frames go in front of what is queued without becoming the
    last word on a topic that is already there. The order of the numbers follows from
    `OrderInvariant`.
* `BackdropdProofs`: `TypesHold`, `BackdropsDoNotMix` (`Spec => []OneBackdrop`),
  `ChildrenAreReaped` (`Spec => []NoneForgotten`) and `NewestIsShown`
  (`Spec => []ShowsNewest`). The inductive `ChildrenInvariant` adds what the stop loop has
  done so far (`AllReaped(processes, slot - 1)`), that the table holds children of one
  backdrop, and that a value has been applied. `WaitEnds` serves both ways out of
  `waitpid`. For `NewestIsShown`, `StreamInvariant` follows the value from the topic through
  queue and socket, for each state of the connection, and `MirrorInvariant` from what
  backdropd holds to the table and the environment file.
* `RuntimeClientProofs`: `FramesStayInOrder`, `CacheKeepsContract`, `HandedStaysState`
  (`Spec => []` of `FramesInOrder`, `CacheContract`, `HandedIsState`), `ClientTypesHold` and
  `DrainsToTheEnd` (`Spec => []DrainedAtEnd`). `ClientInvariant` adds that a written frame
  says all of its topic or what has changed since the frame before (`FramesSayState`), that
  a topic's last written frame is the daemon's topic (`Served`), and that cache and program
  hold what the last frame they took says (`CacheIsKnown`, `HandedIsKnown`). `EndInvariant`
  adds that only a refused stream carries an error and that a client that has ended has
  seen the end of its stream.
* `WindowSyncProofs`: `CommandsReachTheMeant` (`Spec => []ActsOnMeant`), `WindowTypesHold`
  (`Spec => []TypeOK`) and `ShowsTheWindows` (`Spec => []ShownAtRest`).
  * A place means the same window until a window leaves, since otherwise the table only
    grows at its end: every copy of it that has the table's epoch, in a frame or in the
    topic, is a beginning of it, and every line of that epoch names the window it was
    picked for (`CopiesAgree`, in `CommandInvariant`).
  * That no window is twice in the table depends on the order of the events on their way:
    a window's announcement is the first event about it, and is on its way only while the
    window is not in the table (`Announced`, in `World`). `TypesInvariant` adds the types of
    the queues and of the loop.
  * `ShownInvariant` adds, for as long as nothing excused has happened (`Sound`), what makes
    the state at rest right: each window of the compositor is in the table or announced and
    each that has gone will be closed, in the compositor's order (`Membership`, `InOrder`);
    while a slot differs from its window, an event that sets it right is on its way, and
    the last of its kind says how the window is now (`TitleComes`, `StateComes`); the same
    of the focus (`FocusComes`); and the newest frame is the table's unless a publication
    is due or a title is still to come (`FrameComes`). Steps of the compositor keep it
    because what they change they report (`ChangeAgrees`), steps of the bridge because a
    listener takes the oldest event and does what it says in its slot (`Handled`).
* `WorkspaceSyncProofs`: `WorkspaceTypesHold` (`Spec => []TypeOK`), `TableTracksCompositor`
  (`Spec => []TracksCompositor`) and `DaemonAgreesAtRest` (`Spec => []AgreesAtRest`), from
  four invariants, each resting on those before it.
  * `World` and `Types`: as in `WindowSync`, an announcement comes before everything else
    about its workspace (`Announced`), so that none is twice in the table. `LinkTypes` says
    what `TypeOK` does not: the publisher writes to the last stream, and frames wait only
    while that one and theirs have a reader.
  * `Tracking`: as long as no workspace was too many and no event went to another one's slot
    (`Sound`), every workspace is in the table or announced, in the compositor's order, and
    while a slot differs from its workspace an event that sets it right is on its way
    (`Agreement`). That the current workspace is the active one needs more than the slots:
    it is a name that was copied from a slot when its activation came. `CurrentComes` says
    that the last activation on its way is the active workspace's, and `NamedFirst` that by
    the time an activation comes, the slot has its name.
  * `Reaches`, of the daemon, while no publication is due: the newest frame, the last one of
    the last stream that has any, shows the table (`LastShows`); with no frame waiting the
    daemon knows all names of the table (`NamesKnown`), and the current one is the table's
    or a switch that makes it differ is still on its way to the compositor, as a line to be
    written, in the FIFO, of the last read, or as a request (`Asked`). A request for
    another workspace is followed until it comes back as an activation, which brings the next
    publication. While the daemon is down, either the table is empty or an excuse says so.
    That old frames may arrive in two streams is what `"crossed"` excuses and nothing else.
* `PanelSessionProofs`: `OneSubpanelAtATime` (`Spec => []OneSubpanel`), for any layout, user,
  compositor and daemon. `SubpanelInvariant` says that the subpanel is closed, opening or
  open, and what `sp`, `stack` and the surfaces are in each of the three.
  `PressesActOnShown` (`HitsAreSeen` implies `Spec => []ActsOnShown`) follows a press from
  the compositor to its handler. `PressInvariant` says of every press that waits that the
  enter or motion before it in the queue, or `focus` and `pointer` if there is none, puts
  the pointer where the button went down (`PointerOn`, `PointerAt`); that it means what is
  drawn there for the names it was made for (`MeantOnPanel`) or, as long as its surface is
  the subpanel's, for the subpanel that is shown (`MeantOnSubpanel`); that the
  subpanel's surface exists and shows the subpanel it was made for, or nothing yet
  (`SurfacesKnown`); and that nothing is drawn before the panel's surface is asked for
  (`NothingSeen`). It is inductive because the
  compositor appends, the handlers take the oldest event, and destroying a surface changes
  its own events only (`Without`). `HitsAreSeen` is the one thing asked of the constants:
  the panel's hit test finds at the points that are pressed what is seen there, and the
  points of a subpanel are not beside its rows. That a row is hit where it is drawn is
  proved for every metric that the parser lets through (`RowsAnswerAsDrawn`); for the
  panel TLC evaluates `HitsAreSeen` at the run's points and its panel part on a grid over
  the whole panel, since the places of the panel's elements are sums over lists of modules.

Sequences are handled as functions on `1..Len` (`ListFacts`); what a handler or a listener does
to them is stated once as a lemma. Properties of a system at rest are proved from an
invariant that follows a value through every queue it passes.

The assumptions are those named in the modules (`RuntimeStateAssumption`,
`RuntimeCommandsAssumption`, `RuntimeDaemonAssumption`, `BackdropdAssumption`,
`RuntimeClientAssumption`, `PagerdAssumption`, `WorkspaceSyncAssumption`, `ToplevelAssumption`,
`WindowSyncAssumption`, `PaneldAssumption`, `PanelSessionAssumption`, `PanelLayoutAssumption`), which TLC evaluates in
the runs.

Only model-checked:

* the liveness properties, since the prover has no rule for fairness and `ENABLED`;
* the panel's `TypeOK`. It needs states that are closed under changes of the theme and of
  the current workspace, and that a string literal is in `STRING`, of which the provers
  know nothing.

## 5. Plan

1. `CompatFifo`: what holds of lines written while the daemon's FIFO is closed and opened
   again (`RuntimeDaemon.FifoReopens` drops them).
2. The start and end of the daemon: the socket file that two daemons share.
3. The environment files, three writers of one temporary file, if a component that reads
   them is modelled.
4. Proof of the panel's `TypeOK`.

## 6. Not modelled

* Environment files written at commits, by effects and by backdropd: compatibility mirrors
  (README.nix.md:113-116, doc/README.haskell-runtime-architecture.md:313-319) that no
  modelled component reads. They occur only as the cause of an aborted commit.
* Computations without state: policies, parsers, generated labwc files, which
  `haskell/test/Main.hs` covers; the command line; packaging and assets.
* Of the panel: colours, bevels, text and icons, the timer that refreshes the applets
  without rendering, and a layout that changes while the panel runs.
* Generated Wayland protocol code, image decoding, shell and Python tools that run once.

`PROJECT.json` lists each with its reason.
