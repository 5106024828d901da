------------------------------- MODULE Paneld -------------------------------
(***************************************************************************)
(* nscde_paneld, the front panel: one thread that shows what the daemon's  *)
(* topics say on a layer surface, opens the subpanels as further surfaces, *)
(* and turns a press of a pointer button into a command, a subpanel or a   *)
(* request to the daemon.  Where things are is PanelLayout's; the          *)
(* compositor, the user and the daemon are PanelSession's.                 *)
(*                                                                         *)
(* Of the session's data, the theme and the workspaces may change; the     *)
(* layout and the subpanels are the same in every state the daemon sends.  *)
(* What the applets show, which a timer refreshes without any rendering,   *)
(* is left out.  Requests reach the compositor at once, its events wait.   *)
(***************************************************************************)
EXTENDS PanelLayout

Inputs == {"press", "row", "change", "daemon", "compositor", "close", "buffer", "late", "end"}

CONSTANTS Entries,      \* how many entries a subpanel has; none: not enabled
          SubpanelWidth,
          PanelPoints, SubpanelPoints,  \* where the pointer may be on them
          WorkspaceCounts,  \* how many workspaces there may be
          MaxAttempts,  \* of the two retry loops
          Budgets       \* bounds on inputs and faults: how many of each kind there may be

ASSUME PaneldAssumption ==
    /\ MaxAttempts \in Nat \ {0} /\ SubpanelWidth \in Nat
    /\ Budgets \subseteq [Inputs -> Nat] /\ Entries \in [DOMAIN Entries -> Nat]

VARIABLES
    pc, attempts, asked, complete,  \* the start: topics asked for in this attempt, all answered
    subscribed,             \* runtime_active
    view,                   \* what the topics said: theme, workspaces, current workspace
    mapped,                 \* the launchers have their subpanels
    scale, running, configured, dirty, framePending,
    buffers,                \* of the panel: busy, and the scale it was made for (0: not made)
    sp,                     \* sp_surface and active_subpanel
    stack,                  \* roundtrips of open_subpanel that have not returned
    focus, pointer,         \* pointer_focus_surface; pointer_x and pointer_y
    events,                 \* from the compositor, oldest first
    stream, link,           \* frames on the subscription; it is "none", "open" or "closed"
    up, truth,              \* the daemon: it accepts connections; its own view
    screen, attached, owed, callbacks,  \* the panel at the compositor: what it shows, in which
                            \* buffer, the buffers to be released, the frame callbacks to be sent
    popups,                 \* the subpanels' surfaces, in the order of their creation
    budget,
    lost,                   \* history: the last rendering found no buffer
    last,                   \* history: what the last press did, and was meant to do
    excuses                 \* history: "nested" opening, "closed" by the compositor

startVars == <<attempts, asked, complete>>
linkVars == <<subscribed, link, stream>>
daemonVars == <<up, truth>>
dataVars == <<view, mapped>>
paintedVars == <<framePending, buffers, screen, attached, owed, callbacks, lost>>
popupVars == <<sp, stack, popups, excuses>>
pointerVars == <<focus, pointer>>
vars == <<pc, startVars, linkVars, daemonVars, dataVars, scale, running, configured, dirty,
          paintedVars, popupVars, pointerVars, events, budget, last>>

Input(kind) == budget[kind] > 0 /\ budget' = [budget EXCEPT ![kind] = @ - 1]

NoSurface == -1
PanelSurface == 0  \* a subpanel's surface is its place in popups

NoView == [theme |-> "", workspaces |-> <<>>, current |-> ""]
NoSubpanel == [surface |-> NoSurface, open |-> FALSE, configured |-> FALSE, sub |-> 0, active |-> 0]
NoTarget == [kind |-> "none", number |-> 0, sub |-> 0, name |-> ""]

\* of: the surface, buffer, scale or roundtrip that an event is about.
Ev(type, of) ==
    [type |-> type, of |-> of, at |-> <<0, 0>>, button |-> "none", meant |-> {}, names |-> <<>>]

PaneldInit ==
    /\ pc = "query" /\ attempts = 0 /\ asked = 0 /\ complete = TRUE
    /\ subscribed = FALSE /\ view = NoView /\ mapped = FALSE
    /\ scale = 1 /\ running = TRUE /\ configured = FALSE /\ dirty = TRUE /\ framePending = FALSE
    /\ buffers = [b \in 1..2 |-> [busy |-> FALSE, scale |-> 0]]
    /\ sp = NoSubpanel /\ stack = <<>> /\ focus = NoSurface /\ pointer = <<0, 0>>
    /\ events = <<>> /\ stream = <<>> /\ link = "none"
    /\ screen = [view |-> NoView, scale |-> 0] /\ attached = 0 /\ owed = {} /\ callbacks = 0
    /\ popups = <<>> /\ budget \in Budgets /\ lost = FALSE /\ excuses = {}
    /\ last = [did |-> NoTarget, meant |-> {NoTarget}, excused |-> FALSE]

-----------------------------------------------------------------------------
(* Rendering *)

\* Variant: a buffer in use is not marked.
TakenUnmarked(b) == [buffers EXCEPT ![b] = [busy |-> FALSE, scale |-> scale]]

Taken(b) == [buffers EXCEPT ![b] = [busy |-> TRUE, scale |-> scale]]

\* get_next_buffer and what render_and_commit does with the buffer.  Without one, or when
\* none can be made, nothing is drawn and nobody is told.  pending: a frame is waited for.
Paint(shown, pending) ==
    LET free == {b \in 1..2 : ~buffers[b].busy}
        b == Max(free)
    IN  \/ /\ free # {}
           /\ buffers' = Taken(b)
           /\ screen' = [view |-> shown, scale |-> scale]
           /\ attached' = b /\ owed' = owed \cup {b} /\ callbacks' = callbacks + 1
           /\ framePending' = TRUE /\ lost' = FALSE /\ UNCHANGED budget
        \/ /\ free # {} /\ buffers[b].scale # scale /\ Input("buffer")
           /\ buffers' = [buffers EXCEPT ![b].scale = 0]
           /\ framePending' = pending /\ lost' = TRUE
           /\ UNCHANGED <<screen, attached, owed, callbacks>>
        \/ /\ free = {} /\ framePending' = pending /\ lost' = TRUE
           /\ UNCHANGED <<buffers, screen, attached, owed, callbacks, budget>>

NotPainted == UNCHANGED <<paintedVars, budget>>

\* Variant: what waits for a frame is taken for rendered.
RequestRenderOnce(shown) ==
    /\ dirty' = FALSE
    /\ IF configured /\ running /\ ~framePending THEN Paint(shown, FALSE) ELSE NotPainted

\* request_render, of a panel that has just become dirty.
RequestRender(shown) ==
    IF configured /\ running /\ ~framePending THEN Paint(shown, FALSE) /\ dirty' = FALSE
    ELSE dirty' = TRUE /\ NotPainted

\* render_subpanel_surface, of an open subpanel: it fails without a buffer, and is not seen
\* on a surface that the compositor has closed.
RenderSubpanel ==
    \/ /\ popups' = IF popups[sp.surface].state = "live"
                    THEN [popups EXCEPT ![sp.surface].drawn = sp.sub] ELSE popups
       /\ UNCHANGED budget
    \/ Input("buffer") /\ UNCHANGED popups

-----------------------------------------------------------------------------
(* Topics *)

Topics == <<"panel-layout", "panel", "workspaces", "subpanels">>

\* parse_env_contents: the panel topic has the theme, the workspaces and the current one.
PanelParsed(state) == state

\* parse_workspaces_env_contents.
WorkspacesParsed(state) ==
    [view EXCEPT !.workspaces = state.workspaces, !.current = state.current]

\* parse_subpanel_env_contents maps the launchers to their subpanels; a layout rebuilds the
\* launchers, which have none then before the next state of the subpanels.
MappedAfter(topic) ==
    CASE topic = "panel-layout" -> FALSE [] topic = "subpanels" -> TRUE [] OTHER -> mapped

\* One topic's contents.
Parse(topic, state) ==
    /\ view' = CASE topic = "panel" -> PanelParsed(state)
                 [] topic = "workspaces" -> WorkspacesParsed(state)
                 [] OTHER -> view
    /\ mapped' = MappedAfter(topic)
    /\ RequestRender(view')

\* sync_runtime_state, with its retry: all topics are asked for, one after another.
QueryTopic ==
    /\ pc = "query" /\ asked < Len(Topics) /\ asked' = asked + 1
    /\ IF up THEN Parse(Topics[asked + 1], truth) /\ UNCHANGED complete
       ELSE complete' = FALSE /\ NotPainted /\ UNCHANGED <<dataVars, dirty>>
    /\ UNCHANGED <<pc, attempts, linkVars, daemonVars, scale, running, configured, popupVars,
                   pointerVars, events, last>>

QueriesEnd ==
    /\ pc = "query" /\ asked = Len(Topics) /\ asked' = 0 /\ complete' = TRUE
    /\ IF complete THEN pc' = "subscribe" /\ attempts' = 0
       ELSE /\ attempts' = attempts + 1
            /\ pc' = IF attempts' = MaxAttempts THEN "over" ELSE "query"
    /\ UNCHANGED <<linkVars, daemonVars, dataVars, scale, running, configured, dirty, paintedVars,
                   popupVars, pointerVars, events, budget, last>>

\* The daemon answers with a snapshot of each topic.
Subscribe ==
    /\ pc = "subscribe"
    /\ IF up THEN /\ pc' = "drain" /\ subscribed' = TRUE /\ link' = "open"
                  /\ stream' = [i \in DOMAIN Topics |-> [topic |-> Topics[i], state |-> truth]]
                  /\ UNCHANGED attempts
       ELSE /\ attempts' = attempts + 1
            /\ pc' = IF attempts' = MaxAttempts THEN "over" ELSE "subscribe"
            /\ UNCHANGED linkVars
    /\ UNCHANGED <<asked, complete, daemonVars, dataVars, scale, running, configured, dirty,
                   paintedVars, popupVars, pointerVars, events, budget, last>>

\* apply_runtime_frame, before the loop and in it.  A layout asks the compositor for the
\* panel's size, which may answer.
HandleFrame ==
    /\ pc \in {"drain", "poll"} /\ subscribed /\ stream # <<>>
    /\ pc' = (IF pc = "poll" THEN "dispatch" ELSE pc)
    /\ LET frame == Head(stream)
       IN  /\ Parse(frame.topic, frame.state)
           /\ \/ UNCHANGED events
              \/ /\ pc = "poll" /\ frame.topic = "panel-layout"
                 /\ events' = Append(events, Ev("configure", PanelSurface))
    /\ stream' = Tail(stream)
    /\ UNCHANGED <<startVars, subscribed, link, daemonVars, scale, running, configured, popupVars,
                   pointerVars, last>>

\* handle_runtime_subscription takes what has arrived, which may be late.  A subscription
\* that ends before the loop is not missed.
DrainEnds ==
    /\ pc = "drain" /\ pc' = "connect"
    /\ IF stream = <<>> THEN UNCHANGED budget ELSE Input("late")
    /\ subscribed' = ~(link = "closed" /\ stream = <<>>)
    /\ UNCHANGED <<startVars, link, stream, daemonVars, dataVars, scale, running, configured, dirty,
                   paintedVars, popupVars, pointerVars, events, last>>

\* In the loop it ends the program.
HandleDisconnect ==
    /\ pc = "poll" /\ subscribed /\ link = "closed" /\ stream = <<>>
    /\ subscribed' = FALSE /\ running' = FALSE /\ pc' = "dispatch"
    /\ UNCHANGED <<startVars, link, stream, daemonVars, dataVars, scale, configured, dirty,
                   paintedVars, popupVars, pointerVars, events, budget, last>>

-----------------------------------------------------------------------------
(* The display *)

\* main from wl_display_connect to the roundtrip.
Connect ==
    /\ pc = "connect"
    /\ \/ /\ pc' = "roundtrip" /\ events' = <<Ev("configure", PanelSurface), Ev("sync", 0)>>
          /\ UNCHANGED budget
       \/ Input("end") /\ pc' = "over" /\ UNCHANGED events
    /\ UNCHANGED <<startVars, linkVars, daemonVars, dataVars, scale, running, configured, dirty,
                   paintedVars, popupVars, pointerVars, last>>

Loop == pc' = IF running THEN "poll" ELSE "over"

\* main behind the roundtrip: the panel is rendered a second time.
FirstRender ==
    /\ pc = "synced" /\ stack = <<>> /\ Loop
    /\ IF configured /\ running THEN Paint(view, framePending) ELSE NotPainted
    /\ UNCHANGED <<startVars, linkVars, daemonVars, dataVars, scale, running, configured, dirty,
                   popupVars, pointerVars, events, last>>

EndDispatch ==
    /\ pc = "dispatch" /\ stack = <<>> /\ Loop
    /\ UNCHANGED <<startVars, linkVars, daemonVars, dataVars, scale, running, configured, dirty,
                   paintedVars, popupVars, pointerVars, events, budget, last>>

\* In a roundtrip, or when poll has reported the connection; read_events may have taken in
\* a part only of what there is.
Take(type) ==
    /\ pc \in {"roundtrip", "synced", "poll", "dispatch"}
    /\ pc' = (IF pc = "poll" THEN "dispatch" ELSE pc)
    /\ events # <<>> /\ Head(events).type = type

\* layer_surface_configure: renders whatever is outstanding, and stays dirty.
HandleConfigure ==
    /\ Take("configure") /\ Head(events).of = PanelSurface /\ events' = Tail(events)
    /\ configured' = TRUE /\ dirty' = TRUE
    /\ IF running THEN Paint(view, framePending) ELSE NotPainted
    /\ UNCHANGED <<startVars, linkVars, daemonVars, dataVars, scale, running, popupVars,
                   pointerVars, last>>

\* layer_surface_closed.
HandleClosed ==
    /\ Take("closed") /\ Head(events).of = PanelSurface /\ events' = Tail(events)
    /\ running' = FALSE
    /\ UNCHANGED <<startVars, linkVars, daemonVars, dataVars, scale, configured, dirty, paintedVars,
                   popupVars, pointerVars, budget, last>>

\* surface_frame_callback: what could not be rendered is no longer dirty either.
HandleFrameDone ==
    /\ Take("frame") /\ events' = Tail(events) /\ dirty' = FALSE
    /\ IF dirty /\ configured /\ running THEN Paint(view, FALSE)
       ELSE /\ framePending' = FALSE
            /\ UNCHANGED <<buffers, screen, attached, owed, callbacks, lost, budget>>
    /\ UNCHANGED <<startVars, linkVars, daemonVars, dataVars, scale, running, configured, popupVars,
                   pointerVars, last>>

\* buffer_release.
HandleRelease ==
    /\ Take("release") /\ events' = Tail(events)
    /\ buffers' = [buffers EXCEPT ![Head(events).of].busy = FALSE]
    /\ UNCHANGED <<startVars, linkVars, daemonVars, dataVars, scale, running, configured, dirty,
                   framePending, screen, attached, owed, callbacks, lost, popupVars, pointerVars,
                   budget, last>>

\* output_scale: not rendered before something else is.
HandleScale ==
    /\ Take("scale") /\ events' = Tail(events)
    /\ scale' = Head(events).of /\ dirty' = TRUE
    /\ UNCHANGED <<startVars, linkVars, daemonVars, dataVars, running, configured, paintedVars,
                   popupVars, pointerVars, budget, last>>

\* The answer to a wl_display_roundtrip: main's, or that of an open_subpanel.
HandleSync ==
    /\ pc # "over" /\ events # <<>> /\ Head(events).type = "sync" /\ events' = Tail(events)
    /\ IF Head(events).of = 0 THEN pc' = "synced" /\ UNCHANGED stack
       ELSE stack' = [stack EXCEPT ![Head(events).of].done = TRUE] /\ UNCHANGED pc
    /\ UNCHANGED <<startVars, linkVars, daemonVars, dataVars, scale, running, configured, dirty,
                   paintedVars, sp, popups, excuses, pointerVars, budget, last>>

-----------------------------------------------------------------------------
(* Subpanels *)

Gone(n) == [popups EXCEPT ![n] = [state |-> "gone", drawn |-> 0]]

\* The queued events when surface n is destroyed: libwayland will skip its own, and in the
\* pointer's it is no surface.
Without(n, queue) ==
    [i \in DOMAIN queue |->
        CASE queue[i].of = n /\ queue[i].type \in {"configure", "closed"} -> Ev("none", NoSurface)
          [] queue[i].of = n /\ queue[i].type \in {"enter", "leave"} ->
                [queue[i] EXCEPT !.of = NoSurface]
          [] OTHER -> queue[i]]

\* An event of a destroyed surface.
SkipEvent ==
    /\ Take("none") /\ events' = Tail(events)
    /\ UNCHANGED <<startVars, linkVars, daemonVars, dataVars, scale, running, configured, dirty,
                   paintedVars, popupVars, pointerVars, budget, last>>

\* Variant: the surface is not destroyed.
CloseSubpanelHidden(queue) ==
    sp' = NoSubpanel /\ UNCHANGED popups /\ events' = queue

\* close_subpanel, of an open one.
CloseSubpanel(queue) ==
    /\ sp' = NoSubpanel /\ popups' = Gone(sp.surface) /\ events' = Without(sp.surface, queue)

\* open_subpanel up to its roundtrip, in which further presses are handled.  A surface that
\* the compositor has closed is not destroyed.
OpenSubpanel(s, queue) ==
    IF sp.open /\ sp.active = s THEN CloseSubpanel(queue) /\ UNCHANGED <<stack, excuses>>
    ELSE LET n == Len(popups) + 1
             before == IF sp.open THEN NoSubpanel ELSE sp
         IN  /\ sp' = [before EXCEPT !.surface = n, !.sub = s]
             /\ popups' = Append(IF sp.open THEN Gone(sp.surface) ELSE popups,
                                 [state |-> "live", drawn |-> 0])
             /\ stack' = Append(stack, [sub |-> s, done |-> FALSE])
             /\ events' = (IF sp.open THEN Without(sp.surface, queue) ELSE queue)
                          \o <<Ev("configure", n), Ev("sync", Len(stack'))>>
             /\ excuses' = IF stack = <<>> THEN excuses ELSE excuses \cup {"nested"}

\* open_subpanel behind its roundtrip: rendering without a surface is a crash.
SubpanelOpened ==
    /\ stack # <<>> /\ Last(stack).done /\ pc # "over"
    /\ stack' = Front(stack)
    /\ IF sp.surface = NoSurface THEN pc' = "over" /\ UNCHANGED <<sp, popups, budget>>
       ELSE /\ sp' = [sp EXCEPT !.open = TRUE, !.configured = TRUE, !.active = Last(stack).sub]
            /\ RenderSubpanel /\ UNCHANGED pc
    /\ UNCHANGED <<startVars, linkVars, daemonVars, dataVars, scale, running, configured, dirty,
                   paintedVars, excuses, pointerVars, events, last>>

\* subpanel_layer_surface_configure.
HandleSubpanelConfigure ==
    /\ Take("configure") /\ Head(events).of # PanelSurface /\ events' = Tail(events)
    /\ sp' = [sp EXCEPT !.configured = TRUE]
    /\ IF sp.open THEN RenderSubpanel ELSE UNCHANGED <<popups, budget>>
    /\ UNCHANGED <<startVars, linkVars, daemonVars, dataVars, scale, running, configured, dirty,
                   paintedVars, stack, excuses, pointerVars, last>>

\* subpanel_layer_surface_closed: the surface stays.
HandleSubpanelClosed ==
    /\ Take("closed") /\ Head(events).of # PanelSurface /\ events' = Tail(events)
    /\ sp' = [sp EXCEPT !.open = FALSE, !.active = 0]
    /\ UNCHANGED <<startVars, linkVars, daemonVars, dataVars, scale, running, configured, dirty,
                   paintedVars, stack, popups, excuses, pointerVars, budget, last>>

-----------------------------------------------------------------------------
(* The pointer *)

Panel(count) == [launchers |-> Launchers, applets |-> Applets, workspaces |-> count]

Points == PanelPoints \cup SubpanelPoints \cup {<<0, 0>>}

\* As a table, which TLC computes once.
PanelHit == [count \in WorkspaceCounts |-> [p \in Points |-> HitTestPanel(Panel(count), p)]]

Target(element, state) ==
    [kind |-> element.kind, number |-> element.number, sub |-> 0,
     name |-> IF element.kind = "workspace" THEN state.workspaces[element.number] ELSE ""]

EntryTarget(s, row) ==
    IF row = 0 THEN NoTarget ELSE [NoTarget EXCEPT !.kind = "entry", !.number = row, !.sub = s]

\* pointer_enter, pointer_leave and pointer_motion.
HandlePointer ==
    /\ \/ Take("enter") /\ focus' = Head(events).of /\ pointer' = Head(events).at
       \/ /\ Take("leave") /\ focus' = (IF focus = Head(events).of THEN NoSurface ELSE focus)
          /\ UNCHANGED pointer
       \/ Take("motion") /\ pointer' = Head(events).at /\ UNCHANGED focus
    /\ events' = Tail(events)
    /\ UNCHANGED <<startVars, linkVars, daemonVars, dataVars, scale, running, configured, dirty,
                   paintedVars, popupVars, budget, last>>

\* The pointer's surface is the subpanel's.  One that is destroyed may have left its address
\* to the next one.
OnSubpanel ==
    IF focus > 0 /\ sp.surface > 0 /\ popups[focus].state = "gone" THEN BOOLEAN
    ELSE {focus = sp.surface}

\* hit_test_subpanel of the active subpanel.
SubpanelTarget ==
    IF sp.open /\ sp.active # 0 /\ sp.configured
    THEN EntryTarget(sp.active, HitTestSubpanel(Entries[sp.active], SubpanelWidth, pointer))
    ELSE NoTarget

\* The subpanel that a trigger opens, 0 for none.
SubpanelOf(target) ==
    LET s == IF target.kind = "right trigger" THEN Applets[target.number].sub
             ELSE IF mapped THEN target.number - 1 ELSE 0
    IN  IF s \in DOMAIN Entries THEN s ELSE 0

Triggers == {"trigger", "right trigger"}

\* dispatch_panel_hit: whether the target does something for this button.
Does(target, button) ==
    LET module == CASE target.kind = "body" -> Launchers[target.number].module
                    [] target.kind \in {"right body", "applet"} -> Applets[target.number].module
                    [] OTHER -> ""
    IN  CASE target.kind \in {"entry", "workspace"} -> button = "left"
          [] target.kind \in Triggers -> button = "left" /\ SubpanelOf(target) # 0
          [] target.kind \in {"body", "right body", "applet"} ->
                \/ button = "left" /\ module \in CommandNames
                \/ button = "middle" /\ module = "style" /\ target.kind # "applet"
          [] target.kind = "wsm" -> button = "left" \/ (button = "middle" /\ target.number \in {1, 2})
          [] OTHER -> FALSE

\* What a state that has changed to becomes known by.
Announced(state) ==
    <<[topic |-> "panel", state |-> state]>>
    \o (IF state.theme = truth.theme THEN <<[topic |-> "workspaces", state |-> state]>> ELSE <<>>)

\* The daemon's state becomes this one.
Becomes(state) ==
    /\ truth' = state
    /\ stream' = IF link = "open" THEN stream \o Announced(state) ELSE stream

\* send_workspace_switch waits for the daemon's answer, which an unknown name does not change.
SwitchTo(name) ==
    IF up /\ name \in Range(truth.workspaces) THEN Becomes([truth EXCEPT !.current = name])
    ELSE UNCHANGED <<truth, stream>>

\* pointer_button and dispatch_panel_hit.
HandlePress ==
    /\ Take("press")
    /\ \E hit \in {IF onSubpanel THEN SubpanelTarget
                   ELSE Target(PanelHit[Len(view.workspaces)][pointer], view) : onSubpanel \in OnSubpanel} :
          LET press == Head(events)
              does == Does(hit, press.button)
              closes == sp.open /\ IF hit.kind = "entry" THEN does
                                   ELSE hit.kind \notin Triggers /\ sp.active # 0
          IN  /\ last' = [did |-> IF does THEN hit ELSE NoTarget, meant |-> press.meant,
                          excused |-> \/ press.of \notin {PanelSurface, sp.surface}
                                      \/ press.of # PanelSurface /\ sp.sub # sp.active
                                      \/ press.names # view.workspaces]
              /\ IF hit.kind \in Triggers /\ does THEN OpenSubpanel(SubpanelOf(hit), Tail(events))
                 ELSE /\ IF closes THEN CloseSubpanel(Tail(events))
                         ELSE events' = Tail(events) /\ UNCHANGED <<sp, popups>>
                      /\ UNCHANGED <<stack, excuses>>
              /\ IF hit.kind = "workspace" /\ does THEN SwitchTo(hit.name)
                 ELSE UNCHANGED <<truth, stream>>
    /\ UNCHANGED <<startVars, subscribed, link, up, dataVars, scale, running, configured, dirty,
                   paintedVars, pointerVars, budget>>

-----------------------------------------------------------------------------
(* Ends *)

\* The connection fails, in poll or in a roundtrip; before the loop also a signal ends the
\* program.
Fails ==
    /\ Input("end") /\ pc' = "over"
    /\ pc \in {"query", "subscribe", "drain", "roundtrip", "poll"} \/ stack # <<>>
    /\ UNCHANGED <<startVars, linkVars, daemonVars, dataVars, scale, running, configured, dirty,
                   paintedVars, popupVars, pointerVars, events, last>>

\* handle_signal_ready.
HandleSignal ==
    /\ Input("end") /\ pc = "poll" /\ pc' = "dispatch" /\ running' = FALSE
    /\ UNCHANGED <<startVars, linkVars, daemonVars, dataVars, scale, configured, dirty,
                   paintedVars, popupVars, pointerVars, events, last>>

Paneld == QueryTopic \/ QueriesEnd \/ Subscribe \/ HandleFrame \/ DrainEnds \/ HandleDisconnect
    \/ Connect \/ FirstRender \/ EndDispatch \/ HandleConfigure \/ HandleClosed \/ HandleFrameDone
    \/ HandleRelease \/ HandleScale \/ HandleSync \/ SkipEvent \/ SubpanelOpened
    \/ HandleSubpanelConfigure \/ HandleSubpanelClosed \/ HandlePointer \/ HandlePress

PaneldFaults == Fails \/ HandleSignal
=============================================================================
