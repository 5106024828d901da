---------------------------- MODULE PanelSession ----------------------------
(***************************************************************************)
(* The panel in a session: the compositor shows its surfaces, reports the  *)
(* pointer over them and ends them, the user presses on what is seen, and  *)
(* the daemon's state changes.                                             *)
(***************************************************************************)
EXTENDS Paneld

CONSTANTS States,                     \* the daemon's views
          Buttons

ASSUME PanelSessionAssumption ==
    /\ States # {}
    /\ \A state \in States :
          /\ state = [theme |-> state.theme, workspaces |-> state.workspaces,
                      current |-> state.current]
          /\ Len(state.workspaces) \in WorkspaceCounts

VARIABLE pointed  \* the surface that the compositor has the pointer on

sessionVars == <<vars, pointed>>

Init ==
    /\ PaneldInit
    /\ pointed = NoSurface
    /\ up = TRUE /\ truth = CHOOSE state \in States : TRUE

-----------------------------------------------------------------------------
(* The compositor and its user *)

\* What happens after the panel's end is left out.
Compositor ==
    /\ pc # "over"
    /\ UNCHANGED <<pc, startVars, linkVars, daemonVars, dataVars, scale, running, configured, dirty,
                   framePending, buffers, screen, attached, lost, sp, stack, pointerVars, last>>

\* What is to be seen at a point, of the panel or of a subpanel.  The workspace manager's
\* slots are larger than their icons, and a row also answers a bevel's width above where it
\* is drawn.
SeenInPanel(panel, p) ==
    LET drawn == DrawnInPanel(panel, p)
    IN  IF drawn = Nothing THEN FirstAt(WsmSlots(panel), p) ELSE drawn

PanelSeen == [count \in WorkspaceCounts |-> [p \in PanelPoints |-> SeenInPanel(Panel(count), p)]]

DrawnOnPanel(p) == {Target(PanelSeen[Len(screen.view.workspaces)][p], screen.view)}

DrawnOnSubpanel(s, p) ==
    LET drawn(q) == EntryTarget(s, DrawnInSubpanel(Entries[s], SubpanelWidth, q))
    IN  {drawn(p), drawn(<<p[1], p[2] + Contract.bevel_width>>)}

Presses(surface, p, meant) ==
    /\ Compositor /\ pointed' = surface
    /\ \E button \in Buttons :
          LET to == IF pointed = surface THEN "motion" ELSE "enter"
              left == IF pointed \in {surface, NoSurface} THEN <<>> ELSE <<Ev("leave", pointed)>>
          IN  events' = events \o left \o
                  <<[Ev(to, surface) EXCEPT !.at = p],
                    [type |-> "press", of |-> surface, at |-> <<0, 0>>, button |-> button,
                     meant |-> meant, names |-> screen.view.workspaces]>>
    /\ UNCHANGED <<owed, callbacks, popups, excuses>>

PressOnPanel ==
    /\ Input("press") /\ screen.view # NoView
    /\ \E p \in PanelPoints : Presses(PanelSurface, p, DrawnOnPanel(p))

PressOnSubpanel ==
    /\ Input("row")
    /\ \E n \in DOMAIN popups, p \in SubpanelPoints :
          popups[n].drawn # 0 /\ Presses(n, p, DrawnOnSubpanel(popups[n].drawn, p))

\* The compositor shows what is committed: it releases the buffers that have been replaced,
\* perhaps the last one, too, and sends the frame callbacks.
Presents ==
    /\ Compositor /\ callbacks > 0 /\ callbacks' = 0
    /\ \E kept \in {{}, {attached}} :
          LET released == [i \in 1..Cardinality(owed \ kept) |->
                              Ev("release", SetToSeq(owed \ kept)[i])]
              shown == [i \in 1..callbacks |-> Ev("frame", PanelSurface)]
          IN  /\ owed' = owed \cap kept
              /\ events' = events \o released \o shown
    /\ UNCHANGED <<popups, excuses, budget, pointed>>

Rescales ==
    /\ Compositor /\ Input("compositor") /\ configured /\ events' = Append(events, Ev("scale", 3 - scale))
    /\ UNCHANGED <<owed, callbacks, popups, excuses, pointed>>

Configures ==
    /\ Compositor /\ Input("compositor") /\ configured /\ events' = Append(events, Ev("configure", PanelSurface))
    /\ UNCHANGED <<owed, callbacks, popups, excuses, pointed>>

ClosesPanel ==
    /\ Compositor /\ Input("end") /\ configured /\ events' = Append(events, Ev("closed", PanelSurface))
    /\ UNCHANGED <<owed, callbacks, popups, excuses, pointed>>

\* The pointer leaves a subpanel that the compositor closes.
ClosesSubpanel ==
    /\ Compositor /\ Input("close")
    /\ \E n \in DOMAIN popups :
          /\ popups[n].state = "live"
          /\ popups' = [popups EXCEPT ![n] = [state |-> "closed", drawn |-> 0]]
          /\ events' = events \o (IF pointed = n THEN <<Ev("leave", n)>> ELSE <<>>)
                       \o <<Ev("closed", n)>>
          /\ pointed' = IF pointed = n THEN NoSurface ELSE pointed
    /\ excuses' = excuses \cup {"closed"}
    /\ UNCHANGED <<owed, callbacks>>

-----------------------------------------------------------------------------
(* The daemon *)

DaemonStep ==
    /\ pc # "over"
    /\ UNCHANGED <<pc, startVars, subscribed, dataVars, scale, running, configured, dirty,
                   paintedVars, popupVars, pointerVars, events, last, pointed>>

\* The theme changes, or the workspaces do.
DaemonChanges ==
    /\ DaemonStep /\ Input("change") /\ up
    /\ \E state \in States :
          /\ state # truth
          /\ state.theme = truth.theme \/ [state EXCEPT !.theme = truth.theme] = truth
          /\ Becomes(state)
    /\ UNCHANGED <<up, link>>

\* What it has sent can still be read.
DaemonStops ==
    /\ DaemonStep /\ Input("daemon") /\ up /\ up' = FALSE
    /\ link' = IF link = "open" THEN "closed" ELSE link
    /\ UNCHANGED <<truth, stream>>

DaemonStarts == DaemonStep /\ ~up /\ up' = TRUE /\ UNCHANGED <<truth, link, stream, budget>>

-----------------------------------------------------------------------------

\* A destroyed surface has the pointer no more.
PaneldStep ==
    /\ Paneld
    /\ pointed' = IF pointed > 0 /\ popups'[pointed].state = "gone" THEN NoSurface ELSE pointed

PaneldFault == PaneldFaults /\ UNCHANGED pointed

Next ==
    \/ PaneldStep \/ PaneldFault
    \/ PressOnPanel \/ PressOnSubpanel \/ Presents
    \/ Rescales \/ Configures \/ ClosesPanel \/ ClosesSubpanel
    \/ DaemonChanges \/ DaemonStops \/ DaemonStarts

Spec == Init /\ [][Next]_sessionVars

\* The panel's loop is not starved, and the compositor shows what is committed.
FairSpec ==
    /\ Spec /\ WF_sessionVars(PaneldStep) /\ WF_sessionVars(Presents)

-----------------------------------------------------------------------------
(* Properties *)

Surfaces == {NoSurface, PanelSurface} \cup DOMAIN popups
Names == UNION {Range(state.workspaces) : state \in States}
Targets == [kind: STRING, number: Nat, sub: {0} \cup DOMAIN Entries, name: Names \cup {""}]
Views == States \cup {NoView}

\* Everything keeps its type, a buffer that the compositor has is busy, and a frame callback
\* that is waited for will come.
TypeOK ==
    /\ pc \in {"query", "subscribe", "drain", "connect", "roundtrip", "synced", "poll",
               "dispatch", "over"}
    /\ {complete, subscribed, mapped, running, configured, dirty, framePending, lost, up} \subseteq BOOLEAN
    /\ attempts \in 0..MaxAttempts /\ asked \in 0..Len(Topics)
    /\ truth \in States /\ screen.view \in Views /\ scale \in 1..2
    /\ stream \in Seq([topic: Range(Topics), state: States]) /\ link \in {"none", "open", "closed"}
    /\ sp \in [surface: Surfaces, open: BOOLEAN, configured: BOOLEAN, sub: {0} \cup DOMAIN Entries,
               active: {0} \cup DOMAIN Entries]
    /\ popups \in Seq([state: {"live", "closed", "gone"}, drawn: {0} \cup DOMAIN Entries])
    /\ last.did \in Targets /\ focus \in Surfaces /\ pointed \in Surfaces /\ pointer \in Points
    /\ owed \subseteq {b \in 1..2 : buffers[b].busy}
    /\ framePending /\ pc # "over" =>
           callbacks > 0 \/ \E i \in DOMAIN events : events[i].type = "frame"

\* What a press does is what was drawn under the pointer when the button went down, or
\* nothing.  Excepted: a press on a surface that is not the panel's or the subpanel's any
\* more when it is handled (it is taken for a press on the panel), on the subpanel of a
\* nested opening, and when the names of the workspaces have changed in between.
ActsOnShown == last.excused \/ last.did \in last.meant \cup {NoTarget}

\* What ActsOnShown asks of the layout and of the points that are pressed: the panel's hit
\* test finds there what is seen, and on a subpanel they are not beside the rows, where a
\* press does what a press on the row does.
HitsAreSeen ==
    /\ \A count \in WorkspaceCounts, p \in PanelPoints :
          HitTestPanel(Panel(count), p) = SeenInPanel(Panel(count), p)
    /\ LET side == Contract.bevel_width + Contract.subpanel_padding
       IN  SubpanelPoints \subseteq (side..(SubpanelWidth - side - 1)) \X Nat

\* Unless an opening was nested in another's roundtrip, or the compositor closed a subpanel:
\* the surfaces that exist are the panel's current one, if any, and the open subpanel shows
\* the one that the hit tests and the trigger take for active.
OneSubpanel ==
    excuses = {} =>
        /\ \A n \in DOMAIN popups : popups[n].state # "gone" => n = sp.surface
        /\ sp.open => sp.active # 0 /\ popups[sp.surface].drawn \in {0, sp.active}

InLoop == pc \in {"poll", "dispatch"}

\* doc/README.haskell-runtime-architecture.md:747-753, README.md:39-42: the panel follows
\* the topics.  In the end it is over, or in its loop and shows what the daemon's state is,
\* unless its subscription ended before the loop or the last rendering found no buffer.
ShownInTheEnd ==
    <>[](pc = "over" \/ (InLoop /\ (~subscribed \/ lost \/ screen.view = truth)))
=============================================================================
