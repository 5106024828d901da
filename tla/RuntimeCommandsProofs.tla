----------------------- MODULE RuntimeCommandsProofs -----------------------
(***************************************************************************)
(* What the handlers keep, for any names, palettes, desks and commands:    *)
(* the backdrop plan follows the state, the style in memory follows        *)
(* style.env, every change is announced, state and file keep their types,  *)
(* the current workspace stays listed and desks follow their names.        *)
(* The lemmas that carry them, on the operators of RuntimeState and on each *)
(* handler, come first.                                                    *)
(* RuntimeDaemon commits its threads' commands one by one, so all of it    *)
(* holds of the concurrent daemon wherever ImplementsSerial does.          *)
(***************************************************************************)
EXTENDS RuntimeCommands, ListFacts

\* The fields of a runtime state.
Shaped(s) ==
    s = [workspaces |-> s.workspaces, current |-> s.current, windows |-> s.windows,
         style |-> s.style, palette |-> s.palette, backdrops |-> s.backdrops]

Planned(s) == s.backdrops = BackdropPlan(s.workspaces, s.current, s.style, s.palette)

\* A handler's result: a shaped state that follows its plan, with the style it was given
\* or the style of the file it returns.
Follows(transition, s) ==
    /\ Shaped(transition.state) /\ Planned(transition.state)
    /\ transition.state.style \in {s.style, ParseStyle(transition.file)}

\* refreshBackdropEntries makes any state follow its plan and changes nothing else.
LEMMA RefreshedIsPlanned ==
    ASSUME NEW s, Shaped(s)
    PROVE  LET r == RefreshBackdrops(s)
           IN  Shaped(r) /\ Planned(r) /\ r.style = s.style
  BY DEF Shaped, Planned, RefreshBackdrops

\* Replacing a field of a state leaves a state with that field, and two fields are
\* replaced one after the other.
LEMMA ReplacedField ==
    ASSUME NEW s, Shaped(s), NEW a
    PROVE  /\ LET r == [s EXCEPT !.workspaces = a]
              IN  Shaped(r) /\ r.style = s.style
           /\ LET r == [s EXCEPT !.current = a]
              IN  Shaped(r) /\ r.style = s.style
           /\ LET r == [s EXCEPT !.windows = a]
              IN  Shaped(r) /\ r.style = s.style /\ (Planned(s) => Planned(r))
           /\ LET r == [s EXCEPT !.style = a]
              IN  Shaped(r) /\ r.style = a
           /\ LET r == [s EXCEPT !.palette = a]
              IN  Shaped(r) /\ r.style = s.style
<1>1. DOMAIN s = {"workspaces", "current", "windows", "style", "palette", "backdrops"}
  BY DEF Shaped
<1>2. \A r : /\ DOMAIN r = DOMAIN s
             /\ r = [field \in DOMAIN r |-> r[field]]
             => Shaped(r)
  BY <1>1 DEF Shaped
<1>3. LET r == [s EXCEPT !.workspaces = a] IN Shaped(r) /\ r.style = s.style
  BY <1>1, <1>2
<1>4. LET r == [s EXCEPT !.current = a] IN Shaped(r) /\ r.style = s.style
  BY <1>1, <1>2
<1>5. LET r == [s EXCEPT !.windows = a] IN Shaped(r) /\ r.style = s.style
  BY <1>1, <1>2
<1>6. LET r == [s EXCEPT !.windows = a] IN Planned(s) => Planned(r)
  BY <1>1 DEF Planned
<1>7. LET r == [s EXCEPT !.style = a] IN Shaped(r) /\ r.style = a
  BY <1>1, <1>2
<1>8. LET r == [s EXCEPT !.palette = a] IN Shaped(r) /\ r.style = s.style
  BY <1>1, <1>2
<1> QED BY <1>3, <1>4, <1>5, <1>6, <1>7, <1>8

\* Updating the style replaces it and at most the palette.
LEMMA UpdatedIsShaped ==
    ASSUME NEW s, Shaped(s), NEW style
    PROVE  Shaped(UpdateFromStyle(s, style)) /\ UpdateFromStyle(s, style).style = style
<1> DEFINE p == IF PaletteColors(SelectedPalette(style)) = "" THEN s.palette
                ELSE PaletteColors(SelectedPalette(style))
           r == [s EXCEPT !.style = style]
<1>1. Shaped(r) /\ r.style = style
  BY ReplacedField
<1>2. UpdateFromStyle(s, style) = [r EXCEPT !.palette = p]
  BY DEF UpdateFromStyle, Shaped
<1> HIDE DEF r, p
<1>3. LET q == [r EXCEPT !.palette = p] IN Shaped(q) /\ q.style = r.style
  BY <1>1, ReplacedField
<1> QED BY <1>1, <1>2, <1>3

\* Every handler returns a state that follows its plan and its style file.
LEMMA HandlersFollow ==
    ASSUME NEW command, NEW s, NEW file, Shaped(s), Planned(s)
    PROVE  Follows(Handle(command, s, file), s)
<1>1. \A topics, deltas, f, e : Follows(Transition(s, f, topics, deltas, e), s)
  BY DEF Follows, Transition
<1>2. \A f : Follows(Unchanged(s, f), s)
  BY <1>1 DEF Unchanged
<1>3. \A r, f, topics, e :
        Shaped(r) /\ Planned(r) /\ r.style \in {s.style, ParseStyle(f)}
        => Follows(Announce(r, f, topics, e), s)
  BY DEF Follows, Announce, Transition
<1>4. Follows(WorkspaceSwitch(command, s, file), s)
  <2> DEFINE r == [s EXCEPT !.current = command.name]
  <2>1. Shaped(r) /\ r.style = s.style
    BY DEF Shaped
  <2> HIDE DEF r
  <2>2. LET n == RefreshBackdrops(r) IN Shaped(n) /\ Planned(n) /\ n.style = s.style
    BY <2>1, RefreshedIsPlanned
  <2> QED BY <2>2, <1>2, <1>3 DEF WorkspaceSwitch, r
<1>5. Follows(WorkspaceRename(command, s, file), s)
  <2> DEFINE Renamed(name) == IF name = command.old THEN command.new ELSE name
             q == [s EXCEPT !.workspaces = [i \in 1..Len(@) |-> Renamed(@[i])]]
             r == [s EXCEPT !.workspaces = [i \in 1..Len(@) |-> Renamed(@[i])],
                            !.current = Renamed(@)]
  <2>0. Shaped(q) /\ q.style = s.style
    BY ReplacedField
  <2>1. r = [q EXCEPT !.current = Renamed(s.current)]
    BY DEF Shaped
  <2>2. WorkspaceRename(command, s, file) =
          IF \/ command.new = "" \/ command.old = command.new
             \/ command.old \notin Range(s.workspaces)
          THEN Unchanged(s, file)
          ELSE Announce(RefreshBackdrops(r), file, ChangedWorkspaceTopics,
                        <<CompatCommand("runtime", command)>>)
    BY DEF WorkspaceRename
  <2> HIDE DEF q, r, Renamed
  <2>3. Shaped(r) /\ r.style = s.style
    BY <2>0, <2>1, ReplacedField
  <2>4. LET n == RefreshBackdrops(r) IN Shaped(n) /\ Planned(n) /\ n.style = s.style
    BY <2>3, RefreshedIsPlanned
  <2> QED BY <2>2, <2>4, <1>2, <1>3
<1>6. Follows(PublishWindows(command, s, file), s)
  <2> DEFINE w == IF command.frame = "" THEN "no-windows" ELSE command.frame
             r == [s EXCEPT !.windows = w]
  <2> HIDE DEF w
  <2>1. /\ LET q == [s EXCEPT !.windows = w] IN Shaped(q) /\ q.style = s.style
        /\ LET q == [s EXCEPT !.windows = w] IN Planned(s) => Planned(q)
    BY ReplacedField
  <2> HIDE DEF r
  <2>2. PublishWindows(command, s, file) = Announce(r, file, <<"windows", "taskd">>, <<>>)
    BY DEF PublishWindows, r, w
  <2>3. Shaped(r) /\ Planned(r) /\ r.style = s.style
    BY <2>1 DEF r
  <2> QED BY <2>2, <2>3, <1>3
<1>7. Follows(PublishWorkspaces(command, s, file), s)
  <2> DEFINE names == CanonicalNames(s.workspaces, command.frame.names)
             current == ResolveCurrent(command.frame.current, names, s.current)
             q == [s EXCEPT !.workspaces = names]
             r == [s EXCEPT !.workspaces = names, !.current = current]
  <2>1. PublishWorkspaces(command, s, file) =
          Announce(RefreshBackdrops(r), file, ChangedWorkspaceTopics, <<>>)
    BY DEF PublishWorkspaces
  <2> HIDE DEF names, current
  <2>2. r = [q EXCEPT !.current = current]
    BY DEF Shaped
  <2>3. Shaped(q) /\ q.style = s.style
    BY ReplacedField
  <2> HIDE DEF q, r
  <2>4. Shaped(r) /\ r.style = s.style
    BY <2>2, <2>3, ReplacedField
  <2>5. LET n == RefreshBackdrops(r) IN Shaped(n) /\ Planned(n) /\ n.style = s.style
    BY <2>4, RefreshedIsPlanned
  <2> QED BY <2>1, <2>5, <1>3
<1>8. \A f, e : Follows(StyleTransition(s, f, e), s)
  <2> TAKE f, e
  <2> DEFINE r == UpdateFromStyle(s, ParseStyle(f))
  <2>1. Shaped(r) /\ r.style = ParseStyle(f)
    BY UpdatedIsShaped
  <2>2. StyleTransition(s, f, e) =
          Announce(RefreshBackdrops(r), f, ChangedStyleTopics(s, RefreshBackdrops(r)), e)
    BY DEF StyleTransition
  <2> HIDE DEF r
  <2>3. LET n == RefreshBackdrops(r) IN Shaped(n) /\ Planned(n) /\ n.style = ParseStyle(f)
    BY <2>1, RefreshedIsPlanned
  <2> QED BY <2>2, <2>3, <1>3
<1>9. /\ Follows(ColorSelect(command, s, file), s)
      /\ Follows(BackdropSelect(command, s, file), s)
      /\ Follows(StyleSet(command, s, file), s)
      /\ Follows(StyleApply(command, s, file), s)
  BY <1>2, <1>8 DEF ColorSelect, BackdropSelect, StyleSet, StyleApply
<1>10. Follows(Refresh(command, s, file), s) /\ Follows(Reload(command, s, file), s)
  BY <1>1 DEF Refresh, Reload
<1>11. \A effect : Follows(EffectOnly(effect, s, file), s)
  BY <1>1 DEF EffectOnly
<1> QED BY <1>2, <1>4, <1>5, <1>6, <1>7, <1>9, <1>10, <1>11 DEF Handle

-----------------------------------------------------------------------------
(* Announcements *)

\* A topic that has changed is named, and an event carries its new entries.
Announces(transition, s, file) ==
    \A topic \in Topics \ {"session"} :
        TopicEntries(topic, transition.state, transition.file) # TopicEntries(topic, s, file)
        => /\ topic \in Range(transition.topics)
           /\ ResetDelta(topic, transition.state, transition.file) \in Range(transition.deltas)

\* A transition that announces a list of topics has the events of them all.
LEMMA AnnouncedHasEvents ==
    ASSUME NEW r, NEW file, NEW topics, IsList(topics), NEW effects,
           NEW topic, topic \in Range(topics)
    PROVE  LET t == Announce(r, file, topics, effects)
           IN  /\ topic \in Range(t.topics)
               /\ ResetDelta(topic, t.state, t.file) \in Range(t.deltas)
<1>1. PICK i \in 1..Len(topics) : topic = topics[i]
  BY ListShape
<1> DEFINE deltas == ResetDeltas(topics, r, file)
<1>2. i \in DOMAIN deltas /\ deltas[i] = ResetDelta(topic, r, file)
  BY <1>1 DEF ResetDeltas
<1>3. ResetDelta(topic, r, file) \in Range(deltas)
  BY <1>2 DEF Range
<1> HIDE DEF deltas
<1> QED BY <1>3 DEF Announce, Transition, deltas

\* What the topics show depends on these parts of the state.
LEMMA EntriesRead ==
    ASSUME NEW r, NEW s, NEW f, NEW g, NEW topic \in Topics \ {"session"},
           TopicEntries(topic, r, f) # TopicEntries(topic, s, g)
    PROVE  \/ /\ topic \in {"panel", "workspaces", "pager"}
              /\ r.workspaces # s.workspaces \/ r.current # s.current
           \/ topic = "panel" /\ (r.style.fp # s.style.fp \/ r.palette # s.palette)
           \/ topic = "backdrops" /\ r.backdrops # s.backdrops
           \/ topic \in {"windows", "taskd"} /\ r.windows # s.windows
           \/ topic = "style" /\ f # g
  BY DEF TopicEntries, Topics

\* A transition that leaves the state and the file alone owes nothing.
LEMMA NothingOwed ==
    ASSUME NEW t, NEW s, NEW file, t.state = s, t.file = file
    PROVE  Announces(t, s, file)
  BY DEF Announces

\* A change of the workspaces announces the topics that show them.
LEMMA WorkspacesAnnounced ==
    ASSUME NEW r, NEW s, NEW file, NEW effects,
           r.windows = s.windows, r.style = s.style, r.palette = s.palette
    PROVE  Announces(Announce(r, file, ChangedWorkspaceTopics, effects), s, file)
<1> DEFINE t == Announce(r, file, ChangedWorkspaceTopics, effects)
<1>1. IsList(ChangedWorkspaceTopics)
      /\ {"panel", "workspaces", "backdrops", "pager"} \subseteq Range(ChangedWorkspaceTopics)
  BY QuadList DEF ChangedWorkspaceTopics
<1>2. t.state = r /\ t.file = file
  BY DEF Announce, Transition
<1> HIDE DEF t
<1>3. ASSUME NEW topic \in Topics \ {"session"},
             TopicEntries(topic, t.state, t.file) # TopicEntries(topic, s, file)
      PROVE  topic \in Range(ChangedWorkspaceTopics)
  BY <1>1, <1>2, <1>3, EntriesRead
<1> QED BY <1>1, <1>3, AnnouncedHasEvents DEF Announces, t

\* Refreshing the plan of the backdrops keeps the rest of a state.
LEMMA RefreshKeeps ==
    ASSUME NEW s, Shaped(s), NEW q, DOMAIN q = DOMAIN s,
           q.windows = s.windows, q.style = s.style, q.palette = s.palette
    PROVE  /\ RefreshBackdrops(q).windows = s.windows
           /\ RefreshBackdrops(q).style = s.style
           /\ RefreshBackdrops(q).palette = s.palette
  BY DEF Shaped, RefreshBackdrops

\* A change of the style announces style, and the panel and the backdrops when they differ.
LEMMA StyleAnnounced ==
    ASSUME NEW s, Shaped(s), NEW file, NEW f, NEW effects
    PROVE  Announces(StyleTransition(s, f, effects), s, file)
<1> DEFINE u == UpdateFromStyle(s, ParseStyle(f))
           r == RefreshBackdrops(u)
           topics == ChangedStyleTopics(s, r)
           t == Announce(r, f, topics, effects)
<1>1. DOMAIN s = {"workspaces", "current", "windows", "style", "palette", "backdrops"}
  BY DEF Shaped
<1>2. /\ DOMAIN u = DOMAIN s /\ u.windows = s.windows
      /\ u.workspaces = s.workspaces /\ u.current = s.current
  BY <1>1 DEF UpdateFromStyle
<1> HIDE DEF u
<1>3. r.windows = s.windows /\ r.workspaces = s.workspaces /\ r.current = s.current
  BY <1>1, <1>2 DEF RefreshBackdrops
<1>4. StyleTransition(s, f, effects) = t
  BY DEF StyleTransition, u
<1> HIDE DEF r
<1>5. /\ IsList(topics) /\ "style" \in Range(topics)
      /\ r.style.fp # s.style.fp \/ r.palette # s.palette => "panel" \in Range(topics)
      /\ r.backdrops # s.backdrops => "backdrops" \in Range(topics)
  <2> DEFINE p == IF s.style.fp # r.style.fp \/ s.palette # r.palette THEN <<"panel">> ELSE <<>>
             b == IF \/ s.current # r.current \/ s.style # r.style
                     \/ s.palette # r.palette \/ s.backdrops # r.backdrops
                  THEN <<"backdrops">> ELSE <<>>
  <2>1. topics = <<"style">> \o p \o b
    BY DEF ChangedStyleTopics
  <2>2. /\ IsList(<<"style">>) /\ Range(<<"style">>) = {"style"}
        /\ IsList(<<"panel">>) /\ Range(<<"panel">>) = {"panel"}
        /\ IsList(<<"backdrops">>) /\ Range(<<"backdrops">>) = {"backdrops"}
    BY OneList
  <2>3. IsList(p) /\ (r.style.fp # s.style.fp \/ r.palette # s.palette => "panel" \in Range(p))
    BY <2>2, EmptyList
  <2>4. IsList(b) /\ (r.backdrops # s.backdrops => "backdrops" \in Range(b))
    BY <2>2, EmptyList
  <2> HIDE DEF p, b, topics
  <2>5. IsList(<<"style">> \o p) /\ Range(<<"style">> \o p) = Range(<<"style">>) \cup Range(p)
    BY <2>2, <2>3, ConcatList
  <2>6. IsList(topics) /\ Range(topics) = Range(<<"style">>) \cup Range(p) \cup Range(b)
    BY <2>1, <2>4, <2>5, ConcatList
  <2> QED BY <2>2, <2>3, <2>4, <2>6
<1>6. t.state = r /\ t.file = f
  BY DEF Announce, Transition
<1> HIDE DEF t, topics
<1>7. ASSUME NEW topic \in Topics \ {"session"},
             TopicEntries(topic, t.state, t.file) # TopicEntries(topic, s, file)
      PROVE  topic \in Range(topics)
  BY <1>3, <1>5, <1>6, <1>7, EntriesRead
<1> QED BY <1>4, <1>5, <1>7, AnnouncedHasEvents DEF Announces, t

\* Every handler announces what it changes.
LEMMA HandlersAnnounce ==
    ASSUME NEW command, NEW s, NEW file, Shaped(s)
    PROVE  Announces(Handle(command, s, file), s, file)
<1>1. \A topics, deltas, e : Announces(Transition(s, file, topics, deltas, e), s, file)
  BY NothingOwed DEF Transition
<1>2. Announces(Unchanged(s, file), s, file)
  BY <1>1 DEF Unchanged
<1>3. Announces(WorkspaceSwitch(command, s, file), s, file)
  <2> DEFINE q == [s EXCEPT !.current = command.name]
             r == RefreshBackdrops(q)
  <2>1. r.windows = s.windows /\ r.style = s.style /\ r.palette = s.palette
    <3>1. /\ DOMAIN q = DOMAIN s /\ q.windows = s.windows
          /\ q.style = s.style /\ q.palette = s.palette
      BY DEF Shaped
    <3> HIDE DEF q
    <3> QED BY <3>1, RefreshKeeps
  <2>2. \/ WorkspaceSwitch(command, s, file) = Unchanged(s, file)
        \/ \E e : WorkspaceSwitch(command, s, file) = Announce(r, file, ChangedWorkspaceTopics, e)
    BY DEF WorkspaceSwitch
  <2> HIDE DEF r
  <2> QED BY <1>2, <2>1, <2>2, WorkspacesAnnounced
<1>4. Announces(WorkspaceRename(command, s, file), s, file)
  <2> DEFINE Renamed(name) == IF name = command.old THEN command.new ELSE name
             names == [i \in 1..Len(s.workspaces) |-> Renamed(s.workspaces[i])]
             current == Renamed(s.current)
             q == [s EXCEPT !.workspaces = [i \in 1..Len(@) |-> Renamed(@[i])],
                            !.current = Renamed(@)]
             r == RefreshBackdrops(q)
  <2>1. q = [s EXCEPT !.workspaces = names, !.current = current]
    BY DEF Shaped
  <2> HIDE DEF q
  <2>2. \/ WorkspaceRename(command, s, file) = Unchanged(s, file)
        \/ \E e : WorkspaceRename(command, s, file) = Announce(r, file, ChangedWorkspaceTopics, e)
    BY DEF WorkspaceRename, q
  <2> HIDE DEF names, current
  <2>3. r.windows = s.windows /\ r.style = s.style /\ r.palette = s.palette
    <3>1. /\ DOMAIN q = DOMAIN s /\ q.windows = s.windows
          /\ q.style = s.style /\ q.palette = s.palette
      BY <2>1 DEF Shaped
    <3> QED BY <3>1, RefreshKeeps
  <2> HIDE DEF r
  <2> QED BY <1>2, <2>2, <2>3, WorkspacesAnnounced
<1>5. Announces(PublishWorkspaces(command, s, file), s, file)
  <2> DEFINE names == CanonicalNames(s.workspaces, command.frame.names)
             current == ResolveCurrent(command.frame.current, names, s.current)
             q == [s EXCEPT !.workspaces = names, !.current = current]
             r == RefreshBackdrops(q)
  <2>1. PublishWorkspaces(command, s, file) = Announce(r, file, ChangedWorkspaceTopics, <<>>)
    BY DEF PublishWorkspaces
  <2> HIDE DEF names, current
  <2>2. r.windows = s.windows /\ r.style = s.style /\ r.palette = s.palette
    <3>1. /\ DOMAIN q = DOMAIN s /\ q.windows = s.windows
          /\ q.style = s.style /\ q.palette = s.palette
      BY DEF Shaped
    <3> HIDE DEF q
    <3> QED BY <3>1, RefreshKeeps
  <2> HIDE DEF r
  <2> QED BY <2>1, <2>2, WorkspacesAnnounced
<1>6. Announces(PublishWindows(command, s, file), s, file)
  <2> DEFINE w == IF command.frame = "" THEN "no-windows" ELSE command.frame
             r == [s EXCEPT !.windows = w]
             t == Announce(r, file, <<"windows", "taskd">>, <<>>)
  <2>1. PublishWindows(command, s, file) = t
    BY DEF PublishWindows
  <2> HIDE DEF w
  <2>2. /\ r.workspaces = s.workspaces /\ r.current = s.current /\ r.style = s.style
        /\ r.palette = s.palette /\ r.backdrops = s.backdrops
    BY DEF Shaped
  <2>3. IsList(<<"windows", "taskd">>) /\ Range(<<"windows", "taskd">>) = {"windows", "taskd"}
    BY PairList
  <2>4. t.state = r /\ t.file = file
    BY DEF Announce, Transition
  <2> HIDE DEF r, t
  <2>5. ASSUME NEW topic \in Topics \ {"session"},
               TopicEntries(topic, t.state, t.file) # TopicEntries(topic, s, file)
        PROVE  topic \in Range(<<"windows", "taskd">>)
    BY <2>2, <2>3, <2>4, <2>5, EntriesRead
  <2> QED BY <2>1, <2>3, <2>5, AnnouncedHasEvents DEF Announces, t
<1>7. /\ Announces(ColorSelect(command, s, file), s, file)
      /\ Announces(BackdropSelect(command, s, file), s, file)
      /\ Announces(StyleSet(command, s, file), s, file)
      /\ Announces(StyleApply(command, s, file), s, file)
  BY <1>2, StyleAnnounced DEF ColorSelect, BackdropSelect, StyleSet, StyleApply
<1>8. Announces(Refresh(command, s, file), s, file) /\ Announces(Reload(command, s, file), s, file)
  BY <1>1 DEF Refresh, Reload
<1>9. \A effect : Announces(EffectOnly(effect, s, file), s, file)
  BY <1>1 DEF EffectOnly
<1> QED BY <1>2, <1>3, <1>4, <1>5, <1>6, <1>7, <1>8, <1>9 DEF Handle

\* Events come in the deltas of a handler on the topics of the daemon.
LEMMA DeltasHaveTopics ==
    ASSUME NEW command, NEW s, NEW file
    PROVE  LET deltas == Handle(command, s, file).deltas
           IN  \A i \in 1..Len(deltas) : deltas[i].topic \in Topics
<1> DEFINE Good(transition) ==
             \A i \in 1..Len(transition.deltas) : transition.deltas[i].topic \in Topics
<1>1. ASSUME NEW list \in Seq(Topics), NEW r, NEW f, NEW e
      PROVE  Good(Announce(r, f, list, e))
  <2> DEFINE deltas == ResetDeltas(list, r, f)
  <2>1. Len(deltas) = Len(list) /\ \A i \in 1..Len(list) : deltas[i].topic = list[i]
    BY DEF ResetDeltas, ResetDelta
  <2> HIDE DEF deltas
  <2> QED BY <2>1 DEF Announce, Transition, deltas
<1>2. \A t, f : Good(Unchanged(t, f))
  BY DEF Unchanged, Transition
<1>3. \A e, t, f : Good(EffectOnly(e, t, f))
  BY DEF EffectOnly, Transition
<1>4. ChangedWorkspaceTopics \in Seq(Topics) /\ <<"windows", "taskd">> \in Seq(Topics)
  BY DEF ChangedWorkspaceTopics, Topics
<1>5. \A old, new : ChangedStyleTopics(old, new) \in Seq(Topics)
  <2>1. ASSUME NEW p \in BOOLEAN, NEW b \in BOOLEAN
        PROVE  <<"style">> \o (IF p THEN <<"panel">> ELSE <<>>)
                 \o (IF b THEN <<"backdrops">> ELSE <<>>) \in Seq(Topics)
    <3>1. <<"style">> \in Seq(Topics) /\ <<"panel">> \in Seq(Topics)
          /\ <<"backdrops">> \in Seq(Topics) /\ <<>> \in Seq(Topics)
      BY DEF Topics
    <3> HIDE DEF Topics
    <3>2. (IF p THEN <<"panel">> ELSE <<>>) \in Seq(Topics)
          /\ (IF b THEN <<"backdrops">> ELSE <<>>) \in Seq(Topics)
      BY <3>1
    <3> QED BY <3>1, <3>2
  <2> QED BY <2>1 DEF ChangedStyleTopics
<1>6. \A r, f, e : Good(StyleTransition(r, f, e))
  BY <1>1, <1>5 DEF StyleTransition
<1>7. Good(Refresh(command, s, file)) /\ Good(Reload(command, s, file))
  BY DEF Refresh, Reload, Transition, ReloadTargets, ArtifactRefreshed, Topics
<1> HIDE DEF Good
<1>8. Good(WorkspaceSwitch(command, s, file)) /\ Good(WorkspaceRename(command, s, file))
  BY <1>1, <1>2, <1>4 DEF WorkspaceSwitch, WorkspaceRename
<1>9. Good(PublishWindows(command, s, file)) /\ Good(PublishWorkspaces(command, s, file))
  BY <1>1, <1>4 DEF PublishWindows, PublishWorkspaces
<1>10. /\ Good(ColorSelect(command, s, file)) /\ Good(BackdropSelect(command, s, file))
       /\ Good(StyleSet(command, s, file)) /\ Good(StyleApply(command, s, file))
  BY <1>2, <1>6 DEF ColorSelect, BackdropSelect, StyleSet, StyleApply
<1>11. Good(Handle(command, s, file))
  BY <1>2, <1>3, <1>7, <1>8, <1>9, <1>10 DEF Handle
<1> QED BY <1>11 DEF Good

\* The topics of a style change are listed in a fixed order.
LEMMA StyleTopicsAreListed == \A old, new : IsList(ChangedStyleTopics(old, new))
<1>1. ASSUME NEW p \in BOOLEAN, NEW b \in BOOLEAN
      PROVE  IsList(<<"style">> \o (IF p THEN <<"panel">> ELSE <<>>)
                      \o (IF b THEN <<"backdrops">> ELSE <<>>))
  <2>1. IsList(<<"style">>) /\ IsList(<<"panel">>) /\ IsList(<<"backdrops">>) /\ IsList(<<>>)
    BY OneList, EmptyList
  <2> QED BY <2>1, ConcatList
<1> QED BY <1>1 DEF ChangedStyleTopics

\* A RESET event among the deltas of a handler carries the entries its topic has after it.
LEMMA ResetsAreNew ==
    ASSUME NEW command, NEW s, NEW file
    PROVE  LET result == Handle(command, s, file)
           IN  \A i \in 1..Len(result.deltas) : result.deltas[i].reset =>
                  result.deltas[i] =
                      ResetDelta(result.deltas[i].topic, result.state, result.file)
<1> DEFINE Good(t) == \A i \in 1..Len(t.deltas) : t.deltas[i].reset =>
                          t.deltas[i] = ResetDelta(t.deltas[i].topic, t.state, t.file)
<1>1. ASSUME NEW list, IsList(list), NEW r, NEW f, NEW e
      PROVE  Good(Announce(r, f, list, e))
  <2> DEFINE deltas == ResetDeltas(list, r, f)
  <2>1. Len(list) \in Nat
    BY ListShape
  <2>2. /\ Len(deltas) = Len(list)
        /\ \A i \in 1..Len(list) : deltas[i] = ResetDelta(list[i], r, f)
    BY <2>1 DEF ResetDeltas
  <2> HIDE DEF deltas
  <2>3. \A topic : ResetDelta(topic, r, f).topic = topic
    BY DEF ResetDelta
  <2> QED BY <2>2, <2>3 DEF Announce, Transition, deltas
<1>2. \A t, f : Good(Unchanged(t, f))
  BY DEF Unchanged, Transition
<1>3. \A e, t, f : Good(EffectOnly(e, t, f))
  BY DEF EffectOnly, Transition
<1>4. IsList(ChangedWorkspaceTopics) /\ IsList(<<"windows", "taskd">>)
  BY QuadList, PairList DEF ChangedWorkspaceTopics
<1>5. \A r, f, e : Good(StyleTransition(r, f, e))
  BY <1>1, StyleTopicsAreListed DEF StyleTransition
<1>6. Good(Refresh(command, s, file)) /\ Good(Reload(command, s, file))
  BY DEF Refresh, Reload, Transition, ReloadTargets, ArtifactRefreshed
<1> HIDE DEF Good
<1>7. Good(WorkspaceSwitch(command, s, file)) /\ Good(WorkspaceRename(command, s, file))
  BY <1>1, <1>2, <1>4 DEF WorkspaceSwitch, WorkspaceRename
<1>8. Good(PublishWindows(command, s, file)) /\ Good(PublishWorkspaces(command, s, file))
  BY <1>1, <1>4 DEF PublishWindows, PublishWorkspaces
<1>9. /\ Good(ColorSelect(command, s, file)) /\ Good(BackdropSelect(command, s, file))
       /\ Good(StyleSet(command, s, file)) /\ Good(StyleApply(command, s, file))
  BY <1>2, <1>5 DEF ColorSelect, BackdropSelect, StyleSet, StyleApply
<1>10. Good(Handle(command, s, file))
  BY <1>2, <1>3, <1>6, <1>7, <1>8, <1>9 DEF Handle
<1> QED BY <1>10 DEF Good

\* A transition that announces a topic has events.
LEMMA TopicsHaveEvents ==
    ASSUME NEW command, NEW s, NEW file
    PROVE  LET result == Handle(command, s, file)
           IN  result.topics # <<>> => result.deltas # <<>>
<1> DEFINE Good(t) == t.topics # <<>> => t.deltas # <<>>
<1>1. ASSUME NEW list, IsList(list), NEW r, NEW f, NEW e
      PROVE  Good(Announce(r, f, list, e))
  <2> DEFINE deltas == ResetDeltas(list, r, f)
  <2>1. Len(list) \in Nat /\ (list # <<>> => Len(list) # 0)
    BY ListShape DEF IsList
  <2>2. DOMAIN deltas = 1..Len(list)
    BY <2>1 DEF ResetDeltas
  <2> HIDE DEF deltas
  <2>3. list # <<>> => 1 \in DOMAIN deltas
    BY <2>1, <2>2
  <2>4. list # <<>> => deltas # <<>>
    BY <2>3, EmptyList
  <2> QED BY <2>4 DEF Announce, Transition, deltas
<1>2. \A t, f : Good(Unchanged(t, f))
  BY DEF Unchanged, Transition
<1>3. \A e, t, f : Good(EffectOnly(e, t, f))
  BY DEF EffectOnly, Transition
<1>4. IsList(ChangedWorkspaceTopics) /\ IsList(<<"windows", "taskd">>)
  BY QuadList, PairList DEF ChangedWorkspaceTopics
<1>5. \A r, f, e : Good(StyleTransition(r, f, e))
  BY <1>1, StyleTopicsAreListed DEF StyleTransition
<1>6. Good(Refresh(command, s, file)) /\ Good(Reload(command, s, file))
  BY DEF Refresh, Reload, Transition, ReloadTargets
<1> HIDE DEF Good
<1>7. Good(WorkspaceSwitch(command, s, file)) /\ Good(WorkspaceRename(command, s, file))
  BY <1>1, <1>2, <1>4 DEF WorkspaceSwitch, WorkspaceRename
<1>8. Good(PublishWindows(command, s, file)) /\ Good(PublishWorkspaces(command, s, file))
  BY <1>1, <1>4 DEF PublishWindows, PublishWorkspaces
<1>9. /\ Good(ColorSelect(command, s, file)) /\ Good(BackdropSelect(command, s, file))
       /\ Good(StyleSet(command, s, file)) /\ Good(StyleApply(command, s, file))
  BY <1>2, <1>5 DEF ColorSelect, BackdropSelect, StyleSet, StyleApply
<1>10. Good(Handle(command, s, file))
  BY <1>2, <1>3, <1>6, <1>7, <1>8, <1>9 DEF Handle
<1> QED BY <1>10 DEF Good

\* The effects of a transition carry the command that asked for them: what the daemon
\* writes to a FIFO is what it was asked.
LEMMA EffectsCarryCommand ==
    ASSUME NEW command, NEW s, NEW file
    PROVE  LET effects == Handle(command, s, file).effects
           IN  IsList(effects) /\ \A e \in Range(effects) : e.command = command
<1> DEFINE Good(transition) ==
             /\ IsList(transition.effects)
             /\ \A e \in Range(transition.effects) : e.command = command
           Mine(list) == IsList(list) /\ \A e \in Range(list) : e.command = command
<1>1. Mine(<<>>)
  BY EmptyList
<1>2. \A k, f : Mine(<<Effect(k, command)>>) /\ Mine(<<CompatCommand(f, command)>>)
  <2> TAKE k, f
  <2>1. Effect(k, command).command = command /\ CompatCommand(f, command).command = command
    BY DEF Effect, CompatCommand
  <2> QED BY <2>1, OneList
<1>3. \A k, m : Mine(<<Effect(k, command), Effect(m, command)>>)
  <2> TAKE k, m
  <2>1. Effect(k, command).command = command /\ Effect(m, command).command = command
    BY DEF Effect
  <2> QED BY <2>1, PairList
<1>4. \A r, f, topics, deltas, list :
        Mine(list) => Good(Transition(r, f, topics, deltas, list))
  BY DEF Transition
<1>5. \A r, f, topics, list : Mine(list) => Good(Announce(r, f, topics, list))
  BY <1>4 DEF Announce
<1>6. \A f, list : Mine(list) => Good(StyleTransition(s, f, list))
  BY <1>5 DEF StyleTransition
<1> HIDE DEF Good, Mine
<1>7. Good(Unchanged(s, file))
  BY <1>1, <1>4 DEF Unchanged
<1>8. Good(WorkspaceSwitch(command, s, file)) /\ Good(WorkspaceRename(command, s, file))
  BY <1>2, <1>5, <1>7 DEF WorkspaceSwitch, WorkspaceRename
<1>9. Good(PublishWindows(command, s, file)) /\ Good(PublishWorkspaces(command, s, file))
  BY <1>1, <1>5 DEF PublishWindows, PublishWorkspaces
<1>10. /\ Good(ColorSelect(command, s, file)) /\ Good(BackdropSelect(command, s, file))
       /\ Good(StyleSet(command, s, file)) /\ Good(StyleApply(command, s, file))
  BY <1>1, <1>2, <1>6, <1>7 DEF ColorSelect, BackdropSelect, StyleSet, StyleApply
<1>11. Good(Refresh(command, s, file)) /\ Good(Reload(command, s, file))
  BY <1>2, <1>3, <1>4 DEF Refresh, Reload
<1>12. \A k, f : /\ Good(EffectOnly(Effect(k, command), s, file))
                 /\ Good(EffectOnly(CompatCommand(f, command), s, file))
  BY <1>2, <1>4 DEF EffectOnly
<1>13. Good(Handle(command, s, file))
  BY <1>7, <1>8, <1>9, <1>10, <1>11, <1>12 DEF Handle
<1> QED BY <1>13 DEF Good

-----------------------------------------------------------------------------
\* A refresh request names one of the targets.
LEMMA RefreshNamesTarget ==
    ASSUME NEW command \in Commands, command.op = "refresh"
    PROVE  command.target \in RefreshTargets
<1>1. command \in [op: {"refresh"}, target: RefreshTargets]
  <2>1. \A c \in Commands : c.op = "refresh" => c \in [op: {"refresh"}, target: RefreshTargets]
    BY DEF Commands
  <2> QED BY <2>1
<1> QED BY <1>1

\* An event among the deltas of a handler is a RESET event, or tells of an artifact.
LEMMA OverlaysAreArtifacts ==
    ASSUME NEW command \in Commands, NEW s, NEW file
    PROVE  LET deltas == Handle(command, s, file).deltas
           IN  \A i \in 1..Len(deltas) :
                  \/ deltas[i].reset
                  \/ \E target \in RefreshTargets : deltas[i] = ArtifactRefreshed(target)
<1> DEFINE Good(t) == \A i \in 1..Len(t.deltas) :
                          \/ t.deltas[i].reset
                          \/ \E target \in RefreshTargets :
                                t.deltas[i] = ArtifactRefreshed(target)
<1>1. ASSUME NEW list, IsList(list), NEW r, NEW f, NEW e
      PROVE  Good(Announce(r, f, list, e))
  <2> DEFINE deltas == ResetDeltas(list, r, f)
  <2>1. Len(list) \in Nat
    BY ListShape
  <2>2. /\ Len(deltas) = Len(list)
        /\ \A i \in 1..Len(list) : deltas[i] = ResetDelta(list[i], r, f)
    BY <2>1 DEF ResetDeltas
  <2> HIDE DEF deltas
  <2>3. \A topic : ResetDelta(topic, r, f).reset
    BY DEF ResetDelta
  <2> QED BY <2>2, <2>3 DEF Announce, Transition, deltas
<1>2. \A t, f : Good(Unchanged(t, f))
  BY DEF Unchanged, Transition
<1>3. \A e, t, f : Good(EffectOnly(e, t, f))
  BY DEF EffectOnly, Transition
<1>4. \A r, f, e : Good(StyleTransition(r, f, e))
  BY <1>1, StyleTopicsAreListed DEF StyleTransition
<1>5. IsList(ChangedWorkspaceTopics) /\ IsList(<<"windows", "taskd">>)
  BY QuadList, PairList DEF ChangedWorkspaceTopics
<1>6. command.op = "refresh" => Good(Refresh(command, s, file))
  BY RefreshNamesTarget DEF Refresh, Transition
<1>7. Good(Reload(command, s, file))
  BY DEF Reload, Transition, ReloadTargets, RefreshTargets
<1> HIDE DEF Good
<1>8. Good(WorkspaceSwitch(command, s, file)) /\ Good(WorkspaceRename(command, s, file))
  BY <1>1, <1>2, <1>5 DEF WorkspaceSwitch, WorkspaceRename
<1>9. Good(PublishWindows(command, s, file)) /\ Good(PublishWorkspaces(command, s, file))
  BY <1>1, <1>5 DEF PublishWindows, PublishWorkspaces
<1>10. /\ Good(ColorSelect(command, s, file)) /\ Good(BackdropSelect(command, s, file))
       /\ Good(StyleSet(command, s, file)) /\ Good(StyleApply(command, s, file))
  BY <1>2, <1>4 DEF ColorSelect, BackdropSelect, StyleSet, StyleApply
<1>11. Good(Handle(command, s, file))
  BY <1>2, <1>3, <1>6, <1>7, <1>8, <1>9, <1>10 DEF Handle
<1> QED BY <1>11 DEF Good

-----------------------------------------------------------------------------
(* The serial machine *)

Inv == Shaped(runtimeState) /\ BackdropsFollowState

\* The state loaded at the start has its plan.
LEMMA InitFollows == SerialInit => Inv
<1> SUFFICES ASSUME SerialInit PROVE Inv
  OBVIOUS
<1>1. PICK current \in Names, windows \in WindowFrames \cup {""} :
        runtimeState = LoadRuntimeState(InitialNames, current, windows, styleFile)
  BY DEF SerialInit
<1> DEFINE r == [workspaces |-> InitialNames, current |-> current,
                 windows |-> IF windows = "" THEN "no-windows" ELSE windows,
                 style |-> ParseStyle(styleFile),
                 palette |-> PaletteColors(SelectedPalette(ParseStyle(styleFile))),
                 backdrops |-> <<>>]
<1>2. runtimeState = RefreshBackdrops(r)
  BY <1>1 DEF LoadRuntimeState
<1>3. Shaped(r)
  BY DEF Shaped
<1> HIDE DEF r
<1> QED BY <1>2, <1>3, RefreshedIsPlanned DEF Inv, Planned, BackdropsFollowState

\* A step of the machine is a handler's result, or leaves the state and changes the file.
LEMMA StepFollows ==
    Inv /\ [SerialNext]_stateVars =>
        /\ Inv'
        /\ runtimeState'.style \in {runtimeState.style, ParseStyle(styleFile')}
<1> SUFFICES ASSUME Inv, [SerialNext]_stateVars
             PROVE  Inv' /\ runtimeState'.style \in {runtimeState.style, ParseStyle(styleFile')}
  OBVIOUS
<1>1. ASSUME NEW command \in Requests, Execute(command)
      PROVE  Inv' /\ runtimeState'.style \in {runtimeState.style, ParseStyle(styleFile')}
  <2>1. Follows(Handle(command, runtimeState, styleFile), runtimeState)
    BY HandlersFollow DEF Inv, Planned, BackdropsFollowState
  <2> QED BY <1>1, <2>1 DEF Execute, Follows, Inv, Planned, BackdropsFollowState
<1>2. CASE UNCHANGED runtimeState
  BY <1>2 DEF Inv, BackdropsFollowState
<1> QED BY <1>1, <1>2 DEF SerialNext, AbortAfterWrite, stateVars

\* The published backdrop is always the plan of the current desk, style and palette.
THEOREM BackdropsAreFollowed == SerialSpec => []BackdropsFollowState
<1>1. Inv => BackdropsFollowState
  BY DEF Inv
<1>2. Inv /\ [SerialNext]_stateVars => Inv'
  BY StepFollows
<1> QED BY <1>1, <1>2, InitFollows, PTL DEF SerialSpec

\* The style in memory only ever becomes what style.env says at that moment.
THEOREM StyleIsRead == SerialSpec => StyleFollowsFile
<1>1. Inv /\ [SerialNext]_stateVars => Inv'
  BY StepFollows
<1>2. Inv /\ [SerialNext]_stateVars =>
        [runtimeState'.style # runtimeState.style
         => runtimeState'.style = ParseStyle(styleFile')]_stateVars
  BY StepFollows
<1> QED BY <1>1, <1>2, InitFollows, PTL DEF SerialSpec, StyleFollowsFile

\* ChangesAreAnnounced, for any names, palettes, desks and commands: whatever topic but
\* session a command changes, it names it and sends its new entries, also from a state
\* whose style.env an aborted command has overtaken.
THEOREM ChangesAreSeen == SerialSpec => []ChangesAreAnnounced
<1>1. Inv => ChangesAreAnnounced
  BY HandlersAnnounce DEF Inv, Announces, ChangesAreAnnounced
<1>2. Inv /\ [SerialNext]_stateVars => Inv'
  BY StepFollows
<1> QED BY <1>1, <1>2, InitFollows, PTL DEF SerialSpec

-----------------------------------------------------------------------------
(* Types: what the operators on workspaces, plans and files return          *)

\* The names after a publication begin with the known ones.
LEMMA CanonicalGrows ==
    ASSUME NEW S, NEW known \in Seq(S), NEW published \in Seq(S)
    PROVE  LET names == CanonicalNames(known, published)
           IN  /\ names \in Seq(S) /\ Len(known) <= Len(names)
               /\ \A i \in 1..Len(known) : names[i] = known[i]
               /\ Range(known) \subseteq Range(names)
<1> DEFINE added == Outside(Range(known), published)
           names == CanonicalNames(known, published)
<1>1. added \in Seq(S)
  BY OutsideList
<1>2. names = known \o added
  BY DEF CanonicalNames
<1> HIDE DEF added, names
<1>3. /\ names \in Seq(S) /\ Len(names) = Len(known) + Len(added)
      /\ \A i \in 1..Len(known) : names[i] = known[i]
  BY <1>1, <1>2
<1>4. Len(known) \in Nat /\ Len(added) \in Nat
  BY <1>1
<1>5. Len(known) <= Len(names)
  BY <1>3, <1>4
<1>6. IsList(known) /\ IsList(added) /\ Range(names) = Range(known) \cup Range(added)
  BY <1>1, <1>2, SeqIsList, ConcatList
<1> QED BY <1>3, <1>5, <1>6 DEF names

\* The resolved current name is one of the names, when there are any.
LEMMA ResolvedIsListed ==
    ASSUME NEW S, NEW names \in Seq(S), NEW requested, NEW fallback \in S
    PROVE  LET current == ResolveCurrent(requested, names, fallback)
           IN  /\ current \in S
               /\ names # <<>> => current \in Range(names)
<1>1. Range(names) \subseteq S
  BY SeqIsList
<1>2. CASE names = <<>>
  BY <1>2 DEF ResolveCurrent
<1>3. CASE names # <<>>
  <2>1. 1 \in DOMAIN names /\ Head(names) = names[1]
    BY <1>3
  <2>2. Head(names) \in Range(names)
    BY <2>1 DEF Range
  <2> QED BY <1>1, <1>3, <2>2 DEF ResolveCurrent
<1> QED BY <1>2, <1>3

\* The index of a name is a number.
LEMMA IndexIsNumber ==
    ASSUME NEW S, NEW name, NEW names \in Seq(S)
    PROVE  IndexOf(name, names) \in Nat
<1> DEFINE I == {i \in 1..Len(names) : names[i] = name}
<1>1. I \subseteq Nat
  OBVIOUS
<1>2. IndexOf(name, names) = IF I # {} THEN Min(I) ELSE 0
  BY DEF IndexOf, SelectInSeq
<1> HIDE DEF I
<1>3. ASSUME I # {}
      PROVE  Min(I) \in Nat
  <2>1. \E x \in I : \A y \in I : x <= y
    BY <1>1, <1>3, SmallestExists
  <2>2. Min(I) \in I
    BY <2>1 DEF Min
  <2> QED BY <1>1, <2>2
<1> QED BY <1>2, <1>3

LEMMA DesksCountFromOne == \A index \in Nat : (IF index = 0 THEN 1 ELSE index) \in Nat \ {0}
  OBVIOUS

\* The default images are used in turn.
LEMMA FourPictures ==
    \A desk \in Nat \ {0} : ((desk - 1) % 4) + 1 \in {1, 2, 3, 4}
<1> TAKE desk \in Nat \ {0}
<1>1. (desk - 1) % 4 \in 0..3
  OBVIOUS
<1> QED BY <1>1

LEMMA DefaultsAreListed ==
    \A i \in {1, 2, 3, 4} : DefaultImages[i] \in Range(DefaultImages)
<1>1. {1, 2, 3, 4} \subseteq DOMAIN <<"Ankh", "BrickWall", "Convex", "Toronto">>
  OBVIOUS
<1>2. DefaultImages = <<"Ankh", "BrickWall", "Convex", "Toronto">>
  BY DEF DefaultImages
<1> QED BY <1>1, <1>2 DEF Range

\* The plan has an image on every desk.
LEMMA PlanIsTyped ==
    ASSUME NEW names \in Seq(Names), NEW current \in Names, NEW style \in Styles,
           NEW palette \in Palettes \cup {""}
    PROVE  BackdropPlan(names, current, style, palette) \in Plans
<1> DEFINE desk == CurrentDesk(names, current)
<1>1. desk \in Nat \ {0}
  <2> DEFINE index == IndexOf(current, names)
  <2>1. index \in Nat
    BY IndexIsNumber
  <2>2. desk = IF index = 0 THEN 1 ELSE index
    BY DEF CurrentDesk
  <2> HIDE DEF index, desk
  <2> QED BY <2>1, <2>2, DesksCountFromOne
<1>2. BackdropPlan(names, current, style, palette) =
        [workspace |-> current, desk |-> desk, image |-> DeskImage(style, desk), color |-> palette]
  BY DEF BackdropPlan
<1> HIDE DEF desk
<1>3. DefaultImage(desk) \in Range(DefaultImages)
  <2>1. ((desk - 1) % 4) + 1 \in {1, 2, 3, 4}
    BY <1>1, FourPictures
  <2>2. DefaultImages[((desk - 1) % 4) + 1] \in Range(DefaultImages)
    BY <2>1, DefaultsAreListed
  <2> QED BY <2>2 DEF DefaultImage
<1>4. style.desk \in [1..MaxDesk -> Images \cup {""}]
  BY DEF Styles
<1> DEFINE chosen(d) == IF d \in 1..MaxDesk THEN style.desk[d] ELSE ""
<1>5. \A d : chosen(d) \in Images \cup {""}
  BY <1>4
<1>6. DeskImage(style, desk) =
        CASE chosen(desk) # "" -> chosen(desk)
          [] chosen(desk) = "" /\ chosen(1) # "" -> chosen(1)
          [] OTHER -> DefaultImage(desk)
  BY DEF DeskImage
<1> HIDE DEF chosen
<1>7. DeskImage(style, desk) \in Images \cup Range(DefaultImages)
  BY <1>3, <1>5, <1>6
<1> DEFINE image == DeskImage(style, desk)
<1> HIDE DEF image
<1>8. image \in Images \cup Range(DefaultImages)
  BY <1>7 DEF image
<1>9. [workspace |-> current, desk |-> desk, image |-> image, color |-> palette] \in Plans
  BY <1>1, <1>8 DEF Plans
<1> QED BY <1>2, <1>9 DEF image

\* Editing keys of style.env leaves a style file, from which a style is parsed.
LEMMA FilesAreTyped ==
    ASSUME NEW file \in StyleFiles
    PROVE  /\ ParseStyle(file) \in Styles
           /\ \A updates \in StyleUpdates : MergeStyle(file, updates) \in StyleFiles
           /\ \A palette \in Palettes \cup {""}, colors \in Int :
                MergeStyle(file, [palette |-> palette, colors |-> colors]) \in StyleFiles
           /\ \A desk \in [1..MaxDesk -> Images \cup {""}] :
                MergeStyle(file, [desk |-> desk]) \in StyleFiles
<1>1. ParseStyle(file) \in Styles
  BY DEF ParseStyle, Styles, StyleFiles, FocusPolicies
<1>2. ASSUME NEW u,
             "palette" \in DOMAIN u => u["palette"] \in Palettes \cup {""},
             "colors" \in DOMAIN u => u["colors"] \in Int,
             "fp" \in DOMAIN u => u["fp"] \in FpVariants,
             "focus" \in DOMAIN u => u["focus"] \in FocusPolicies,
             "desk" \in DOMAIN u => u["desk"] \in [1..MaxDesk -> Images \cup {""}]
      PROVE  MergeStyle(file, u) \in StyleFiles
  <2> DEFINE merged == MergeStyle(file, u)
  <2>1. DOMAIN file = {"palette", "colors", "fp", "focus", "desk"}
    BY DEF StyleFiles
  <2>2. /\ file["palette"] \in Palettes \cup {""} /\ file["colors"] \in Int
        /\ file["fp"] \in FpVariants /\ file["focus"] \in FocusPolicies
        /\ file["desk"] \in [1..MaxDesk -> Images \cup {""}]
    BY DEF StyleFiles
  <2>3. merged = [key \in {"palette", "colors", "fp", "focus", "desk"} |-> merged[key]]
    BY <2>1 DEF MergeStyle
  <2>4. \A key \in {"palette", "colors", "fp", "focus", "desk"} :
          merged[key] = IF key \in DOMAIN u THEN u[key] ELSE file[key]
    BY <2>1 DEF MergeStyle
  <2> HIDE DEF merged
  <2>5. merged["palette"] \in Palettes \cup {""}
    BY <1>2, <2>2, <2>4
  <2>6. merged["colors"] \in Int
    BY <1>2, <2>2, <2>4
  <2>7. merged["fp"] \in FpVariants
    BY <1>2, <2>2, <2>4
  <2>8. merged["focus"] \in FocusPolicies
    BY <1>2, <2>2, <2>4
  <2>9. merged["desk"] \in [1..MaxDesk -> Images \cup {""}]
    BY <1>2, <2>2, <2>4
  <2>10. merged = [palette |-> merged["palette"], colors |-> merged["colors"], fp |-> merged["fp"],
                   focus |-> merged["focus"], desk |-> merged["desk"]]
    BY <2>3
  <2>11. merged \in StyleFiles
    BY <2>5, <2>6, <2>7, <2>8, <2>9, <2>10 DEF StyleFiles
  <2> QED BY <2>11 DEF merged
<1>3. ASSUME NEW updates \in StyleUpdates
      PROVE  MergeStyle(file, updates) \in StyleFiles
  <2>1. CASE updates \in [palette: Palettes \cup {""}]
    BY <1>2, <2>1
  <2>2. CASE updates \in [fp: FpVariants]
    BY <1>2, <2>2
  <2>3. CASE updates \in [focus: FocusPolicies]
    BY <1>2, <2>3
  <2> QED BY <2>1, <2>2, <2>3 DEF StyleUpdates
<1>4. ASSUME NEW palette \in Palettes \cup {""}, NEW colors \in Int
      PROVE  MergeStyle(file, [palette |-> palette, colors |-> colors]) \in StyleFiles
  BY <1>2
<1>5. ASSUME NEW desk \in [1..MaxDesk -> Images \cup {""}]
      PROVE  MergeStyle(file, [desk |-> desk]) \in StyleFiles
  BY <1>2
<1> QED BY <1>1, <1>3, <1>4, <1>5

-----------------------------------------------------------------------------
(* The state after a command                                               *)

\* How a command can change the names: not, by a rename, or by a publication.
Switched(new, s) ==
    /\ new.workspaces = s.workspaces
    /\ new.current \in {s.current} \cup Range(s.workspaces)

RenamedTo(new, s, old, name) ==
    /\ new.workspaces = [i \in 1..Len(s.workspaces) |->
                            IF s.workspaces[i] = old THEN name ELSE s.workspaces[i]]
    /\ new.current = IF s.current = old THEN name ELSE s.current

PublishedTo(new, s, names, requested) ==
    /\ new.workspaces = CanonicalNames(s.workspaces, names)
    /\ new.current = ResolveCurrent(requested, new.workspaces, s.current)

NamesFollow(new, s) ==
    \/ Switched(new, s)
    \/ \E old, name \in Names : RenamedTo(new, s, old, name)
    \/ \E names \in Seq(Names), requested \in Names \cup {""} :
          PublishedTo(new, s, names, requested)

\* What a command makes of a state and a style file.
Fits(t, s) ==
    /\ NamesFollow(t.state, s)
    /\ t.state.windows \in WindowFrames \cup {"no-windows"}
    /\ t.state.palette \in Palettes \cup {""}
    /\ t.file \in StyleFiles

\* What is left of a state when its plan is refreshed.
LEMMA RefreshKeepsNames ==
    ASSUME NEW s, Shaped(s)
    PROVE  LET r == RefreshBackdrops(s)
           IN  /\ r.workspaces = s.workspaces /\ r.current = s.current
               /\ r.windows = s.windows /\ r.palette = s.palette
  BY DEF Shaped, RefreshBackdrops

\* The fields of a state in which one is replaced.
LEMMA NamesReplaced ==
    ASSUME NEW s, Shaped(s), NEW a, NEW r, r = [s EXCEPT !.workspaces = a]
    PROVE  /\ Shaped(r) /\ r.workspaces = a /\ r.current = s.current
           /\ r.windows = s.windows /\ r.palette = s.palette
<1>1. Shaped(r)
  BY ReplacedField
<1>2. /\ r.workspaces = a /\ r.current = s.current
      /\ r.windows = s.windows /\ r.palette = s.palette
  BY DEF Shaped
<1> QED BY <1>1, <1>2

LEMMA CurrentReplaced ==
    ASSUME NEW s, Shaped(s), NEW a, NEW r, r = [s EXCEPT !.current = a]
    PROVE  /\ Shaped(r) /\ r.workspaces = s.workspaces /\ r.current = a
           /\ r.windows = s.windows /\ r.palette = s.palette
<1>1. Shaped(r)
  BY ReplacedField
<1>2. /\ r.workspaces = s.workspaces /\ r.current = a
      /\ r.windows = s.windows /\ r.palette = s.palette
  BY DEF Shaped
<1> QED BY <1>1, <1>2

LEMMA WindowsReplaced ==
    ASSUME NEW s, Shaped(s), NEW a, NEW r, r = [s EXCEPT !.windows = a]
    PROVE  /\ r.workspaces = s.workspaces /\ r.current = s.current
           /\ r.windows = a /\ r.palette = s.palette
  BY DEF Shaped

\* A state of the machine has its fields.
LEMMA StateFields ==
    ASSUME NEW s \in States
    PROVE  /\ Shaped(s)
           /\ s.workspaces \in Seq(Names) /\ s.current \in Names
           /\ s.windows \in WindowFrames \cup {"no-windows"}
           /\ s.style \in Styles /\ s.palette \in Palettes \cup {""} /\ s.backdrops \in Plans
  BY DEF States, Shaped

\* The arguments of a command.
LEMMA CommandFields ==
    ASSUME NEW command \in Commands
    PROVE  /\ command.op = "workspace-rename" =>
                /\ command.old \in Names \cup {""}
                /\ command.new \in Names \cup {""}
           /\ command.op = "publish-windows" => command.frame \in WindowFrames \cup {""}
           /\ command.op = "publish-workspaces" =>
                /\ command.frame.names \in Seq(Names)
                /\ command.frame.current \in Names \cup {""}
           /\ command.op = "color-select" =>
                /\ command.palette \in Palettes \cup {""}
                /\ command.colors \in Int
           /\ command.op = "backdrop-select" => command.image \in Images \cup {""}
           /\ command.op = "style-set" => command.updates \in StyleUpdates
<1>1. command.op = "workspace-rename" =>
        command.old \in Names \cup {""} /\ command.new \in Names \cup {""}
  BY DEF Commands
<1>2. command.op = "publish-windows" => command.frame \in WindowFrames \cup {""}
  BY DEF Commands
<1>3. command.op = "publish-workspaces" => command.frame \in WorkspaceFrames(Seq(Names))
  BY DEF Commands
<1>4. command.op = "color-select" =>
        command.palette \in Palettes \cup {""} /\ command.colors \in Int
  BY DEF Commands
<1>5. command.op = "backdrop-select" => command.image \in Images \cup {""}
  BY DEF Commands
<1>6. command.op = "style-set" => command.updates \in StyleUpdates
  BY DEF Commands
<1>7. command.op = "publish-workspaces" =>
        /\ command.frame.names \in Seq(Names)
        /\ command.frame.current \in Names \cup {""}
  BY <1>3 DEF WorkspaceFrames
<1> QED BY <1>1, <1>2, <1>4, <1>5, <1>6, <1>7

\* A palette that is shown is one a style may name.
LEMMA ColorsAreTyped ==
    ASSUME NEW style
    PROVE  PaletteColors(SelectedPalette(style)) \in Palettes \cup {""}
  BY RuntimeStateAssumption DEF RuntimeStateAssumption, PaletteColors

LEMMA HandlersFit ==
    ASSUME NEW command \in Commands, NEW s \in States, NEW file \in StyleFiles
    PROVE  Fits(Handle(command, s, file), s)
<1>1. /\ Shaped(s)
      /\ s.workspaces \in Seq(Names) /\ s.current \in Names
      /\ s.windows \in WindowFrames \cup {"no-windows"} /\ s.palette \in Palettes \cup {""}
  BY StateFields
<1>2. ASSUME NEW topics, NEW deltas, NEW f \in StyleFiles, NEW e
      PROVE  Fits(Transition(s, f, topics, deltas, e), s)
  <2> DEFINE t == Transition(s, f, topics, deltas, e)
  <2>1. t.state = s /\ t.file = f
    BY DEF Transition
  <2> HIDE DEF t
  <2>2. NamesFollow(t.state, s)
    BY <2>1 DEF NamesFollow, Switched
  <2>3. Fits(t, s)
    BY <1>1, <2>1, <2>2 DEF Fits
  <2> QED BY <2>3 DEF t
<1>3. Fits(Unchanged(s, file), s)
  BY <1>2 DEF Unchanged
<1>4. ASSUME NEW r, NEW f \in StyleFiles, NEW topics, NEW e, NamesFollow(r, s),
             r.windows \in WindowFrames \cup {"no-windows"}, r.palette \in Palettes \cup {""}
      PROVE  Fits(Announce(r, f, topics, e), s)
  <2> DEFINE t == Announce(r, f, topics, e)
  <2>1. t.state = r /\ t.file = f
    BY DEF Announce, Transition
  <2> HIDE DEF t
  <2>2. Fits(t, s)
    BY <1>4, <2>1 DEF Fits
  <2> QED BY <2>2 DEF t
<1>5. Fits(WorkspaceSwitch(command, s, file), s)
  <2> DEFINE r == [s EXCEPT !.current = command.name]
             n == RefreshBackdrops(r)
  <2>1. /\ Shaped(r) /\ r.workspaces = s.workspaces /\ r.current = command.name
        /\ r.windows = s.windows /\ r.palette = s.palette
    <3>1. r = [s EXCEPT !.current = command.name]
      OBVIOUS
    <3>2. Shaped(s)
      BY <1>1
    <3> HIDE DEF r
    <3> QED BY <3>1, <3>2, CurrentReplaced
  <2>2. WorkspaceSwitch(command, s, file) =
          IF command.name \in Range(s.workspaces)
          THEN Announce(n, file, ChangedWorkspaceTopics, <<CompatCommand("pager", command)>>)
          ELSE Unchanged(s, file)
    BY DEF WorkspaceSwitch
  <2> HIDE DEF r
  <2>3. /\ n.workspaces = s.workspaces /\ n.current = command.name
        /\ n.windows = s.windows /\ n.palette = s.palette
    BY <2>1, RefreshKeepsNames
  <2> HIDE DEF n
  <2>4. command.name \in Range(s.workspaces) => NamesFollow(n, s)
    BY <2>3 DEF NamesFollow, Switched
  <2> QED BY <1>1, <1>3, <1>4, <2>2, <2>3, <2>4
<1>6. command.op = "workspace-rename" => Fits(WorkspaceRename(command, s, file), s)
  <2> SUFFICES ASSUME command.op = "workspace-rename"
               PROVE  Fits(WorkspaceRename(command, s, file), s)
    OBVIOUS
  <2> DEFINE Renamed(name) == IF name = command.old THEN command.new ELSE name
             names == [i \in 1..Len(s.workspaces) |-> Renamed(s.workspaces[i])]
             current == Renamed(s.current)
             q == [s EXCEPT !.workspaces = names]
             r == [q EXCEPT !.current = current]
             n == RefreshBackdrops(r)
             quiet == \/ command.new = "" \/ command.old = command.new
                      \/ command.old \notin Range(s.workspaces)
  <2>1. WorkspaceRename(command, s, file) =
          IF quiet THEN Unchanged(s, file)
          ELSE Announce(n, file, ChangedWorkspaceTopics, <<CompatCommand("runtime", command)>>)
    <3>1. [s EXCEPT !.workspaces = [i \in 1..Len(@) |-> Renamed(@[i])], !.current = Renamed(@)] = r
      BY <1>1 DEF Shaped
    <3> HIDE DEF r
    <3> QED BY <3>1 DEF WorkspaceRename
  <2>2. ~quiet => command.old \in Names /\ command.new \in Names
    <3>1. Range(s.workspaces) \subseteq Names
      BY <1>1, SeqIsList
    <3> QED BY <3>1, CommandFields
  <2> HIDE DEF names, current
  <2>3. /\ Shaped(q) /\ q.workspaces = names
        /\ q.windows = s.windows /\ q.palette = s.palette
    <3>1. q = [s EXCEPT !.workspaces = names]
      OBVIOUS
    <3>2. Shaped(s)
      BY <1>1
    <3> HIDE DEF q
    <3> QED BY <3>1, <3>2, NamesReplaced
  <2> HIDE DEF q
  <2>4. /\ Shaped(r) /\ r.workspaces = names /\ r.current = current
        /\ r.windows = s.windows /\ r.palette = s.palette
    BY <2>3, CurrentReplaced
  <2> HIDE DEF r
  <2>5. /\ n.workspaces = names /\ n.current = current
        /\ n.windows = s.windows /\ n.palette = s.palette
    BY <2>4, RefreshKeepsNames
  <2> HIDE DEF n
  <2>6. RenamedTo(n, s, command.old, command.new)
    BY <2>5 DEF RenamedTo, names, current
  <2>7. ~quiet => NamesFollow(n, s)
    BY <2>2, <2>6 DEF NamesFollow
  <2> HIDE DEF quiet
  <2> QED BY <1>1, <1>3, <1>4, <2>1, <2>5, <2>7
<1>7. command.op = "publish-windows" => Fits(PublishWindows(command, s, file), s)
  <2> SUFFICES ASSUME command.op = "publish-windows"
               PROVE  Fits(PublishWindows(command, s, file), s)
    OBVIOUS
  <2> DEFINE w == IF command.frame = "" THEN "no-windows" ELSE command.frame
             r == [s EXCEPT !.windows = w]
  <2>1. w \in WindowFrames \cup {"no-windows"}
    BY CommandFields
  <2>2. PublishWindows(command, s, file) = Announce(r, file, <<"windows", "taskd">>, <<>>)
    BY DEF PublishWindows
  <2> HIDE DEF w
  <2>3. /\ r.workspaces = s.workspaces /\ r.current = s.current
        /\ r.windows = w /\ r.palette = s.palette
    <3>1. r = [s EXCEPT !.windows = w]
      OBVIOUS
    <3>2. Shaped(s)
      BY <1>1
    <3> HIDE DEF r
    <3> QED BY <3>1, <3>2, WindowsReplaced
  <2> HIDE DEF r
  <2>4. NamesFollow(r, s)
    BY <2>3 DEF NamesFollow, Switched
  <2> QED BY <1>1, <1>4, <2>1, <2>2, <2>3, <2>4
<1>8. command.op = "publish-workspaces" => Fits(PublishWorkspaces(command, s, file), s)
  <2> SUFFICES ASSUME command.op = "publish-workspaces"
               PROVE  Fits(PublishWorkspaces(command, s, file), s)
    OBVIOUS
  <2> DEFINE names == CanonicalNames(s.workspaces, command.frame.names)
             current == ResolveCurrent(command.frame.current, names, s.current)
             q == [s EXCEPT !.workspaces = names]
             r == [q EXCEPT !.current = current]
             n == RefreshBackdrops(r)
  <2>1. PublishWorkspaces(command, s, file) = Announce(n, file, ChangedWorkspaceTopics, <<>>)
    <3>1. [s EXCEPT !.workspaces = names, !.current = current] = r
      BY <1>1 DEF Shaped
    <3> HIDE DEF r
    <3> QED BY <3>1 DEF PublishWorkspaces
  <2> HIDE DEF names, current
  <2>3. /\ Shaped(q) /\ q.workspaces = names
        /\ q.windows = s.windows /\ q.palette = s.palette
    <3>1. q = [s EXCEPT !.workspaces = names]
      OBVIOUS
    <3>2. Shaped(s)
      BY <1>1
    <3> HIDE DEF q
    <3> QED BY <3>1, <3>2, NamesReplaced
  <2> HIDE DEF q
  <2>4. /\ Shaped(r) /\ r.workspaces = names /\ r.current = current
        /\ r.windows = s.windows /\ r.palette = s.palette
    BY <2>3, CurrentReplaced
  <2> HIDE DEF r
  <2>5. /\ n.workspaces = names /\ n.current = current
        /\ n.windows = s.windows /\ n.palette = s.palette
    BY <2>4, RefreshKeepsNames
  <2> HIDE DEF n
  <2>6. PublishedTo(n, s, command.frame.names, command.frame.current)
    BY <2>5 DEF PublishedTo, names, current
  <2>7. NamesFollow(n, s)
    BY <2>6, CommandFields DEF NamesFollow
  <2> QED BY <1>1, <1>4, <2>1, <2>5, <2>7
<1>9. ASSUME NEW f \in StyleFiles, NEW e
      PROVE  Fits(StyleTransition(s, f, e), s)
  <2> DEFINE p == PaletteColors(SelectedPalette(ParseStyle(f)))
             u == UpdateFromStyle(s, ParseStyle(f))
             n == RefreshBackdrops(u)
  <2>1. p \in Palettes \cup {""}
    BY ColorsAreTyped
  <2>2. StyleTransition(s, f, e) = Announce(n, f, ChangedStyleTopics(s, n), e)
    BY DEF StyleTransition
  <2>3. Shaped(u)
    BY <1>1, UpdatedIsShaped
  <2>4. /\ u.workspaces = s.workspaces /\ u.current = s.current /\ u.windows = s.windows
        /\ u.palette = IF p = "" THEN s.palette ELSE p
    BY <1>1 DEF UpdateFromStyle, Shaped
  <2> HIDE DEF p, u
  <2>5. /\ n.workspaces = s.workspaces /\ n.current = s.current /\ n.windows = s.windows
        /\ n.palette = u.palette
    BY <2>3, <2>4, RefreshKeepsNames
  <2> HIDE DEF n
  <2>6. NamesFollow(n, s)
    BY <2>5 DEF NamesFollow, Switched
  <2>7. n.palette \in Palettes \cup {""}
    BY <1>1, <2>1, <2>4, <2>5
  <2> QED BY <1>1, <1>4, <2>2, <2>5, <2>6, <2>7
<1>10. command.op = "color-select" => Fits(ColorSelect(command, s, file), s)
  <2> DEFINE f == MergeStyle(file, [palette |-> command.palette, colors |-> command.colors])
  <2>1. command.op = "color-select" => f \in StyleFiles
    BY CommandFields, FilesAreTyped
  <2>2. ColorSelect(command, s, file) =
          IF command.palette \in Installed /\ command.colors \in {4, 8}
          THEN StyleTransition(s, f, <<Effect("apply-resolved-style", command)>>)
          ELSE Unchanged(s, file)
    BY DEF ColorSelect
  <2> HIDE DEF f
  <2> QED BY <1>3, <1>9, <2>1, <2>2
<1>11. command.op = "backdrop-select" => Fits(BackdropSelect(command, s, file), s)
  <2> DEFINE desk == [d \in 1..MaxDesk |->
                        IF d = command.desk THEN command.image ELSE file.desk[d]]
             f == MergeStyle(file, [desk |-> desk])
  <2>1. command.op = "backdrop-select" => f \in StyleFiles
    <3>1. \A d \in 1..MaxDesk : file.desk[d] \in Images \cup {""}
      BY DEF StyleFiles
    <3>2. command.op = "backdrop-select" => desk \in [1..MaxDesk -> Images \cup {""}]
      BY <3>1, CommandFields
    <3> HIDE DEF desk
    <3> QED BY <3>2, FilesAreTyped
  <2>2. BackdropSelect(command, s, file) =
          IF command.desk > 0 /\ command.mode # "" /\ command.image # ""
          THEN StyleTransition(s, f, <<Effect("apply-resolved-style", command)>>)
          ELSE Unchanged(s, file)
    BY DEF BackdropSelect
  <2> HIDE DEF f
  <2> QED BY <1>3, <1>9, <2>1, <2>2
<1>12. command.op = "style-set" => Fits(StyleSet(command, s, file), s)
  <2>1. command.op = "style-set" => MergeStyle(file, command.updates) \in StyleFiles
    BY CommandFields, FilesAreTyped
  <2> QED BY <1>9, <2>1 DEF StyleSet
<1>13. Fits(StyleApply(command, s, file), s)
  BY <1>9 DEF StyleApply
<1>14. Fits(Refresh(command, s, file), s) /\ Fits(Reload(command, s, file), s)
  BY <1>2 DEF Refresh, Reload
<1>15. \A effect : Fits(EffectOnly(effect, s, file), s)
  BY <1>2 DEF EffectOnly
<1> QED BY <1>3, <1>5, <1>6, <1>7, <1>8, <1>10, <1>11, <1>12, <1>13, <1>14, <1>15 DEF Handle

\* A rename of every occurrence keeps a list a list, and what was in it in it.
LEMMA RenameKeepsNames ==
    ASSUME NEW s \in States, NEW new, NEW old \in Names, NEW name \in Names,
           RenamedTo(new, s, old, name)
    PROVE  /\ new.workspaces \in Seq(Names) /\ new.current \in Names
           /\ s.current \in Range(s.workspaces) => new.current \in Range(new.workspaces)
<1>1. s.workspaces \in Seq(Names) /\ s.current \in Names
  BY StateFields
<1>2. /\ Len(s.workspaces) \in Nat
      /\ \A i \in 1..Len(s.workspaces) : s.workspaces[i] \in Names
  BY <1>1
<1> DEFINE names == [i \in 1..Len(s.workspaces) |->
                        IF s.workspaces[i] = old THEN name ELSE s.workspaces[i]]
<1>3. new.workspaces = names /\ new.current = IF s.current = old THEN name ELSE s.current
  BY DEF RenamedTo
<1>4. names \in Seq(Names)
  <2>1. names \in [1..Len(s.workspaces) -> Names]
    BY <1>2
  <2> HIDE DEF names
  <2> QED BY <1>2, <2>1
<1>5. ASSUME s.current \in Range(s.workspaces)
      PROVE  new.current \in Range(names)
  <2>1. PICK i \in 1..Len(s.workspaces) : s.current = s.workspaces[i]
    BY <1>1, <1>5, SeqIsList
  <2>2. i \in DOMAIN names /\ names[i] = new.current
    BY <1>3, <2>1
  <2> HIDE DEF names
  <2> QED BY <2>2 DEF Range
<1> QED BY <1>1, <1>3, <1>4, <1>5

\* A publication adds names behind the known ones and resolves the current one.
LEMMA PublicationKeepsNames ==
    ASSUME NEW s \in States, NEW new, NEW names \in Seq(Names), NEW requested,
           PublishedTo(new, s, names, requested)
    PROVE  /\ new.workspaces \in Seq(Names) /\ new.current \in Names
           /\ s.current \in Range(s.workspaces) => new.current \in Range(new.workspaces)
<1>1. s.workspaces \in Seq(Names) /\ s.current \in Names
  BY StateFields
<1> DEFINE all == CanonicalNames(s.workspaces, names)
<1>2. /\ all \in Seq(Names)
      /\ Range(s.workspaces) \subseteq Range(all)
  BY <1>1, CanonicalGrows
<1>3. new.workspaces = all /\ new.current = ResolveCurrent(requested, all, s.current)
  BY DEF PublishedTo
<1> HIDE DEF all
<1>4. new.current \in Names /\ (all # <<>> => new.current \in Range(all))
  BY <1>1, <1>2, <1>3, ResolvedIsListed
<1>5. ASSUME s.current \in Range(s.workspaces)
      PROVE  all # <<>>
  BY <1>2, <1>5, EmptyList
<1> QED BY <1>2, <1>3, <1>4, <1>5

\* Every handler returns a state of the shape the others expect.
LEMMA HandlersAreTyped ==
    ASSUME NEW command \in Commands, NEW s \in States, Planned(s), NEW file \in StyleFiles
    PROVE  LET t == Handle(command, s, file)
           IN  t.state \in States /\ t.file \in StyleFiles
<1> DEFINE t == Handle(command, s, file)
           new == t.state
<1>1. Fits(t, s)
  BY HandlersFit
<1>2. Follows(t, s)
  BY StateFields, HandlersFollow
<1> HIDE DEF t
<1>3. new.workspaces \in Seq(Names) /\ new.current \in Names
  <2>1. NamesFollow(new, s)
    BY <1>1 DEF Fits
  <2>2. CASE Switched(new, s)
    <3>1. Range(s.workspaces) \subseteq Names
      BY StateFields, SeqIsList
    <3> QED BY <2>2, <3>1, StateFields DEF Switched
  <2>3. CASE \E old, name \in Names : RenamedTo(new, s, old, name)
    BY <2>3, RenameKeepsNames
  <2>4. CASE \E names \in Seq(Names), requested \in Names \cup {""} :
                PublishedTo(new, s, names, requested)
    BY <2>4, PublicationKeepsNames
  <2> QED BY <2>1, <2>2, <2>3, <2>4 DEF NamesFollow
<1>4. /\ new.windows \in WindowFrames \cup {"no-windows"}
      /\ new.palette \in Palettes \cup {""} /\ t.file \in StyleFiles
  BY <1>1 DEF Fits
<1>5. Shaped(new) /\ Planned(new) /\ new.style \in {s.style, ParseStyle(t.file)}
  BY <1>2 DEF Follows
<1> HIDE DEF new
<1>6. new.style \in Styles
  BY <1>4, <1>5, StateFields, FilesAreTyped
<1>7. new.backdrops \in Plans
  BY <1>3, <1>4, <1>5, <1>6, PlanIsTyped DEF Planned
<1>8. new \in States
  BY <1>3, <1>4, <1>5, <1>6, <1>7 DEF States, Shaped
<1> QED BY <1>4, <1>8 DEF new, t

-----------------------------------------------------------------------------
(* StateTypeOK with the plan is inductive; what commands do to the names follows *)

StateInvariant == StateTypeOK /\ BackdropsFollowState

\* The daemon starts in such a state.
LEMMA InitIsTyped == SerialInit => StateInvariant
<1> SUFFICES ASSUME SerialInit PROVE StateInvariant
  OBVIOUS
<1>1. PICK current \in Names, windows \in WindowFrames \cup {""} :
        runtimeState = LoadRuntimeState(InitialNames, current, windows, styleFile)
  BY DEF SerialInit
<1>2. styleFile \in StyleFiles
  BY RuntimeCommandsAssumption DEF RuntimeCommandsAssumption, SerialInit
<1>3. ParseStyle(styleFile) \in Styles
  BY <1>2, FilesAreTyped
<1> DEFINE shown == IF windows = "" THEN "no-windows" ELSE windows
           palette == PaletteColors(SelectedPalette(ParseStyle(styleFile)))
           r == [workspaces |-> InitialNames, current |-> current, windows |-> shown,
                 style |-> ParseStyle(styleFile), palette |-> palette, backdrops |-> <<>>]
           s == RefreshBackdrops(r)
<1>4. runtimeState = s
  BY <1>1 DEF LoadRuntimeState
<1>5. Shaped(r)
  BY DEF Shaped
<1>6. /\ r.workspaces = InitialNames /\ r.current = current /\ r.windows = shown
      /\ r.palette = palette /\ r.style = ParseStyle(styleFile)
  OBVIOUS
<1>7. palette \in Palettes \cup {""} /\ shown \in WindowFrames \cup {"no-windows"}
  BY ColorsAreTyped
<1>8. InitialNames \in Seq(Names)
  BY RuntimeCommandsAssumption DEF RuntimeCommandsAssumption
<1> HIDE DEF r, shown, palette
<1>9. Shaped(s) /\ Planned(s) /\ s.style = ParseStyle(styleFile)
  BY <1>5, <1>6, RefreshedIsPlanned
<1>10. /\ s.workspaces = InitialNames /\ s.current = current
       /\ s.windows = shown /\ s.palette = palette
  BY <1>5, <1>6, RefreshKeepsNames
<1> HIDE DEF s
<1>11. s.backdrops \in Plans
  BY <1>3, <1>7, <1>8, <1>9, <1>10, PlanIsTyped DEF Planned
<1>12. s \in States
  BY <1>3, <1>7, <1>8, <1>9, <1>10, <1>11 DEF States, Shaped
<1>13. StateTypeOK
  BY <1>2, <1>4, <1>12 DEF StateTypeOK
<1>14. BackdropsFollowState
  BY <1>4, <1>9 DEF Planned, BackdropsFollowState
<1> QED BY <1>13, <1>14 DEF StateInvariant

LEMMA StepKeepsTypes == StateInvariant /\ [SerialNext]_stateVars => StateInvariant'
<1> SUFFICES ASSUME StateInvariant, [SerialNext]_stateVars PROVE StateInvariant'
  OBVIOUS
<1>1. runtimeState \in States /\ styleFile \in StyleFiles /\ Planned(runtimeState)
  BY DEF StateInvariant, StateTypeOK, Planned, BackdropsFollowState
<1>2. Requests \subseteq Commands
  BY RuntimeCommandsAssumption DEF RuntimeCommandsAssumption
<1>3. ASSUME NEW command \in Requests
      PROVE  LET t == Handle(command, runtimeState, styleFile)
             IN  t.state \in States /\ t.file \in StyleFiles /\ Planned(t.state)
  BY <1>1, <1>2, HandlersAreTyped, HandlersFollow, StateFields DEF Follows
<1>4. ASSUME NEW command \in Requests, Execute(command)
      PROVE  StateInvariant'
  BY <1>3, <1>4 DEF Execute, StateInvariant, StateTypeOK, Planned, BackdropsFollowState
<1>5. ASSUME NEW command \in Requests, AbortAfterWrite(command)
      PROVE  StateInvariant'
  BY <1>1, <1>3, <1>5 DEF AbortAfterWrite, StateInvariant, StateTypeOK, Planned, BackdropsFollowState
<1>6. CASE UNCHANGED stateVars
  BY <1>6 DEF stateVars, StateInvariant, StateTypeOK, BackdropsFollowState
<1> QED BY <1>4, <1>5, <1>6 DEF SerialNext

\* A step changes the names as a command does, or not at all.
LEMMA StepFitsNames ==
    StateInvariant /\ [SerialNext]_stateVars =>
        \/ UNCHANGED runtimeState
        \/ NamesFollow(runtimeState', runtimeState)
<1> SUFFICES ASSUME StateInvariant, NEW command \in Requests, Execute(command)
             PROVE  NamesFollow(runtimeState', runtimeState)
  BY DEF SerialNext, AbortAfterWrite, stateVars
<1>1. command \in Commands /\ runtimeState \in States /\ styleFile \in StyleFiles
  BY RuntimeCommandsAssumption DEF RuntimeCommandsAssumption, StateInvariant, StateTypeOK
<1>2. NamesFollow(Handle(command, runtimeState, styleFile).state, runtimeState)
  BY <1>1, HandlersFit DEF Fits
<1> QED BY <1>2 DEF Execute

\* Every handler returns a state and a style file of the shape the others expect, from
\* whatever state the commands before led to.
THEOREM CommandTypesHold == SerialSpec => []StateTypeOK
<1>1. StateInvariant => StateTypeOK
  BY DEF StateInvariant
<1> QED BY <1>1, InitIsTyped, StepKeepsTypes, PTL DEF SerialSpec

\* Once the current workspace is a listed one, no command makes it another.
THEOREM CurrentIsKept == SerialSpec => CurrentStaysListed
<1>1. ASSUME StateInvariant, [SerialNext]_stateVars,
             runtimeState.current \in Range(runtimeState.workspaces)
      PROVE  runtimeState'.current \in Range(runtimeState'.workspaces)
  <2>1. runtimeState \in States
    BY <1>1 DEF StateInvariant, StateTypeOK
  <2> DEFINE s == runtimeState
             new == runtimeState'
  <2>2. CASE UNCHANGED runtimeState
    BY <1>1, <2>2
  <2>3. CASE Switched(new, s)
    BY <1>1, <2>3 DEF Switched
  <2>4. CASE \E old, name \in Names : RenamedTo(new, s, old, name)
    BY <1>1, <2>1, <2>4, RenameKeepsNames
  <2>5. CASE \E names \in Seq(Names), requested \in Names \cup {""} :
                PublishedTo(new, s, names, requested)
    BY <1>1, <2>1, <2>5, PublicationKeepsNames
  <2> QED BY <1>1, <2>2, <2>3, <2>4, <2>5, StepFitsNames DEF NamesFollow
<1>2. StateInvariant /\ [SerialNext]_stateVars
      => [runtimeState.current \in Range(runtimeState.workspaces)
          => runtimeState'.current \in Range(runtimeState'.workspaces)]_stateVars
  BY <1>1
<1> QED BY <1>2, InitIsTyped, StepKeepsTypes, PTL DEF SerialSpec, CurrentStaysListed

-----------------------------------------------------------------------------
(* Desks: every handler leaves the list as it was, renamed or with names behind *)

\* The names of new are those of s as the command leaves them, and perhaps more.
Continues(command, new, s) ==
    /\ new.workspaces \in Seq(Names)
    /\ Len(s.workspaces) <= Len(new.workspaces)
    /\ \A i \in 1..Len(s.workspaces) : new.workspaces[i] = NameAfter(command, s.workspaces[i])

LEMMA NoneIsLess == \A n \in Nat : n <= n
  OBVIOUS

\* A list that has not changed, under a command that is no rename or a rename without effect.
LEMMA SameNamesContinue ==
    ASSUME NEW command, NEW new, NEW s \in States, new.workspaces = s.workspaces,
           \/ command.op # "workspace-rename"
           \/ command.new = "" \/ command.old = command.new
           \/ command.old \notin Range(s.workspaces)
    PROVE  Continues(command, new, s)
<1> DEFINE names == s.workspaces
<1>1. names \in Seq(Names)
  BY StateFields
<1> HIDE DEF names
<1>2. Len(names) \in Nat /\ DOMAIN names = 1..Len(names)
  BY <1>1, SeqIsList
<1>3. \A i \in 1..Len(names) : names[i] \in Range(names)
  BY <1>2 DEF Range
<1>4. \A i \in 1..Len(names) : NameAfter(command, names[i]) = names[i]
  BY <1>3 DEF NameAfter, names
<1>5. Len(names) <= Len(names)
  BY <1>2, NoneIsLess
<1> QED BY <1>1, <1>4, <1>5 DEF Continues, names

\* A rename that has an effect.
LEMMA RenamedNamesContinue ==
    ASSUME NEW command \in Commands, NEW s \in States, NEW file,
           command.op = "workspace-rename"
    PROVE  Continues(command, WorkspaceRename(command, s, file).state, s)
<1> DEFINE names == [i \in 1..Len(s.workspaces) |->
                        IF s.workspaces[i] = command.old THEN command.new ELSE s.workspaces[i]]
           current == IF s.current = command.old THEN command.new ELSE s.current
           q == [s EXCEPT !.workspaces = names]
           r == [q EXCEPT !.current = current]
           n == RefreshBackdrops(r)
           quiet == \/ command.new = "" \/ command.old = command.new
                    \/ command.old \notin Range(s.workspaces)
<1>1. Shaped(s) /\ s.workspaces \in Seq(Names)
  BY StateFields
<1>2. WorkspaceRename(command, s, file) =
        IF quiet THEN Unchanged(s, file)
        ELSE Announce(n, file, ChangedWorkspaceTopics, <<CompatCommand("runtime", command)>>)
  BY <1>1 DEF WorkspaceRename, Shaped
<1>3. CASE quiet
  <2>1. WorkspaceRename(command, s, file).state = s
    <3> HIDE DEF n, quiet
    <3> QED BY <1>2, <1>3 DEF Unchanged, Transition
  <2> QED BY <1>3, <2>1, SameNamesContinue
<1>4. CASE ~quiet
  <2>1. command.new \in Names /\ command.new # ""
    BY <1>4, CommandFields
  <2>2. WorkspaceRename(command, s, file).state = n
    <3> HIDE DEF n, quiet
    <3> QED BY <1>2, <1>4 DEF Announce, Transition
  <2>3. Len(s.workspaces) \in Nat /\ \A i \in 1..Len(s.workspaces) : s.workspaces[i] \in Names
    BY <1>1
  <2>4. /\ names \in Seq(Names) /\ Len(names) = Len(s.workspaces)
        /\ \A i \in 1..Len(s.workspaces) : names[i] = NameAfter(command, s.workspaces[i])
    <3>1. names \in [1..Len(s.workspaces) -> Names]
      BY <2>1, <2>3
    <3>2. \A i \in 1..Len(s.workspaces) : names[i] = NameAfter(command, s.workspaces[i])
      BY <2>1 DEF NameAfter
    <3> HIDE DEF names
    <3> QED BY <2>3, <3>1, <3>2
  <2> HIDE DEF names, current
  <2>5. Shaped(q) /\ q.workspaces = names
    <3>1. q = [s EXCEPT !.workspaces = names]
      OBVIOUS
    <3>2. Shaped(s)
      BY <1>1
    <3> HIDE DEF q
    <3> QED BY <3>1, <3>2, NamesReplaced
  <2> HIDE DEF q
  <2>6. Shaped(r) /\ r.workspaces = names
    BY <2>5, CurrentReplaced
  <2> HIDE DEF r
  <2>7. n.workspaces = names
    BY <2>6, RefreshKeepsNames
  <2> HIDE DEF n
  <2>8. Len(s.workspaces) <= Len(names)
    BY <2>3, <2>4
  <2> QED BY <2>2, <2>4, <2>7, <2>8 DEF Continues
<1> QED BY <1>3, <1>4

\* A publication.
LEMMA PublishedNamesContinue ==
    ASSUME NEW command \in Commands, NEW s \in States, NEW file,
           command.op = "publish-workspaces"
    PROVE  Continues(command, PublishWorkspaces(command, s, file).state, s)
<1> DEFINE names == CanonicalNames(s.workspaces, command.frame.names)
           current == ResolveCurrent(command.frame.current, names, s.current)
           q == [s EXCEPT !.workspaces = names]
           r == [q EXCEPT !.current = current]
           n == RefreshBackdrops(r)
<1>1. Shaped(s) /\ s.workspaces \in Seq(Names)
  BY StateFields
<1>2. PublishWorkspaces(command, s, file).state = n
  <2>1. [s EXCEPT !.workspaces = names, !.current = current] = r
    BY <1>1 DEF Shaped
  <2>2. PublishWorkspaces(command, s, file) = Announce(n, file, ChangedWorkspaceTopics, <<>>)
    <3> HIDE DEF r
    <3> QED BY <2>1 DEF PublishWorkspaces
  <2> HIDE DEF n
  <2> QED BY <2>2 DEF Announce, Transition
<1>3. /\ names \in Seq(Names) /\ Len(s.workspaces) <= Len(names)
      /\ \A i \in 1..Len(s.workspaces) : names[i] = s.workspaces[i]
  BY <1>1, CommandFields, CanonicalGrows
<1> HIDE DEF names, current
<1>4. Shaped(q) /\ q.workspaces = names
  <2>1. q = [s EXCEPT !.workspaces = names]
    OBVIOUS
  <2>2. Shaped(s)
    BY <1>1
  <2> HIDE DEF q
  <2> QED BY <2>1, <2>2, NamesReplaced
<1> HIDE DEF q
<1>5. Shaped(r) /\ r.workspaces = names
  BY <1>4, CurrentReplaced
<1> HIDE DEF r
<1>6. n.workspaces = names
  BY <1>5, RefreshKeepsNames
<1> HIDE DEF n
<1>7. \A i \in 1..Len(s.workspaces) : NameAfter(command, s.workspaces[i]) = s.workspaces[i]
  BY DEF NameAfter
<1> QED BY <1>2, <1>3, <1>6, <1>7 DEF Continues

\* The other handlers do not touch the names.
LEMMA OthersKeepNames ==
    ASSUME NEW command, NEW s \in States, NEW file,
           command.op \notin {"workspace-rename", "publish-workspaces"}
    PROVE  Handle(command, s, file).state.workspaces = s.workspaces
<1> DEFINE Good(t) == t.state.workspaces = s.workspaces
<1>1. Shaped(s)
  BY StateFields
<1>2. \A f, topics, deltas, e : Good(Transition(s, f, topics, deltas, e))
  BY DEF Transition
<1>3. ASSUME NEW n, n.workspaces = s.workspaces, NEW f, NEW topics, NEW e
      PROVE  Good(Announce(n, f, topics, e))
  BY <1>3 DEF Announce, Transition
<1>4. Good(WorkspaceSwitch(command, s, file))
  <2> DEFINE r == [s EXCEPT !.current = command.name]
             n == RefreshBackdrops(r)
  <2>1. Shaped(r) /\ r.workspaces = s.workspaces
    <3>1. r = [s EXCEPT !.current = command.name]
      OBVIOUS
    <3> HIDE DEF r
    <3> QED BY <1>1, <3>1, CurrentReplaced
  <2>2. WorkspaceSwitch(command, s, file) =
          IF command.name \in Range(s.workspaces)
          THEN Announce(n, file, ChangedWorkspaceTopics, <<CompatCommand("pager", command)>>)
          ELSE Unchanged(s, file)
    BY DEF WorkspaceSwitch
  <2> HIDE DEF r
  <2>3. n.workspaces = s.workspaces
    BY <2>1, RefreshKeepsNames
  <2> HIDE DEF n
  <2>4. Good(Unchanged(s, file))
    BY <1>2 DEF Unchanged
  <2>5. Good(Announce(n, file, ChangedWorkspaceTopics, <<CompatCommand("pager", command)>>))
    BY <1>3, <2>3
  <2> HIDE DEF Good
  <2> QED BY <2>2, <2>4, <2>5
<1>5. Good(PublishWindows(command, s, file))
  <2> DEFINE w == IF command.frame = "" THEN "no-windows" ELSE command.frame
             r == [s EXCEPT !.windows = w]
  <2>1. PublishWindows(command, s, file) = Announce(r, file, <<"windows", "taskd">>, <<>>)
    BY DEF PublishWindows
  <2> HIDE DEF w
  <2>2. r.workspaces = s.workspaces
    <3>1. r = [s EXCEPT !.windows = w]
      OBVIOUS
    <3> HIDE DEF r
    <3> QED BY <1>1, <3>1, WindowsReplaced
  <2> HIDE DEF r
  <2> QED BY <1>3, <2>1, <2>2
<1>6. ASSUME NEW f, NEW e
      PROVE  Good(StyleTransition(s, f, e))
  <2> DEFINE u == UpdateFromStyle(s, ParseStyle(f))
             n == RefreshBackdrops(u)
  <2>1. StyleTransition(s, f, e) = Announce(n, f, ChangedStyleTopics(s, n), e)
    BY DEF StyleTransition
  <2>2. Shaped(u)
    BY <1>1, UpdatedIsShaped
  <2>3. u.workspaces = s.workspaces
    BY <1>1 DEF UpdateFromStyle, Shaped
  <2> HIDE DEF u
  <2>4. n.workspaces = s.workspaces
    BY <2>2, <2>3, RefreshKeepsNames
  <2> HIDE DEF n
  <2> QED BY <1>3, <2>1, <2>4
<1>7. Good(Unchanged(s, file)) /\ \A effect : Good(EffectOnly(effect, s, file))
  BY <1>2 DEF Unchanged, EffectOnly
<1>8. Good(Refresh(command, s, file)) /\ Good(Reload(command, s, file))
  BY <1>2 DEF Refresh, Reload
<1> HIDE DEF Good
<1>9. /\ Good(ColorSelect(command, s, file)) /\ Good(BackdropSelect(command, s, file))
      /\ Good(StyleSet(command, s, file)) /\ Good(StyleApply(command, s, file))
  BY <1>6, <1>7 DEF ColorSelect, BackdropSelect, StyleSet, StyleApply
<1>10. Good(Handle(command, s, file))
  BY <1>4, <1>5, <1>7, <1>8, <1>9 DEF Handle
<1> QED BY <1>10 DEF Good

\* So every command only renames in place or adds names behind.
LEMMA HandlersContinue ==
    ASSUME NEW command \in Commands, NEW s \in States, NEW file
    PROVE  Continues(command, Handle(command, s, file).state, s)
<1>1. CASE command.op = "workspace-rename"
  <2>1. Handle(command, s, file) = WorkspaceRename(command, s, file)
    BY <1>1 DEF Handle
  <2> QED BY <1>1, <2>1, RenamedNamesContinue
<1>2. CASE command.op = "publish-workspaces"
  <2>1. Handle(command, s, file) = PublishWorkspaces(command, s, file)
    BY <1>2 DEF Handle
  <2> QED BY <1>2, <2>1, PublishedNamesContinue
<1>3. CASE command.op \notin {"workspace-rename", "publish-workspaces"}
  BY <1>3, OthersKeepNames, SameNamesContinue
<1> QED BY <1>1, <1>2, <1>3

\* IndexOf gives the first place of a name.
LEMMA IndexIsFirst ==
    ASSUME NEW S, NEW names \in Seq(S), NEW name \in Range(names)
    PROVE  LET i == IndexOf(name, names)
           IN  /\ i \in 1..Len(names) /\ names[i] = name
               /\ \A j \in 1..Len(names) : names[j] = name => i <= j
<1> DEFINE I == {i \in 1..Len(names) : names[i] = name}
<1>1. I \subseteq Nat /\ I # {}
  <2>1. PICK i \in 1..Len(names) : names[i] = name
    BY SeqIsList
  <2> QED BY <2>1
<1>2. IndexOf(name, names) = IF I # {} THEN Min(I) ELSE 0
  BY DEF IndexOf, SelectInSeq
<1>3. Min(I) \in I /\ \A j \in I : Min(I) <= j
  <2> HIDE DEF I
  <2>1. \E x \in I : \A y \in I : x <= y
    BY <1>1, SmallestExists
  <2> QED BY <2>1 DEF Min
<1>4. IndexOf(name, names) = Min(I)
  BY <1>1, <1>2
<1> QED BY <1>3, <1>4

\* The least of a set of numbers is the only one that no other is below.
LEMMA LeastIsMin ==
    ASSUME NEW D, D \subseteq Nat, NEW k \in D, \A j \in D : k <= j
    PROVE  Min(D) = k
<1>1. Min(D) \in D /\ \A j \in D : Min(D) <= j
  BY DEF Min
<1>2. Min(D) \in Nat /\ Min(D) <= k /\ k <= Min(D)
  BY <1>1
<1> QED BY <1>2

\* And only the first place is its index.
LEMMA FirstIsIndex ==
    ASSUME NEW S, NEW names \in Seq(S), NEW name, NEW i \in 1..Len(names), names[i] = name,
           \A j \in 1..Len(names) : names[j] = name => i <= j
    PROVE  IndexOf(name, names) = i
<1> DEFINE I == {j \in 1..Len(names) : names[j] = name}
<1>1. I \subseteq Nat /\ i \in I /\ \A j \in I : i <= j
  OBVIOUS
<1>2. IndexOf(name, names) = IF I # {} THEN Min(I) ELSE 0
  BY DEF IndexOf, SelectInSeq
<1> HIDE DEF I
<1>3. Min(I) = i
  BY <1>1, LeastIsMin
<1> QED BY <1>1, <1>2, <1>3

\* In a list that continues another, the desk of a name is the first of those whose names
\* became this one.
LEMMA DesksContinue ==
    ASSUME NEW command, NEW new, NEW s \in States, Continues(command, new, s),
           NEW name \in Range(s.workspaces)
    PROVE  LET Sharing == {other \in Range(s.workspaces) :
                              NameAfter(command, other) = NameAfter(command, name)}
           IN  IndexOf(NameAfter(command, name), new.workspaces)
                   = Min({IndexOf(other, s.workspaces) : other \in Sharing})
<1> DEFINE names == s.workspaces
           after == new.workspaces
           now == NameAfter(command, name)
           Sharing == {other \in Range(names) : NameAfter(command, other) = now}
           D == {IndexOf(other, names) : other \in Sharing}
<1>1. names \in Seq(Names) /\ after \in Seq(Names)
  BY StateFields DEF Continues
<1>2. Len(names) \in Nat /\ Len(after) \in Nat /\ Len(names) <= Len(after)
  BY <1>1 DEF Continues
<1>3. \A i \in 1..Len(names) : after[i] = NameAfter(command, names[i])
  BY DEF Continues
<1>4. \A i \in 1..Len(names) : names[i] \in Range(names)
  BY <1>1, SeqIsList
<1>5. name \in Sharing
  OBVIOUS
<1> HIDE DEF names, after, now
<1>6. \A other \in Range(names) :
        /\ IndexOf(other, names) \in 1..Len(names) /\ names[IndexOf(other, names)] = other
        /\ \A j \in 1..Len(names) : names[j] = other => IndexOf(other, names) <= j
  BY <1>1, IndexIsFirst
<1>7. D \subseteq Nat /\ D # {}
  BY <1>2, <1>5, <1>6
<1>8. PICK k \in D : \A j \in D : k <= j
  <2> HIDE DEF D
  <2> QED BY <1>7, SmallestExists
<1>9. PICK other \in Sharing : k = IndexOf(other, names)
  BY <1>8
<1>10. k \in 1..Len(names) /\ names[k] = other
  BY <1>6, <1>9
<1>11. k \in 1..Len(after) /\ after[k] = now
  <2>1. after[k] = NameAfter(command, other)
    BY <1>3, <1>10
  <2>2. k \in 1..Len(after)
    BY <1>2, <1>10
  <2> QED BY <1>9, <2>1, <2>2
<1>12. ASSUME NEW j \in 1..Len(after), after[j] = now
       PROVE  k <= j
  <2>1. CASE j \in 1..Len(names)
    <3>1. names[j] \in Sharing
      BY <1>3, <1>4, <1>12, <2>1
    <3>2. k <= IndexOf(names[j], names)
      BY <1>8, <3>1
    <3>3. IndexOf(names[j], names) \in 1..Len(names) /\ IndexOf(names[j], names) <= j
      BY <1>4, <1>6, <2>1
    <3> HIDE DEF Sharing, D
    <3> QED BY <1>2, <1>10, <2>1, <3>2, <3>3
  <2>2. CASE j \notin 1..Len(names)
    <3> HIDE DEF Sharing, D
    <3> QED BY <1>2, <1>10, <1>12, <2>2
  <2> QED BY <2>1, <2>2
<1>13. IndexOf(now, after) = k
  <2> HIDE DEF Sharing, D
  <2> QED BY <1>1, <1>11, <1>12, FirstIsIndex
<1>14. Min(D) = k
  <2> HIDE DEF D
  <2> QED BY <1>7, <1>8, LeastIsMin
<1> QED BY <1>13, <1>14 DEF names, after, now

\* For any commands, in any order: the desk of a workspace's name, followed through renames,
\* never changes, save that two names made one stand for the first of their desks.
THEOREM DesksAreKept == SerialSpec => []DesksFollowNames
<1>1. StateInvariant => DesksFollowNames
  <2> SUFFICES ASSUME StateInvariant, NEW command \in Requests,
                      NEW name \in Range(runtimeState.workspaces)
               PROVE  LET names == runtimeState.workspaces
                          after == Handle(command, runtimeState, styleFile).state.workspaces
                          Sharing == {other \in Range(names) :
                                        NameAfter(command, other) = NameAfter(command, name)}
                      IN  IndexOf(NameAfter(command, name), after)
                              = Min({IndexOf(other, names) : other \in Sharing})
    BY DEF DesksFollowNames
  <2>1. command \in Commands /\ runtimeState \in States
    BY RuntimeCommandsAssumption DEF RuntimeCommandsAssumption, StateInvariant, StateTypeOK
  <2>2. Continues(command, Handle(command, runtimeState, styleFile).state, runtimeState)
    BY <2>1, HandlersContinue
  <2> QED BY <2>1, <2>2, DesksContinue
<1> QED BY <1>1, InitIsTyped, StepKeepsTypes, PTL DEF SerialSpec
=============================================================================
