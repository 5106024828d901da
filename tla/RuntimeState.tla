---------------------------- MODULE RuntimeState ----------------------------
(***************************************************************************)
(* The semantic state of the runtime daemon and its transition functions:  *)
(* NsCDE.Runtime.State, NsCDE.Runtime.TopicState, NsCDE.Store.StyleState   *)
(* and NsCDE.Policy.Backdrop.  The module has no variables: a command is   *)
(* handled by Handle(command, state, style file), whose value is the       *)
(* RuntimeTransition of the source.  RuntimeCommands runs the handlers one *)
(* after another, RuntimeDaemon runs them from concurrent threads.         *)
(*                                                                         *)
(* Names, palettes and images are strings, "" being the source's null      *)
(* string.  Fields of the state that no command changes (paths, backend,   *)
(* fonts, capabilities, panel layout, subpanels) are left out.             *)
(***************************************************************************)
EXTENDS Integers, Sequences, SequencesExt, Lists

CONSTANTS Names,            \* workspace names, "" excluded
          Palettes,         \* palette files a style may name, "" excluded
          Installed,        \* the palette files that exist and can be resolved
          FallbackPalette,  \* NSCDE_PALETTE_FILE of the daemon's environment
          Images,           \* backdrop images, "" excluded
          MaxDesk,          \* desks a style file can configure (32 in the code)
          WindowFrames      \* window lists the toplevel bridge publishes

ASSUME RuntimeStateAssumption ==
    /\ "" \notin Names \cup Palettes \cup Images
    /\ Installed \subseteq Palettes
    /\ FallbackPalette \in Palettes \cup {""}
    /\ MaxDesk \in Nat \ {0}
    /\ "" \notin WindowFrames

-----------------------------------------------------------------------------
(* Topics, commands, effects *)

Topics == {"session", "panel", "panel-layout", "workspaces", "backdrops", "windows",
           "subpanels", "pager", "taskd", "capabilities", "style"}

RefreshTargets == {"keybinds", "menu", "rc", "theme", "session"}

WindowCommands == {"activate", "close", "minimize", "restore", "maximize"}

\* What a publisher of workspaces or pager state sends: its names and its current one.
WorkspaceFrames(names) == [names: names, current: Names \cup {""}]

\* What style.env can say of the front panel variant and of the focus policy, "other"
\* being any text the parser does not know.
FpVariants == {"5", "8", "other"}
FocusPolicies == {"MouseFocus", "ClickToFocus", "SloppyFocus", "other"}

\* Assignments of a style-set request: keys of style.env and their new values.
StyleUpdates == [palette: Palettes \cup {""}] \cup [fp: FpVariants] \cup [focus: FocusPolicies]

\* A backdrop's mode is abstracted to whether the request names one.
BackdropModes == {"", "tiled"}

Commands ==
    [op: {"workspace-switch"}, name: Names \cup {""}]
    \cup [op: {"workspace-rename"}, old: Names \cup {""}, new: Names \cup {""}]
    \cup [op: {"window"}, verb: WindowCommands, id: Int]
    \cup [op: {"publish-windows"}, frame: WindowFrames \cup {""}]
    \cup [op: {"publish-workspaces"}, frame: WorkspaceFrames(Seq(Names))]
    \cup [op: {"publish-unsupported"}]
    \cup [op: {"color-select"}, palette: Palettes \cup {""}, colors: Int]
    \cup [op: {"backdrop-select"}, desk: Int, mode: BackdropModes, image: Images \cup {""}]
    \cup [op: {"style-set"}, updates: StyleUpdates, apply: BOOLEAN]
    \cup [op: {"style-apply", "reload", "logout", "failsafe", "power"}]
    \cup [op: {"refresh"}, target: RefreshTargets]

EffectKinds == {"compat-command", "apply-resolved-style", "refresh-labwc",
                "reload-backend", "logout-backend", "failsafe-terminal", "power"}

Fifos == {"runtime", "pager", "toplevel"}

\* A compat-command effect writes its command as a line to a FIFO; the line parses back
\* to the same command.
Effects == [kind: EffectKinds, fifo: Fifos \cup {""}, command: Commands]

Effect(kind, command) == [kind |-> kind, fifo |-> "", command |-> command]

CompatCommand(fifo, command) == [kind |-> "compat-command", fifo |-> fifo, command |-> command]

-----------------------------------------------------------------------------
(* style.env and the style state parsed from it *)

StyleFiles == [palette: Palettes \cup {""}, colors: Int, fp: FpVariants, focus: FocusPolicies,
               desk: [1..MaxDesk -> Images \cup {""}]]

EmptyStyleFile == [palette |-> "", colors |-> 8, fp |-> "8", focus |-> "MouseFocus",
                   desk |-> [d \in 1..MaxDesk |-> ""]]

\* Variant: any front panel variant is taken over.
ParseStyleUnchecked(file) ==
    [palette |-> file.palette, focus |-> file.focus, desk |-> file.desk, fp |-> file.fp]

\* parseStyleStateEntries: NSCDE_COLOR_MODE is not part of the parsed state, any front
\* panel variant but "5" reads as "8", and what is no focus policy as MouseFocus.
ParseStyle(file) ==
    [palette |-> file.palette, desk |-> file.desk,
     focus |-> IF file.focus = "other" THEN "MouseFocus" ELSE file.focus,
     fp |-> IF file.fp = "5" THEN "5" ELSE "8"]

\* mergeStyleEntries: the updated keys replace the file's, the others stay.
MergeStyle(file, updates) ==
    [key \in DOMAIN file |-> IF key \in DOMAIN updates THEN updates[key] ELSE file[key]]

SelectedPalette(style) == IF style.palette = "" THEN FallbackPalette ELSE style.palette

\* loadPaletteEntries: a file that is missing has no colours ("").
PaletteColors(palette) == IF palette \in Installed THEN palette ELSE ""

-----------------------------------------------------------------------------
(* Workspaces and the backdrop plan *)

\* 1-based position of the first occurrence, 0 when there is none.
IndexOf(name, names) == SelectInSeq(names, LAMBDA candidate : candidate = name)

\* Policy.Backdrop falls back to desk 1 where workspaceIndex falls back to 0.
CurrentDesk(names, current) ==
    LET index == IndexOf(current, names) IN IF index = 0 THEN 1 ELSE index

DefaultImages == <<"Ankh", "BrickWall", "Convex", "Toronto">>

DefaultImage(desk) == DefaultImages[((desk - 1) % 4) + 1]

DeskImage(style, desk) ==
    LET chosen(d) == IF d \in 1..MaxDesk THEN style.desk[d] ELSE ""
    IN  CASE chosen(desk) # "" -> chosen(desk)
          [] chosen(desk) = "" /\ chosen(1) # "" -> chosen(1)
          [] OTHER -> DefaultImage(desk)

BackdropPlan(names, current, style, palette) ==
    LET desk == CurrentDesk(names, current)
    IN  [workspace |-> current, desk |-> desk,
         image |-> DeskImage(style, desk), color |-> palette]

RefreshBackdrops(s) ==
    [s EXCEPT !.backdrops = BackdropPlan(s.workspaces, s.current, s.style, s.palette)]

\* The daemon's start: names and current workspace come from the environment, the
\* windows from windows.env, the style from style.env.
LoadRuntimeState(names, current, windows, file) ==
    RefreshBackdrops(
        [workspaces |-> names, current |-> current,
         windows |-> IF windows = "" THEN "no-windows" ELSE windows,
         style |-> ParseStyle(file),
         palette |-> PaletteColors(SelectedPalette(ParseStyle(file))),
         backdrops |-> <<>>])

\* A palette without colours leaves the previous colours in place.
UpdateFromStyle(s, style) ==
    LET colors == PaletteColors(SelectedPalette(style))
    IN  [s EXCEPT !.style = style, !.palette = IF colors = "" THEN @ ELSE colors]

\* Variant: the bridge's order wins.
PublishedNamesFirst(known, published) ==
    published \o SelectSeq(known, LAMBDA name : name \notin Range(published))

\* canonicalWorkspaceNames: published names are only ever added behind the known ones.
CanonicalNames(known, published) == known \o Outside(Range(known), published)

ResolveCurrent(requested, names, fallback) ==
    CASE names = <<>> -> fallback
      [] names # <<>> /\ requested \in Range(names) -> requested
      [] names # <<>> /\ requested \notin Range(names) /\ fallback \in Range(names) -> fallback
      [] OTHER -> Head(names)

-----------------------------------------------------------------------------
(* What a topic shows *)

\* The entries of a topic, as the tuple of the state it renders.  style is read from
\* style.env, not from memory; three topics never change after the start.
TopicEntries(topic, s, file) ==
    CASE topic = "session"    -> <<s.backdrops.image, s.backdrops.color>>
      [] topic = "panel"      -> <<s.workspaces, s.current, s.style.fp, s.palette>>
      [] topic = "workspaces" -> <<s.workspaces, s.current>>
      [] topic = "pager"      -> <<s.workspaces, s.current, IndexOf(s.current, s.workspaces)>>
      [] topic = "backdrops"  -> <<s.backdrops>>
      [] topic = "windows"    -> <<s.windows>>
      [] topic = "taskd"      -> <<s.windows>>
      [] topic = "style"      -> <<file>>
      [] OTHER                -> <<>>

ResetDelta(topic, s, file) ==
    [topic |-> topic, reset |-> TRUE, value |-> TopicEntries(topic, s, file)]

ResetDeltas(topics, s, file) == [i \in 1..Len(topics) |-> ResetDelta(topics[i], s, file)]

\* The event of a refreshed artifact is an overlay on the session topic.
ArtifactRefreshed(target) == [topic |-> "session", reset |-> FALSE, value |-> <<target>>]

ChangedWorkspaceTopics == <<"panel", "workspaces", "backdrops", "pager">>

\* Variant: a new palette is not seen as a change of the panel.
ChangedStyleTopicsWithoutPalette(old, new) ==
    <<"style">>
    \o (IF old.style.fp # new.style.fp THEN <<"panel">> ELSE <<>>)
    \o (IF old.style # new.style \/ old.backdrops # new.backdrops THEN <<"backdrops">> ELSE <<>>)

ChangedStyleTopics(old, new) ==
    <<"style">>
    \o (IF old.style.fp # new.style.fp \/ old.palette # new.palette
        THEN <<"panel">> ELSE <<>>)
    \o (IF \/ old.current # new.current \/ old.style # new.style
           \/ old.palette # new.palette \/ old.backdrops # new.backdrops
        THEN <<"backdrops">> ELSE <<>>)

RefreshTopics(target) ==
    CASE target = "rc"      -> <<"style">>
      [] target = "theme"   -> <<"panel", "backdrops">>
      [] target = "session" -> <<"session">>
      [] OTHER              -> <<>>

ReloadTopics == <<"panel", "backdrops", "style">>

ReloadTargets == <<"keybinds", "menu", "rc", "theme">>

-----------------------------------------------------------------------------
(* Transitions *)

Transition(s, file, topics, deltas, effects) ==
    [state |-> s, file |-> file, topics |-> topics, deltas |-> deltas, effects |-> effects]

Unchanged(s, file) == Transition(s, file, <<>>, <<>>, <<>>)

\* Announce topics with one RESET event each, carrying the new entries.
Announce(s, file, topics, effects) ==
    Transition(s, file, topics, ResetDeltas(topics, s, file), effects)

\* Variant: the events are built before the switch.
WorkspaceSwitchAnnouncedEarly(command, s, file) ==
    IF command.name \in Range(s.workspaces)
    THEN Transition(RefreshBackdrops([s EXCEPT !.current = command.name]), file,
                    ChangedWorkspaceTopics, ResetDeltas(ChangedWorkspaceTopics, s, file),
                    <<CompatCommand("pager", command)>>)
    ELSE Unchanged(s, file)

WorkspaceSwitch(command, s, file) ==
    IF command.name \in Range(s.workspaces)
    THEN Announce(RefreshBackdrops([s EXCEPT !.current = command.name]), file,
                  ChangedWorkspaceTopics, <<CompatCommand("pager", command)>>)
    ELSE Unchanged(s, file)

\* Variant: the current workspace keeps its old name, and its backdrop.
WorkspaceRenameInListOnly(command, s, file) ==
    LET Renamed(name) == IF name = command.old THEN command.new ELSE name
    IN  IF \/ command.new = "" \/ command.old = command.new
           \/ command.old \notin Range(s.workspaces)
        THEN Unchanged(s, file)
        ELSE Announce([s EXCEPT !.workspaces = [i \in 1..Len(@) |-> Renamed(@[i])]], file,
                      ChangedWorkspaceTopics, <<CompatCommand("runtime", command)>>)

\* The effect writes the rename to the daemon's own command FIFO.
WorkspaceRename(command, s, file) ==
    LET Renamed(name) == IF name = command.old THEN command.new ELSE name
        renamed == [s EXCEPT !.workspaces = [i \in 1..Len(@) |-> Renamed(@[i])],
                             !.current = Renamed(@)]
    IN  IF \/ command.new = "" \/ command.old = command.new
           \/ command.old \notin Range(s.workspaces)
        THEN Unchanged(s, file)
        ELSE Announce(RefreshBackdrops(renamed), file,
                      ChangedWorkspaceTopics, <<CompatCommand("runtime", command)>>)

PublishWindows(command, s, file) ==
    LET windows == IF command.frame = "" THEN "no-windows" ELSE command.frame
    IN  Announce([s EXCEPT !.windows = windows], file, <<"windows", "taskd">>, <<>>)

PublishWorkspaces(command, s, file) ==
    LET names == CanonicalNames(s.workspaces, command.frame.names)
        current == ResolveCurrent(command.frame.current, names, s.current)
    IN  Announce(RefreshBackdrops([s EXCEPT !.workspaces = names, !.current = current]),
                 file, ChangedWorkspaceTopics, <<>>)

\* Commands that edit style.env: the file is written first, the state follows from it.
StyleTransition(s, file, effects) ==
    LET updated == RefreshBackdrops(UpdateFromStyle(s, ParseStyle(file)))
    IN  Announce(updated, file, ChangedStyleTopics(s, updated), effects)

ColorSelect(command, s, file) ==
    IF command.palette \in Installed /\ command.colors \in {4, 8}
    THEN StyleTransition(
             s, MergeStyle(file, [palette |-> command.palette, colors |-> command.colors]),
             <<Effect("apply-resolved-style", command)>>)
    ELSE Unchanged(s, file)

BackdropSelect(command, s, file) ==
    IF command.desk > 0 /\ command.mode # "" /\ command.image # ""
    THEN StyleTransition(
             s, MergeStyle(file, [desk |-> [d \in 1..MaxDesk |->
                                    IF d = command.desk THEN command.image ELSE file.desk[d]]]),
             <<Effect("apply-resolved-style", command)>>)
    ELSE Unchanged(s, file)

\* Variant: the merged style is applied and not written.
StyleSetUnsaved(command, s, file) ==
    LET style == ParseStyle(MergeStyle(file, command.updates))
        updated == RefreshBackdrops(UpdateFromStyle(s, style))
    IN  Announce(updated, file, ChangedStyleTopics(s, updated), <<>>)

StyleSet(command, s, file) ==
    StyleTransition(s, MergeStyle(file, command.updates),
                    IF command.apply THEN <<Effect("apply-resolved-style", command)>> ELSE <<>>)

StyleApply(command, s, file) ==
    StyleTransition(s, file, <<Effect("apply-resolved-style", command)>>)

Refresh(command, s, file) ==
    Transition(s, file, RefreshTopics(command.target), <<ArtifactRefreshed(command.target)>>,
               <<Effect("refresh-labwc", command)>>)

Reload(command, s, file) ==
    Transition(s, file, ReloadTopics,
               [i \in 1..Len(ReloadTargets) |-> ArtifactRefreshed(ReloadTargets[i])],
               <<Effect("refresh-labwc", command), Effect("reload-backend", command)>>)

EffectOnly(effect, s, file) == Transition(s, file, <<>>, <<>>, <<effect>>)

Handle(command, s, file) ==
    CASE command.op = "workspace-switch"    -> WorkspaceSwitch(command, s, file)
      [] command.op = "workspace-rename"    -> WorkspaceRename(command, s, file)
      [] command.op = "window"              -> EffectOnly(CompatCommand("toplevel", command), s, file)
      [] command.op = "publish-windows"     -> PublishWindows(command, s, file)
      [] command.op = "publish-workspaces"  -> PublishWorkspaces(command, s, file)
      [] command.op = "publish-unsupported" -> Unchanged(s, file)
      [] command.op = "color-select"        -> ColorSelect(command, s, file)
      [] command.op = "backdrop-select"     -> BackdropSelect(command, s, file)
      [] command.op = "style-set"           -> StyleSet(command, s, file)
      [] command.op = "style-apply"         -> StyleApply(command, s, file)
      [] command.op = "refresh"             -> Refresh(command, s, file)
      [] command.op = "reload"              -> Reload(command, s, file)
      [] command.op = "logout"              -> EffectOnly(Effect("logout-backend", command), s, file)
      [] command.op = "failsafe"            -> EffectOnly(Effect("failsafe-terminal", command), s, file)
      [] OTHER                              -> EffectOnly(Effect("power", command), s, file)

\* The commands a line of the runtime command FIFO can spell.
CompatOps == {"reload", "logout", "failsafe", "workspace-switch", "workspace-rename", "window"}
=============================================================================
