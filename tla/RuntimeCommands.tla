-------------------------- MODULE RuntimeCommands --------------------------
(***************************************************************************)
(* The daemon as its users think of it: one command at a time, taken from  *)
(* a state to the next by the handlers of RuntimeState.  RuntimeDaemon     *)
(* shows that its concurrent threads implement this machine.               *)
(***************************************************************************)
EXTENDS RuntimeState, FiniteSets

CONSTANTS InitialNames,   \* NSCDE_WORKSPACES of the environment
          InitialStyles,  \* what style.env may hold at the start
          Requests        \* the commands that can arrive

ASSUME RuntimeCommandsAssumption ==
    /\ InitialNames \in Seq(Names) /\ InitialNames # <<>>
    /\ InitialStyles \subseteq StyleFiles
    /\ Requests \subseteq Commands

VARIABLES runtimeState,   \* serverRuntimeState
          styleFile       \* contents of style.env

stateVars == <<runtimeState, styleFile>>

SerialInit ==
    /\ styleFile \in InitialStyles
    /\ \E current \in Names, windows \in WindowFrames \cup {""} :
          runtimeState = LoadRuntimeState(InitialNames, current, windows, styleFile)

Execute(command) ==
    LET result == Handle(command, runtimeState, styleFile)
    IN  /\ runtimeState' = result.state
        /\ styleFile' = result.file

\* An exception after style.env was written and before the state was committed: the
\* MVar keeps the old state, the file does not.
AbortAfterWrite(command) ==
    /\ styleFile' = Handle(command, runtimeState, styleFile).file
    /\ UNCHANGED runtimeState

SerialNext == \E command \in Requests : Execute(command) \/ AbortAfterWrite(command)

SerialSpec == SerialInit /\ [][SerialNext]_stateVars

-----------------------------------------------------------------------------
(* Properties *)

Styles == [palette: Palettes \cup {""}, fp: {"5", "8"}, focus: FocusPolicies \ {"other"},
           desk: [1..MaxDesk -> Images \cup {""}]]

Plans == [workspace: Names, desk: Nat \ {0}, image: Images \cup Range(DefaultImages),
          color: Palettes \cup {""}]

States == [workspaces: Seq(Names), current: Names, windows: WindowFrames \cup {"no-windows"},
           style: Styles, palette: Palettes \cup {""}, backdrops: Plans]

\* Every handler returns a state and a style file of the shape the others expect.
StateTypeOK == runtimeState \in States /\ styleFile \in StyleFiles

\* The published backdrop is the plan of the current desk, style and palette, whichever
\* handler changed one of them last (each handler refreshes the plan by itself).
BackdropsFollowState ==
    runtimeState.backdrops = BackdropPlan(runtimeState.workspaces, runtimeState.current,
                                          runtimeState.style, runtimeState.palette)

\* The style in memory only ever becomes what style.env says at that moment, also when
\* an earlier command failed between writing the file and committing the state.
StyleFollowsFile ==
    [][runtimeState'.style # runtimeState.style
       => runtimeState'.style = ParseStyle(styleFile')]_stateVars

\* A command announces, with a RESET event that carries the new entries, every topic
\* whose entries it changes; session is the exception of the code, which announces it
\* on refresh only although it shows the backdrop.  It holds as well when an aborted
\* command left style.env ahead of the state.
ChangesAreAnnounced ==
    \A command \in Requests :
        LET result == Handle(command, runtimeState, styleFile)
        IN  \A topic \in Topics \ {"session"} :
                TopicEntries(topic, result.state, result.file)
                    # TopicEntries(topic, runtimeState, styleFile)
                => /\ topic \in Range(result.topics)
                   /\ ResetDelta(topic, result.state, result.file) \in Range(result.deltas)

\* Once the current workspace is one of the listed names it stays one, through
\* switches, renames and publications in any order.
CurrentStaysListed ==
    [][runtimeState.current \in Range(runtimeState.workspaces)
       => runtimeState'.current \in Range(runtimeState'.workspaces)]_stateVars

\* The name that a command leaves to the workspace of this name.
NameAfter(command, name) ==
    IF command.op = "workspace-rename" /\ command.old = name /\ command.new # ""
    THEN command.new ELSE name

\* The desk of a listed name, whose backdrop is shown while it is current, is the same after
\* every command, where a rename is followed to the new name.  Where a rename makes two names
\* one, which no handler rejects, that name stands for the first of the two desks.  The name
\* is all the daemon knows of a workspace: one that a bridge still publishes under a name
\* renamed away is listed anew, behind the others (publications are checked by the unit test
\* "workspace publish keeps canonical order").
DesksFollowNames ==
    \A command \in Requests :
        LET names == runtimeState.workspaces
            after == Handle(command, runtimeState, styleFile).state.workspaces
            Sharing(name) == {other \in Range(names) :
                                NameAfter(command, other) = NameAfter(command, name)}
        IN  \A name \in Range(names) :
                IndexOf(NameAfter(command, name), after)
                    = Min({IndexOf(other, names) : other \in Sharing(name)})
=============================================================================
