--------------------------- MODULE MCPanelSession ---------------------------
(* The metrics of NSCDE_PANEL_LAYOUT_CONTRACT_DEFAULTS with two launchers at the left and one
   at the right: the second has a subpanel of two entries, the right one a subpanel of one. *)
EXTENDS PanelSession

MCContract ==
    [DefaultContract EXCEPT !.left_modules = <<"clock", "home">>, !.right_modules = <<"print">>]

MCEntries == [s \in {1, 6} |-> IF s = 1 THEN 2 ELSE 1]

State(theme, current) == [theme |-> theme, workspaces |-> <<"One", "Two">>, current |-> current]
MCStates == {State("blue", "One"), State("blue", "Two"), State("grey", "One"),
             [State("blue", "One") EXCEPT !.workspaces = <<"One", "Three">>]}

Budget(kinds) == [kind \in Inputs |-> IF kind \in DOMAIN kinds THEN kinds[kind] ELSE 0]
MCBudgets ==
    {Budget([press |-> 2, row |-> 1]), Budget([press |-> 1, row |-> 2]),
     Budget([press |-> 2, close |-> 1]), Budget([press |-> 1, buffer |-> 1]),
     Budget([change |-> 2]), Budget([change |-> 1, compositor |-> 1, buffer |-> 1]),
     Budget([change |-> 1, press |-> 1]), Budget([late |-> 1, press |-> 1]),
     Budget([daemon |-> 1, late |-> 1]), Budget([end |-> 1, press |-> 1])}

\* The launcher's trigger, the right one's, a workspace; a row's middle, where the panel has
\* a launcher, and the pixel between two rows.
MCPanelPoints == {<<100, 10>>, <<500, 10>>, <<210, 20>>}
MCSubpanelPoints == {<<100, 40>>, <<100, 56>>}

\* The theorem about ActsOnShown assumes that what is hit there is what is seen.
ASSUME PointsHitWhatIsSeen == HitsAreSeen

\* The same for a grid of points over the whole panel, with up to six workspaces: what the
\* hit test finds is what is seen.
ASSUME PanelAnswersAsSeen ==
    \A count \in {0, 1, 2, 4, 6}, i \in 0..75, j \in 0..21 :
        LET p == <<7 * i, 4 * j + 1>>
        IN  HitTestPanel(Panel(count), p) = SeenInPanel(Panel(count), p)
=============================================================================
