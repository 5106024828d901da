---------------------------- MODULE PanelLayout ----------------------------
(***************************************************************************)
(* The geometry of the front panel: where nscde_paneld draws its elements  *)
(* and what its hit tests find at a point.  The panel is, from the left: a *)
(* handle, the launchers, the workspace manager, the applets, a handle.    *)
(*                                                                         *)
(* A panel is given by its launchers, its applets and the number of its    *)
(* workspaces; the metrics are those of the layout contract.  Points are   *)
(* pairs <<x, y>>; an element is a kind and a number.                      *)
(***************************************************************************)
EXTENDS Integers, Sequences, SequencesExt, FiniteSetsExt

CONSTANT Contract  \* struct nscde_panel_layout_contract; modules as sequences of names

\* NSCDE_PANEL_LAYOUT_CONTRACT_DEFAULTS; the fonts and the metrics that place nothing are
\* left out.
DefaultContract ==
    [height |-> 79, border_width |-> 4, margin |-> 0, bevel_width |-> 1,
     left_modules |-> <<"clock", "date", "home", "term", "mail">>,
     right_modules |-> <<"print", "style", "apps", "multimedia", "help">>,
     launcher_unit_width |-> 63, launcher_gap |-> 0,
     left_handle_width |-> 21, right_handle_width |-> 21,
     trigger_height |-> 16, body_height |-> 62, bottom_strip_height |-> 1,
     applet_gap |-> 4, center_section_width |-> 343, button_min_width |-> 84, button_gap |-> 6,
     wsm_inner_pad |-> 5, wsm_side_width |-> 43, wsm_utility_width |-> 43, wsm_section_gap |-> 6,
     wsm_grid_vpad |-> 3, wsm_lock_height |-> 34, wsm_load_inset_top |-> 8,
     wsm_load_inset_side |-> 5, wsm_load_height |-> 14, wsm_exit_height |-> 30,
     wsm_exit_inset_bottom |-> 4, wsm_utility_inset_side |-> 5, scale |-> 100,
     applet_clock_size |-> 56, applet_date_size |-> 56, applet_mail_size |-> 56,
     applet_load_width |-> 36, subpanel_entry_height |-> 32, subpanel_title_height |-> 20,
     subpanel_padding |-> 4]

\* parse_layout_entry: the metrics, by the greatest value that is taken; modules are texts.
AtMost ==
    [height |-> 511, border_width |-> 31, margin |-> 255, bevel_width |-> 15,
     launcher_unit_width |-> 255, launcher_gap |-> 63,
     left_handle_width |-> 127, right_handle_width |-> 127,
     trigger_height |-> 127, body_height |-> 255, bottom_strip_height |-> 31,
     applet_gap |-> 31, center_section_width |-> 2047, button_min_width |-> 511, button_gap |-> 63,
     wsm_inner_pad |-> 255, wsm_side_width |-> 511, wsm_utility_width |-> 511,
     wsm_section_gap |-> 255, wsm_grid_vpad |-> 255, wsm_lock_height |-> 511,
     wsm_load_inset_top |-> 255, wsm_load_inset_side |-> 255, wsm_load_height |-> 511,
     wsm_exit_height |-> 511, wsm_exit_inset_bottom |-> 255, wsm_utility_inset_side |-> 255,
     scale |-> 400, applet_clock_size |-> 255, applet_date_size |-> 255,
     applet_mail_size |-> 255, applet_load_width |-> 255, subpanel_entry_height |-> 127,
     subpanel_title_height |-> 127, subpanel_padding |-> 63]

\* Widths, sizes and most heights are positive, distances may be 0.
MayBeZero ==
    {"border_width", "margin", "bevel_width", "launcher_gap", "bottom_strip_height", "applet_gap",
     "button_gap", "wsm_inner_pad", "wsm_section_gap", "wsm_grid_vpad", "wsm_load_inset_top",
     "wsm_load_inset_side", "wsm_exit_inset_bottom", "wsm_utility_inset_side", "subpanel_padding"}

\* parse_int_range: a value out of bounds leaves the metric as it is.
Metric(name, value) ==
    IF value \in (IF name \in MayBeZero THEN 0 ELSE 1)..AtMost[name] THEN value
    ELSE DefaultContract[name]

\* So this is what parsing some contents, of any values, can come to.
ASSUME PanelLayoutAssumption ==
    /\ DOMAIN Contract = DOMAIN DefaultContract
    /\ \A name \in DOMAIN AtMost : Contract[name] = Metric(name, Contract[name])
    /\ {Contract.left_modules, Contract.right_modules} \subseteq Seq(STRING)

MaxLaunchers == 16
MaxApplets == 8

AppletNames == {"clock", "date", "mail", "load"}
CommandNames == {"date", "mail", "style", "home", "term", "apps", "help", "print", "multimedia",
                 "lock", "exit"}  \* the modules with a command

Element(kind, number) == [kind |-> kind, number |-> number]
Nothing == Element("none", 0)

Rect(x, y, w, h) == [x |-> x, y |-> y, w |-> w, h |-> h]
Region(rect, element) == [rect |-> rect, element |-> element]

InRect(p, r) == /\ p[1] >= r.x /\ p[1] < r.x + r.w
                /\ p[2] >= r.y /\ p[2] < r.y + r.h

Prefix(s, n) == SubSeq(s, 1, IF Len(s) < n THEN Len(s) ELSE n)

-----------------------------------------------------------------------------
(* Launchers and applets *)

\* rebuild_launchers: no launcher has a subpanel yet.
Launchers == [i \in DOMAIN Prefix(Contract.left_modules, MaxLaunchers) |->
                 [module |-> Contract.left_modules[i], sub |-> 0]]

\* right_launcher_subpanel_index, counted from 1; 0 for none.
RightSubpanel(i) == IF i <= 5 THEN i + 5 ELSE IF i <= 10 THEN i + 10 ELSE 0

\* rebuild_applets: a name that is not an applet's is a launcher.
Applets == [i \in DOMAIN Prefix(Contract.right_modules, MaxApplets) |->
               LET name == Contract.right_modules[i]
                   launcher == name \notin AppletNames
               IN  [module |-> name, launcher |-> launcher,
                    sub |-> IF launcher THEN RightSubpanel(i) ELSE 0]]

AppletWidth(applet) ==
    CASE applet.module = "clock" -> Contract.applet_clock_size
      [] applet.module = "date" -> Contract.applet_date_size
      [] applet.module = "mail" -> Contract.applet_mail_size
      [] applet.module = "load" -> Contract.applet_load_width
      [] OTHER -> Contract.launcher_unit_width

AppletGap(applet) == IF applet.launcher THEN 0 ELSE Contract.applet_gap

\* The end of rebuild_launchers: gaps between launchers are not counted.
LeftBankWidth(panel) == Len(panel.launchers) * Contract.launcher_unit_width

\* The end of rebuild_applets.
RightBankWidth(panel) ==
    MapThenSumSet(LAMBDA i : AppletWidth(panel.applets[i])
                             + (IF i > 1 THEN AppletGap(panel.applets[i]) ELSE 0),
                  DOMAIN panel.applets)

-----------------------------------------------------------------------------
(* compute_panel_layout_model *)

PanelHeight == 2 * Contract.margin + 2 * Contract.border_width + Contract.height

PanelWidth(panel) ==
    2 * Contract.margin + 2 * Contract.border_width + Contract.left_handle_width
    + LeftBankWidth(panel) + Contract.center_section_width + RightBankWidth(panel)
    + Contract.right_handle_width

Edge == Contract.margin + Contract.border_width
InnerHeight == PanelHeight - 2 * Edge
BankY == Edge + Contract.trigger_height
Scaled(value) == (value * Contract.scale + 50) \div 100

LeftBank(panel) ==
    Rect(Edge + Contract.left_handle_width, BankY, LeftBankWidth(panel), Contract.body_height)

Center(panel) ==
    Rect(Edge + Contract.left_handle_width + LeftBankWidth(panel), Edge,
         Contract.center_section_width, InnerHeight)

RightHandleX(panel) == PanelWidth(panel) - Edge - Contract.right_handle_width

RightBank(panel) ==
    Rect(RightHandleX(panel) - RightBankWidth(panel), BankY, RightBankWidth(panel),
         Contract.body_height)

BottomStrip(panel) ==
    LET x == Edge + Contract.left_handle_width
    IN  Rect(x, BankY + Contract.body_height,
             RightBank(panel).x - x + RightBankWidth(panel), Contract.bottom_strip_height)

\* The buttons and grips of the two handles, which do nothing.
LeftHandle ==
    <<Region(Rect(Edge + Scaled(1), Edge + Scaled(1), Scaled(19), Scaled(14)), Element("handle", 1)),
      Region(Rect(Edge + Scaled(1), Edge + Scaled(16), Scaled(19), Scaled(63)), Element("handle", 2))>>

RightHandle(panel) ==
    LET x == RightHandleX(panel)
    IN  <<Region(Rect(x, Edge + Scaled(1), Scaled(20), Scaled(14)), Element("handle", 3)),
          Region(Rect(x, Edge + Scaled(16), Scaled(20), Scaled(63)), Element("handle", 4))>>

\* A trigger that opens a subpanel above a body that runs a command.
TriggerAndBody(x, w, trigger, body) ==
    <<Region(Rect(x, Edge, w, Contract.trigger_height), trigger),
      Region(Rect(x, BankY, w, Contract.body_height), body)>>

LauncherRegions(panel) ==
    FlattenSeq([i \in DOMAIN panel.launchers |->
        TriggerAndBody(LeftBank(panel).x
                           + (i - 1) * (Contract.launcher_unit_width + Contract.launcher_gap),
                       Contract.launcher_unit_width,
                       Element("trigger", i), Element("body", i))])

\* Applets are laid out from the right.
AppletX(panel, i) ==
    LET behind == {j \in DOMAIN panel.applets : j > i}
    IN  RightBank(panel).x + RightBankWidth(panel) - AppletWidth(panel.applets[i])
        - MapThenSumSet(LAMBDA j : AppletWidth(panel.applets[j]) + AppletGap(panel.applets[j]), behind)

AppletRegions(panel) ==
    FlattenSeq([i \in DOMAIN panel.applets |->
        LET applet == panel.applets[i]
        IN  TriggerAndBody(AppletX(panel, i), AppletWidth(applet),
                Element(IF applet.launcher THEN "right trigger" ELSE "applet", i),
                Element(IF applet.launcher THEN "right body" ELSE "applet", i))])

\* The inside of the workspace manager: lock and pager slots, the grid, load and exit slots.
Wsm(panel) ==
    LET x == Center(panel).x + Contract.wsm_inner_pad
        w == Contract.center_section_width - 2 * Contract.wsm_inner_pad
        h == InnerHeight - 2 * Contract.wsm_inner_pad - Contract.bottom_strip_height
        gridX == x + Contract.wsm_side_width + Contract.wsm_section_gap
        gridW == w - Contract.wsm_side_width - Contract.wsm_utility_width
                 - 2 * Contract.wsm_section_gap
    IN  [x |-> x, y |-> Edge + Contract.wsm_inner_pad, h |-> h, row |-> h \div 2,
         gridX |-> gridX, gridW |-> IF gridW < 1 THEN 1 ELSE gridW,
         utilX |-> gridX + gridW + Contract.wsm_section_gap]

WsmSlots(panel) ==
    LET m == Wsm(panel)
        bottom == m.y + m.h - m.row
        lock(y) == Rect(m.x, y + (m.row - Contract.wsm_lock_height) \div 2,
                        Contract.wsm_side_width, Contract.wsm_lock_height)
    IN  <<Region(lock(m.y), Element("wsm", 1)), Region(lock(bottom), Element("wsm", 2)),
          Region(Rect(m.utilX + Contract.wsm_load_inset_side, m.y + Contract.wsm_load_inset_top,
                      Contract.wsm_utility_width - 2 * Contract.wsm_load_inset_side,
                      Contract.wsm_load_height), Element("wsm", 3)),
          Region(Rect(m.utilX + Contract.wsm_utility_inset_side,
                      bottom + m.row - Contract.wsm_exit_height - Contract.wsm_exit_inset_bottom,
                      Contract.wsm_utility_width - 2 * Contract.wsm_utility_inset_side,
                      Contract.wsm_exit_height), Element("wsm", 4))>>

\* The icons in the slots; the load bar fills its slot.
WsmIcons(panel) ==
    LET m == Wsm(panel)
        bottom == m.y + m.h - m.row
        icon(x, width, y, w, h) ==
            Rect(x + (width - Scaled(w)) \div 2, y + (m.row - Scaled(h)) \div 2, Scaled(w), Scaled(h))
    IN  <<WsmSlots(panel)[3],
          Region(icon(m.x, Contract.wsm_side_width, m.y, 24, 24), Element("wsm", 1)),
          Region(icon(m.x, Contract.wsm_side_width, bottom, 22, 20), Element("wsm", 2)),
          Region(icon(m.utilX, Contract.wsm_utility_width, bottom, 24, 24), Element("wsm", 4))>>

\* One row of up to two buttons, or two columns; the height is always that of two rows.
WorkspaceRegions(panel) ==
    LET m == Wsm(panel)
        rows == IF panel.workspaces > 2 THEN 2 ELSE 1
        cols == IF rows = 2 THEN 2 ELSE IF panel.workspaces > 0 THEN panel.workspaces ELSE 1
        gridH == m.h - 2 * Contract.wsm_grid_vpad
        fit == (m.gridW - (cols - 1) * Contract.button_gap) \div cols
        w == IF fit < Contract.button_min_width THEN Contract.button_min_width ELSE fit
        h == (gridH - (rows - 1) * Contract.button_gap) \div rows
    IN  [i \in 1..panel.workspaces |->
            Region(Rect(m.gridX + ((i - 1) % cols) * (w + Contract.button_gap),
                        m.y + Contract.wsm_grid_vpad
                            + ((i - 1) \div cols) * (h + Contract.button_gap), w, h),
                   Element("workspace", i))]

-----------------------------------------------------------------------------
(* Hit tests and drawing *)

FirstAt(regions, p) ==
    LET at == {i \in DOMAIN regions : InRect(p, regions[i].rect)}
    IN  IF at = {} THEN Nothing ELSE regions[Min(at)].element

\* hit_test_panel: the first region, in the order of the tests.
HitTestPanel(panel, p) ==
    FirstAt(LeftHandle \o RightHandle(panel) \o WsmSlots(panel) \o LauncherRegions(panel)
            \o AppletRegions(panel) \o WorkspaceRegions(panel), p)

\* render_panel: the last region, in the order of the sections; each covers what it is drawn over.
DrawnInPanel(panel, p) ==
    LET bank(r) == Region(Rect(r.x, Edge, r.w, Contract.trigger_height + r.h), Nothing)
    IN  FirstAt(Reverse(LeftHandle
            \o <<bank(LeftBank(panel))>> \o LauncherRegions(panel)
            \o <<Region(Center(panel), Nothing)>> \o WsmIcons(panel) \o WorkspaceRegions(panel)
            \o <<bank(RightBank(panel))>> \o AppletRegions(panel)
            \o RightHandle(panel) \o <<Region(BottomStrip(panel), Nothing)>>), p)

SubpanelHeight(entries) ==
    Contract.subpanel_title_height + entries * Contract.subpanel_entry_height
    + 2 * Contract.subpanel_padding

\* Variant: the title is not counted.
HitTestSubpanelUntitled(entries, width, p) ==
    LET row == 1 + (p[2] - Contract.subpanel_padding) \div Contract.subpanel_entry_height
    IN  IF /\ InRect(p, Rect(0, 0, width, SubpanelHeight(entries)))
           /\ row \in 1..entries
        THEN row ELSE 0

\* hit_test_subpanel: the row, or 0.  The rows start where the padding ends.
HitTestSubpanel(entries, width, p) ==
    LET y == p[2] - Contract.subpanel_padding - Contract.subpanel_title_height
        row == 1 + y \div Contract.subpanel_entry_height
    IN  IF InRect(p, Rect(0, 0, width, SubpanelHeight(entries))) /\ y >= 0 /\ row <= entries
        THEN row ELSE 0

\* render_subpanel_surface: they are drawn below the bevel, too.
DrawnInSubpanel(entries, width, p) ==
    LET top == Contract.bevel_width + Contract.subpanel_title_height + Contract.subpanel_padding
        side == Contract.bevel_width + Contract.subpanel_padding
        at == {i \in 1..entries :
                  InRect(p, Rect(side, top + (i - 1) * Contract.subpanel_entry_height,
                                 width - 2 * side, Contract.subpanel_entry_height))}
    IN  IF at = {} THEN 0 ELSE Min(at)
=============================================================================
