SPECIFICATION FairSpec
CONSTANTS
  Contract <- MCContract
  Entries <- MCEntries
  SubpanelWidth = 160
  WorkspaceCounts = {0, 2}
  States <- MCStates
  Buttons = {"left"}
  PanelPoints <- MCPanelPoints
  SubpanelPoints <- MCSubpanelPoints
  MaxAttempts = 2
  Budgets <- MCBudgets
INVARIANTS TypeOK ActsOnShown OneSubpanel
PROPERTIES ShownInTheEnd
CHECK_DEADLOCK FALSE
