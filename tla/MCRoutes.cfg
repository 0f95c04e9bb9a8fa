CONSTANTS
  Pipelines = {"p", "q", "r"}
  Targets = {"t"}
  Models = {"m"}
  Nodes = {"n1", "n2"}
  Exits = {"done", "alt"}
  Panel = {"panel1", "panel2"}
  Drafts <- MCDrafts
  MaxVisitedNodes = 4
  MaxCallDepth = 1
  MaxFusionDepth = 1
  MaxHoleDepth = 20
  MaxDisabled = 1
  None = None
SPECIFICATION FairSpec
INVARIANTS NothingDangles ValidatedRoutesServe
PROPERTIES WalksEnd
