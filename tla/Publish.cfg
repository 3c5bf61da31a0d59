SPECIFICATION MCSpec
CONSTANTS
  None = None
  Ids = {i1, i2, i3}
  Existing = {i1}
  Files = {f1, f2}
  Preparations <- MCPreparations
  MaxPublishes = 2
  Publishes = {p1, p2}
  Numbers = {n1, n2, n3}
INVARIANTS ReportedComplete PayloadHeld NoLitter
PROPERTIES Returns CmdOwnItem
