SPECIFICATION FairSpec
CONSTANTS
  n1 = n1
  n2 = n2
  n3 = n3
  NoNode = NoNode
  Node = {n1, n2, n3}
  Stoppable = {n1, n2}
INVARIANTS TypeOK UnlapsedLeaderHolds
PROPERTIES LeaseIsRespected MaintenanceGoesOn
