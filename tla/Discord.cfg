CONSTANTS
  Players = {p1}
  Users = {u1}
  Teams = {red, green}
  RoleIds = {1, 2, 3}
  Web = {w1, w2}
  Loop = loop
  Nobody = Nobody
  MaxChanges = 3
  FaultLimit = 1
  Standings = {1, 2}
  Hooks = {h1, h2}
  Messages = {1, 2, 3}
  Runners = {loop, operator}
  MaxMoves = 3
  TroubleLimit = 1
SPECIFICATION MCSpec
PROPERTIES RolesSettle BoardCatchesUp
CHECK_DEADLOCK FALSE
