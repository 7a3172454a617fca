SPECIFICATION Spec
CONSTANTS
  Keys = {k1, k2}
  Organization = org
  Changing = {k1}
  Operators = {o1, o2}
  Requests = {r1, r2}
  Limit <- MCLimit
  MinutesPerDay = 2
  MaxChanges = 2
  MaxMinutes = 1
INVARIANTS EndedSecretsStayDead LimitsHold FloodContained
SYMMETRY Symmetry
CHECK_DEADLOCK FALSE
