CONSTANTS
  Callers = {c1, c2, c3}
  Hosts = {h1, h2}
  Answers = {a1}
  Negative = negative
  Absent = absent
  NoOne = noone
  NoHost = nohost
SPECIFICATION DohFairSpec
INVARIANTS SingleFlight WaiterHasLeader AnswerForHost
PROPERTIES AnsweredOrAbandoned
CHECK_DEADLOCK FALSE
