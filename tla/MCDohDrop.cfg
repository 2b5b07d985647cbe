CONSTANTS
  Callers = {c1, c2}
  Hosts = {h1}
  Answers = {a1}
  Negative = negative
  Absent = absent
  NoOne = noone
  NoHost = nohost
SPECIFICATION DohFairSpec
PROPERTIES Answered
CHECK_DEADLOCK FALSE
