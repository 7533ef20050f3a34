\* Three pipelined queries, a child that may die, a pipe that may close.
CONSTANTS
  Queries = {q1, q2, q3}
  Torn = Torn
SPECIFICATION Spec
PROPERTIES ImplementsService EveryQuerySettles
CHECK_DEADLOCK FALSE
