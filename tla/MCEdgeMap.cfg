SPECIFICATION Spec
CONSTANTS
  N = 5
  Graphs <- Zigzag
  Giants = {1}
  PageOf <- PageOfVertex
  Workers = {w1, w2}
  Divisors = {1, 20}
  MaxIterations = 2
  Starts = {0}
INVARIANT MapComponentsExact
CHECK_DEADLOCK FALSE
