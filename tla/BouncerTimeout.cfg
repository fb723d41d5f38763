\* The start-up of the xApp with one gNB, against what the user's guide says of it.
CONSTANTS
  main = main  rcv = rcv  g1 = g1  g2 = g2
  Ids <- MCIds
  Free = Free
  NoAnswer = NoAnswer
  GnbLists <- MCGnbLists
  MaxGnbs = 3
  MaxAttempts = 1
  MaxIndications = 0
  MaxOthers = 0
SPECIFICATION Spec
INVARIANT SuccessMeansAnswered
CHECK_DEADLOCK FALSE
