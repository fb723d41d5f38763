CONSTANTS
  main = main  rcv = rcv  g1 = g1  g2 = g2
  Ids <- MCIds
  Free = Free
  NoAnswer = NoAnswer
  GnbLists <- MCGnbLists
  MaxGnbs = 3
  MaxAttempts = 2
  MaxIndications = 2
  MaxOthers = 1
SPECIFICATION Spec
INVARIANTS TypeOK StatusTruthful StartupLogRight BouncesInOrder NoAnswerLost
PROPERTIES ReceiverStarts AcceptedIsMarked
CHECK_DEADLOCK FALSE
