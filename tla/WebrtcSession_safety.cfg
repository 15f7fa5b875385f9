SPECIFICATION Spec
CONSTANTS
  Flag = {"owd", "bw", "loss"}
  OwdInterval = 3
  Base = 3
  Times = {1, 3, 4, 9}
  MaxPackets = 3
  MaxFeedback = 2
INVARIANTS
  TypeOK
  LossAccounting
  LossBelowAll
  OwdTraced
  FeedbackInOrder
CHECK_DEADLOCK FALSE
