SPECIFICATION FairSpec
CONSTANT MaxSent = 1
PROPERTY AnswersPassedOn
CHECK_DEADLOCK FALSE
