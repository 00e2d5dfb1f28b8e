SPECIFICATION FairSpec
CONSTANTS
  good = good
  fine = fine
  bad = bad
  q1 = q1
  q2 = q2
  yes = yes
  no = no
  w1 = w1
  w2 = w2
  None = None
  Workers = {w1}
  PlanSequence <- QuestionSequence
  Outputs = {good, bad}
  Sound = {good}
  Questions = {q1, q2}
  Required = {q1}
  Defaulted = {q2}
  AskedBy <- TwoQuestions
  Answers = {yes}
  MaxAttempts = 2
  ModelAttempts = 2
  MaxCrashes = 2
  MaxAnswers = 1
  MaxCancels = 0
INVARIANTS DraftIsTheGatedOne InputsPresent WaitingHasQuestion ActiveRunCanAdvance
PROPERTY RunSettles
CHECK_DEADLOCK FALSE
