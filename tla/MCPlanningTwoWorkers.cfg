SPECIFICATION Spec
CONSTANTS
  good = good
  fine = fine
  bad = bad
  q1 = q1
  q2 = q2
  yes = yes
  no = no
  w1 = w1
  w2 = w2
  None = None
  Workers = {w1, w2}
  PlanSequence <- DraftSequence
  Outputs = {good, fine, bad}
  Sound = {good, fine}
  Questions = {}
  Required = {}
  Defaulted = {}
  AskedBy <- NoQuestions
  Answers = {}
  MaxAttempts = 2
  ModelAttempts = 1
  MaxCrashes = 1
  MaxAnswers = 0
  MaxCancels = 1
INVARIANTS CompletedIsWhole DraftIsSound
PROPERTY DraftWrittenOnce
CHECK_DEADLOCK FALSE
