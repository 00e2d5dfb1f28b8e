SPECIFICATION Spec
CONSTANTS
  None = None
  SearchLimit = 4
  Tasks <- MCTasks
  Milestones <- MCMilestones
  MilestoneOf <- MCMilestoneOf
  Target <- MCTarget
  Factors <- MCFactors
  Streams <- MCStreams
  Candidates <- MCCandidates
  Projects <- MCProjects
  Efforts = {3, 16}
  Overrides <- MCOverrides
  Full = 2
  MaxEdits = 1
  LastDay = 4
INVARIANTS
  GraphIsJudged
  
  ScenarioIsSound
  
PROPERTY DatesFit
CHECK_DEADLOCK FALSE
