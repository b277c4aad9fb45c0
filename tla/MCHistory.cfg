\* Two runs after three earlier decisions, with every kind of submission.
CONSTANTS
  MaxObservations = 4
  Raises = Raises
  None = None
  Scale = 10
  RoundingUnits = {1, 10}
  Missing = Missing
  MinimumSampleFloor = 2
  DayLength = 4
  Runs = {"r1", "r2"}
  EarlierDecisions <- Earlier
  CandidateRequests <- Requests
  Routes <- Portfolio
  CandidateQueries <- Queries
  CandidateWorlds <- Worlds
  Malformed = Malformed
  NotAnObject = NotAnObject
  Unstated = Unstated
  MaxFiles = 1
  MaxFacts = 2
  MaxPages = 2
  MaxGaps = 2
  MaxQueryItems = 3
  PublicHosts = {"p", "q", "ip"}
  MaxHops = 2
  MaxContacts = 1
  CandidateSubmissions <- Submissions
  CandidateOutcomes <- Outcomes
  MemoryOutcomes = {6}
  Policies <- Conventions
  SameLimit = 1
  CrossLimit = 1
  MaxReviews = 1
  MaxJournal = 2
  MaxCohort = 2
SPECIFICATION Spec
INVARIANTS
  TypeOK
  ClustersAreExactMatches
  EvidencePrecedesCutoff
  CompleteAnswersOmitNothing
  PassedMetricsReproduce
  RecallNeverLooksAhead
  JournalStaysLoadable
  CohortIsLeakFree
PROPERTIES
  RecallTakesNewestVisible
CHECK_DEADLOCK FALSE
