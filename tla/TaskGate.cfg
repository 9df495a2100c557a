SPECIFICATION Spec
CONSTANTS
  k1 = k1
  author = author
  reviewer = reviewer
  heir = heir
  None = None
  Checks = {k1}
  CheckDef <- OneCheck
  Criteria = {"ac"}
  Attempts = {author, reviewer, heir}
  Reviewers = {reviewer, heir}
  Author = author
  HandedOffFrom <- Handoffs
  Implementers = {author}
  Outcomes <- Ends
  Configs <- MCConfigs
  JevThreshold = 60
  Answers <- JevAnswers
  MaxReruns = 1
  MaxCommit = 2
  MaxDecisions = 1
INVARIANTS
  ChecksCarryGate
  CriteriaEvidenced
  ReviewCarriesGate
CHECK_DEADLOCK FALSE
