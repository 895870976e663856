SPECIFICATION Spec
CONSTANTS
  ApiProcs = {api}
  Jobs = {job}
  Workers = {worker}
  Cloud = Cloud
  NoVersion = NoVersion
  Versions = {1, 2}
  Corpus <- MCCorpus
  Queries <- MCQueries
  TopK = 1
  DenseWeight = 6
  LexicalWeight = 4
  RrfK = 60
  Scale = 238266
  Tau <- MCTau
  Marks <- MCMarks
  MaxFaults <- MCFaults
INVARIANT TypeOK
INVARIANT CitationsCurrent
INVARIANT CandidatesOnce
INVARIANT BothFirst
INVARIANT ReadyIsSearchable
INVARIANT FusionNeverSuffices
PROPERTY ServesInTheEnd
CHECK_DEADLOCK FALSE
