SPECIFICATION Spec
CONSTANTS
  MaxTokens = 3
  Overlap = 1
  Terms = {"a", "b", "c"}
  Names = {p, q, a, b}
  p = p
  q = q
  a = a
  b = b
  Corpora <- MCCorpora
INVARIANT TypeOK
INVARIANT NoTextDropped
INVARIANT WindowsAdvance
INVARIANT EveryWordCitable
INVARIANT FrequenciesExact
CHECK_DEADLOCK FALSE
