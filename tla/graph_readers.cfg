\* Two callers of one graph of four steps and up to four edges.
CONSTANTS
  e = e  a = a  x = x  y = y  c1 = c1  c2 = c2
  NoStep = NoStep
  StepIDs = {e, a, x, y}
  Callers = {c1, c2}
  Edges <- SomeEdges
  Entries = {e, x}
  MaxEdges = 4
SPECIFICATION FairSpec
INVARIANTS GraphTypeOK CachesCurrent AnswersCorrect InputsFromBelow
PROPERTY WalksEnd
