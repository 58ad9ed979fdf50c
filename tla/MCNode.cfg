CONSTANTS
  Nil = Nil
  d1 = d1
  d2 = d2
  h1 = h1
  o1 = o1
  u1 = u1
  u2 = u2
SYMMETRY Symmetry
SPECIFICATION MCSpec
INVARIANTS
  BusDelivers SuccessMeansMerged TopicsFollowStore SearchFinds TableIsTrue KeysBeforeMerge
  IndexesAgree VersionsAgree IDsDependOnDefinitions TruncatesItsOwn KeysAreFaithful
CHECK_DEADLOCK FALSE
