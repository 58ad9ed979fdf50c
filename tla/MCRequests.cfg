CONSTANT Nil = Nil
SPECIFICATION MCSpec
INVARIANTS
  RunsAsAsked AnsweredTruly
  YieldedAsAsked JoinedAsAsked GroupedAsAsked ValuesAsRequested FetchesAsAsked
