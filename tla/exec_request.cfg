SPECIFICATION RequestSpec
CONSTANTS
  Clients = {c1, c2}
  Ids = {i1, i2}
  NoId = none
  Posts <- SomePosts
  Queries = {"delete", "wait"}
  Lossy = {c1}
INVARIANT RequestTypeOK
INVARIANT AnswerIsSession
INVARIANT RefusedIsOver
INVARIANT OrphanHasReason
INVARIANT OkIsFromTheMap
PROPERTY AnsweredIsAttached
PROPERTY EachHasItsSession
CHECK_DEADLOCK FALSE
