SPECIFICATION FairSpec
CONSTANTS
  Requests = {c1, e1}
  Chats = {c1}
  Urls = {u1}
  MaxRequests = 2
  MaxEmpty = 2
  MaxLines = 3
  MaxTries = 2
  ErrorText = ErrorText
  Failure = Failure
  Garbled = Garbled
INVARIANTS TypeOK NeverClosedInUse Balanced ShownIsGenerated WholeAnswer
PROPERTIES LoadingEnds NothingLeftBehind
CHECK_DEADLOCK FALSE
