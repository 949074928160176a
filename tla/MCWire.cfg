\* Up to two messages of every kind, cut anywhere or with one wrong byte.
SPECIFICATION Spec
CONSTANTS
  Messages <- ClientMessages
  MaxMessages = 2
  WrongBytes = {0, 1, 2, 5, 16, 97, 98, 128, 255}
  Answers <- HandlerAnswers
  FirstRequestID <- BeforeWrap
INVARIANTS InSync ForwardedUnchanged CommandIsWhole RepliesReadable
CHECK_DEADLOCK FALSE
