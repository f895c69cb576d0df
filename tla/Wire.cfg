SPECIFICATION FairSpec
CONSTANTS
  Headers <- SomeHeaders
  HEADER = 2
  REPLY = 2
  PROTOCOL_MAX_KEY_SIZE = 3
  PROTOCOL_MAX_DATA_SIZE = 2
  PROTOCOL_MAX_EXTRA_SIZE = 2
  WIDTH = 8
  SOCK = 2
  MaxData = 2
  MaxOwed = 3
INVARIANTS Aligned InBuffer RepliesFramed OneReplyEach
PROPERTIES Answered HangupCloses
