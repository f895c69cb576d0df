SPECIFICATION FairSpec
CONSTANTS
  c1 = c1
  c2 = c2
  s1 = s1
  s2 = s2
  Clients = {c1, c2}
  Structs = {s1, s2}
  LISTEN = LISTEN
  POLL_MAX_EVENTS = 2
  idle_conn_timeout = 1
  MaxUnread = 1
  MaxReply = 1
  NULL = NULL
INVARIANTS Watched BatchFresh
PROPERTIES Accepted ClientsHeard IdleClosed
