CONSTANTS
  s1 = s1  s2 = s2  c1 = c1  c2 = c2
  Threads = {s1, s2}
  Clients = {}
  Mail <- MCMail
  MaxSubmits = 2
  MaxAttempts = 2
  MaxTroubles = 0
  SendInTransit = FALSE
  Deleting = {}
SPECIFICATION Spec
INVARIANT SentOnce
CHECK_DEADLOCK FALSE
