CONSTANTS
  s1 = s1  s2 = s2  c1 = c1  c2 = c2
  Threads = {s1}
  Clients = {c1}
  Mail <- MCMail
  MaxSubmits = 2
  MaxAttempts = 2
  MaxTroubles = 1
  SendInTransit = FALSE
  Deleting = {"other"}
SPECIFICATION FairSpec
INVARIANTS TypeOK EachItsHeader NothingVanishes SentOnce TransitOwned
PROPERTIES Settles
CHECK_DEADLOCK FALSE
