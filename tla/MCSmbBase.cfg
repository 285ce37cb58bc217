CONSTANTS
  a = a  b = b  p = p  q = q
  None = None
  Sessions = {a, b}
  Scenes <- Everyday
  MaxNumber = 3
SPECIFICATION Spec
INVARIANTS TypeOK NumbersAscend FilesAgree NoneLost LinksAreReplies RepliesLinked
PROPERTIES NumbersFresh
CHECK_DEADLOCK FALSE
