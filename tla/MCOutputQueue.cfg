SPECIFICATION FairSpec
CONSTANTS
  Queues = {0, 1}
  Ids = {0, 1, 2}
INVARIANTS
  TypeOK
  FirstInFirstOut
  CountIsLength
  NoOverrun
PROPERTY
  KeepsSending
