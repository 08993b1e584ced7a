CONSTANTS
  NumUids = 2
  Tokenizers = {t1}
  Detok = detok
  Asks <- OneOfEach
  Burst = 2
SPECIFICATION FairSpec
CHECK_DEADLOCK FALSE
INVARIANTS
  ListenerSafe
  NoLostWakeup
  NothingLost
  Forgotten
  PromptFirst
PROPERTY
  AnsweredToTheEnd
