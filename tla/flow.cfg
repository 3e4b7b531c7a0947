SPECIFICATION FairSpec
CONSTANTS
  Writers = {w1}
  Readers = {r1}
  Threads = {t1}
  WHiwat = 0
  WLowat = 0
  RHiwat = 0
  RLowat = 0
INVARIANTS TypeOK ReaderWoken WriterWoken QueueServed
PROPERTIES ImplementsChannel MessagesMove WriterResumes
