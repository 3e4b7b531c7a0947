SPECIFICATION FairSpec
CONSTANTS
  Threads = {a, b, k}
  Tasks = {a, b}
  Puts = {p1, p2}
  Writers = {w1}
  Queues = {q1}
  Events = {e1}
  Shares = {TRUE, FALSE}
  NULL = NULL
INVARIANTS TypeOK Exclusion BacklogServed ListedOnce
PROPERTIES InOrder DeferredRuns
