\* Four urls, two readers, channels of one.
CONSTANTS
  Url = {"a", "b", "c", "d"}
  Entry = "a"
  LinkLists <- MCLinks
  w1 = w1
  w2 = w2
  Worker = {w1, w2}
  Limits = {0, 2}
  WaitSize = 1
  FileSize = 1
SPECIFICATION Spec
INVARIANTS
  FileIsComplete
PROPERTIES
  ImplementsCrawl
  SearchEnds
