\* Blocks of two batches, sizes that wrap at three blocks, a lease that ends early or a
\* report that is lost.
CONSTANTS
  c1 = c1
  c2 = c2
  Client = {c1, c2}
  Local <- MCLocal
  BlockSize = 2
  SizeRange = 6
  MaxTroubles = 1
SPECIFICATION TransferSpec
CHECK_DEADLOCK FALSE
INVARIANTS
  BatchesInOrder
  DownloadIsStored
PROPERTIES
  ImplementsFile
  UploadEnds
