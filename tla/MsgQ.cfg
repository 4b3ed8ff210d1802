CONSTANTS
  Senders = {s1, s2}
  Payload = {a, b}
  MaxMsgs = 2
  MsgLength = 10
  ReceiveSize = 1
  Names = {n1, n2}
SPECIFICATION FairSpec
INVARIANT TypeOK
INVARIANT BufferFreed
INVARIANT EnlargedOnce
PROPERTY KeepsPromise
PROPERTY MessageTaken
