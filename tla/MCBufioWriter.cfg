CONSTANTS
  item1 = item1
  item2 = item2
  Item = {item1, item2}
  Zero = item1
  Size = 3
  MaxConsecutiveEmptyReads = 2
  Input <- MCInput
  Length <- MCLength
  Chunk <- MCChunk
SPECIFICATION FairSpec
INVARIANT TypeOK
PROPERTIES IsForwarder CallReturns
