CONSTANTS
  item1 = item1
  item2 = item2
  noItem = noItem
  Item = {item1, item2}
  Zero = item1
  NoItem = noItem
  NoToken = NoToken
  Delim = item2
  Excluded <- MCExcluded
  StartBufSize = 1
  MaxScanTokenSize = 3
  MaxConsecutiveEmptyReads = 1
  Cap <- MCCap
  Limit <- MCLimit
  Length <- MCLength
SPECIFICATION FairSpec
INVARIANT TypeOK
PROPERTIES IsTokenizer ScanReturns ScanningEnds
