CONSTANTS
  item1 = item1
  item2 = item2
  N = 2
  Item = {item1, item2}
  Zero = item1
  Input <- MCInput
  Count <- MCCount
  Offset <- MCOffset
  Delim <- MCDelim
  Length = {0}
  Source <- MCSource
  Room <- MCRoom
  Step <- MCStep
  MaxIndex = 4
SPECIFICATION PipelineSpec
INVARIANT Mirrored
PROPERTIES DrainsAll BelowOnlyBy
VIEW View
