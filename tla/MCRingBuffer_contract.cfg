CONSTANTS
  z = z
  a = a
  N = 4
  Item = {z, a}
  Zero = z
  Input <- MCInput
  Count <- MCCount
  Offset <- MCOffset
  Delim <- MCDelim
  Length <- MCLength
SPECIFICATION KeepingSpec
INVARIANT Consistent
PROPERTY IsSlidingWindow
