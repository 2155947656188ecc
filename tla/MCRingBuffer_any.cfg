CONSTANTS
  z = z
  a = a
  N = 4
  Item = {z, a}
  Zero = z
  Input <- MCInput
  Count <- MCCount
  Offset <- MCOffset
  Delim <- MCDelim
  Length <- MCLength
SPECIFICATION FairSpec
INVARIANT TypeOK
PROPERTIES PanicOnlyWhen StreamEnds
