CONSTANTS
  z = z
  a = a
  N = 3
  Item = {z, a}
  Zero = z
  Input <- MCInput
  Count <- MCCount
  Offset <- MCOffset
  Delim <- MCDelim
  Length <- MCLength
SPECIFICATION Spec
INVARIANTS TypeOK FilterSawNewest
