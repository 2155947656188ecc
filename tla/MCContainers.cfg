CONSTANTS
  Lists = {l1, l2}
  Elem = {e1, e2, e3, e4}
  Mark = {v1, v2}
  Zero = v1
  Nil = Nil
  Rank = {0, 1, 2}
  MaxHeap = 7
  RingCount <- MCRingCount
  RepeatCount <- MCRepeatCount
  MaxInt = 7
  MaxLen = 3
SPECIFICATION Spec
INVARIANTS LinkedBothWays EnumeratedBothWays RingsClosed HeapOrder Repeats
PROPERTIES IsListSeqs IsCycles IsPriorityQueue
VIEW View
SYMMETRY Alike
