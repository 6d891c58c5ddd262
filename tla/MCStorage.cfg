SPECIFICATION SumSpec
CONSTANTS
  Hash <- MCHash
  NewIndex <- MCNewIndex
  IndexGet <- MCIndexGet
  IndexInsert <- MCIndexInsert
  IndexRemove <- MCIndexRemove
  Collapses <- MCCollapses
  IndexIter <- MCIndexIter
  MaxRefs = 2
  MaxFaults = 2
  Doc = {1, 2}
  Text <- MCText
  StopWords <- MCStopWords
  Stem <- MCStem
  MaxAdds = 3
  Char = {"x", "y"}
  Gap = " "
  Needles <- MCNeedles
  MaxText = 6
  Row = {1, 2}
  Value = {1, 2}
  Slot <- MCSlot
  MaxCommits = 3
INVARIANTS
  ReferencedReadable
  CountCovers
  CodecsExact
  CountExact
  SearchSafe
  IndexesExact
  ProjectionsExact
CHECK_DEADLOCK FALSE
