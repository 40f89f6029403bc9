\* The plugin's commands over two goroutines, a polkit that need not answer, a daemon
\* that may die and drivers that may go.
CONSTANTS
  g1 = g1
  g2 = g2
  Handlers = {g1, g2}
  Nobody = Nobody
  Requests <- SomeRequests
  Trees <- SampleTrees
  Words = 2048
  MaxCalls = 2
  MaxGone = 1
SPECIFICATION FairSpec
INVARIANTS TypeOK StatusForetellsWrites SaidStands
PROPERTIES WritesAreSane CallsEnd
