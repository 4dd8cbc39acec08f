\* Two threads of requests, two feeds whose control files may collide, people
\* who write a delimiter or a gate in a convention, whole or terse, steps of a
\* scaffold that raise, restarts, and one build, whose processes may ignore
\* the signals or outlive their leader.
CONSTANTS
  f1 = f1  f2 = f2  legacy = legacy  house = house  comma = comma  pipe = pipe  ctl = ctl  terse = terse  a = a  b = b
  t1 = t1  t2 = t2
  Feeds = {f1, f2}
  Conventions = {legacy}
  Scalars = {"delimiter"}
  Blocks = {"arrival", "delivery"}
  Values = {comma, pipe}
  Suffixes = {ctl}
  Spelled <- MCSpelled
  Absent = Absent
  Empty = Empty
  BuiltIn <- MCBuiltIn
  Defaults <- MCDefaults
  Parent <- MCParent
  Stem <- MCStem
  Literal = {f1}
  ByHand = {"delimiter", "delivery"}
  Posted <- MCPosted
  Threads = {t1, t2}
  MaxForms = 2
  MaxHand = 1
  Raising = {"sources", "models", "tests"}
  MaxFaults = 1
  Builds = {j1}
  Trees <- MCTrees
  MaxBuilds = 1
  MaxBroken = 1
  Spent <- MCSpent
\* The bounds end the run.
CHECK_DEADLOCK FALSE
SPECIFICATION FairSpec
INVARIANTS
  BrokenParseIsAccounted
PROPERTIES
  SavesKeepLoading
  SavedIsServed
  JobsEnd
