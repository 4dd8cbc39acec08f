\* Two requests to test a feed at once: the check that no build runs and the
\* registration of the new one are two steps.
CONSTANTS
  f1 = f1  f2 = f2  legacy = legacy  house = house  comma = comma  pipe = pipe  ctl = ctl  terse = terse  a = a  b = b
  t1 = t1  t2 = t2
  Feeds = {f1, f2}
  Conventions = {legacy}
  Scalars = {"delimiter"}
  Blocks = {"arrival", "delivery"}
  Values = {comma, pipe}
  Suffixes = {ctl}
  Spelled <- MCSpelled
  Absent = Absent
  Empty = Empty
  BuiltIn <- MCBuiltIn
  Defaults <- MCDefaults
  Parent <- MCParent
  Stem <- MCStem
  Literal = {f1}
  ByHand = {"delimiter", "delivery"}
  Posted <- MCPosted
  Threads = {t1}
  MaxForms = 2
  MaxHand = 1
  Raising = {"sources", "models", "tests"}
  MaxFaults = 1
  Builds = {j1, j2}
  Trees <- MCTrees
  MaxBuilds = 2
  MaxBroken = 1
  Spent <- MCSpentTwice
\* The bounds end the run.
CHECK_DEADLOCK FALSE
SPECIFICATION Spec
INVARIANT OneBuildAtATime
