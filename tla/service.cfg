\* Requests that meet, requests that are refused, two workers at one auction, and
\* two copies that seed an empty database; with deadlines, lost connections and
\* confirmations, crashes, restarts and signals.
SPECIFICATION FairServiceSpec
CONSTANTS
  p1 = p1  p2 = p2  x = x  y = y
  g1 = g1  g2 = g2  g3 = g3
  Clients = {p1, p2}
  Apps = {x, y}
  Procs = {p1, p2, x, y}
  Contexts = {c1, c2}
  Nobody = Nobody
  Nil = Nil
  Nothing = Nothing
  Asks <- TheAsks
  Openings <- TheOpenings
  Scenarios <- TheScenarios
  MaxConns = 2
  MaxActive = 3
  MaxPage = 100
  IntMax = 1000
  MaxStarts = 2
CHECK_DEADLOCK FALSE
INVARIANTS TablesSound MeansKept DecisionsStand FundsStand DoneHoldsNothing ListingSkewBounded AnswersAreTrue SeededOnce
PROPERTIES EffectsAreWhole UnloggedAreProceeds RecordsStand GracefulExit StopEnds
