CONSTANTS
  m1 = m1
  h1 = h1
  h2 = h2
  e1 = e1
  e2 = e2
  rf = rf
  Msgs = {m1}
  Media = {rf}
  Handlers = {h1, h2}
  Enrolments = {e1, e2}
  MaxAttempts = 3
  StoreMayFail = TRUE
  None = None
SPECIFICATION FairSpec
INVARIANTS FailedMeansSpent AttemptsHonest
PROPERTIES ImplementsContract EnrolmentEnds OnlyStaleWritersReopen
