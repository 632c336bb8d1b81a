SPECIFICATION MCSpec
CONSTANTS
  a1 = a1
  a2 = a2
  r1 = r1
  r2 = r2
  Nobody = Nobody
  Clients = {a1, a2}
  MaxRestarts = 1
  Lone = {a1}
  Queries = {"status", "snapshots"}
  LiveQueries = {"status"}
  TabQueries = {"snapshots"}
  OwnQueries = {"snapshots"}
  DaemonCheck = "is-active"
  Readers = {r1, r2}
  MaxConcurrentReads = 1
INVARIANTS
  TypeOK
  AtMostOnce
  AnswersAreTrue
  DaemonBlamesOwnRun
  RefreshEndsOnce
  
  SlotsExact
PROPERTIES
  SeenThrough
  EveryoneIsAnswered
  
