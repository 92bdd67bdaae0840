SPECIFICATION TasksFairSpec
CONSTANTS
    NoTask = NoTask
    t1 = t1  t2 = t2  r1 = r1  r2 = r2  x1 = x1  x2 = x2
    Tasks = {t1}
    Handlers = {r1, r2}
    Rounds = {x1, x2}
    Limit = 1
    Threshold = 2
    MaxStarted = 3
    MaxRestarts = 1
INVARIANTS
    TasksInv
    AlertsTellTheTruth
PROPERTIES
    RoundsKeepComing
