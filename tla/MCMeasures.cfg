SPECIFICATION MeasuresSpec
CONSTANTS
    Nil = Nil  Absent = Absent
    n1 = n1  n2 = n2
    Probers = {n1, n2}
    Day = 4
    Step = 2
    Retention = 6
    WindowsKept = 4
    Lookback = 1
    Plans <- MCPlans
    Expected = {200}
    MaxPoints = 2
    FirstTask <- MCFirst
    Judgings <- MCTasks
    Answers <- MCAnswers
    MaxTime = 9
    MaxRounds = 2
    MaxWrites = 5
    MaxEdits = 1
CHECK_DEADLOCK FALSE
INVARIANTS
    MeasuresInv
    UptimeTellsTheEvents
    DaysCountForWhatTheyWere
PROPERTIES
    StricterNeverRaises
