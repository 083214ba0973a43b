SPECIFICATION Spec
CONSTANTS
    exercise = exercise
    credit = credit
    other = other
    Rows = {exercise, credit, other}
    Credit <- OneExercise
    Reports = {b1}
    Requests = {r1, r2}
    Free = Free
    Top = 2
    Starts <- AnyLeft
    Overlaps <- AnswersAndCommits
    MaxAsked = 3
INVARIANTS
    TypeOK
    AnswersStand
    RowsAgree
    CountsLagOnly
PROPERTIES
    CommitDefers
    AcceptReaches
CHECK_DEADLOCK FALSE
