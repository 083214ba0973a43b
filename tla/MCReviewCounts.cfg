SPECIFICATION Spec
CONSTANTS
    exercise = exercise
    credit = credit
    other = other
    Rows = {exercise, credit, other}
    Credit <- OneExercise
    Reports = {b1}
    Requests = {r1, r2}
    Free = Free
    Top = 2
    Starts <- LeftOpen
    Overlaps <- AnswersAndCommits
    MaxAsked = 3
INVARIANTS
    CountsSayRows
CHECK_DEADLOCK FALSE
