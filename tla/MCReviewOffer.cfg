SPECIFICATION Spec
CONSTANTS
    exercise = exercise
    credit = credit
    other = other
    Rows = {exercise, credit, other}
    Credit <- OneExercise
    Reports = {b1}
    Requests = {r1, r2}
    Free = Free
    Top = 2
    Starts <- LeftOpen
    Overlaps <- OffersAndCommits
    MaxAsked = 3
INVARIANTS
    AnswersStand
CHECK_DEADLOCK FALSE
