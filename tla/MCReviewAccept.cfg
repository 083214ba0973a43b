SPECIFICATION Spec
CONSTANTS
    exercise = exercise
    credit = credit
    other = other
    Rows = {exercise, credit, other}
    Credit <- OneExercise
    Reports = {b1}
    Requests = {r1, r2}
    Free = Free
    Top = 2
    Starts <- LeftOpen
    Overlaps <- TwoAcceptances
    MaxAsked = 3
PROPERTIES
    AcceptReaches
CHECK_DEADLOCK FALSE
