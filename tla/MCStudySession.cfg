SPECIFICATION Spec
CONSTANTS
    Cards = {1, 2, 3}
    NoteOf <- MCNoteOf
    SubjectOf <- MCTwoSubjects
    DayLength = 1
    Interval = 1
    DailySeconds = 240
    NewLimit = 1
    ReviewLimit = 1
    BurySiblings = TRUE
    LeechThreshold = 1
    LeechSuspends = TRUE
    Requests = {240}
    Selections <- MCSelections
    Recognized = TRUE
    Entangled = FALSE
    Overnight = FALSE
    MaxTime = 1
    MaxReceived = 1
    MaxSteps = 3
INVARIANTS
StudyInv StudyAsPlanned
PROPERTY UndoFollowsPage
CHECK_DEADLOCK FALSE
