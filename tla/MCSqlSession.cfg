SPECIFICATION Spec
CONSTANTS
    Commands <- MCCommands
    MaxCommands = 2
INVARIANT AnswersMatch
PROPERTIES
    CommandAnswered
    SessionEnds
CHECK_DEADLOCK FALSE
