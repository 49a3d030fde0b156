SPECIFICATION Spec
CONSTANTS
    Source <- MCSource
    Call <- MCCall
    Answer <- MCAnswer
INVARIANT StartedIsAnswered
CHECK_DEADLOCK FALSE
