SPECIFICATION Spec
CONSTANTS
    Source <- MCSource
    Call <- MCCall
    Answer <- MCAnswer
INVARIANTS
    StartsSound
    DocumentClosed
    AdvertisedIsServed
    ParametersAgree
    RequiredFieldsKept
    WorkIsForItsHash
CHECK_DEADLOCK FALSE
