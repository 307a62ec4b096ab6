SPECIFICATION Spec
CONSTANT
    Lengths <- Lengths0
    Pieces <- Pieces0
    Tables <- Tables0
    Files <- Files0
    StreamCases <- StreamCases0
INVARIANTS
    StreamsMeetReference
PROPERTIES
    PatternsMeetReference
    MessagesMeetReference
    DataMeetsReference
    MediaMeetsReference
    CallRulesMeetReference
CHECK_DEADLOCK FALSE
