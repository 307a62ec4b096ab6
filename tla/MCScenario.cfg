SPECIFICATION Spec
CONSTANTS
    Vocabularies <- AllVocabularies
    MaxElements = 5
    Lint = TRUE
INVARIANTS
    CompiledIsFaithful
    DeclarationsAreKept
    LintsAreTrue
CHECK_DEADLOCK FALSE
