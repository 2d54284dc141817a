\* Every restart, crash and failing save of two codes.
SPECIFICATION Spec
CONSTANTS
    Code <- Origins
    Arg = {0, 7}
    Missing = Missing
    NoFile = NoFile
    Torn = Torn
    SaveMayFail = TRUE
INVARIANT ConfigInv
PROPERTY QueryIsCommitted
