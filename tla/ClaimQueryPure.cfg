\* A query leaves what the next job does alone.
SPECIFICATION Spec
CONSTANTS
    Code <- Origins
    Arg = {0, 7}
    Missing = Missing
    NoFile = NoFile
    Torn = Torn
    SaveMayFail = FALSE
PROPERTY QueryPure
