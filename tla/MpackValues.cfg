SPECIFICATION Spec
CONSTANTS
    Half <- FewNumbers
    FixInt = 2
    FixStr = 3
    FixSize = 2
    Strings <- EdgeStrings
INVARIANTS
    EncodesFaithfully
    AcceptsUtf8
CHECK_DEADLOCK FALSE
