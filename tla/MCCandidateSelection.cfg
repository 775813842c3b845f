SPECIFICATION Spec
CONSTANTS
    Pages <- SmallPages
    Texts <- ShortTexts
    MaxBytes = 500
INVARIANTS
    WinnerIsFirstBest
    CommitIsNeverRefused
CHECK_DEADLOCK FALSE
