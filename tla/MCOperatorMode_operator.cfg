CONSTANTS
    Dialogs = {d1, d2}
    Calls = {c1, c2}
    NoDialog = NoDialog
    RxCap = 2
    MaxSets = 2
SPECIFICATION Spec
SYMMETRY Symmetry
INVARIANTS TypeOK QuietGauge ResumeHeard
