\* Lists of up to three origins in every form, lists of 127 and of 128, and a clock that may pass the expiry.
CONSTANTS
    RawOrigins <- Origins
    UrlLists <- Lists
    MaxTime = 2
SPECIFICATION Spec
\* A configuration is parsed once.
CHECK_DEADLOCK FALSE
INVARIANTS
    TypeOK
    CodeAdmits
    TwoPerOrigin
