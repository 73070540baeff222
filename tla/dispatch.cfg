SPECIFICATION Spec
\* A behaviour ends when there is nothing left to ask or to call.
CHECK_DEADLOCK FALSE
INVARIANTS
    NoNullCall
    HandlesTranslated
    RoutesAgree
    ServedByDriver
