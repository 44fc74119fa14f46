\* Typed configs of up to two entries, and documents with one place changed.
\* A command ends: deadlock is not checked.
SPECIFICATION Spec
CONSTANTS
    None = None
    Text = {"text"}
    Inputs <- MCInputs
    JSON <- MCJSON
INVARIANTS TypeOK DispatchedAsDeclared NothingMisread
CHECK_DEADLOCK FALSE
