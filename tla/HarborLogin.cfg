\* Every combination of inputs, the main step cut short anywhere.
SPECIFICATION Spec
INVARIANTS TypeOK LeaseIsTraceable CleanedUp IInv
PROPERTY ForeignKept
\* A job comes to its end.
CHECK_DEADLOCK FALSE
