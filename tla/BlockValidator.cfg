SPECIFICATION Spec
INVARIANT AcceptedBlockIsValid
INVARIANT ErrorsAreApplicable
PROPERTY ImplementsAbstract
PROPERTY ValidationTerminates
PROPERTY NoGoroutineLeak
\* One block's validation ends; the run stops there.
CHECK_DEADLOCK FALSE
