CONSTANT N = 3
SPECIFICATION Spec
INVARIANTS StrictApproval StrictRefusal
PROPERTY ImplementsContract
CHECK_DEADLOCK FALSE
