CONSTANT N = 3
SPECIFICATION Spec
INVARIANT TypeOK
INVARIANT ClientIsRead
PROPERTY AcceptsAgain
PROPERTY GoneMakesRoom
PROPERTY DeadNoticed
CHECK_DEADLOCK FALSE
