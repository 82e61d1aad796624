SPECIFICATION FairSpec
CONSTANT MaxEvents = 7
INVARIANT HiddenIsQuiet
PROPERTY RecoveredTwice
PROPERTY VerdictFollows
PROPERTY DeafIsReplaced
CHECK_DEADLOCK FALSE
