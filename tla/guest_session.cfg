SPECIFICATION FairSpec
CONSTANTS
  None = None
  MaxHeld = 1
  MaxRoomTries = 2
  MaxAsks = 2
  Budgets <- SmallBudgets
INVARIANT GuestTypeOK
INVARIANT TranscriptFaithful
INVARIANT QuestionsAgree
INVARIANT RoomTriesBounded
PROPERTY InOrder
PROPERTY SessionSettles
PROPERTY AnswerSettles
CHECK_DEADLOCK FALSE
