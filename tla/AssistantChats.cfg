CONSTANTS
  Tabs = {p1, p2}
  Chats = {c1, c2}
  NoChat = NoChat
  MaxChats = 1
  MaxMessages = 3
  MaxRounds = 1
  MaxQuestions = 2
SPECIFICATION FairSpec
INVARIANTS TypeOK AnswersFollowQuestions
PROPERTIES OnlyOldAnswersGo PanelFrees
CHECK_DEADLOCK FALSE
