SPECIFICATION PathsSpec
CONSTANTS
  x = x
  nul = nul
  Nul = nul
  Digit <- Digits
  Letter <- Letters
  Size = 4
  MaxLen = 2
  Followers = 3
  Declared <- Declarations
  COMMAND_MAX_LEN = 3
  Char <- Chars
  Message <- Messages
INVARIANTS
  TypeOK
  LastStringShows
  CommandAsSent
PROPERTIES
  LastAnswerWins
  
