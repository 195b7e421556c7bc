SPECIFICATION Spec
CONSTANTS
  Part = {"extract"}
  Chat = Chat
  Group = Group
  Muted = Muted
  Alice = Alice
  Bob = Bob
  g1 = g1
  g2 = g2
  m1 = m1
  m2 = m2
  None = None
  Owner = Owner
  Unset = Unset
  Unnamed = Unnamed
  Msg <- MCMsg
  System <- MCSystem
  Out <- MCOut
  Conv = {Chat, Group, Muted}
  ConvOf <- MCConvOf
  Day <- MCDay
  DayOf <- MCDayOf
  Runner = {a}
  Person = {Alice, Bob}
  ContactOf <- MCContactOf
  Excluded <- MCExcluded
  Gen = {g1, g2}
  InitialGen = {g1}
  Model = {m1, m2}
  ModelOf <- MCModelOf
  Stop = {1}
  PageSize = 2
  Kind = {"sentiment"}
  Archived <- MCArchived
  MaxPasses = 2
  MaxEvents = 2
  Writer = {a, b}
  Prompt = {m1, m2}
  Hidden <- MCExcluded
  MaxDays = 1
  Shelf <- MCShelf
  MaxRuns = 2
  MaxTurns = 1
  Indexer = {a, b}
  Server = a
  EmbedModel = {m1, m2}
  BatchSize = 2
  Store0 <- MCStore0
  MaxIndexings = 2
  MaxChanges = 1
  Request = {q1, q2}
  Command = {c1}
  StaleAfter = 1
  MaxTime = 3
  MaxKills = 1
  Caller = {caller}
  MaxInputs = 2
  Configured <- MCRetry
  DefaultRetry <- MCDefault
  MaxShift = 1
  Word = 64
  MaxSwaps = 1
INVARIANTS
  OptedOutPersonUnscored
CHECK_DEADLOCK FALSE
