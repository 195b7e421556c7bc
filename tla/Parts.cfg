SPECIFICATION Spec
CONSTANTS
  Part = {"contacts", "reader", "transcripts", "calendar", "backup"}
  imessage = imessage
  whatsapp = whatsapp
  signal = signal
  f1 = f1
  Ann = Ann
  Bob = Bob
  L = L
  hi = hi
  ok = ok
  one = one
  two = two
  g1 = g1
  g2 = g2
  None = None
  Source = {imessage, whatsapp, signal}
  Chat <- MCChat
  Legacy <- MCLegacy
  Fact = {f1}
  PhoneMin = 2
  MaxActs = 2
  Thread = {one, two}
  Content <- MCContent
  PageLimit = 2
  Window = 1
  KeywordLimit = 2
  SearchLimit = 3
  Worded <- MCWorded
  Indexed <- MCIndexed
  MaxImports = 3
  Me = Me
  System = System
  Dialogue <- MCDialogue
  FirstName <- MCFirstName
  NewName <- MCNewName
  Together <- MCTogether
  Saying <- MCSaying
  Reactor = {Bob}
  MaxSent = 2
  MaxChanges = 1
  Date <- MCDate
  Asked <- MCAsked
  Moods = {"upbeat"}
  Feeling = {"upbeat", "odd"}
  ScoreModel = {g1, g2}
  MaxWrites = 3
  serve = serve
  cli = cli
  Server = serve
  Keep <- KeepOne
  Horizon <- Horizons
  Proc <- ServeAndCli
  MaxSec = 1
  MaxSame = 2
  MaxCommits = 1
  MaxOps = 3
  MaxFaults = 2
INVARIANTS
  PeopleHold
  PagesAreHonest
  ImportHolds
  CalendarHolds
  
PROPERTIES
  PeopleKept
  IdentityKept
  BackupsHold
CHECK_DEADLOCK FALSE
