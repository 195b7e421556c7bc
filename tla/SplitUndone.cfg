SPECIFICATION ContactsSpec
CONSTANTS
  imessage = imessage
  whatsapp = whatsapp
  signal = signal
  f1 = f1
  None = None
  Source = {imessage, whatsapp, signal}
  Chat <- MCChat
  Legacy <- NoLegacy
  Fact = {}
  PhoneMin = 2
  MaxActs = 4
PROPERTY SplitHolds
CHECK_DEADLOCK FALSE
