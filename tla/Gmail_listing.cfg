SPECIFICATION Spec
CONSTANTS
  INBOX = INBOX
  SENT = SENT
  TRASH = TRASH
  UNREAD = UNREAD
  None = None
  Anything = Anything
  NoSubject = NoSubject
  Plan = Plan
  Subject = {NoSubject, Plan}
  Name = {}
  Date = {1}
  Epoch = 10
  IdLimit = 16
  MaxId = 4
  MaxHistory = 4
  MaxSaved = 1
  UsePartial = FALSE
  SeedMsg = {}
  SeedLabel = {}
  SeedAtt = {}
  SeedSet = {}
  ClientLabel = {}
  Listing <- MCListing
  Query = {}
  MaxResults = {0}
INVARIANTS PagesAdvance
PROPERTIES PagesMissNothing
