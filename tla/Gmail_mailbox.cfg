SPECIFICATION Spec
CONSTANTS
  INBOX = INBOX
  SENT = SENT
  TRASH = TRASH
  UNREAD = UNREAD
  None = None
  Anything = Anything
  NoSubject = NoSubject
  Plan = Plan
  Subject = {NoSubject, Plan}
  Name = {work}
  Date = {1}
  Epoch = 10
  IdLimit = 16
  MaxId = 4
  MaxHistory = 4
  MaxSaved = 0
  UsePartial = FALSE
  SeedMsg <- MCSeedMsg
  SeedLabel <- MCSeedLabel
  SeedAtt <- MCSeedAtt
  SeedSet <- MCSeedSet
  ClientLabel = {UNREAD, 2}
  Listing = {}
  Query <- MCQuery
  MaxResults = {0}
INVARIANTS TypeOK ThreadsExact AttachmentsExact ThreadShowsLatest FreshIds HistoryTells ReadsAgree QueryMeansTokens DiscoveryServed
PROPERTY OnlySeedsCollide
