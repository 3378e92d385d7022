SPECIFICATION ServiceSpec
CONSTANTS
  Company = 1
  Old = {2, 3, 4}
  New = {5, 6}
  FirstSlot <- MC_FirstSlot
  Inactive = {}
  Sponsors = {2}
  Sides = {"L", "auto"}
  MaxSales = 1
  NoOne = 0
  FirstNew = 5
  Keys = {k1, k2, k3}
  FewKeys = {k1, k2}
  Cached = {k1, k2, k3}
  Readers = {r1, r2}
  FirstReader = r1
  MaxEntries = 2
  MaxFlights = 1
  MaxChanges = 1
  Mails = {m1}
  Chats = {w1}
  Calls = {c1}
  Speeches = {s1, s2}
  Agents = {g1}
  MaxOpen = 1
  Workers = {h1, h2}
  FirstWorker = h1
  AutoDraft = TRUE
  AutoReply = TRUE
  MaxTurns = 2
  MaxTickets = 2
  MaxRequests = 2
  NoAgent = NoAgent
  NoMessage = NoMessage
  Campaigns = {b1}
  People = {p1, p2}
  Admins = {a1, a2, a3}
  Senders = {l1, l2}
  BatchSize = 2
  MaxAttempts = 1
  MaxPerDay = 1
  MaxTexts = 2
  MaxMails = 2
  MaxRequeues = 1
  NoAdmin = NoAdmin
  FirstSender = l1
  FirstAdmin = a1
  SecondAdmin = a2
  FirstPerson = p1
  Scenarios = {"placements", "relocations", "races", "cache", "evictions", "calls", "messages", "members", "governance", "senders", "crashes"}
SYMMETRY MC_Symmetry
CHECK_DEADLOCK FALSE
INVARIANTS
   NoStaleBranch OneTicketPerMessage 
  SentWasApproved OptOutRespected NoDoubleMail
PROPERTIES SideRespected
