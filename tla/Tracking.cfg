SPECIFICATION MCSpec
CONSTANTS
  p1 = p1
  p2 = p2
  p3 = p3
  l1 = l1
  a = a
  x = x
  y = y
  r1 = r1
  r2 = r2
  s1 = s1
  s2 = s2
  j1 = j1
  j2 = j2
  Replicas = {r1, r2}
  Askers = {a, p1, p2, p3}
  Changes = {x, y}
  ReplicaOf <- MCReplicaOf
  Sites = {s1, s2}
  DomainLists <- MCDomainLists
  NoSite = NoSite
  None = None
  NoContact = NoContact
  Unread = Unread
  MaxRestarts = 1
  Posts = {p1, p2, p3}
  Leads = {l1}
  Forms = {"f", "g"}
  FormOf <- MCFormOf
  Emails = {"e"}
  EmailOf <- MCEmailOf
  Refused = {}
  Contacts = {1, 2}
  Hours = 2
  CAP = 1
  MaxUpsets = 2
  SiteOf <- MCSiteOf
  HostOf <- MCHostOf
  Casts <- MCCasts
  Jobs = {j1, j2}
  Days = 4
  RETENTION = 1
  SWEEP_BATCH = 1
  MAX_SWEEP_PASSES = 2
  MaxViews = 2
INVARIANTS NotesAccounted SlotsAccounted AnsweredIsSettled NoViewLost
PROPERTY StaleEnds
CHECK_DEADLOCK FALSE
