SPECIFICATION MCSpec
CONSTANTS
  NULL = NULL
  p1 = p1
  p2 = p2
  text = text
  image = image
  Queued = {q1}
  Posted = {c1}
  Senders = {s1, s2}
  Limit = 1
  Months = {0, 1}
  MaxRestarts = 1
  Conns = {w1, w2, w3}
  Phones = {p1, p2}
  Tabs = {t1, t2}
  MaxConns = 1
  Incoming = {text, image}
  PhoneOf <- MCPhoneOf
  Textless = {image}
  MaxFaults = 1
  lead = lead
  bot = bot
  m1 = m1
  m2 = m2
  m3 = m3
  m4 = m4
  m5 = m5
  People = {lead, bot}
  Paired = {bot}
  Inbound = {m1, m2, m3, m4, m5}
  ByWhom <- MCByWhom
  ViaCloud = {m5}
  ContactIds = {a1, a2, a3, a4}
  MaxDeliveries = 2
INVARIANTS
  CapHolds
  WithinPlan
  HeardOnceOnboarded
  
  OneLeadEach
  MessagesFindTheirLead
SYMMETRY MCSymmetry
CHECK_DEADLOCK FALSE
