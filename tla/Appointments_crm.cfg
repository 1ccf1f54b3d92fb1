SPECIFICATION MCSpec
CONSTANTS
  NULL = NULL
  boss = boss
  ann = ann
  l1 = l1
  l2 = l2
  p1 = p1
  t1 = t1
  t2 = t2
  k1 = k1
  k2 = k2
  a1 = a1
  Joined <- MCJoined
  Agents = {ann}
  LeadIds = {l1, l2}
  Products = {p1}
  Tags = {t1, t2}
  Keys = {k1, k2}
  Answers = {a1}
  Forms <- MCForms
  Finds <- MCFinds
  Requests = {r1, r2}
  Jobs = {j1}
  Sweeps = {s1, s2}
  FollowUpMax = 1
  MaxDeaths = 1
  Rules <- MCRules
  GoogleBusy <- MCGoogleBusy
  OfferCount = 2
  ApptIds = {m1, m2, m3}
  Offers = {o1, o2}
  Replies = {x1, x2}
  Uids = {u1}
  Times <- MCTimes
  Calls = {d1, d2}
  MaxMoves = 1
  NodeIds = {"n1", "n2", "n3", "n4", "n5"}
  FieldNames = {"city", "city ", "field"}
  Trim <- MCTrim
  ChoiceSets <- MCChoiceSets
  Scripts <- MCScripts
  MaxEdits = 1
  Writings <- MCWritings
  NumberRead <- MCNumberRead
  Grouped = {"grouped"}
  Stamp <- MCStamp
  Day <- MCDay
  OneLine <- MCOneLine
  NumberLike = {"digits"}
  DateLike = {"day"}
  Literals <- MCLiterals
  Pages = {"tab"}
  MaxAnswers = 1
INVARIANTS
  
  NudgesBounded
  InSync
  AnswersKeepColumns
PROPERTIES
  
  EditsAlone
  AlertsTheOwner
  OnlyLateMenusClash
SYMMETRY Symmetry
CHECK_DEADLOCK FALSE
