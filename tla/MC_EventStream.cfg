SPECIFICATION Spec
CONSTANTS
  p1 = p1
  p2 = p2
  o1 = o1
  o2 = o2
  o3 = o3
  o4 = o4
  Project = {p1, p2}
  Operation = {o1, o2, o3, o4}
  Home <- HomeOfFour
  Writer = {w1, w2}
  Cleaner = {c1}
  Reader = {r1}
  Lister = {l1}
  SqlRank <- Ascending
  JsRank <- Descending
  Limit = 1
  MaxSequence = 1
SYMMETRY Symmetry
INVARIANTS StreamIsGapless FeedIsComplete CirclesNeedBothOrders ListingIsComplete
