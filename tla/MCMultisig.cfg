SPECIFICATION Spec
CONSTANTS
  p1 = p1
  p2 = p2
  p3 = p3
  People = {p1, p2, p3}
  Authority = gov
  Seeds = {1, 2}
  SignerLists <- MCSignerLists
  Thresholds = {0, 1, 3}
  Calls = {c1, c2}
  Ids = {1, 2}
PROPERTIES
  SignersAreKept
