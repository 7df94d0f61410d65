SPECIFICATION Spec
CONSTANTS
  m1 = m1
  m2 = m2
  j1 = j1
  j2 = j2
  NoOffer = NoOffer
  Members = {m1, m2}
  Founders = {m1}
  Joiners = {j1, j2}
  MaxOffers = 2
  MaxCrashes = 1
INVARIANTS OfferAdmitsOne MembershipsAgree
PROPERTIES PairingEnds
CHECK_DEADLOCK FALSE
