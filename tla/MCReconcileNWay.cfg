SPECIFICATION Spec
CONSTANTS
  a = a
  k = k
  NumPeers = 2
  Track = {a, k}
  Authorities = {}
  Catalog <- FullCatalog
  Starts <- AnyStart
  Orders <- BothOrders
  Rewrite <- Prices
  MaxAdds = 1
  MaxRemovals = 1
  Drain = TRUE
  MaxEdits = 2
  MaxFaults = 2
INVARIANTS
  TypeOK
  BaselineWitnessed
PROPERTIES
  ConfirmedRemoval
