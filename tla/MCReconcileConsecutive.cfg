SPECIFICATION Spec
CONSTANTS
  a = a
  k = k
  NumPeers = 2
  Track = {a, k}
  Authorities = {}
  Catalog <- FullCatalog
  Starts <- InSync
  Orders <- BothOrders
  Rewrite <- Prices
  MaxAdds = 2
  MaxRemovals = 2
  Drain = FALSE
  MaxEdits = 3
  MaxFaults = 1
PROPERTIES
  ConsecutiveReads
