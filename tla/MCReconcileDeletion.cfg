SPECIFICATION Spec
CONSTANTS
  a = a
  k = k
  NumPeers = 3
  Track = {a, k}
  Authorities = {}
  Catalog <- FullCatalog
  Starts <- InSync
  Orders <- BothOrders
  Rewrite <- Prices
  MaxAdds = 2
  MaxRemovals = 2
  Drain = FALSE
  MaxEdits = 2
  MaxFaults = 0
PROPERTIES
  DeletionSticks
