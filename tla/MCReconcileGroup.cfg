SPECIFICATION FairSpec
CONSTANTS
  a = a
  k = k
  NumPeers = 3
  Track = {a, k}
  Authorities = {1, 2}
  Catalog <- FullCatalog
  Starts <- GroupStarts
  Orders <- BothOrders
  Rewrite <- Prices
  MaxAdds = 1
  MaxRemovals = 1
  Drain = TRUE
  MaxEdits = 2
  MaxFaults = 1
INVARIANTS
  MirrorsNeverVote
PROPERTIES
  Convergence
