SPECIFICATION EngineSpec
CONSTANTS
  Orders <- MCOrders
  MaxOrders = 5
INVARIANTS
  EngineTypeOK
  BookConsistent
  NotCrossedWhenIdle
  SubmittedQuantityAccountedFor
  BestPriceFirst
  FifoUnlessPartlyFilled
PROPERTIES
  ImplementsMarket
  MatchingEnds
\* The bound on submissions stops the model once every order has left the book.
CHECK_DEADLOCK FALSE
