SPECIFICATION BoundedSpec
CONSTANTS
  Derive <- DeriveFreely
  Readers = {r1, r2}
  Rules = {1, 2}
  Cash = {0, 1, 2, 3}
  Prices = {0, 1, 4}
  Steps = {1, 2}
  MaxRows = 5
  MaxLives = 2
  MaxChanges = 2
INVARIANTS
  BooksBalance
  OneBucketEach
  KitIsOnePurchase
  EarlierLivesStay
  CacheIsHonest
  AnswersAreCurrent
SYMMETRY Symmetry
CHECK_DEADLOCK FALSE
