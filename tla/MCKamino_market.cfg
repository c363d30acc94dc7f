\* Two participants lend, borrow, repay and redeem in every order while the
\* admin pays yield; the health factor is the real 1.05.
SPECIFICATION Spec
CONSTANTS
  o1 = o1
  o2 = o2
  Owners <- TwoOwners
  BPS = 20
  HFMin = 21
  MaxU64 = 8
  Endowment = 3
  Amounts = {1, 2, 3}
  MaxGifts = 1
SYMMETRY OwnerSymmetry
INVARIANTS
  LiquidityAccounted
  BooksAddUp
PROPERTIES
  RateNeverFalls
  OnlyOwnerWeakens
CHECK_DEADLOCK FALSE
