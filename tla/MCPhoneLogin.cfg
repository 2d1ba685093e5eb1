SPECIFICATION Spec
CONSTANTS
  c1 = c1  c2 = c2  l1 = l1  l2 = l2  l3 = l3  home = home  away = away
  NoCode = NoCode  NoUser = NoUser
  Texts <- TwoTexts
  Logins <- ThreeLogins
  Spellings <- Phones
  LocalDigits <- Persian
  AsciiOf <- PersianFor
  IpOf <- Addresses
  CheckLimit = 1
  FailBudget = 1
CHECK_DEADLOCK FALSE
SYMMETRY Symmetry
INVARIANTS
  TypeOK
  OneAccountPerNumber
  OnlyFirstLoginsConflict
  UnnoticedNeedsOverlap
