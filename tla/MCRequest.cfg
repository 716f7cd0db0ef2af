SPECIFICATION Spec
CONSTANTS
  Keys <- MCKeys
  Mangled <- MCMangled
  Misprinted <- MCMisprinted
  Rank <- MCRank
  Underscored <- MCUnderscored
  SubNames <- MCSubNames
  Secret <- MCSecret
  Window = 1
  Host = "here"
  Applications <- MCApplications
  Touchable <- MCTouchable
INVARIANTS
  TypeOK
  JoinResolves
  AddressArrives
  HeadersArrive
  SignedIsVerified
  VerifiedWasSigned
CHECK_DEADLOCK FALSE
