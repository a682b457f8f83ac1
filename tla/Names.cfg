SPECIFICATION Spec
CONSTANTS
  Lower <- MCLower
  Symbols <- MCSymbols
  Namespaces <- MCNamespaces
  WrittenUses <- MCWrittenUses
  Declarations <- MCDeclarations
  MaxWritten = 3
  MaxNamespaces = 2
  MaxRefs = 2
CONSTRAINT Followed
ACTION_CONSTRAINT NothingBetween
INVARIANT CollectorsAgree
INVARIANT ResolvesLikePhp
INVARIANT AcceptedStays
CHECK_DEADLOCK FALSE
