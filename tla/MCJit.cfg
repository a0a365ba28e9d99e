\* Three modules and two identifiers, links nested to depth two.
SPECIFICATION Spec
CONSTANTS
  m1 = m1
  m2 = m2
  m3 = m3
  i1 = i1
  i2 = i2
  None = None
  Modules <- MCModules
  Identifier <- MCIdentifier
  OptionSets <- MCOptionSets
  NSNames = {n1}
  MaxNested = 2
  MaxDylibs = 2
INVARIANTS
  TypeOK
  DeliveredWhole
  BorrowedAlive
  ObjectMatchesModule
PROPERTY
  DumpsTheOnlyObject
