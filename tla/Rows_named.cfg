CONSTANTS
  Id = {r1, r2, r3}
  Schema <- MCSchema
  Stored <- MCStored
  ShownText <- MCShownText
  JsonSort <- MCJsonSort
  NoText <- MCNoText
  Reading <- MCReading
  Typed <- MCTyped
  Looks <- MCLooks
  Unsafe <- MCUnsafe
  KeyOrder <- MCKeyOrder
  MaxWrites = 1
SYMMETRY MCSymmetry
SPECIFICATION Spec
PROPERTY IdentifiesOneRow
CHECK_DEADLOCK FALSE
