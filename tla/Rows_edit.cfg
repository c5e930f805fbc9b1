CONSTANTS
  Id = {r1, r2, r3}
  Schema <- MCSchema
  Stored <- MCStored
  ShownText <- MCShownText
  JsonSort <- MCJsonSort
  NoText <- MCNoText
  Reading <- MCReading
  Typed <- MCTyped
  Looks <- MCLooks
  Unsafe <- MCUnsafe
  KeyOrder <- MCKeyOrder
  MaxWrites = 1
SYMMETRY MCSymmetry
SPECIFICATION Spec
PROPERTIES OnlyNamedRow StillFound CopiesValue
CHECK_DEADLOCK FALSE
