CONSTANTS
  Schema <- MCSchema
  Requests <- MCRequests
  Types <- MCTypes
  Assignable <- MCAssignable
  Castable <- MCCastable
  Version = 110000
  MaxChanges = 2
SPECIFICATION Spec
INVARIANTS ReadsTrue DdlRight
PROPERTY DropsNamed
CHECK_DEADLOCK FALSE
