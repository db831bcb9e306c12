SPECIFICATION Spec
CONSTANTS
  Files <- const_Files
INVARIANTS
  FieldsFromThisFrame
  FramesDelivered
