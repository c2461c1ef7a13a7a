SPECIFICATION Spec
CONSTANTS
  Handles = {h1}
  Null = Null
  MaxEvents = 1
  MaxWork = 1
  Faults = {}
PROPERTY
  PumpSurvives
