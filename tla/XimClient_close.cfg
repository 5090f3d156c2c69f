\* The method in the last slot cannot be closed.
SPECIFICATION Spec
CONSTANTS
  CLIENT_IM_MAX = 2  CLIENT_IC_MAX = 1  MaxInFlight = 2  MaxSerial = 1
PROPERTIES
  InvalidIsInvalid
