CONSTANTS
  Bits = 3
  Codes <- ThreeBitCodes
  NoCode = NoCode
  Events = {"cut", "repeat"}
SPECIFICATION Spec
INVARIANTS
  TypeOK
PROPERTIES
  CodesAreSent
