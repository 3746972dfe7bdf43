SPECIFICATION Spec
CONSTANTS
  nullptr = nullptr
  Ports = {65535, 65536, 70001}
  MaxInt = 70000
  Garbage = {1883}
  Texts <- SomeTexts
INVARIANTS TypeOK SecureAsAsked AddressedByTheText
