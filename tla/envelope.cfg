SPECIFICATION Spec
CONSTANTS
  Sent <- Samples
  Delivered <- Payloads
INVARIANTS TypeOK RoundTrip OnlySerialized
