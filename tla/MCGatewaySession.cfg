SPECIFICATION FairSpec
CONSTANTS
  Sessions = {s1, s2}
  Addresses = {a, b}
  None = None
  TTL = 2
INVARIANTS SurvivesMisses CandidatesKnown TokenOutlivesSession
PROPERTIES LetGoFades AddressesArrive
