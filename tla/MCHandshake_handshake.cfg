CONSTANTS
  Conns = {1, 2, 3}
  People = {"alice", "bob"}
  chain_of <- OwnChains
  Owners <- SomeOwners
  Chains <- SomeChains
  Certificates <- SomeCertificates
  ca_chain <- SomeCaChain
  MAX_INTERMEDIATE_CA = 1
  Verifies = {TRUE, FALSE}
  Preference <- SomeSuites
  Offers <- SomeOffers
  MAX_ENTRIES = 2
  TIMEOUT = 1
  MaxTime = 3
SPECIFICATION FairSpec
INVARIANTS
  Authenticated
PROPERTIES
  SessionsKept
  RegularServed
\* A handshake ends.
CHECK_DEADLOCK FALSE
