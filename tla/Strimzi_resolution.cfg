SPECIFICATION ResolutionSpec
CONSTANTS
  Names = {a, b, c}
  Types = {"internal", "nodeport"}
  Ports = {9092, 9093}
  MaxListeners = 3
  MaxResolved = 1
  CertificateKeys = {"absent", "user.crt"}
SYMMETRY NameSymmetry
INVARIANTS
  BestCompatibleListener
  ProtocolFitsListener
  ConfigIsMounted
  NotFoundIsGenuine
  StorageAgrees
  RestoreDoesWhatIsAsked
PROPERTIES
  SelectionIsStable
CHECK_DEADLOCK FALSE
