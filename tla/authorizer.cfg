SPECIFICATION Spec
CONSTANTS
  Verb = {"get"}
  GroupResource = {"cmtests"}
  Namespace = {"dev", "prod"}
  AllNamespaces = "all"
  TTL = 2
  MaxTime = 2
  MaxChanges = 2
  CanIRequests <- OneVerb
  ListRequests <- TwoTargets
INVARIANTS
  TypeOK
  AllowedWasPermitted
  DeniedWasRefused
  ClusterWideCoversNamespaces
