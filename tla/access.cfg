SPECIFICATION AccessSpec
CONSTANTS
  NULL = NULL
  Verb = {"get"}
  GroupResource <- MCGroupResource
  Namespace = {1}
  AllNamespaces = 0
  TTL = 2
  MaxTime = 2
  MaxChanges = 1
  CanIRequests = {}
  ListRequests <- MCListRequests
  Row <- MCRow
  Tables <- MCTables
  Lists <- MCLists
  Uids = {1, 3}
  MaxWrites = 2
INVARIANTS
  AccessTypeOK
  DeliveredWasPermitted
  DeliveredWasThere
  ServedIfPermitted
  ForbiddenWasRefused
