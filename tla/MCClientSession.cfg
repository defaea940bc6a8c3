SPECIFICATION Spec
CONSTANTS
  None = None
  Manager = Manager
  Clerk = Clerk
  Users <- MCUsers
  Grants <- MCGrants
  MaxPolls = 2
  MaxSeen = 2
  MaxCalls = 2
  MaxRequests = 2
INVARIANTS TypeOK IdentityMatches
PROPERTIES WorkStops CodeOpensGate
