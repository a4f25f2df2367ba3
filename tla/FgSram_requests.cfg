SPECIFICATION MCSpec
CONSTANTS
  u1 = u1
  u2 = u2
  u3 = u3
  Users <- MCUsers
INVARIANT RequestsCount
INVARIANT UsersHoldRequest
INVARIANT LeaseHeld
PROPERTY SramReleased
