\* One plan of two resources, executed by two calls at once.
SPECIFICATION FairSpec
CONSTANTS
  Plans = {plan}
  Users = {ada, ben}
  Resources = {r1, r2}
  Calls = {x1, x2}
  Granted = {"ADMIN", "OPERATOR"}
  NoUser = NoUser
  NoPlan = NoPlan
  NoResource = NoResource
INVARIANTS
  SentAtMostOnce
  OnlyApprovedReachesAws
  RevocationStops
PROPERTIES
  PlansEnd
