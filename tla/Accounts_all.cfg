SPECIFICATION Spec
CONSTANTS
  UserId = {"a", "b"}
  Email = {"e1", "e2"}
  NoUser = NoUser
  ActiveText = {"true", "false"}
  Req = {r1, r2}
INVARIANTS TypeOK EmailsUnique
PROPERTIES OwnStandingKept LastAdminKept AdminStays
