\* One group, two commitments; the server is killed once and starts again.
SPECIFICATION Spec
CONSTANTS
  Commitments = {c1, c2}
  Zero = Zero
  Torn = Torn
  MaxGroups = 1
  MaxEvents = 4
  MaxCrashes = 1
INVARIANTS
  TypeOK
  MirrorNeverInventsNorRepeats
  RestartHeals
PROPERTIES
  KnownGroupIsKept
  ListenersStart
  LateMembersArrive
CHECK_DEADLOCK FALSE
