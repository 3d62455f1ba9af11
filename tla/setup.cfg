SPECIFICATION RepeatedVerifySpec
CONSTANTS
  r1 = r1
  r2 = r2
  Releases = {r1, r2}
  MaxFaults = 3
  MaxChanges = 3
INVARIANT IInv
PROPERTIES
  PassedMeansClean
  VerificationRecovers
