SPECIFICATION RepeatedInstallSpec
CONSTANTS
  r1 = r1
  r2 = r2
  Releases = {r1, r2}
  MaxFaults = 1
  MaxChanges = 1
PROPERTIES
  InstallationConverges
