SPECIFICATION Spec
CONSTANTS
  Rest = {a}
  Stream = {s}
  Keeper = {k}
  MaxLogins = 2
  MaxStops = 2
INVARIANT AuthErrorForcesLogin
