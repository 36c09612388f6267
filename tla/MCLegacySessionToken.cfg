SPECIFICATION Spec
CONSTANTS
  c1 = c1
  c2 = c2
  Nobody = Nobody
  Callers <- TwoCallers
  Consoles <- UnifiOsOnly
  MaxLogins = 2
  MaxExpiries = 1
INVARIANT
  TokenOfCurrentSession
