SPECIFICATION FairSpec
CONSTANTS
  c1 = c1
  c2 = c2
  Nobody = Nobody
  Callers <- TwoCallers
  Consoles <- BothFamilies
  MaxLogins = 2
  MaxExpiries = 2
INVARIANTS
  TypeOK
  MutationSentOnce
  DeadSessionIsRenewed
  NoLoginInBackoff
PROPERTY
  LiveSessionIsKept
  EveryCallReturns
