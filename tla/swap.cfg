SPECIFICATION Spec
CONSTANTS
  c1 = c1
  c2 = c2
  u1 = u1
  u2 = u2
  Callers <- MCCallers
  Swaps <- OneSwap
  Secrets = {"s1", "s2"}
  NoSecret = ""
  Hashes = {"h1", "h2"}
  HashOf <- MCHashOf
  Durations <- MCDurations
  TimeMax = 7
  MaxClock = 2
INVARIANTS
  TypeOK RedeemedShowsPreimage RefundOnlyExpired BothOnlyIfMet
PROPERTIES
  SettledFinal
