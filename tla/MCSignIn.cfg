SPECIFICATION Spec
CHECK_DEADLOCK FALSE
CONSTANTS
  Passkeys = {k, l}
  Challenges = {c1, c2}
  States = {st}
  Codes = {r1, r2}
  MaxEnroll = 2
  MaxFails = 2
INVARIANTS TypeOK OpensOnce SecondFactorUsable
