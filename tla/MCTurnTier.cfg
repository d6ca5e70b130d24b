CONSTANTS
  ping = ping
  dream = dream
  b1 = b1
  b2 = b2
  Job = {ping, dream}
  Budget = {b1, b2}
  BudgetOf <- MCOwnBudgets
  PerDay <- MCPerDay
  Cooldown <- MCCooldown
  MaxTime = 5
  DayOf <- MCDayOf
  Battery = TRUE
  MaxSteps = 1
  MaxRestarts = 1
SPECIFICATION Spec
INVARIANTS WithinBudget CooldownKept
PROPERTY RefusalHonest
CHECK_DEADLOCK FALSE
