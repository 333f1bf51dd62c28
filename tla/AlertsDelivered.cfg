\* One rule and a user who also takes the lock.
CONSTANTS
  Rules = {cpu}
  FirstRules <- OneRule
  Users = {u1}
  MaxHistory = 2
SPECIFICATION Spec
PROPERTIES
  AlertsDelivered
