\* One offer on two channels, two watches, one run that dies.
CONSTANTS
  o1 = o1
  Offers = {o1}
  n1 = n1
  n2 = n2
  Notices = {}
  TextOf <- OwnText
  Telegram = Telegram
  ntfy = ntfy
  Channels = {Telegram, ntfy}
  Nobody = Nobody
  Grace = 1
  Cooldown = 2
  MaxAttempts = 1
  MaxAlerts = 2
  MaxCrashes = 1
SPECIFICATION Spec
INVARIANT TypeOK
PROPERTY NoRepeat
PROPERTY EveryoneTried
INVARIANT AuditAgrees
CHECK_DEADLOCK FALSE
