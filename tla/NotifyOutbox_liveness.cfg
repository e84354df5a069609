\* One offer and one notice on Telegram, one run that dies.
CONSTANTS
  o1 = o1
  Offers = {o1}
  n1 = n1
  n2 = n2
  Notices = {n1}
  TextOf <- OwnText
  Telegram = Telegram
  ntfy = ntfy
  Channels = {Telegram}
  Nobody = Nobody
  Grace = 1
  Cooldown = 2
  MaxAttempts = 2
  MaxAlerts = 1
  MaxCrashes = 1
SPECIFICATION FairSpec
PROPERTY PendingResolved
CHECK_DEADLOCK FALSE
