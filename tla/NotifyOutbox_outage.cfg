\* Two AI outages whose failure reasons read the same.
CONSTANTS
  o1 = o1
  Offers = {}
  n1 = n1
  n2 = n2
  Notices = {n1, n2}
  TextOf <- OneText
  Telegram = Telegram
  ntfy = ntfy
  Channels = {Telegram}
  Nobody = Nobody
  Grace = 1
  Cooldown = 2
  MaxAttempts = 2
  MaxAlerts = 1
  MaxCrashes = 1
SPECIFICATION Spec
PROPERTY EveryoneTried
CHECK_DEADLOCK FALSE
