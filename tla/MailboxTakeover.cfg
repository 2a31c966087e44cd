SPECIFICATION FairSpec
CONSTANTS
  Experts = {e1, e2}
  MaxRequests = 1
  Sends <- MCOneSend
  Budget = 1
  Grace = 0
  SingletonStale = 2
  MailboxStale = 3
  MaxFaults = 3
PROPERTIES
  OrphanConsumed
  RestartNotBlocked
