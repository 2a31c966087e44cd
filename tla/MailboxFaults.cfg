SPECIFICATION Spec
CONSTANTS
  Experts = {e1, e2}
  MaxRequests = 2
  Sends <- MCSends
  Budget = 1
  Grace = 0
  SingletonStale = 2
  MailboxStale = 3
  MaxFaults = 2
SYMMETRY MCSymmetry
INVARIANTS
  TypeOK
  AtMostOnce
  AnswerIsOwn
PROPERTIES
  SettledIsFinal
  NoStaleSend
  ImplementsExchange
