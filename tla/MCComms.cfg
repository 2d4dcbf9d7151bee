SPECIFICATION Spec
CONSTANTS
  NULL = NULL
  Clients = {c1, c2}
  Senders = {c1, s1}
  QueueThreads = {q1}
  Driver = Driver
  MaxMessages = 2
INVARIANTS MessagesOnce QuietWhenClosed ClientsStay
PROPERTY StopReturns
