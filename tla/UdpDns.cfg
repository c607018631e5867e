CONSTANT
  MaxEvents = 2
SPECIFICATION Spec
INVARIANT
  DnsAsAcknowledged
CHECK_DEADLOCK FALSE
