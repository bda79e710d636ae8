SPECIFICATION Spec
CONSTANTS
  Queues = {q1}
  Callers = {c1, c2}
  MaxRetries = 2
  Faults = {"refuse", "lose", "raise"}
  MaxRows = 2
  MaxAborts = 2
  Nobody = Nobody
INVARIANTS TypeOK RecordedOncePerFault Truthful
PROPERTIES Settled OutboxPromise
