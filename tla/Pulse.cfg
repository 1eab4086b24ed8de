SPECIFICATION Spec
CONSTANTS
  job = job  service = service  rapid = rapid
  policy = policy  allowlist = allowlist  good = good  other = other
  Job = {job}
  Task = {service, rapid}
  Policy = {policy, allowlist}
  KeyOrder <- Order
  Command = {good, other}
  Start <- Apart
  Rapid = {rapid}
  Gated = {job}
  MaxAttempts = 1
  MaxEdits = 1
  MaxCommits = 2
  MaxFaults = 1
INVARIANTS ProofsExact OnlyCommittedRuns StopIsComplete
PROPERTIES SignalStops JobsHeal
