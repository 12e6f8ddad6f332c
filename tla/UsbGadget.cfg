SPECIFICATION Spec
CONSTANTS
  Requests = {{}, {"MTP", "ADB"}, {"ADB"}, {"RNDIS"}, {"MTP", "PTP"}}
  Faulty = {"attr", "unlink", "link", "udc"}
INVARIANTS
  NoneStaysDown
  OneMonitor
  NoEventMissed
PROPERTIES
  SuccessIsTrue
  SetReturns
  PulledUpOnceWritten
