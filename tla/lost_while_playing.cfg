SPECIFICATION Spec
CONSTANTS
  Mrls = {"pipe", "rtp", "udp", "tcp"}
  Reconnects = {TRUE}
  RtpTries = 2
  UdpTries = 2
  MaxSessions = 1
  MaxSignals = 2
PROPERTIES
  LossNoticed
