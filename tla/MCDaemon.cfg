CONSTANTS
  Device = {d1, d2}
  Dialer = {t1, t2}
  Session = {s1, s2}
  NoSession = none
  Greater = {d1, d2}
  MaxResolvers = 1
SYMMETRY Alike
CONSTRAINT Apart
CHECK_DEADLOCK FALSE
SPECIFICATION Spec
INVARIANTS PendingIsDialled HandlesAreLive AdvertisedWhileRunning MessagesReachTheirDevice
