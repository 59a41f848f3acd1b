CONSTANTS
  n1 = n1
  n2 = n2
  me = me
  p1 = p1
  p2 = p2
  udp = udp
  none = none
  Addr <- MCAddr
  Local <- MCLocal
  Prober <- MCProber
  Udp = udp
  Nobody = none
  Fanout = 2
  DefaultSat = 100
  MinThreshold = 98
  MaxSat = 101
SPECIFICATION ListSpec
INVARIANT NoLostVote
INVARIANT SaveIsComplete
PROPERTY DropsOnlyAtThreshold
