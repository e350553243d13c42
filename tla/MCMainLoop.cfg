SPECIFICATION Spec
CONSTANTS
  Timer = {t1, t2}
  Fd = {d}
  Second = 2
  Delays = {1, 3}
INVARIANT TimersSound
PROPERTIES FiresOnTime TimerFires EverythingServed
