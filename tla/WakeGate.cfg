SPECIFICATION PromptSpec
CONSTANTS
  Signallers = {s1, s2}
  Posters = {p1}
  Modes = {"plain", "sliced"}
  MaxSignals = 3
INVARIANTS
  NoLostSignal
  SignalNotSwallowed
PROPERTIES
  PostServed
CHECK_DEADLOCK FALSE
