SPECIFICATION Spec
CONSTANTS
  Files = {f1, f2}
  PollTick = 8
  EventTick = 1
  Debounce = 6
  MaxEdits = 1
PROPERTY EveryChangeIndexed
