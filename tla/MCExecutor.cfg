SPECIFICATION MCSpec
CONSTANTS
  Cpu = Cpu
  Stop = Stop
  Device = Device
  Order <- CpuFirst
  YieldWakes = 2
INVARIANTS NoLostWakeup GuestWillCheck
PROPERTIES ExecutorProgresses CapturesAreShown
