\* Two commands per window, a cooldown of three ticks, degradation after two failures.
CONSTANTS
    Bricks = {b1}
    Transports = {usb, tcp}
    None = None
    MaxCommandsPerSec = 2
    Window = 2
    SwitchCooldown = 3
    DegradationThreshold = 2
    MaxInFlight = 3
    MaxForgets = 1
SPECIFICATION Spec
INVARIANTS RateHonoured DegradedByFailures
PROPERTIES SwitchesRested NeverLockedOut
