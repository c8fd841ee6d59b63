\* A window of three units, not a multiple of the slot, with no handler and no
\* tick ever late.
SPECIFICATION Spec
CONSTANTS
    burst = burst
    quiet = quiet
    svc = svc
    nobody = nobody
    ThresholdRules = {burst}
    SilenceRules = {quiet}
    Handlers = {h1, h2}
    Apps = {svc}
    AnyApp = nobody
    App <- MCApp
    Threshold <- MCThreshold
    Window <- MCOddWindow
    Cooldown <- MCCooldown
    MaxFires <- MCMaxFires
    Unset = Unset
    Senders = {mail}
    Channels <- MCChannels
    Slot = 2
    MaxCaptured = 2
    MaxDelay = 0
    MaxTime = 10
    MaxEntries = 4
SYMMETRY MCSymmetry
PROPERTY CountedWithinWindow
