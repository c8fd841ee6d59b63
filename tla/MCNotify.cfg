\* Ten units are five ticks: enough for a burst to slide out of the ring, for
\* a fire and its cooldown, and for two gaps.
SPECIFICATION Spec
CONSTANTS
    burst = burst
    quiet = quiet
    svc = svc
    nobody = nobody
    ThresholdRules = {burst}
    SilenceRules = {quiet}
    Handlers = {h1, h2}
    Apps = {svc}
    AnyApp = nobody
    App <- MCApp
    Threshold <- MCThreshold
    Window <- MCWindow
    Cooldown <- MCCooldown
    MaxFires <- MCMaxFires
    Unset = Unset
    Senders = {mail}
    Channels <- MCChannels
    Slot = 2
    MaxCaptured = 2
    MaxDelay = 1
    MaxTime = 10
    MaxEntries = 4
SYMMETRY MCSymmetry
INVARIANTS TypeOK RingExact FiresWithinLimit LastSeenFresh NoSendAfterClose
PROPERTIES ThresholdExact SilenceExact
