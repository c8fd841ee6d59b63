\* One crash is enough.
SPECIFICATION Spec
CONSTANTS
    Sources = {source}
    Pipes = {pipe}
    BackoffMin = 1
    BackoffMax = 5
    MaxFaults = 1
PROPERTY CrashedPluginRestarts
