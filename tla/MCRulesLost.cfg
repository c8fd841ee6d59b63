\* A rule whose channel is missing at one start, and one other call during that run.
SPECIFICATION Spec
CONSTANTS
    Names = {r1, r2}
    Channels = {mail, hook}
    None = None
    MaxRestarts = 2
    MaxOps = 2
SYMMETRY MCSymmetry
INVARIANT RulesSurviveRestarts
