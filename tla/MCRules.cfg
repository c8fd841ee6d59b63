\* Four calls and two restarts: create, edit, delete and re-create around a
\* crash, a failed save and a start that rejects a saved rule.
SPECIFICATION Spec
CONSTANTS
    Names = {r1, r2}
    Channels = {mail, hook}
    None = None
    MaxRestarts = 2
    MaxOps = 4
SYMMETRY MCSymmetry
INVARIANTS AckedIsSaved EngineServesAcked EngineRulesValid
