\* A developer, a database that goes away, Ctrl-C and kills around the script.
SPECIFICATION Spec
CONSTANTS
    Numbers <- MCNumbers
    MaxEdits = 1
    None = None
INVARIANTS
    ABreachIsNeverTakenForSource
    OnlyAKillLeavesABreach
    ZeroMeansEveryBreachWasTried
