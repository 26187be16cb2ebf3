SPECIFICATION Spec
CONSTANTS
    MaxVersion = 4
    MaxDamage = 1
INVARIANTS TypeOK AckedSurvives DivergenceIsFlagged
PROPERTIES ImplementsDurableStore OneDamageLosesOneSave
