CONSTANTS
    Miners = {t1, t2}
    M = 2
    Target = 3
    InnerLoop = 2
    GMaxTries = 3
SPECIFICATION MiningSpec
SYMMETRY MCSymmetry
CHECK_DEADLOCK FALSE
INVARIANTS OneBlockPerRound AverageIsOfTheBest NoLostWakeup
