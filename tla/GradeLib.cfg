CONSTANTS
    TESTS <- MCTests
    Outputs <- MCOutputs
SPECIFICATION GradeSpec
INVARIANTS JudgesItsParent ScoreExact LogsTell
PROPERTY GraderEnds
