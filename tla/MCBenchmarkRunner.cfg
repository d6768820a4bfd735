SPECIFICATION RunnerSpec
CONSTANTS
    Sorted <- MCSorted
    SimpleSuite <- MCSimpleSuite
    FullSuite <- MCFullSuite
    Functions <- MCFunctions
    Args <- MCArgs
    Filter <- MCFilter
    Cells <- MCCells
INVARIANTS
    MatrixFaithful
    OutputsAgree
PROPERTIES
    RunEnds
