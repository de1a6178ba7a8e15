SPECIFICATION Spec
CONSTANTS
    PortCount = 3
    CellBytes = 2
    EopLens = {1}
    MaxCells = 3
    MaxHeaders = 2
    NoCell = NoCell
INVARIANTS
    TypeOK
    WholeFrames
PROPERTIES
    StuckOnlyInDrop
