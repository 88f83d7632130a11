SPECIFICATION Spec
CONSTANTS
    c1 = c1  c2 = c2  d1 = d1  d2 = d2  d3 = d3
    Clients = {c1, c2}
    Data = {d1, d2, d3}
    MaxSize = 2
    MaxImages = 3
    MaxPlacements = 2
    MaxHandles = 2
    PaneIds = {}
    WinIds = {}
    NoPane = NoPane
    Anchors <- Absolute
    Layouts = {}
    Shapes = {}
    Scrolls = {}
    Sizes = {}
SYMMETRY ClientAndDataSymmetry
\* The system stops: after Stop there is no next step.
CHECK_DEADLOCK FALSE
INVARIANTS
    CountsAgree
    HandlesBacked
    TerminalHoldsTheCache
    NoGhosts
PROPERTIES
    OneClientLoses
