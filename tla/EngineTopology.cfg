SPECIFICATION Spec
CONSTANTS
    c1 = c1  c2 = c2  d1 = d1  d2 = d2  d3 = d3
    Clients = {c1, c2}
    Data = {d1}
    MaxSize = 1
    MaxImages = 1
    MaxPlacements = 2
    MaxHandles = 1
    PaneIds = {"%0"}
    WinIds = {"w"}
    NoPane = ""
    Anchors <- Geometry
    Layouts <- PaneHistory
    Shapes <- WinGeometries
    Scrolls = {0, 2}
    Sizes <- TermSizes
SYMMETRY ClientSymmetry
CHECK_DEADLOCK FALSE
INVARIANTS
    RenderedIsShown
    PositionsCurrent
    ShownWhereAnchored
    ToldIsCurrent
