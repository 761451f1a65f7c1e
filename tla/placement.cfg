SPECIFICATION Spec
CONSTANTS
    Backends <- MCBackends
    Views <- MCViews
    Sizes = {2, 4}
    Points = {0, 2}
    Anchors = {3}
    PopupSize = 1
    Edges = {"left"}
    Root = 0
    MaxNotices = 1
    MaxSize = 4
    Layout <- MCLayout
    Nowhere = Nowhere
 
CHECK_DEADLOCK FALSE
PROPERTY MovesTakeAlong
