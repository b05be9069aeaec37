CONSTANTS
    Points <- MCPoints
    Radii <- MCRadii
    Sizes <- MCSizes
    Fonts <- MCFonts
    Props <- MCProps
    Datas <- MCDatas
    MaxObjects = 3
SPECIFICATION Spec
CHECK_DEADLOCK FALSE
INVARIANTS
    LabelsReadBack
