SPECIFICATION Spec
CONSTANTS
    p1 = p1
    p2 = p2
    saw1 = saw1
    bench1 = bench1
    bench2 = bench2
    office = office
    Pieces <- TwoPieces
    Banded <- TwoPieces
    Worked <- Second
    Operators <- TheSaw
    Banders <- TwoBenches
    Admins <- TheOffice
    MaxCrew = 3
    MaxPauses = 1

    
PROPERTY ActivitiesOnlyAdvance
SYMMETRY FloorSymmetry
CHECK_DEADLOCK FALSE
