\* Two runners on two checkouts, each of two files, whose owners take up to two
\* steps while the runners look for them, identify, build and run them.
SPECIFICATION Spec
CONSTANTS
    near = near
    nested = nested
    Runners = {r1, r2}
    Checkouts = {near, nested}
    Siblings <- MCSiblings
    Files = {f1, f2}
    Contents = {v1, v2}
    Dirs = {d1, d2}
    MaxEdits = 2
    NoPlace = NoPlace
    NoDir = NoDir
    NoRow = NoRow
    Unread = Unread
SYMMETRY MCSymmetry
CHECK_DEADLOCK FALSE
INVARIANTS
    TypeOK
    SelectedIsMeasured
    EveryClaimWasTrue
