\* Two insertions that may overlap, a key press, and a copy by the user meanwhile.
CONSTANTS
    Jobs = {j1, j2}
    Presses = {k1}
    Clips = {c0, c1}
    First = c0
SPECIFICATION FairSpec
INVARIANTS
    TypeOK
    MissingPermissionUntouched
    PastesItsText
    ClipboardGivenBack
PROPERTIES
    InsertionEnds
