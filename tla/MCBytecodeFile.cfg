SPECIFICATION Spec
CONSTANTS
    a = a
    b = b
    c = c
    tile = tile
    signature = signature
    zero = zero
    line1 = line1
    line2 = line2
    none = none
    empty = empty
    None = none
    Empty = empty
    Versions = {0, 1, 2, 3, 4}
    MaxItems = 3
    Modules <- MCModules
    Starts = {0, 3, 8}
    Cuts <- MCCuts
    Extras = {0, 2}
INVARIANTS TablesComplete CompleteAccepted RoundTrip SizeIsFound PartialRejected
