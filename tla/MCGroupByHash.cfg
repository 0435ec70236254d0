\* Every array of at most six keys, every list of parent groups over it.
CONSTANTS
    Keys = {0, 1, 2}
    MaxEntries = 6
    MayFail = TRUE
SPECIFICATION Spec
INVARIANTS TypeOK GroupsAreKeyClasses RangesStayValid GroupsFitCapacity
