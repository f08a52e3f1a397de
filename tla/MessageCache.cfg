SPECIFICATION Spec
CONSTANTS
    Readers = {r1, r2}
    MaxHead = 3
INVARIANT EntriesAreWhole
INVARIANT AnswersAreRecent
