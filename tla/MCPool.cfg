\* Three requests at a time over a pool of two.
SPECIFICATION FairSpec
CONSTANTS
    Requests = {r1, r2, r3}
    Slots = {s1, s2}
    NoSlot = NoSlot
INVARIANTS TypeOK SlotsConserved
PROPERTIES NobodyQueues AnswersUnlessHung
