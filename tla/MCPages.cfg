\* Three events, two windows, two users' anomalies, pages of two rows.
SPECIFICATION FairSpec
CONSTANTS
    e1 = e1  e2 = e2  e3 = e3  w1 = w1  w2 = w2  a1 = a1  a2 = a2  a3 = a3
    Rows <- MCRows
    Table <- MCTable
    Time <- MCTime
    Id <- MCId
    Selected <- MCSelected
    Limit = 2
INVARIANTS TypeOK WalkIsComplete
PROPERTIES PagesDoNotOverlap WalkEnds
\* Every row inserted and every walk ended is a legitimate end.
CHECK_DEADLOCK FALSE
