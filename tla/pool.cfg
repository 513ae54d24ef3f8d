\* Three callers: two plans and a projection result with one id, and a canonical
\* mutation between.
CONSTANTS
    pl = pl  ca = ca  wo = wo  pv = pv  ot = ot  bad = bad  b1 = b1  b2 = b2
    Caller = {c1, c2, c3}
    NoCaller = NoCaller
    PlanId = {pl}
    CalendarId = {ca}
    WorkerId = {wo}
    PreviewId = {pv}
    OtherId = {ot}
    NotAnId = bad
    Record <- Records
    Mutation = {m1}
    Nothing = Nothing
SPECIFICATION PoolSpec
INVARIANT AnsweredIsOnDisk
PROPERTIES CommitsOnlyTheHolders DerivedPutOnce EveryCallEnds
