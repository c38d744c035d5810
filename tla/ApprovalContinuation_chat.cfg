SPECIFICATION Spec
CONSTANTS
    Sources = {s1}
    Threads = {t1, t2, t3}
    Continuations = {c1, c2}
    Nothing = Nothing
INVARIANTS
    TypeOK
    OnceUnlessRaced
    ConsumedByItsContinuation
PROPERTIES
    UsedStaysUsed
