SPECIFICATION Spec
SYMMETRY ThreadSymmetry
CONSTANTS
    tickets = tickets
    lookup = lookup
    update = update
    readScope = readScope
    writeScope = writeScope
    alice = alice
    None = None
    Threads = {t1, t2}
    Callers = {c1}
    Manifests <- MCManifests
    SeededTools <- MCSeededTools
    Registrations <- MCRegistrations
    Reports <- MCReports
    Invocations <- MCInvocations
INVARIANTS
    TypeOK
    CatalogsLoad
    InstalledStays
    RepeatsAreConsolidated
    AllowedWasGated
