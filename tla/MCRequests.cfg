SPECIFICATION Spec
CONSTANTS
    Requests = {r1, r2, r3}
    Contexts = {x1, x2}
    Emails = {admin}
    Admin = admin
    MaxId = 2
    Seeds = {"a"}
    Seeder = Seeder
    None = None
\* The requests are answered and the seeder ends.
CHECK_DEADLOCK FALSE
SYMMETRY MCSymmetry
INVARIANTS
    ContextPrivate
    RegisterTruthful
    UpdatesExplained
