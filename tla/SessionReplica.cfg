SPECIFICATION Spec
CONSTANTS
    Sessions = {s1}
    Staff = {ann, bob}
    Supervisors = {boss}
    Locations = {shelf}
    Requests = {r1, r2}
    None = None
    Transactional = TRUE
    MaxVersion = 4
    MaxEvents = 3
SYMMETRY Symmetry
INVARIANTS TypeOK HandlersInv  
PROPERTIES FinalizedOnlyFromReview
