SPECIFICATION Spec
CONSTANTS
    Reqs = {r1, r2, r3, r4}
    Emails = {ann, bob}
    Codes = {k1, k2}
    NoCode = NoCode
CHECK_DEADLOCK FALSE
SYMMETRY Symmetry
INVARIANTS
    TypeOK
    UniqueEmails
    VerifiedByItsCode
PROPERTIES
    OnlyStaleSavesUndo
    EmailsStay
