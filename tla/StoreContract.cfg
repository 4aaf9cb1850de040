SPECIFICATION Spec
CONSTANTS
    Absent = Absent
    ScalarKeys = {spent, held}
    HashKeys = {agent}
    PlainKeys = {spent}
    Fields = {f1, f2}
    FieldValues = {v1}
    Amounts <- SomeAmounts
    Ttls = {1, 2}
    MaxNumber = 3
INVARIANTS
    TypeOK
PROPERTIES
    ImplementsContract
