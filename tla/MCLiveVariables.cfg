SPECIFICATION Spec
CONSTANT Programs <- MCPrograms
INVARIANTS TypeOK LiveExact
PROPERTY Terminates
