SPECIFICATION Spec
CONSTANT Functions <- MCFunctions
INVARIANTS TypeOK Agrees FlagsFresh
PROPERTIES Answers
