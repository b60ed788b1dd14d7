CONSTANT ParamsMatter = TRUE
SPECIFICATION Spec
INVARIANT TypeOK
INVARIANT KATConsistent
