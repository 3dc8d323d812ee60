SPECIFICATION Spec
INVARIANT UniqueEndpoints
