CONSTANTS
  Names <- MCNames
  Lambdas <- WithinItsWalk
SPECIFICATION Spec
INVARIANT ReadsItsSnapshot
CHECK_DEADLOCK FALSE
