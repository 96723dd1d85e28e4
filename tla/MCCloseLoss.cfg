\* Violation expected: a Close of the init segment that fails and loses its bytes is only logged, and DoInitialize returns OK.
CONSTANTS
  FragmentRefs <- MCFragmentRefs
  TypeUnknown <- MCTypeUnknown
  SubsegmentsPerSidx <- MCSubsegmentsPerSidx
  CloseMayLoseData = TRUE
  MaxFragments = 3
  MaxSegments = 2
SPECIFICATION Spec
INVARIANT OutputValidUpToLastSegment
CHECK_DEADLOCK FALSE
