\* Violation expected: a last, partial subsegment keeps the sap_delta_time of its first fragment.
CONSTANTS
  FragmentRefs <- MCFragmentRefs
  TypeUnknown <- MCTypeUnknown
  SubsegmentsPerSidx <- MCCoalescingSubsegments
  CloseMayLoseData = FALSE
  MaxFragments = 3
  MaxSegments = 1
SPECIFICATION Spec
INVARIANT SapTimesPointAtSaps
CHECK_DEADLOCK FALSE
