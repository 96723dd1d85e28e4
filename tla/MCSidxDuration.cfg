\* Violation expected: resize keeps a fragment reference that is already part of a subsegment.
CONSTANTS
  FragmentRefs <- MCFragmentRefs
  TypeUnknown <- MCTypeUnknown
  SubsegmentsPerSidx <- MCCoalescingSubsegments
  CloseMayLoseData = FALSE
  MaxFragments = 3
  MaxSegments = 1
SPECIFICATION Spec
INVARIANT SidxDurationIsSegmentDuration
CHECK_DEADLOCK FALSE
