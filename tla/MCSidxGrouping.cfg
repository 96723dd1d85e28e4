\* Violation expected: the first subsegment takes one fragment more than the spec's grouping.
CONSTANTS
  FragmentRefs <- MCFragmentRefs
  TypeUnknown <- MCTypeUnknown
  SubsegmentsPerSidx <- MCCoalescingSubsegments
  CloseMayLoseData = FALSE
  MaxFragments = 3
  MaxSegments = 1
SPECIFICATION Spec
INVARIANT SubsegmentsGroupedAsSpecified
CHECK_DEADLOCK FALSE
