\* Output written, listener and listener notified as the code promises,
\* for every option setting, every place a write, an open or a close can
\* fail, two segments of up to three fragments.
CONSTANTS
  FragmentRefs <- MCFragmentRefs
  TypeUnknown <- MCTypeUnknown
  SubsegmentsPerSidx <- MCSubsegmentsPerSidx
  CloseMayLoseData = FALSE
  MaxFragments = 3
  MaxSegments = 2
SPECIFICATION Spec
INVARIANTS
  TypeOK
  OutputValidUpToLastSegment
  NotificationsMatchSegments
CHECK_DEADLOCK FALSE
