----------------------- MODULE MCMultiSegmentSegmenter -----------------------
(***************************************************************************)
(* Small instances of MultiSegmentSegmenter for TLC.  Fragment references *)
(* are chosen so that coalescing changes what is visible: a SAP fragment   *)
(* followed by one that starts earlier (B-frames) and has no SAP.          *)
(***************************************************************************)
EXTENDS MultiSegmentSegmenter

MCTypeUnknown == 0

\* a SAP fragment starting at 2, its SAP 1 tick in
MCSapFragment == [referenced_size |-> 1, subsegment_duration |-> 2,
                  earliest_presentation_time |-> 2, sap_type |-> 1,
                  sap_delta_time |-> 1]

\* a fragment without a SAP that starts earlier, at 1
MCPlainFragment == [referenced_size |-> 2, subsegment_duration |-> 1,
                    earliest_presentation_time |-> 1, sap_type |-> MCTypeUnknown,
                    sap_delta_time |-> 0]

MCFragmentRefs == {MCSapFragment, MCPlainFragment}

\* num_subsegments_per_sidx: no sidx, one reference per fragment, coalesced
MCSubsegmentsPerSidx == {-1, 0, 1, 2}

\* num_subsegments_per_sidx values that coalesce
MCCoalescingSubsegments == {1, 2}

=============================================================================
