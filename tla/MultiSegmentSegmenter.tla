------------------------ MODULE MultiSegmentSegmenter ------------------------
(***************************************************************************)
(* MultiSegmentSegmenter of packager/media/formats/mp4 (the second part of *)
(* src/packager/media/base/decrypt_config.h): the multi-file mode of the   *)
(* Segmenter.  It writes the init segment (DoInitialize), coalesces the    *)
(* per-fragment sidx references into subsegments (DoFinalizeSegment),      *)
(* writes each segment to its own file or appends it to the output file    *)
(* (WriteSegment), and notifies the muxer listener.                        *)
(*                                                                         *)
(* The base Segmenter, File and BufferWriter are not in the source tree;   *)
(* what this module needs of them is modelled from the spec: a fragment   *)
(* adds one reference to the sidx and its bytes to the fragment buffer     *)
(* (4.4, 4.5); the first error is surfaced and no further segment is       *)
(* emitted (7); a write can fail after writing part of its buffer, and a   *)
(* buffered file may lose unflushed bytes when its Close fails (1, 5).    *)
(*                                                                         *)
(* Bytes are abstracted to box tokens: a file is a sequence of them.       *)
(***************************************************************************)
EXTENDS Naturals, Sequences, SequencesExt

CONSTANTS
  FragmentRefs,        \* SegmentReferences a finalized fragment may add
  SubsegmentsPerSidx,  \* values options().num_subsegments_per_sidx may take
  TypeUnknown,         \* SegmentReference::TypeUnknown
  CloseMayLoseData,    \* whether a failed File::Close may drop buffered bytes
  MaxFragments,        \* bound: fragments in one segment
  MaxSegments          \* bound: segments finalized

ASSUME SegmenterAssumption ==
  /\ SubsegmentsPerSidx \subseteq Int
  /\ CloseMayLoseData \in BOOLEAN
  /\ MaxFragments \in Nat \ {0}
  /\ MaxSegments \in Nat

VARIABLES
  options,          \* the MuxerOptions and listener the muxer was built with
  phase,            \* "created", "initialized", "failed" or "complete"
  references,       \* sidx()->references
  sidx_ept,         \* sidx()->earliest_presentation_time
  fragment_buffer,  \* fragment_buffer(): the tokens of the segment's fragments
  num_segments,     \* num_segments_
  files,            \* the file system: file name -> tokens
  events,           \* OnNewSegment notifications received by the listener
  progress,         \* total duration passed to UpdateProgress
  next_fragment,    \* fragments finalized so far (names fragment tokens)
  history           \* every segment finalized: what was meant to be written

vars == <<options, phase, references, sidx_ept, fragment_buffer, num_segments,
          files, events, progress, next_fragment, history>>

OutputFileName == <<"output", 0>>
\* GetSegmentName with a $Number$ template: one name per segment number.
SegmentName(n) == <<"segment", n>>

Box(type, n, size) == [type |-> type, n |-> n, size |-> size]
TokensSize(s) == FoldLeft(LAMBDA acc, t : acc + t.size, 0, s)
SumDurations(refs) ==
  FoldLeft(LAMBDA acc, r : acc + r.subsegment_duration, 0, refs)

\* SegmentReference(): a default-constructed reference.
DefaultRef == [referenced_size |-> 0, subsegment_duration |-> 0,
               earliest_presentation_time |-> 0, sap_type |-> TypeUnknown,
               sap_delta_time |-> 0]

(***************************************************************************)
(* The coalescing loop of DoFinalizeSegment, one call per iteration.  `s`  *)
(* holds the loop's variables; indices are the code's (0-based).           *)
(***************************************************************************)
RECURSIVE CoalesceLoop(_, _)
\* Mutant: the operands of the sap_delta_time subtraction are swapped.
CoalesceLoopSwappedDelta(s, per) ==
  IF s.i >= Len(s.refs) THEN s
  ELSE
    LET cur == s.refs[s.subseg_index + 1]
        r == s.refs[s.i + 1]
        takes_sap == cur.sap_type = TypeUnknown /\ r.sap_type # TypeUnknown
        merged == [cur EXCEPT
                     !.referenced_size = @ + r.referenced_size,
                     !.subsegment_duration = @ + r.subsegment_duration,
                     !.earliest_presentation_time =
                        IF r.earliest_presentation_time < @
                        THEN r.earliest_presentation_time ELSE @,
                     !.sap_type = IF takes_sap THEN r.sap_type ELSE @]
        first_sap == IF takes_sap
                     THEN r.sap_delta_time + r.earliest_presentation_time
                     ELSE s.first_sap_time
        frag_index == s.frag_index + 1
        closed == IF merged.sap_type # TypeUnknown
                  THEN [merged EXCEPT !.sap_delta_time =
                          merged.earliest_presentation_time - first_sap]
                  ELSE merged
        refs1 == [s.refs EXCEPT ![s.subseg_index + 1] = closed]
        next == s.i + 1
    IN
    IF frag_index < per
    THEN CoalesceLoop([s EXCEPT !.refs[s.subseg_index + 1] = merged,
                                !.i = @ + 1, !.frag_index = frag_index,
                                !.first_sap_time = first_sap], per)
    ELSE IF next >= Len(s.refs)
    THEN [s EXCEPT !.refs = refs1, !.i = next]
    ELSE CoalesceLoop(
           [refs |-> [refs1 EXCEPT ![s.subseg_index + 2] = refs1[next + 1]],
            i |-> next + 1, frag_index |-> 1,
            subseg_index |-> s.subseg_index + 1,
            first_sap_time |-> refs1[next + 1].sap_delta_time
                                 + refs1[next + 1].earliest_presentation_time],
           per)

CoalesceLoop(s, per) ==
  IF s.i >= Len(s.refs) THEN s
  ELSE
    LET cur == s.refs[s.subseg_index + 1]
        r == s.refs[s.i + 1]
        takes_sap == cur.sap_type = TypeUnknown /\ r.sap_type # TypeUnknown
        merged == [cur EXCEPT
                     !.referenced_size = @ + r.referenced_size,
                     !.subsegment_duration = @ + r.subsegment_duration,
                     !.earliest_presentation_time =
                        IF r.earliest_presentation_time < @
                        THEN r.earliest_presentation_time ELSE @,
                     !.sap_type = IF takes_sap THEN r.sap_type ELSE @]
        first_sap == IF takes_sap
                     THEN r.sap_delta_time + r.earliest_presentation_time
                     ELSE s.first_sap_time
        frag_index == s.frag_index + 1
        closed == IF merged.sap_type # TypeUnknown
                  THEN [merged EXCEPT !.sap_delta_time =
                          first_sap - merged.earliest_presentation_time]
                  ELSE merged
        refs1 == [s.refs EXCEPT ![s.subseg_index + 1] = closed]
        next == s.i + 1
    IN
    IF frag_index < per
    THEN CoalesceLoop([s EXCEPT !.refs[s.subseg_index + 1] = merged,
                                !.i = @ + 1, !.frag_index = frag_index,
                                !.first_sap_time = first_sap], per)
    ELSE IF next >= Len(s.refs)
    THEN [s EXCEPT !.refs = refs1, !.i = next]
    ELSE CoalesceLoop(
           [refs |-> [refs1 EXCEPT ![s.subseg_index + 2] = refs1[next + 1]],
            i |-> next + 1, frag_index |-> 1,
            subseg_index |-> s.subseg_index + 1,
            first_sap_time |-> refs1[next + 1].sap_delta_time
                                 + refs1[next + 1].earliest_presentation_time],
           per)

\* std::vector::resize.
Resize(s, n) ==
  IF n <= Len(s) THEN SubSeq(s, 1, n)
  ELSE s \o [j \in 1..(n - Len(s)) |-> DefaultRef]

NumFragmentsPerSubsegment(num_fragments, p) == (num_fragments - 1) \div p + 1

\* Whether DoFinalizeSegment coalesces (it returns early otherwise).
Coalesces(refs, p) == p > 0 /\ NumFragmentsPerSubsegment(Len(refs), p) > 1

\* The references DoFinalizeSegment leaves in the sidx.
CoalescedRefs(refs, p) ==
  IF Coalesces(refs, p)
  THEN Resize(CoalesceLoop([refs |-> refs, i |-> 1, frag_index |-> 0,
                            subseg_index |-> 0,
                            first_sap_time |-> refs[1].sap_delta_time
                                 + refs[1].earliest_presentation_time],
                           NumFragmentsPerSubsegment(Len(refs), p)).refs, p)
  ELSE refs

\* Mutant: line 232 is dropped; the time set at line 181 stays.
SidxEarliestTimeNotUpdated(refs, p) == refs[1].earliest_presentation_time

\* The sidx earliest_presentation_time DoFinalizeSegment leaves.
SidxEarliestTime(refs, p) ==
  IF Coalesces(refs, p)
  THEN CoalescedRefs(refs, p)[1].earliest_presentation_time
  ELSE refs[1].earliest_presentation_time

(***************************************************************************)
(* File writes.  BufferWriter::WriteToFile writes a prefix of its buffer   *)
(* and reports success only if it wrote all of it.                        *)
(***************************************************************************)

\* Mutant: the fragment buffer is written whatever the header write did.
SegmentBytesWrittenUnguarded(header, frags, k1, k2) ==
  SubSeq(header, 1, k1) \o SubSeq(frags, 1, k2)

\* What WriteSegment puts into the file when the header buffer write
\* stops after k1 tokens and the fragment buffer write after k2 tokens:
\* the fragment buffer is written only if the header write succeeded.
SegmentBytesWritten(header, frags, k1, k2) ==
  IF k1 < Len(header) THEN SubSeq(header, 1, k1)
  ELSE header \o SubSeq(frags, 1, k2)

\* What a file holds after Close: all of it, or, when Close fails on a
\* file that may lose buffered bytes, a prefix of what this open wrote.
Kept(base, written, close_ok) ==
  IF close_ok \/ ~CloseMayLoseData THEN {base \o written}
  ELSE {base \o SubSeq(written, 1, k) : k \in 0..Len(written)}

(***************************************************************************)
(* Operations.                                                             *)
(***************************************************************************)

Init ==
  /\ options \in [num_subsegments_per_sidx : SubsegmentsPerSidx,
                  segment_template_empty : BOOLEAN,
                  has_listener : BOOLEAN]
  /\ phase = "created"
  /\ references = <<>>
  /\ sidx_ept = 0
  /\ fragment_buffer = <<>>
  /\ num_segments = 0
  /\ files = [f \in {} |-> <<>>]
  /\ events = <<>>
  /\ progress = 0
  /\ next_fragment = 0
  /\ history = <<>>

\* DoInitialize: open the output file for write, write ftyp and moov; a
\* failed Close is only logged; the write status is returned.
DoInitialize ==
  /\ phase = "created"
  /\ \E opened \in BOOLEAN :
       IF ~opened
       THEN /\ phase' = "failed"
            /\ UNCHANGED files
       ELSE LET init == <<Box("ftyp", 0, 1), Box("moov", 0, 1)>>
            IN \E k \in 0..Len(init), close_ok \in BOOLEAN :
                 /\ \E c \in Kept(<<>>, SubSeq(init, 1, k), close_ok) :
                      files' = [f \in DOMAIN files \cup {OutputFileName} |->
                                  IF f = OutputFileName THEN c ELSE files[f]]
                 /\ phase' = IF k = Len(init) THEN "initialized" ELSE "failed"
  /\ UNCHANGED <<options, references, sidx_ept, fragment_buffer, num_segments,
                 events, progress, next_fragment, history>>

\* A fragment is finalized (base Segmenter, spec 4.4-4.5): its reference
\* is added to the sidx and its bytes to the fragment buffer.
AddFragment ==
  /\ phase = "initialized"
  /\ Len(references) < MaxFragments
  /\ Len(history) < MaxSegments
  /\ \E r \in FragmentRefs :
       /\ references' = Append(references, r)
       /\ fragment_buffer' =
            Append(fragment_buffer, Box("frag", next_fragment, r.referenced_size))
  /\ next_fragment' = next_fragment + 1
  /\ UNCHANGED <<options, phase, sidx_ept, num_segments, files, events,
                 progress, history>>

\* DoFinalizeSegment followed by WriteSegment.  On success the base
\* Segmenter starts the next segment with an empty sidx and buffer.
DoFinalizeSegment ==
  /\ phase = "initialized"
  /\ references # <<>>
  /\ LET p == options.num_subsegments_per_sidx
         refs == CoalescedRefs(references, p)
         ept == SidxEarliestTime(references, p)
         template == ~options.segment_template_empty
         file_name == IF template THEN SegmentName(num_segments)
                      ELSE OutputFileName
         header == (IF template THEN <<Box("styp", num_segments, 1)>> ELSE <<>>)
                   \o (IF p >= 0 THEN <<Box("sidx", Len(history), 1)>> ELSE <<>>)
         segment_size == TokensSize(header) + TokensSize(fragment_buffer)
         base == IF template THEN <<>> ELSE files[OutputFileName]
     IN
     /\ num_segments' = IF template THEN num_segments + 1 ELSE num_segments
     /\ sidx_ept' = ept
     /\ \E opened \in BOOLEAN, k1 \in 0..Len(header),
           k2 \in 0..Len(fragment_buffer), close_ok \in BOOLEAN :
          LET ok == opened /\ k1 = Len(header) /\ k2 = Len(fragment_buffer)
              written == SegmentBytesWritten(header, fragment_buffer, k1, k2)
          IN
          /\ opened \/ (k1 = 0 /\ k2 = 0 /\ close_ok)
          /\ IF opened
             THEN \E c \in Kept(base, written, close_ok) :
                    files' = [f \in DOMAIN files \cup {file_name} |->
                                IF f = file_name THEN c ELSE files[f]]
             ELSE UNCHANGED files
          /\ history' = Append(history,
                          [file_name |-> file_name, fragments |-> references,
                           sidx |-> refs, start_time |-> ept,
                           unit |-> header \o fragment_buffer, ok |-> ok])
          /\ IF ok
             THEN /\ phase' = phase
                  /\ progress' = progress + SumDurations(refs)
                  /\ events' = IF options.has_listener
                               THEN Append(events,
                                      [file_name |-> file_name,
                                       start_time |-> ept,
                                       duration |-> SumDurations(refs),
                                       size |-> segment_size])
                               ELSE events
                  /\ references' = <<>>
                  /\ fragment_buffer' = <<>>
             ELSE /\ phase' = "failed"
                  /\ references' = refs
                  /\ UNCHANGED <<progress, events, fragment_buffer>>
  /\ UNCHANGED <<options, next_fragment>>

\* DoFinalize: SetComplete, once the last segment has been written.
DoFinalize ==
  /\ phase = "initialized"
  /\ references = <<>>
  /\ phase' = "complete"
  /\ UNCHANGED <<options, references, sidx_ept, fragment_buffer, num_segments,
                 files, events, progress, next_fragment, history>>

Next == DoInitialize \/ AddFragment \/ DoFinalizeSegment \/ DoFinalize

Spec == Init /\ [][Next]_vars

(***************************************************************************)
(* Properties.                                                             *)
(***************************************************************************)

Token == [type : {"ftyp", "moov", "styp", "sidx", "frag"}, n : Nat, size : Nat]

\* Type invariant.  sap_delta_time is a uint32 in SegmentReference: the
\* subtraction at decrypt_config.h:216-217 must not go below zero.
TypeOK ==
  /\ phase \in {"created", "initialized", "failed", "complete"}
  /\ references \in Seq(FragmentRefs \cup {DefaultRef} \cup
                        [referenced_size : Nat, subsegment_duration : Nat,
                         earliest_presentation_time : Nat,
                         sap_type : {r.sap_type : r \in FragmentRefs} \cup {TypeUnknown},
                         sap_delta_time : Nat])
  /\ sidx_ept \in Nat
  /\ fragment_buffer \in Seq(Token)
  /\ num_segments \in Nat
  /\ \A f \in DOMAIN files : files[f] \in Seq(Token)
  /\ progress \in Nat
  /\ next_fragment \in Nat

\* The bytes each file is meant to hold: the init segment in the output
\* file, then every segment finalized into it, in order.
IntendedBytes(f) ==
  (IF f = OutputFileName THEN <<Box("ftyp", 0, 1), Box("moov", 0, 1)>> ELSE <<>>)
  \o FlattenSeq([k \in 1..Len(history) |->
                   IF history[k].file_name = f THEN history[k].unit ELSE <<>>])

\* Spec 5: the output is valid up to the last fully flushed segment.  Every
\* file holds a prefix of what the segmenter meant to write to it (no
\* fragment without its sidx, no segment file overwritten by another), and
\* it falls short only once the segmenter has surfaced an error
\* (WriteSegment's status checks, decrypt_config.h:273-281).
OutputValidUpToLastSegment ==
  \A f \in DOMAIN files :
    /\ IsPrefix(files[f], IntendedBytes(f))
    /\ files[f] # IntendedBytes(f) => phase = "failed"

\* The listener hears of exactly the segments written completely, in the
\* order written, with the file they went to, the earliest presentation
\* time of the first subsegment of the sidx written with them
\* (decrypt_config.h:230-232) and their size (decrypt_config.h:270, 292).
NotificationsMatchSegments ==
  LET written == SelectSeq(history, LAMBDA h : h.ok)
  IN /\ Len(events) = IF options.has_listener THEN Len(written) ELSE 0
     /\ \A k \in 1..Len(events) :
          /\ events[k].file_name = written[k].file_name
          /\ events[k].start_time =
               written[k].sidx[1].earliest_presentation_time
          /\ events[k].size = TokensSize(written[k].unit)

(***************************************************************************)
(* What the spec says of the coalescing (4.5), as a reference definition:  *)
(* groups of ceil(F / N) consecutive references, the last possibly         *)
(* shorter, each summed, with the minimum presentation time.               *)
(***************************************************************************)
SpecFragmentsPerSubsegment(n, p) == (n + p - 1) \div p

SpecGroups(refs, p) ==
  LET per == SpecFragmentsPerSubsegment(Len(refs), p)
  IN [g \in 1..((Len(refs) + per - 1) \div per) |->
        SubSeq(refs, (g - 1) * per + 1,
               IF g * per < Len(refs) THEN g * per ELSE Len(refs))]

SumSizes(refs) == FoldLeft(LAMBDA acc, r : acc + r.referenced_size, 0, refs)
MinTime(refs) ==
  FoldLeft(LAMBDA m, r : IF r.earliest_presentation_time < m
                         THEN r.earliest_presentation_time ELSE m,
           refs[1].earliest_presentation_time, refs)

\* Spec 4.5 and scenario 8.5 (10 fragments, N = 3: groups of 4, 4 and 2):
\* the k-th subsegment of the sidx covers the k-th group of ceil(F / N)
\* consecutive fragments (DoFinalizeSegment, decrypt_config.h:190-226).
SubsegmentsGroupedAsSpecified ==
  \A k \in 1..Len(history) :
    LET h == history[k]
        p == options.num_subsegments_per_sidx
    IN p > 0 /\ SpecFragmentsPerSubsegment(Len(h.fragments), p) > 1 =>
         LET groups == SpecGroups(h.fragments, p)
         IN \A g \in 1..Len(groups) :
              /\ h.sidx[g].referenced_size = SumSizes(groups[g])
              /\ h.sidx[g].subsegment_duration = SumDurations(groups[g])
              /\ h.sidx[g].earliest_presentation_time = MinTime(groups[g])

\* ISO/IEC 23009-1 (decrypt_config.h:284-287) and spec 4.5: the
\* subsegment durations of the sidx add up to the duration of the
\* segment's fragments, so the duration reported to the listener is the
\* segment's.
SidxDurationIsSegmentDuration ==
  \A k \in 1..Len(history) :
    SumDurations(history[k].sidx) = SumDurations(history[k].fragments)

\* Spec 4.5: a subsegment with a known SAP type has its sap_delta_time
\* recomputed relative to its earliest presentation time, so that
\* earliest_presentation_time + sap_delta_time is the time of a SAP of
\* the segment (decrypt_config.h:207-218).
SapTimesPointAtSaps ==
  \A k \in 1..Len(history) :
    \A j \in 1..Len(history[k].sidx) :
      LET r == history[k].sidx[j]
      IN r.sap_type # TypeUnknown =>
           \E f \in ToSet(history[k].fragments) :
             /\ f.sap_type # TypeUnknown
             /\ f.earliest_presentation_time + f.sap_delta_time
                  = r.earliest_presentation_time + r.sap_delta_time

=============================================================================
