----------------------------- MODULE VideoQuality ----------------------------
(***************************************************************************)
(* A VideoFrameMatcher with a VideoQualityAnalyzer for its handler         *)
(* (VideoStreamPair2 in test/scenario/video_stream2.cc), between a         *)
(* capturer and decoders that may do anything.                             *)
(***************************************************************************)
EXTENDS VideoQualityAnalyzer

CONSTANTS
  MaxCaptured,  \* bound: number of captured frames
  MaxDecoded,   \* bound: number of decoded frames, of all layers
  MaxTasks      \* bound: number of tasks that wait when one is posted

ASSUME QualityConstants == MaxCaptured \in Nat /\ MaxDecoded \in Nat /\ MaxTasks \in Nat

vars == <<matcherVars, analyzerVars>>

CapturedFrame == [id : Nat, frame : Frames, matched : BOOLEAN, best_decode : Nat,
                  since : Nat \ {0}]
DecodedFrame == [frame : Frames, repeat_count : Nat]
VideoFramePair == [layer_id : Layers, capture_id : Nat, captured : Frames, decode_id : Nat,
                   repeated : Nat, since : Nat \ {0}, until : Nat, final : BOOLEAN]
MatcherTask ==
  [kind : {"register"}, layer : Layers] \cup [kind : {"captured"}, id : Nat, frame : Frames]
    \cup [kind : {"decoded"}, layer : Layers, frame : Frames] \cup [kind : {"finalize"}]
LayerStats == [capture : Nat, lost : Nat, freeze : Nat, render : Nat, skipped : Nat,
               skip_count : Nat]

TypeOK ==
  /\ tasks \in Seq(MatcherTask) /\ next_capture_id \in 1..(MaxCaptured + 1)
  /\ layers \subseteq Layers
  /\ captured_frames \in [Layers -> Seq(CapturedFrame)]
  /\ decodes \in [Layers -> Seq(DecodedFrame)]
  /\ \A l \in Layers : \A i \in DOMAIN captured_frames[l] :
       captured_frames[l][i].best_decode <= Len(decodes[l])
  /\ matcher \in {"alive", "finalizing", "destroyed"}
  /\ pairs \in Seq(VideoFramePair) /\ posted \in Seq(VideoFramePair)
  /\ first \in [Layers -> Nat]
  /\ thread \in BOOLEAN
  /\ layer_analyzers \in [Layers -> LayerStats]

Init == MatcherInit /\ AnalyzerInit

DecodedCount ==
  SumFunction([l \in Layers |-> Len(decodes[l])])
    + Len(SelectSeq(tasks, LAMBDA t : t.kind = "decoded"))

\* A call of the matcher, from the capturer, a decoder or the owner.
Call ==
  /\ Len(tasks) <= MaxTasks
  /\ \/ \E l \in Layers : RegisterLayer(l)
     \/ next_capture_id <= MaxCaptured /\ \E f \in Frames : OnCapturedFrame(f)
     \/ DecodedCount < MaxDecoded /\ \E l \in Layers, f \in Frames : OnDecodedFrame(f, l)
     \/ Destroy
  /\ UNCHANGED analyzerVars

\* A task of the matcher, and the handler it calls for each pair.
Task ==
  /\ RunTask
  /\ Handler(SubSeq(pairs', Len(pairs) + 1, Len(pairs')))

Next == Call \/ Task \/ ((RunPosted \/ stats) /\ UNCHANGED matcherVars)

Spec == Init /\ [][Next]_vars
------------------------------------------------------------------------------
\* In each layer every frame that was captured after its registration is handed on
\* exactly once, in the order of capture, or still waits; when the matcher has been
\* destroyed none waits (OnDecodedFrame, Finalize).
EveryFrameOnce ==
  \A l \in layers :
    LET mine == {i \in DOMAIN pairs : pairs[i].layer_id = l}
        waiting == captured_frames[l]
        next == NextToCome - Len(waiting)  \* the next to be handed on
    IN  /\ first[l] <= next
        /\ {pairs[i].capture_id : i \in mine} = first[l]..(next - 1)
        /\ \A i, j \in mine : i < j => pairs[i].capture_id < pairs[j].capture_id
        /\ \A i \in DOMAIN waiting : waiting[i].id = next + i - 1
        /\ matcher = "destroyed" => waiting = <<>>

\* The decodes a pair could have been made with.
Candidates(p) ==
  {d \in p.since..p.until : decodes[p.layer_id][d].frame.width <= p.captured.width}

\* A frame is paired with the first of the decodes that differ least from it, among
\* the one before its capture and all that came until it was handed on; and, except
\* at the end, only when one more decode has come that was not better.
BestMatch ==
  \A i \in DOMAIN pairs :
    LET p == pairs[i]
        SSE(d) == I420SSE(p.captured, decodes[p.layer_id][d].frame)
    IN  IF p.decode_id = 0 THEN Candidates(p) = {}
        ELSE /\ p.decode_id \in Candidates(p)
             /\ \A d \in Candidates(p) :
                  SSE(p.decode_id) < SSE(d) \/ (SSE(p.decode_id) = SSE(d) /\ p.decode_id <= d)
             /\ p.final \/ p.decode_id < p.until

\* Every frame counts once, as rendered, frozen or lost; a decoded frame is rendered
\* once; and each frame that was not rendered is in one of the gaps between rendered
\* ones, or in the one that is open (HandleFramePair).
FramesAccounted ==
  \A l \in Layers :
    LET s == layer_analyzers[l]
        mine == {i \in 1..(Len(pairs) - Len(posted)) : pairs[i].layer_id = l}
    IN  /\ s.capture = Cardinality(mine) /\ s.capture = s.lost + s.freeze + s.render
        /\ s.render = Cardinality({pairs[i].decode_id : i \in mine} \ {0})
        /\ s.skipped + s.skip_count = s.lost + s.freeze

\* What stats() has cached is what the layers have counted until now.
CacheFresh == cached # <<>> => cached[1] = Total
==============================================================================
