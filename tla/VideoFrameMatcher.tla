-------------------------- MODULE VideoFrameMatcher --------------------------
(***************************************************************************)
(* VideoFrameMatcher (test/scenario/video_frame_matcher.cc): pairs every   *)
(* captured frame with the decoded frame of each layer that looks most     *)
(* like it.  Frames are reported by the capturer and by the decoders; the  *)
(* matching runs on a task queue.  A frame is its width and a thumbnail.   *)
(***************************************************************************)
EXTENDS SequencesExt, Integers

CONSTANTS
  Layers,  \* layer ids
  Frames   \* the frames there are: [width : Nat, thumb : Int]

ASSUME MatcherConstants ==
  /\ Layers \subseteq Int /\ IsFiniteSet(Layers)
  /\ Frames \subseteq [width : Nat, thumb : Int]

VARIABLES
  tasks,            \* task_queue_: what is posted and has not run
  next_capture_id,
  layers,           \* the layers registered in layers_
  captured_frames,  \* of each layer
  decodes,          \* of each layer: the decoded frames, by their id; the last
                    \* one is last_decode
  matcher,          \* "alive", "finalizing" (in the destructor) or "destroyed"
  pairs,            \* history: the frame pairs given to the handlers
  first             \* history: of each layer, the first frame it is to match

matcherVars ==
  <<tasks, next_capture_id, layers, captured_frames, decodes, matcher, pairs, first>>

MatcherInit ==
  /\ tasks = <<>> /\ next_capture_id = 1 /\ layers = {}
  /\ captured_frames = [l \in Layers |-> <<>>]
  /\ decodes = [l \in Layers |-> <<>>]
  /\ matcher = "alive" /\ pairs = <<>>
  /\ first = [l \in Layers |-> 0]

\* How much two thumbnails differ (of the WebRTC library).
I420SSE(f, g) == (f.thumb - g.thumb) * (f.thumb - g.thumb)
------------------------------------------------------------------------------
(* Calls *)

PostTask(task) == tasks' = Append(tasks, task)

\* A DecodedFrameTap is created for the layer.
RegisterLayer(l) ==
  /\ matcher = "alive" /\ l \notin layers
  /\ \A i \in DOMAIN tasks : tasks[i] # [kind |-> "register", layer |-> l]
  /\ PostTask([kind |-> "register", layer |-> l])
  /\ UNCHANGED <<next_capture_id, layers, captured_frames, decodes, matcher, pairs, first>>

OnCapturedFrame(f) ==
  /\ matcher = "alive"
  /\ next_capture_id' = next_capture_id + 1
  /\ PostTask([kind |-> "captured", id |-> next_capture_id, frame |-> f])
  /\ UNCHANGED <<layers, captured_frames, decodes, matcher, pairs, first>>

\* The tap of the layer has a decoded frame.
OnDecodedFrame(f, l) ==
  /\ matcher = "alive"
  /\ l \in layers \/ \E i \in DOMAIN tasks : tasks[i] = [kind |-> "register", layer |-> l]
  /\ PostTask([kind |-> "decoded", layer |-> l, frame |-> f])
  /\ UNCHANGED <<next_capture_id, layers, captured_frames, decodes, matcher, pairs, first>>

\* The destructor sends the last task; nobody may call any more.
Destroy ==
  /\ matcher = "alive"
  /\ matcher' = "finalizing"
  /\ PostTask([kind |-> "finalize"])
  /\ UNCHANGED <<next_capture_id, layers, captured_frames, decodes, pairs, first>>
------------------------------------------------------------------------------
(* Tasks *)

\* How often decode d of layer l is used by the first n frames that are handed on,
\* each of which is [layer, captured].
Uses(handed, l, d, n) ==
  Cardinality({m \in 1..n : handed[m].layer = l /\ handed[m].captured.best_decode = d})

\* The pair that is made of the n-th of them, when ds are the decodes.
HandleMatch(ds, handed, n) ==
  LET l == handed[n].layer
      c == handed[n].captured
      d == c.best_decode
  IN  [layer_id |-> l, capture_id |-> c.id, captured |-> c.frame, decode_id |-> d,
       repeated |-> IF d = 0 THEN 0 ELSE ds[l][d].repeat_count + Uses(handed, l, d, n - 1),
       since |-> c.since, until |-> Len(ds[l]), final |-> Head(tasks).kind = "finalize"]

\* Captured frames are handed on, one after the other.
HandleMatches(ds, handed) ==
  /\ pairs' = pairs \o [n \in DOMAIN handed |-> HandleMatch(ds, handed, n)]
  /\ decodes' = [l \in Layers |-> [d \in DOMAIN ds[l] |->
       [ds[l][d] EXCEPT !.repeat_count = @ + Uses(handed, l, d, Len(handed))]]]

\* The id of the next captured frame that the layers will get.
NextToCome ==
  Min({tasks[i].id : i \in {j \in DOMAIN tasks : tasks[j].kind = "captured"}}
        \cup {next_capture_id})

RunRegister(t) ==
  /\ t.kind = "register"
  /\ layers' = layers \cup {t.layer}
  /\ captured_frames' = [captured_frames EXCEPT ![t.layer] = <<>>]
  /\ decodes' = [decodes EXCEPT ![t.layer] = <<>>]
  /\ first' = [first EXCEPT ![t.layer] = NextToCome]
  /\ UNCHANGED <<matcher, pairs>>

\* Mutant: the id is the next one's.
CapturedNext(t, l) ==
  LET last == Len(decodes[l])
  IN  [id |-> t.id, frame |-> t.frame, matched |-> FALSE,
       best_decode |-> IF last > 0 /\ decodes[l][last].frame.width <= t.frame.width
                       THEN last + 1 ELSE 0,
       since |-> IF last = 0 THEN 1 ELSE last]

\* A new captured frame can be the one that was decoded last, or a repetition of it.
Captured(t, l) ==
  LET last == Len(decodes[l])
  IN  [id |-> t.id, frame |-> t.frame, matched |-> FALSE,
       best_decode |-> IF last > 0 /\ decodes[l][last].frame.width <= t.frame.width
                       THEN last ELSE 0,
       since |-> IF last = 0 THEN 1 ELSE last]

\* Mutant: the new frame becomes the first one.
CapturedInFront(t) ==
  /\ t.kind = "captured"
  /\ captured_frames' = [l \in Layers |->
       IF l \in layers THEN <<Captured(t, l)>> \o captured_frames[l]
       ELSE captured_frames[l]]
  /\ UNCHANGED <<layers, decodes, matcher, pairs, first>>

RunCaptured(t) ==
  /\ t.kind = "captured"
  /\ captured_frames' = [l \in Layers |->
       IF l \in layers THEN Append(captured_frames[l], Captured(t, l))
       ELSE captured_frames[l]]
  /\ UNCHANGED <<layers, decodes, matcher, pairs, first>>

\* Mutant: an equally good decode replaces the best one.
CompareTies(c, ds, f) ==
  IF c.frame.width < f.width THEN [c EXCEPT !.matched = TRUE]
  ELSE IF c.best_decode = 0 \/ I420SSE(c.frame, f) <= I420SSE(c.frame, ds[c.best_decode].frame)
       THEN [c EXCEPT !.best_decode = Len(ds) + 1, !.matched = FALSE]
       ELSE [c EXCEPT !.matched = TRUE]

\* Captured frame c after decode f has followed the decodes ds.
Compare(c, ds, f) ==
  IF c.frame.width < f.width THEN [c EXCEPT !.matched = TRUE]
  ELSE IF c.best_decode = 0 \/ I420SSE(c.frame, f) < I420SSE(c.frame, ds[c.best_decode].frame)
       THEN [c EXCEPT !.best_decode = Len(ds) + 1, !.matched = FALSE]
       ELSE [c EXCEPT !.matched = TRUE]

\* How many frames at the front are matched.
Ready(cs) ==
  CHOOSE n \in 0..Len(cs) :
    /\ \A i \in 1..n : cs[i].matched
    /\ n < Len(cs) => ~cs[n + 1].matched

RunDecoded(t) ==
  LET l == t.layer
      cs == [i \in DOMAIN captured_frames[l] |->
               Compare(captured_frames[l][i], decodes[l], t.frame)]
      n == Ready(cs)
  IN  /\ t.kind = "decoded"
      /\ captured_frames' = [captured_frames EXCEPT ![l] = SubSeq(cs, n + 1, Len(cs))]
      /\ HandleMatches(
           [decodes EXCEPT ![l] = Append(@, [frame |-> t.frame, repeat_count |-> 0])],
           [i \in 1..n |-> [layer |-> l, captured |-> cs[i]]])
      /\ UNCHANGED <<layers, matcher, first>>

\* Everything that waits is handed on, layer by layer.
RunFinalize(t) ==
  LET waiting == UNION {{<<l, i>> : i \in DOMAIN captured_frames[l]} : l \in layers}
  IN  /\ t.kind = "finalize"
      /\ \E order \in [1..Cardinality(waiting) -> waiting] :
           /\ \A m, n \in DOMAIN order : m < n =>
                \/ order[m][1] < order[n][1]
                \/ order[m][1] = order[n][1] /\ order[m][2] < order[n][2]
           /\ HandleMatches(decodes, [n \in DOMAIN order |->
                [layer |-> order[n][1],
                 captured |-> captured_frames[order[n][1]][order[n][2]]]])
      /\ captured_frames' = [l \in Layers |-> <<>>]
      /\ matcher' = "destroyed"
      /\ UNCHANGED <<layers, first>>

RunTask ==
  /\ tasks # <<>>
  /\ tasks' = Tail(tasks)
  /\ UNCHANGED next_capture_id
  /\ LET t == Head(tasks)
     IN  RunRegister(t) \/ RunCaptured(t) \/ RunDecoded(t) \/ RunFinalize(t)
==============================================================================
