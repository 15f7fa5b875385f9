------------------------- MODULE VideoQualityAnalyzer ------------------------
(***************************************************************************)
(* VideoQualityAnalyzer and its VideoLayerAnalyzers                        *)
(* (test/scenario/stats_collection.cc): counts of the frames that were     *)
(* rendered, frozen and lost, from the pairs of VideoFrameMatcher.  Times  *)
(* and picture quality are left out.                                       *)
(***************************************************************************)
EXTENDS VideoFrameMatcher

VARIABLES
  thread,           \* config_.thread: pairs are handled there, if there is one
  posted,           \* pairs posted to the thread
  layer_analyzers,  \* the counts of each layer
  cached            \* cached_: <<>>, or the result of stats()

analyzerVars == <<thread, posted, layer_analyzers, cached>>

\* stats_ and skip_count_ of a layer; "skipped" is the sum of the samples of
\* skipped_between_rendered.
NoStats == [capture |-> 0, lost |-> 0, freeze |-> 0, render |-> 0, skipped |-> 0,
            skip_count |-> 0]

AnalyzerInit ==
  /\ thread \in BOOLEAN
  /\ posted = <<>>
  /\ layer_analyzers = [l \in Layers |-> NoStats]
  /\ cached = <<>>

HandleCapturedFrame(s) == [s EXCEPT !.capture = @ + 1]

\* Mutant: frames are skipped for good.
RenderedKeepsSkips(s) ==
  [s EXCEPT !.render = @ + 1, !.skipped = @ + s.skip_count]

HandleRenderedFrame(s) ==
  [s EXCEPT !.render = @ + 1, !.skipped = @ + s.skip_count, !.skip_count = 0]

HandleFramePair(layers_stats, sample) ==
  LET s == HandleCapturedFrame(layers_stats[sample.layer_id])
      skip == [s EXCEPT !.skip_count = @ + 1]
  IN  [layers_stats EXCEPT ![sample.layer_id] =
         IF sample.decode_id = 0 THEN [skip EXCEPT !.lost = @ + 1]
         ELSE IF sample.repeated > 0 THEN [skip EXCEPT !.freeze = @ + 1]
         ELSE HandleRenderedFrame(s)]

\* The counts after the samples.
Counted(samples) ==
  LET after[i \in 0..Len(samples)] ==
        IF i = 0 THEN layer_analyzers ELSE HandleFramePair(after[i - 1], samples[i])
  IN  after[Len(samples)]

\* Mutant: what stats() has cached stays.
HandleAndKeepCache(samples) ==
  /\ layer_analyzers' = Counted(samples)
  /\ UNCHANGED cached

HandleFramePairs(samples) ==
  /\ layer_analyzers' = Counted(samples)
  /\ cached' = IF samples = <<>> THEN cached ELSE <<>>

\* The Handler() of the analyzer, for the pairs one task of the matcher hands on.
Handler(samples) ==
  IF thread
  THEN posted' = posted \o samples /\ UNCHANGED <<thread, layer_analyzers, cached>>
  ELSE HandleFramePairs(samples) /\ UNCHANGED <<thread, posted>>

RunPosted ==
  /\ posted # <<>>
  /\ posted' = Tail(posted)
  /\ HandleFramePairs(<<Head(posted)>>)
  /\ UNCHANGED thread

\* AddStats, over all layers; skip_count_ is not among the statistics.
Total ==
  [n \in DOMAIN NoStats \ {"skip_count"} |->
     SumFunction([l \in Layers |-> layer_analyzers[l][n]])]

stats ==
  /\ cached' = IF cached = <<>> THEN <<Total>> ELSE cached
  /\ UNCHANGED <<thread, posted, layer_analyzers>>
==============================================================================
