----------------------------- MODULE FakeEncoder -----------------------------
(***************************************************************************)
(* The rates of the encoder that the program uses (test/fake_encoder.cc):  *)
(* it makes frames of a size and no content.  Encode reads the rates under *)
(* the lock, leaves it, enters it again in NextFrame, and then delivers    *)
(* the layers one by one; SetRates, InitEncode and Encode are called on    *)
(* the encoder's queue, SetMaxBitrate from the client's                    *)
(* (test/scenario/video_stream2.cc).  A key frame is larger than the rate  *)
(* allows, which the next frames pay for.                                  *)
(* The streams have one temporal layer each, as the program configures.    *)
(***************************************************************************)
EXTENDS FiniteSetsExt, Sequences, Integers

CONSTANTS
  NumStreams,   \* config_.numberOfSimulcastStreams
  Kilo,         \* bits in a kilobit (1000)
  Fps,          \* framerate_fps, a whole number
  StartRate,    \* config_.startBitrate, in kbps
  Allocations,  \* the bitrates, per stream, that SetRates is called with
  MaxRates,     \* what SetMaxBitrate is called with; -1 disables it
  MaxFrames     \* bound: frames encoded

Streams == 1..NumStreams
kKeyframeSizeFactor == 5
kMinPayLoadLength == 14
kTemporalLayerRateFactor ==
  <<<<1, 0, 0, 0>>, <<2, 2, 0, 0>>, <<4, 4, 2, 0>>, <<8, 8, 4, 2>>>>

ASSUME EncoderConstants ==
  /\ NumStreams \in 1..4 /\ Kilo \in Nat \ {0} /\ Fps \in Nat \ {0}
  /\ StartRate \in Nat \ {0} /\ MaxFrames \in Nat
  /\ Allocations \subseteq [Streams -> Nat] /\ MaxRates \subseteq Nat \cup {-1}

VARIABLES
  bitrate,           \* current_rate_settings_.bitrate
  max_target,        \* max_target_bitrate_kbps_
  pending_keyframe,  \* pending_keyframe_
  last_layers,       \* last_frame_info_.layers.size()
  debt_bytes,        \* debt_bytes_
  snapshot,          \* in Encode: its copies of the rates and of pending_keyframe_
  to_deliver,        \* in Encode: the sizes of the layers it has not delivered yet
  fresh,             \* history: no SetRates since InitEncode
  frames,            \* history: the number of frames
  made,              \* history: the number of layers made
  small,             \* history: the number of layers too small to be delivered
  refused,           \* history: the bytes of the layers that an error of the callback
                     \* keeps from being delivered
  surplus            \* history: bits delivered, less the bits that the rates of the
                     \* frames allow; times Fps

rateVars == <<bitrate, max_target, fresh>>
countVars == <<frames, made, small, refused, surplus>>
encoderVars ==
  <<rateVars, pending_keyframe, last_layers, debt_bytes, snapshot, to_deliver, countVars>>

Idle == <<>>

\* The sum of a sequence of numbers.
SumOf(sizes) ==
  LET upTo[i \in 0..Len(sizes)] == IF i = 0 THEN 0 ELSE upTo[i - 1] + sizes[i]
  IN  upTo[Len(sizes)]
KbpsOf(b) == SumOf(b) \div Kilo

EncoderInit ==
  /\ bitrate = [s \in Streams |-> 0] /\ max_target = -1
  /\ pending_keyframe = TRUE /\ last_layers = 0 /\ debt_bytes = 0
  /\ snapshot = Idle /\ to_deliver = <<>> /\ fresh = FALSE
  /\ frames = 0 /\ made = 0 /\ small = 0 /\ refused = 0 /\ surplus = 0

\* The encoder's queue is not in Encode.
NotEncoding == snapshot = Idle /\ to_deliver = <<>>
------------------------------------------------------------------------------
(* The rates *)

\* SetRates: scaled so as not to exceed the maximum.
Scaled(b, max) ==
  IF max > 0 /\ KbpsOf(b) > max THEN [s \in Streams |-> (b[s] * max) \div KbpsOf(b)]
  ELSE b

\* On the encoder's queue, after InitEncode.
SetRates(b) ==
  /\ NotEncoding
  /\ bitrate' = Scaled(b, max_target) /\ fresh' = FALSE
  /\ UNCHANGED <<max_target, pending_keyframe, last_layers, debt_bytes, snapshot,
                 to_deliver, countVars>>

\* Mutant: the new maximum waits for the next SetRates.
SetMaxBitrateLater(max) ==
  /\ max_target' = max
  /\ UNCHANGED <<bitrate, fresh, pending_keyframe, last_layers, debt_bytes, snapshot,
                 to_deliver, countVars>>

\* From the client's queue, even while Encode is between its two critical sections.
\* What is scaled is the current rate, which may have been scaled already.
SetMaxBitrate(max) ==
  /\ max_target' = max
  /\ bitrate' = Scaled(bitrate, max) /\ fresh' = FALSE
  /\ UNCHANGED <<pending_keyframe, last_layers, debt_bytes, snapshot, to_deliver,
                 countVars>>

\* The maximum is not looked at.
InitEncode ==
  /\ NotEncoding
  /\ bitrate' = [bitrate EXCEPT ![1] = StartRate * Kilo] /\ fresh' = TRUE
  /\ pending_keyframe' = TRUE /\ last_layers' = 0
  /\ UNCHANGED <<max_target, debt_bytes, snapshot, to_deliver, countVars>>
------------------------------------------------------------------------------
(* The frames *)

\* Encode, first part.
Encode ==
  /\ NotEncoding /\ frames < MaxFrames
  /\ snapshot' = [bitrate |-> bitrate, keyframe |-> pending_keyframe]
  /\ pending_keyframe' = FALSE
  /\ UNCHANGED <<rateVars, last_layers, debt_bytes, to_deliver, countVars>>

AverageSize(b, n, i) == ((b[i] + 7) * kTemporalLayerRateFactor[n][i]) \div (8 * Fps)

\* Mutant: the whole key frame is owed, not what it exceeds the average by.
KeyLayersOweAll(b, n) ==
  [debt  |-> debt_bytes + SumOf([i \in 1..n |-> kKeyframeSizeFactor * AverageSize(b, n, i)]),
   sizes |-> [i \in 1..n |-> kKeyframeSizeFactor * AverageSize(b, n, i)]]

\* The layers of a key frame: what they leave to be paid, and their sizes.
KeyLayers(b, n) ==
  [debt  |-> debt_bytes
               + SumOf([i \in 1..n |-> (kKeyframeSizeFactor - 1) * AverageSize(b, n, i)]),
   sizes |-> [i \in 1..n |-> kKeyframeSizeFactor * AverageSize(b, n, i)]]

\* The layers of another frame, in order: each pays at most half of its size.
DeltaLayers(b, n) ==
  LET after[i \in 0..n] ==  \* the debt after layer i
        IF i = 0 THEN debt_bytes
        ELSE after[i - 1] - Min({AverageSize(b, n, i) \div 2, after[i - 1]})
  IN  [debt  |-> after[n],
       sizes |-> [i \in 1..n |-> AverageSize(b, n, i) - (after[i - 1] - after[i])]]

\* NextFrame, entering the lock again.  There is a layer for each stream that has a
\* rate, but layer i gets the rate of stream i.
NextFrame(requested) ==
  LET b == snapshot.bitrate
      n == Cardinality({s \in Streams : b[s] > 0})
      keyframe == snapshot.keyframe \/ requested \/ last_layers < n
      new == IF keyframe THEN KeyLayers(b, n) ELSE DeltaLayers(b, n)
  IN  /\ snapshot # Idle /\ snapshot' = Idle
      /\ debt_bytes' = new.debt /\ to_deliver' = new.sizes
      /\ last_layers' = n
      /\ frames' = frames + 1 /\ made' = made + n
      /\ surplus' = surplus - SumOf(b)
      /\ UNCHANGED <<rateVars, pending_keyframe, small, refused>>

\* Encode, its loop over the layers: one too small is dropped, another goes to
\* OnEncodedImage, and when that returns an error, Encode returns without the rest.
DeliverLayer ==
  /\ to_deliver # <<>>
  /\ \/ /\ Head(to_deliver) < kMinPayLoadLength
        /\ to_deliver' = Tail(to_deliver) /\ small' = small + 1
        /\ UNCHANGED <<refused, surplus>>
     \/ /\ Head(to_deliver) >= kMinPayLoadLength
        /\ to_deliver' = Tail(to_deliver)
        /\ surplus' = surplus + 8 * Fps * Head(to_deliver)
        /\ UNCHANGED <<small, refused>>
     \/ /\ Head(to_deliver) >= kMinPayLoadLength
        /\ to_deliver' = <<>> /\ refused' = refused + SumOf(to_deliver)
        /\ UNCHANGED <<small, surplus>>
  /\ UNCHANGED <<rateVars, pending_keyframe, last_layers, debt_bytes, snapshot, frames,
                 made>>

EncoderNext ==
  \/ InitEncode \/ Encode \/ DeliverLayer
  \/ \E b \in Allocations : SetRates(b)
  \/ \E max \in MaxRates : SetMaxBitrate(max)
  \/ \E requested \in BOOLEAN : NextFrame(requested)

EncoderSpec == EncoderInit /\ [][EncoderNext]_encoderVars
------------------------------------------------------------------------------
\* However SetRates, which scales what was allocated, and SetMaxBitrate, which
\* scales what was scaled, alternate, and whatever the rounding: the rate that the
\* next frame is made for does not exceed the maximum, except for the start rate.
RateWithinMax == max_target > 0 /\ ~fresh => KbpsOf(bitrate) <= max_target

\* "so that we on average meet the bitrate target" (fake_encoder.cc:210-212): whenever
\* Encode has returned, the bits delivered exceed those of the target by what is owed
\* and what the rounding of every layer adds, and fall short of that by a byte per
\* layer, the layers too small to be delivered and those an error has kept back:
\* although key frames come when they want, rates change between the two critical
\* sections, and the stream comes and goes.  This is so with one stream, as the
\* program configures: with more, kTemporalLayerRateFactor multiplies the rates.
MeetsTarget ==
  to_deliver = <<>> =>
    /\ surplus <= 8 * Fps * debt_bytes + 7 * made
    /\ surplus >= 8 * Fps * (debt_bytes - made - (kMinPayLoadLength - 1) * small - refused)
==============================================================================
