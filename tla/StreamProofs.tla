---------------------------- MODULE StreamProofs ----------------------------
(***************************************************************************)
(* Proofs about Stream: its types, and that samples are conserved, packets *)
(* keep their order, a stream ends for a reason, and resources are let go. *)
(***************************************************************************)
EXTENDS Stream, SequenceLemmas, FiniteSetTheorems, TLAPS

(***************************************************************************)
(* The inductive invariant.  It says of http->stream, at each place of     *)
(* stream_next, how the packet in dst_data relates to those encoded and to *)
(* those muxed, and of the stream method_open works on, at each place of   *)
(* method_open, what it holds.                                             *)
(***************************************************************************)

(* SamplesConserved, of the stream s.                                      *)
Conserved(s) ==
  /\ s.decoded * s.dst_rate = (s.fifo + FrameSize * s.frames) * s.src + s.backlog
                                + s.failed * s.dst_rate
  /\ s.dst_rate <= s.src => s.backlog < (MaxDelay + 1) * s.src

(* Without a resampler the rates of file and encoder are the same.         *)
Direct(s) == "resampler" \notin s.res => s.src = s.dst_rate

(* The number of the packet last muxed, and the places of stale ones.      *)
Newest(m) == IF m = <<>> THEN 0 ELSE m[Len(m)].n
Stale(m) == {i \in DOMAIN m : ~m[i].fresh}

Numbered(m) ==
  \A i \in DOMAIN m :
    m[i].n = (IF i = 1 THEN 0 ELSE m[i - 1].n) + (IF m[i].fresh THEN 1 ELSE 0)

(* All the encoder gave is muxed, and dst_data is still the last of it.    *)
Given(s) == s.dst = s.frames - s.held /\ Newest(s.muxed) = s.dst

(* dst_data is to be muxed: the next packet, or the last one once more.    *)
Due(s) == /\ s.dst = s.frames - s.held /\ s.dst # 0
          /\ s.dst = Newest(s.muxed) + (IF s.fresh THEN 1 ELSE 0)
          /\ Cardinality(Stale(s.muxed)) + (IF s.fresh THEN 0 ELSE 1) <= s.held

(* What the stream of method_open can hold at each of its places.          *)
Source == {"stream", "track", "source"}
Codecs == {"decoder", "encoder", "buffers"}
Calls == {"new", "opened", "coded", "remuxed"}

Acquired(at, R) ==
  /\ at = "new" => R = {"stream"}
  /\ at = "opened" => R = Source
  /\ at = "coded" => R \ {"resampler"} = Source \cup Codecs
  /\ at = "remuxed" => R \ {"resampler"} = Source \cup Codecs \cup {"output"}
  /\ at \notin Calls => R = {}

(* Nothing went through the stream s yet.                                  *)
Unused(s) ==
  /\ s.error_counter = 0 /\ s.capacity = 0 /\ s.backlog = 0 /\ s.fifo = 0
  /\ s.dst = 0 /\ s.fresh = FALSE /\ s.decoded = 0 /\ s.failed = 0
  /\ s.bad = 0
  /\ s.frames = 0 /\ s.held = 0 /\ s.muxed = <<>>

OpeningSound ==
  /\ Unused(opening) /\ Acquired(pc, opening.res)
  /\ pc \in {"coded", "remuxed"} => Direct(opening)

Allocated ==
  \A r \in Resources :
    live[r] = lost[r] + (IF r \in stream.res THEN 1 ELSE 0)
                      + (IF r \in opening.res THEN 1 ELSE 0)
                      + (IF pc = "new" /\ r = "track" THEN 1 ELSE 0)

FeedSound ==
  /\ pc \in {"fill", "mux"} => state = "feed"
  /\ stream.bad = stream.error_counter
  /\ state = "feed" => /\ trouble = "none" /\ "stream" \in stream.res
                       /\ Direct(stream) /\ stream.error_counter <= MaxErrors

PacketsSound ==
  /\ stream.held <= stream.frames
  /\ Numbered(stream.muxed)
  /\ Cardinality(Stale(stream.muxed)) <= stream.held
  /\ trouble \notin {"mux", "encode"} /\ pc # "mux" => Given(stream)
  /\ pc = "mux" => Due(stream)

IInv == /\ TypeOK /\ OpeningSound /\ Allocated /\ Conserved(stream)
        /\ FeedSound /\ PacketsSound /\ EndsForAReason

-----------------------------------------------------------------------------
(* Arithmetic.                                                             *)

LEMMA Distributes ==
  ASSUME NEW a \in Int, NEW b \in Int, NEW c \in Int
  PROVE  (a + b) * c = a * c + b * c /\ c * (a + b) = c * a + c * b
  OBVIOUS

LEMMA Monotonic ==
  ASSUME NEW a \in Nat, NEW b \in Nat, NEW c \in Nat, a <= b
  PROVE  a * c <= b * c
<1> DEFINE d == b - a
<1>1. d \in Nat /\ b = a + d
  OBVIOUS
<1>2. d * c \in Nat
  BY <1>1
<1>3. b * c = a * c + d * c
  BY <1>1, Distributes
<1> HIDE DEF d
<1>4. a * c \in Nat
  OBVIOUS
<1>5. QED
  BY <1>2, <1>3, <1>4

LEMMA Divided ==
  ASSUME NEW a \in Nat, NEW b \in Nat \ {0}
  PROVE  /\ a \div b \in Nat
         /\ (a \div b) * b <= a /\ a < (a \div b) * b + b
<1>1. a \div b \in Nat /\ a % b \in 0 .. b - 1 /\ a = b * (a \div b) + (a % b)
  OBVIOUS
<1>2. b * (a \div b) = (a \div b) * b
  BY <1>1
<1>3. QED
  BY <1>1, <1>2

(* find_sample_rate gives a rate of the encoder, or 0.                     *)
LEMMA RateFound ==
  ASSUME NEW rate \in Nat
  PROVE  FindSampleRate(rate) \in Nat
<1> DEFINE closest == {i \in Closer(rate) : \A j \in Closer(rate) :
                         Dist(DstRates[i], rate) <= Dist(DstRates[j], rate)}
<1>1. CASE closest = {}
  BY <1>1 DEF FindSampleRate
<1>2. CASE closest # {}
  <2>1. closest \subseteq DOMAIN DstRates /\ DstRates \in Seq(Nat \ {0})
    BY StreamAssumption DEF Closer
  <2>2. closest \in SUBSET Nat
    BY <2>1
  <2> DEFINE first == CHOOSE i \in closest : \A j \in closest : i <= j
  <2>3. first \in closest
    <3> HIDE DEF closest
    <3>1. \E i \in closest : \A j \in closest : i <= j
      BY <1>2, <2>2, HasLeast
    <3>2. QED
      BY <3>1
  <2>4. FindSampleRate(rate) = DstRates[first]
    BY <1>2 DEF FindSampleRate
  <2>5. QED
    <3> HIDE DEF closest, first
    <3>1. QED
      BY <2>1, <2>3, <2>4
<1>3. QED
  BY <1>1, <1>2

-----------------------------------------------------------------------------
(* Samples.                                                                *)

(* What a change of the other members leaves conserved.                    *)
LEMMA ConservedSame ==
  ASSUME NEW s \in StreamType, Conserved(s), NEW t \in StreamType,
         t.decoded = s.decoded, t.failed = s.failed, t.dst_rate = s.dst_rate, t.fifo = s.fifo,
         t.frames = s.frames, t.src = s.src, t.backlog = s.backlog
  PROVE  Conserved(t)
  BY DEF Conserved

(* A frame moves from the fifo into the encoder.                           *)
LEMMA ConservedTaken ==
  ASSUME NEW s \in StreamType, Conserved(s), s.fifo >= FrameSize,
         NEW t \in StreamType,
         t.decoded = s.decoded, t.failed = s.failed, t.dst_rate = s.dst_rate, t.fifo = s.fifo - FrameSize,
         t.frames = s.frames + 1, t.src = s.src, t.backlog = s.backlog
  PROVE  Conserved(t)
<1>1. FrameSize \in Nat /\ s.fifo \in Nat /\ s.frames \in Nat
  BY StreamAssumption DEF StreamType
<1>2. FrameSize * (s.frames + 1) = FrameSize * s.frames + FrameSize
  BY <1>1, Distributes
<1>3. FrameSize * s.frames \in Nat
  BY <1>1
<1>4. t.fifo + FrameSize * t.frames = s.fifo + FrameSize * s.frames
  BY <1>1, <1>2, <1>3
<1>5. QED
  BY <1>4 DEF Conserved

(* Samples go from the decoder into the fifo.                              *)
LEMMA ConservedAdded ==
  ASSUME NEW s \in StreamType, Conserved(s), NEW n \in Nat, NEW out \in Nat,
         NEW t \in StreamType, t.decoded = s.decoded + n, t.failed = s.failed,
         t.fifo = s.fifo + out, t.frames = s.frames, t.src = s.src,
         t.dst_rate = s.dst_rate,
         t.backlog = s.backlog + n * s.dst_rate - out * s.src,
         t.dst_rate <= t.src => t.backlog < (MaxDelay + 1) * t.src
  PROVE  Conserved(t)
<1> DEFINE d == s.dst_rate
           r == s.src
           x == s.fifo + FrameSize * s.frames
           y == s.failed * d
<1>1. /\ d \in Nat /\ r \in Nat /\ s.decoded \in Nat /\ s.fifo \in Nat
      /\ s.frames \in Nat /\ FrameSize \in Nat /\ s.backlog \in Nat /\ s.failed \in Nat
  BY StreamAssumption DEF StreamType
<1>2. FrameSize * s.frames \in Nat
  BY <1>1
<1>3. x \in Nat
  BY <1>1, <1>2
<1>4. t.fifo + FrameSize * t.frames = x + out
  BY <1>1, <1>2
<1>5. s.decoded * d = x * r + s.backlog + y
  BY DEF Conserved
<1>6. (s.decoded + n) * d = s.decoded * d + n * d
  BY <1>1, Distributes
<1>7. (x + out) * r = x * r + out * r
  <2> HIDE DEF x, r
  <2>1. QED
    BY <1>1, <1>3, Distributes
<1>8. /\ s.decoded * d \in Nat /\ n * d \in Nat /\ x * r \in Nat /\ out * r \in Nat /\ y \in Nat
  <2>1. y \in Nat
    <3> HIDE DEF d
    <3>1. QED
      BY <1>1
  <2> HIDE DEF x, r, d, y
  <2>2. QED
    BY <1>1, <1>3, <2>1
<1>9. (s.decoded + n) * d = (x + out) * r + (s.backlog + n * d - out * r) + y
  <2> HIDE DEF x, r, d, y
  <2>1. QED
    BY <1>1, <1>5, <1>6, <1>7, <1>8
<1>10. QED
  BY <1>4, <1>9 DEF Conserved

(* The samples of a frame that the resampler failed on.                    *)
LEMMA ConservedFailed ==
  ASSUME NEW s \in StreamType, Conserved(s), NEW n \in Nat,
         NEW t \in StreamType, t.decoded = s.decoded + n, t.failed = s.failed + n,
         t.fifo = s.fifo, t.frames = s.frames, t.src = s.src,
         t.dst_rate = s.dst_rate, t.backlog = s.backlog
  PROVE  Conserved(t)
<1> DEFINE d == s.dst_rate
           z == (s.fifo + FrameSize * s.frames) * s.src
<1>1. /\ d \in Nat /\ s.src \in Nat /\ s.decoded \in Nat /\ s.fifo \in Nat
      /\ s.frames \in Nat /\ FrameSize \in Nat /\ s.backlog \in Nat /\ s.failed \in Nat
  BY StreamAssumption DEF StreamType
<1>2. z \in Nat
  <2> DEFINE x == s.fifo + FrameSize * s.frames
  <2>1. FrameSize * s.frames \in Nat
    BY <1>1
  <2>2. x \in Nat
    BY <1>1, <2>1
  <2> HIDE DEF x
  <2>3. x * s.src \in Nat
    BY <1>1, <2>2
  <2>4. QED
    BY <2>3 DEF x
<1>3. s.decoded * d = z + s.backlog + s.failed * d
  BY DEF Conserved
<1>4. /\ (s.decoded + n) * d = s.decoded * d + n * d
      /\ (s.failed + n) * d = s.failed * d + n * d
  <2> HIDE DEF d
  <2>1. QED
    BY <1>1, Distributes
<1>5. s.decoded * d \in Nat /\ n * d \in Nat /\ s.failed * d \in Nat
  <2> HIDE DEF d
  <2>1. QED
    BY <1>1
<1>6. (s.decoded + n) * d = z + s.backlog + (s.failed + n) * d
  <2> HIDE DEF d, z
  <2>1. QED
    BY <1>1, <1>2, <1>3, <1>4, <1>5
<1>7. t.decoded * t.dst_rate = (t.fifo + FrameSize * t.frames) * t.src + t.backlog
                                 + t.failed * t.dst_rate
  BY <1>6
<1>8. t.dst_rate <= t.src => t.backlog < (MaxDelay + 1) * t.src
  BY DEF Conserved
<1>9. QED
  BY <1>7, <1>8 DEF Conserved

(* What the resampler keeps, of the given parts of samples: no more than   *)
(* before if the output buffer is full, and else what its filter does.     *)
LEMMA KeptBack ==
  ASSUME NEW src \in Nat \ {0}, NEW dst \in Nat, NEW b \in Nat, NEW n \in Nat,
         NEW room \in Nat, n <= room, NEW given, given = b + n * dst, NEW out \in Nat,
         out <= given \div src, out = room \/ given \div src - out <= MaxDelay
  PROVE  /\ out * src \in Nat /\ given - out * src \in Nat
         /\ dst <= src /\ b < (MaxDelay + 1) * src => given - out * src < (MaxDelay + 1) * src
<1> DEFINE q == given \div src
<1>1. n * dst \in Nat /\ given \in Nat /\ MaxDelay \in Nat
  BY StreamAssumption
<1>2. q \in Nat /\ q * src <= given /\ given < q * src + src
  BY <1>1, Divided
<1>3. out <= q /\ (out = room \/ q - out <= MaxDelay)
  OBVIOUS
<1> HIDE DEF q
<1>4. out * src \in Nat /\ q * src \in Nat /\ out * src <= q * src
  BY <1>2, <1>3, Monotonic
<1>5. given - out * src \in Nat
  <2> DEFINE v == out * src
             w == q * src
  <2>1. v \in Nat /\ w \in Nat /\ v <= w /\ w <= given
    BY <1>2, <1>4
  <2> HIDE DEF v, w
  <2>2. given - v \in Nat
    BY <1>1, <2>1
  <2>3. QED
    BY <2>2 DEF v
<1>6. ASSUME dst <= src, b < (MaxDelay + 1) * src, out = room
      PROVE  given - out * src < (MaxDelay + 1) * src
  <2>1. n * dst <= n * src
    <3>1. dst * n <= src * n
      BY <1>6, Monotonic
    <3>2. QED
      BY <3>1
  <2>2. n * src <= out * src
    BY <1>6, Monotonic
  <2> DEFINE v == out * src
             w == n * src
             y == n * dst
             z == (MaxDelay + 1) * src
  <2>3. v \in Nat /\ w \in Nat /\ y \in Nat /\ z \in Nat
    BY <1>1, <1>4
  <2>4. y <= w /\ w <= v /\ b < z /\ given = b + y
    BY <1>6, <2>1, <2>2
  <2> HIDE DEF v, w, y, z
  <2>5. given - v < z
    BY <2>3, <2>4
  <2>6. QED
    BY <2>5 DEF v, z
<1>7. ASSUME q - out <= MaxDelay
      PROVE  given - out * src < (MaxDelay + 1) * src
  <2> DEFINE k == q - out
  <2>1. k \in Nat /\ q = out + k /\ k <= MaxDelay
    BY <1>2, <1>3, <1>7
  <2> HIDE DEF k
  <2>2. q * src = out * src + k * src
    BY <2>1, Distributes
  <2>3. k * src <= MaxDelay * src /\ k * src \in Nat /\ MaxDelay * src \in Nat
    BY <1>1, <2>1, Monotonic
  <2>4. (MaxDelay + 1) * src = MaxDelay * src + src
    BY <1>1, Distributes
  <2> DEFINE v == out * src
             w == q * src
             x == k * src
             y == MaxDelay * src
             z == (MaxDelay + 1) * src
  <2>5. /\ v \in Nat /\ w \in Nat /\ x \in Nat /\ y \in Nat
        /\ w = v + x /\ x <= y /\ z = y + src /\ given < w + src
    BY <1>2, <1>4, <2>2, <2>3, <2>4
  <2> HIDE DEF v, w, x, y, z
  <2>6. given - v < z
    BY <1>1, <2>5
  <2>7. QED
    BY <2>6 DEF v, z
<1>8. QED
  BY <1>3, <1>4, <1>5, <1>6, <1>7

(* decode_next: no sample is lost on the way through the resampler, unless *)
(* it fails.                                                               *)
LEMMA BufferedSound ==
  ASSUME NEW s \in StreamType, Conserved(s), Direct(s), NEW n \in Nat,
         NEW t \in Buffered(s, n)
  PROVE  /\ t \in StreamType /\ Conserved(t)
         /\ t.res = s.res /\ t.cue = s.cue /\ t.pos = s.pos /\ t.src = s.src
         /\ t.dst_rate = s.dst_rate /\ t.error_counter = s.error_counter
         /\ t.dst = s.dst /\ t.fresh = s.fresh /\ t.bad = s.bad
         /\ t.frames = s.frames /\ t.held = s.held /\ t.muxed = s.muxed
<1> DEFINE decoded == s.decoded + n
           u == [s EXCEPT !.decoded = decoded]
<1>1. /\ s.dst_rate \in Nat \ {0} /\ s.src \in Nat \ {0} /\ s.decoded \in Nat
      /\ s.fifo \in Nat /\ s.backlog \in Nat /\ s.capacity \in Nat /\ s.failed \in Nat
      /\ decoded \in Nat /\ MaxDelay \in Nat
  <2>1. /\ s.dst_rate \in Nat \ {0} /\ s.src \in Nat \ {0} /\ s.decoded \in Nat
        /\ s.fifo \in Nat /\ s.backlog \in Nat /\ s.capacity \in Nat
        /\ s.failed \in Nat
    BY DEF StreamType
  <2>2. decoded \in Nat
    BY <2>1
  <2>3. MaxDelay \in Nat
    BY StreamAssumption
  <2>4. QED
    BY <2>1, <2>2, <2>3
<1>2. t \in (IF "resampler" \in u.res THEN Resampled(u, n) \cup {Unconverted(u, n)}
             ELSE {[u EXCEPT !.fifo = @ + n]})
  BY DEF Buffered
<1> HIDE DEF decoded
<1>3. /\ u.res = s.res /\ u.fifo = s.fifo /\ u.backlog = s.backlog /\ u.src = s.src
      /\ u.dst_rate = s.dst_rate /\ u.capacity = s.capacity /\ u.failed = s.failed
  BY DEF StreamType
<1>4. CASE "resampler" \notin s.res
  <2> DEFINE fifo == s.fifo + n
  <2>1. fifo \in Nat
    BY <1>1
  <2>2. t = [s EXCEPT !.fifo = fifo, !.decoded = decoded]
    BY <1>2, <1>3, <1>4
  <2> HIDE DEF fifo
  <2>3. /\ t \in StreamType /\ t.decoded = decoded /\ t.fifo = fifo
        /\ t.frames = s.frames /\ t.src = s.src /\ t.dst_rate = s.dst_rate
        /\ t.failed = s.failed /\ t.backlog = s.backlog
    BY <1>1, <2>1, <2>2 DEF StreamType
  <2>4. n * s.dst_rate \in Nat /\ s.src = s.dst_rate
    BY <1>1, <1>4 DEF Direct
  <2>5. t.backlog = s.backlog + n * s.dst_rate - n * s.src
    <3> DEFINE y == n * s.dst_rate
    <3>1. n * s.src = y /\ y \in Nat
      BY <2>4
    <3> HIDE DEF y
    <3>2. s.backlog + y - y = s.backlog
      BY <1>1, <3>1
    <3>3. QED
      BY <2>3, <3>1, <3>2 DEF y
  <2>6. t.dst_rate <= t.src => t.backlog < (MaxDelay + 1) * t.src
    BY <2>3 DEF Conserved
  <2>7. Conserved(t)
    BY <2>3, <2>5, <2>6, ConservedAdded DEF decoded, fifo
  <2>8. QED
    BY <2>2, <2>3, <2>7 DEF StreamType
<1>5. CASE "resampler" \in s.res /\ t = Unconverted(u, n)
  <2> DEFINE room == Greater(s.capacity, n)
             failed == s.failed + n
  <2>1. room \in Nat /\ failed \in Nat
    BY <1>1 DEF Greater
  <2>2. t = [s EXCEPT !.decoded = decoded, !.capacity = room, !.failed = failed]
    BY <1>3, <1>5 DEF Unconverted
  <2> HIDE DEF room, failed
  <2>3. /\ t \in StreamType /\ t.decoded = decoded /\ t.fifo = s.fifo
        /\ t.frames = s.frames /\ t.src = s.src /\ t.dst_rate = s.dst_rate
        /\ t.failed = failed /\ t.backlog = s.backlog
    BY <1>1, <2>1, <2>2 DEF StreamType
  <2>4. Conserved(t)
    BY <2>3, ConservedFailed DEF decoded, failed
  <2>5. QED
    BY <2>2, <2>3, <2>4 DEF StreamType
<1>6. CASE "resampler" \in s.res /\ t \in Resampled(u, n)
  <2> DEFINE room == Greater(s.capacity, n)
             given == s.backlog + n * s.dst_rate
  <2>1. room \in Nat /\ n <= room
    BY <1>1 DEF Greater
  <2>2. PICK out \in Outputs(u, given, room) :
          t = [u EXCEPT !.capacity = room, !.fifo = @ + out, !.backlog = given - out * u.src]
    BY <1>3, <1>6, Zenon DEF Resampled
  <2>3. n * s.dst_rate \in Nat /\ given \in Nat
    BY <1>1
  <2>4. given \div s.src \in Nat
    <3> HIDE DEF given
    <3>1. QED
      BY <1>1, <2>3, Divided
  <2>5. /\ out \in Nat /\ out <= given \div s.src
        /\ out = room \/ given \div s.src - out <= MaxDelay
    <3> HIDE DEF given, room
    <3>1. QED
      BY <1>3, <2>1, <2>4 DEF Outputs, Lesser
  <2> DEFINE left == given - out * s.src
             fifo == s.fifo + out
  <2>6. /\ left \in Nat /\ out * s.src \in Nat
        /\ s.dst_rate <= s.src /\ s.backlog < (MaxDelay + 1) * s.src
             => left < (MaxDelay + 1) * s.src
    <3> HIDE DEF room
    <3>1. s.dst_rate \in Nat /\ given = s.backlog + n * s.dst_rate
      BY <1>1
    <3> HIDE DEF given
    <3>2. QED
      BY <1>1, <2>1, <2>5, <3>1, KeptBack
  <2>7. fifo \in Nat
    BY <1>1, <2>5
  <2>8. t = [s EXCEPT !.decoded = decoded, !.capacity = room, !.fifo = fifo, !.backlog = left]
    BY <1>3, <2>2
  <2> HIDE DEF room, left, fifo
  <2>9. /\ t \in StreamType /\ t.decoded = decoded /\ t.fifo = fifo
        /\ t.frames = s.frames /\ t.src = s.src /\ t.dst_rate = s.dst_rate
        /\ t.failed = s.failed /\ t.backlog = left
    BY <1>1, <2>1, <2>6, <2>7, <2>8 DEF StreamType
  <2>10. t.backlog = s.backlog + n * s.dst_rate - out * s.src
    <3> DEFINE y == n * s.dst_rate
               z == out * s.src
    <3>1. t.backlog = (s.backlog + y) - z /\ y \in Nat /\ z \in Nat
      BY <2>3, <2>6, <2>9 DEF left
    <3> HIDE DEF y, z
    <3>2. t.backlog = s.backlog + y - z
      BY <1>1, <3>1
    <3>3. QED
      BY <3>2 DEF y, z
  <2>11. t.dst_rate <= t.src => t.backlog < (MaxDelay + 1) * t.src
    BY <2>6, <2>9 DEF Conserved
  <2>12. Conserved(t)
    <3> HIDE DEF given
    <3>1. QED
      BY <2>5, <2>9, <2>10, <2>11, ConservedAdded DEF decoded, fifo
  <2>13. QED
    BY <2>8, <2>9, <2>12 DEF StreamType
<1>7. QED
  BY <1>2, <1>3, <1>4, <1>5, <1>6

-----------------------------------------------------------------------------
(* Packets.                                                                *)

Packets == [n : Nat \ {0}, fresh : BOOLEAN]

LEMMA StaleCounted ==
  ASSUME NEW m \in Seq(Packets)
  PROVE  /\ Stale(m) \subseteq 1 .. Len(m) /\ IsFiniteSet(Stale(m))
         /\ Cardinality(Stale(m)) \in Nat
<1>1. DOMAIN m = 1 .. Len(m) /\ Len(m) \in Nat
  BY LenProperties
<1>2. Stale(m) \subseteq 1 .. Len(m)
  BY <1>1 DEF Stale
<1>3. IsFiniteSet(1 .. Len(m))
  BY <1>1, FS_Interval
<1>4. QED
  BY <1>2, <1>3, FS_Subset, FS_CardinalityType

(* One more packet is muxed.                                               *)
LEMMA Muxed ==
  ASSUME NEW m \in Seq(Packets), Numbered(m), NEW e \in Packets,
         e.n = Newest(m) + (IF e.fresh THEN 1 ELSE 0),
         NEW w, w = Append(m, e)
  PROVE  /\ w \in Seq(Packets) /\ Numbered(w) /\ Newest(w) = e.n
         /\ Cardinality(Stale(w)) = Cardinality(Stale(m)) + (IF e.fresh THEN 0 ELSE 1)
<1> DEFINE l == Len(m) + 1
<1>3. /\ w \in Seq(Packets) /\ Len(m) \in Nat /\ Len(w) = l /\ w[l] = e
      /\ \A i \in 1 .. Len(m) : w[i] = m[i]
      /\ DOMAIN m = 1 .. Len(m) /\ DOMAIN w = 1 .. l
  BY AppendProperties
<1>4. Newest(w) = e.n
  BY <1>3 DEF Newest
<1>5. e.n = (IF l = 1 THEN 0 ELSE w[l - 1].n) + (IF e.fresh THEN 1 ELSE 0)
  <2>1. CASE m = <<>>
    BY <2>1 DEF Newest
  <2>2. CASE m # <<>>
    <3>1. Len(m) \in 1 .. Len(m) /\ l - 1 = Len(m) /\ l # 1
      BY <1>3, <2>2, EmptySeq
    <3>2. QED
      BY <1>3, <2>2, <3>1 DEF Newest
  <2>3. QED
    BY <2>1, <2>2
<1>6. Numbered(w)
  <2>1. SUFFICES ASSUME NEW i \in 1 .. l
                 PROVE  w[i].n = (IF i = 1 THEN 0 ELSE w[i - 1].n)
                                 + (IF w[i].fresh THEN 1 ELSE 0)
    BY <1>3 DEF Numbered
  <2>2. CASE i = l
    BY <1>3, <1>5, <2>2
  <2>3. CASE i \in 1 .. Len(m)
    <3>1. m[i].n = (IF i = 1 THEN 0 ELSE m[i - 1].n) + (IF m[i].fresh THEN 1 ELSE 0)
      BY <1>3, <2>3 DEF Numbered
    <3>2. i # 1 => i - 1 \in 1 .. Len(m)
      BY <1>3, <2>3
    <3>3. QED
      BY <1>3, <2>3, <3>1, <3>2
  <2>4. QED
    BY <1>3, <2>1, <2>2, <2>3
<1>7. Stale(m) \subseteq 1 .. Len(m) /\ IsFiniteSet(Stale(m)) /\ l \notin Stale(m)
  BY <1>3, StaleCounted
<1>8. CASE e.fresh
  <2>1. Stale(w) = Stale(m)
    BY <1>3, <1>8 DEF Stale
  <2>2. Cardinality(Stale(m)) \in Nat
    BY <1>7, FS_CardinalityType
  <2>3. QED
    BY <1>3, <1>4, <1>6, <1>8, <2>1, <2>2
<1>9. CASE ~e.fresh
  <2>1. Stale(w) = Stale(m) \cup {l}
    BY <1>3, <1>9 DEF Stale
  <2>2. Cardinality(Stale(m) \cup {l}) = Cardinality(Stale(m)) + 1
    BY <1>7, FS_AddElement
  <2>3. QED
    BY <1>3, <1>4, <1>6, <1>9, <2>1, <2>2
<1>10. QED
  BY <1>8, <1>9

-----------------------------------------------------------------------------
(* What steps have in common.                                              *)

(* A step of stream_next leaves what is allocated alone.                   *)
LEMMA OpeningKept ==
  ASSUME IInv, pc \notin Calls, pc' \notin Calls, opening' = opening, live' = live,
         lost' = lost, stream'.res = stream.res
  PROVE  OpeningSound' /\ Allocated'
<1>1. opening.res = {} /\ Unused(opening)
  BY DEF IInv, OpeningSound, Acquired
<1>2. OpeningSound'
  BY <1>1 DEF OpeningSound, Acquired, Unused, Calls
<1>3. Allocated'
  BY DEF IInv, Allocated, Calls
<1>4. QED
  BY <1>2, <1>3

(* A step of method_open leaves http->stream alone.                        *)
LEMMA StreamKept ==
  ASSUME IInv, pc \notin {"fill", "mux"}, pc' \notin {"fill", "mux"},
         state' = state, trouble' = trouble, stream' = stream
  PROVE  /\ Conserved(stream)' /\ FeedSound' /\ PacketsSound' /\ EndsForAReason'
<1>1. Conserved(stream)'
  BY DEF IInv, Conserved
<1>2. FeedSound'
  BY DEF IInv, FeedSound, Direct
<1>3. PacketsSound'
  BY DEF IInv, PacketsSound, Numbered, Stale, Given, Newest
<1>4. EndsForAReason'
  BY DEF IInv, EndsForAReason
<1>5. QED
  BY <1>1, <1>2, <1>3, <1>4

(* stream_new gives a stream nothing went through.                         *)
LEMMA NewSound ==
  /\ New \in StreamType /\ Unused(New) /\ New.res = {}
  /\ New.dst_rate = 1 /\ New.src = 1
<1>1. <<>> \in Seq([n : Nat \ {0}, fresh : BOOLEAN])
  BY EmptySeq
<1>2. QED
  BY <1>1, StreamAssumption DEF New, StreamType, Unused

(* Nothing is freed that is not allocated.                                 *)
LEMMA LiveTyped ==
  ASSUME Allocated', lost' \in [Resources -> Nat],
         live' = [r \in Resources |-> live'[r]]
  PROVE  live' \in [Resources -> Nat]
<1>1. ASSUME NEW r \in Resources PROVE live'[r] \in Nat
  BY DEF Allocated
<1>2. QED
  BY <1>1

(* A step of method_open that goes on with the stream o.                   *)
LEMMA OpeningStep ==
  ASSUME IInv, pc \notin {"fill", "mux"}, NEW to \in Calls, pc' = to,
         NEW o \in StreamType, opening' = o,
         UNCHANGED <<state, stream, lost, trouble>>, opens' \in 0 .. MaxOpens,
         Unused(o), Acquired(to, o.res), to \in {"coded", "remuxed"} => Direct(o),
         live' = [r \in Resources |-> live'[r]], Allocated'
  PROVE  IInv'
<1>1. OpeningSound'
  BY DEF OpeningSound, Unused, Acquired, Direct
<1>2. lost' \in [Resources -> Nat]
  BY DEF IInv, TypeOK
<1>3. live' \in [Resources -> Nat]
  BY <1>2, LiveTyped
<1>4. TypeOK'
  BY <1>2, <1>3 DEF IInv, TypeOK, Calls
<1>5. pc' \notin {"fill", "mux"}
  BY DEF Calls
<1>6. Conserved(stream)' /\ FeedSound' /\ PacketsSound' /\ EndsForAReason'
  BY <1>5, StreamKept
<1>7. QED
  BY <1>1, <1>4, <1>6 DEF IInv

(* method_open gives up: all it allocated is freed, once.                  *)
LEMMA GivenUp ==
  ASSUME IInv, pc \in Calls, pc' = "idle", opening' = New,
         UNCHANGED <<state, stream, opens, lost, trouble>>,
         live' = [r \in Resources |-> live'[r]],
         \A r \in Resources :
           live'[r] = live[r] - (IF pc = "new" /\ r = "track" THEN 1 ELSE 0)
                              - (IF r \in opening.res THEN 1 ELSE 0)
  PROVE  IInv'
<1>1. New \in StreamType /\ Unused(New) /\ New.res = {}
  BY NewSound
<1>2. OpeningSound'
  BY <1>1 DEF OpeningSound, Unused, Acquired, Calls
<1>3. Allocated'
  <2>1. SUFFICES ASSUME NEW r \in Resources
                 PROVE  live'[r] = lost[r] + (IF r \in stream.res THEN 1 ELSE 0)
    <3>1. \A r \in Resources : lost[r] \in Nat
      BY DEF IInv, TypeOK
    <3>2. QED
      BY <1>1, <3>1 DEF Allocated
  <2>2. live[r] \in Nat /\ lost[r] \in Nat
    BY DEF IInv, TypeOK
  <2>3. live[r] = lost[r] + (IF r \in stream.res THEN 1 ELSE 0)
                          + (IF r \in opening.res THEN 1 ELSE 0)
                          + (IF pc = "new" /\ r = "track" THEN 1 ELSE 0)
    BY DEF IInv, Allocated
  <2>4. live'[r] = live[r] - (IF pc = "new" /\ r = "track" THEN 1 ELSE 0)
                           - (IF r \in opening.res THEN 1 ELSE 0)
    OBVIOUS
  <2>5. QED
    BY <2>2, <2>3, <2>4
<1>4. lost' \in [Resources -> Nat]
  BY DEF IInv, TypeOK
<1>5. live' \in [Resources -> Nat]
  BY <1>3, <1>4, LiveTyped
<1>6. TypeOK'
  BY <1>1, <1>4, <1>5 DEF IInv, TypeOK
<1>7. Conserved(stream)' /\ FeedSound' /\ PacketsSound' /\ EndsForAReason'
  BY StreamKept DEF Calls
<1>8. QED
  BY <1>2, <1>3, <1>6, <1>7 DEF IInv

-----------------------------------------------------------------------------
(* Every step preserves the invariant: method_open.                        *)

(* Nor is anything wrong with that stream.                                 *)
LEMMA UnusedSound ==
  /\ Conserved(New) /\ New.held <= New.frames /\ Numbered(New.muxed)
  /\ Cardinality(Stale(New.muxed)) <= New.held /\ Given(New)
<1>1. /\ New.muxed = <<>> /\ New.held = 0 /\ New.frames = 0 /\ New.dst = 0
      /\ New.decoded = 0 /\ New.failed = 0 /\ New.backlog = 0 /\ New.fifo = 0
      /\ New.dst_rate = 1 /\ New.src = 1
  BY DEF New
<1>2. Stale(<<>>) = {} /\ Numbered(<<>>) /\ Newest(<<>>) = 0 /\ Cardinality({}) = 0
  BY FS_EmptySet DEF Stale, Numbered, Newest
<1>3. Conserved(New)
  BY <1>1, StreamAssumption DEF Conserved
<1>4. Given(New)
  <2>1. Newest(New.muxed) = 0
    BY <1>1, <1>2
  <2>2. QED
    BY <1>1, <2>1 DEF Given
<1>5. Cardinality(Stale(New.muxed)) = 0 /\ Numbered(New.muxed)
  <2>1. Stale(New.muxed) = {}
    BY <1>1, <1>2
  <2>2. QED
    BY <1>1, <1>2, <2>1
<1>6. QED
  BY <1>1, <1>3, <1>4, <1>5

LEMMA InitSound == Init => IInv
<1> SUFFICES ASSUME Init PROVE IInv
  OBVIOUS
<1>2. New \in StreamType /\ Unused(New) /\ New.res = {} /\ New.dst_rate = 1
      /\ New.src = 1
  BY NewSound
<1>3. TypeOK
  BY <1>2, StreamAssumption DEF Init, TypeOK
<1>4. OpeningSound /\ Allocated
  BY <1>2 DEF Init, OpeningSound, Acquired, Allocated, Calls
<1>5. FeedSound
  BY <1>2 DEF Init, FeedSound, Unused
<1>6. stream = New /\ pc = "idle"
  BY DEF Init
<1>7. Conserved(stream) /\ PacketsSound
  BY <1>6, UnusedSound, Zenon DEF PacketsSound
<1>8. EndsForAReason
  BY DEF Init, EndsForAReason
<1>9. QED
  BY <1>3, <1>4, <1>5, <1>7, <1>8 DEF IInv

LEMMA NewStreamStep ==
  ASSUME IInv, NewStream
  PROVE  IInv'
<1> DEFINE o == [New EXCEPT !.res = {"stream"}]
<1>1. o \in StreamType /\ Unused(o) /\ o.res = {"stream"}
  <2>1. {"stream"} \in SUBSET Resources
    BY DEF Resources
  <2>2. o \in StreamType /\ o.res = {"stream"}
    BY <2>1, NewSound DEF StreamType
  <2>3. Unused(o)
    BY NewSound DEF Unused, StreamType
  <2>4. QED
    BY <2>2, <2>3
<1>2. opening' = o /\ pc' = "new" /\ UNCHANGED <<state, stream, lost, trouble>>
      /\ live' = Plus(live, {"stream", "track"}) /\ pc = "idle"
  BY DEF NewStream
<1>3. opens' \in 0 .. MaxOpens
  BY StreamAssumption DEF NewStream, IInv, TypeOK
<1> HIDE DEF o
<1>4. Acquired("new", o.res)
  BY <1>1 DEF Acquired, Calls
<1>5. Allocated'
  <2>1. SUFFICES ASSUME NEW r \in Resources
                 PROVE  live'[r] = lost[r] + (IF r \in stream.res THEN 1 ELSE 0)
                                           + (IF r \in o.res THEN 1 ELSE 0)
                                           + (IF r = "track" THEN 1 ELSE 0)
    BY <1>2 DEF Allocated
  <2>2. live[r] \in Nat /\ lost[r] \in Nat
    BY DEF IInv, TypeOK
  <2>3. live[r] = lost[r] + (IF r \in stream.res THEN 1 ELSE 0)
    <3>1. opening.res = {}
      BY <1>2 DEF IInv, OpeningSound, Acquired, Calls
    <3>2. QED
      BY <1>2, <2>2, <3>1 DEF IInv, Allocated
  <2>4. live'[r] = live[r] + (IF r \in {"stream", "track"} THEN 1 ELSE 0)
    BY <1>2 DEF Plus
  <2>5. QED
    BY <1>1, <2>2, <2>3, <2>4
<1>6. live' = [r \in Resources |-> live'[r]]
  BY <1>2 DEF Plus
<1>7. QED
  BY <1>1, <1>2, <1>3, <1>4, <1>5, <1>6, OpeningStep DEF Calls

(* What Refused(R) frees.                                                  *)
LEMMA RefusedStep ==
  ASSUME IInv, pc \in Calls, NEW R, R = IF pc = "new" THEN {"track"} ELSE {},
         Refused(R)
  PROVE  IInv'
<1>1. /\ live' = Minus(Minus(live, R), opening.res) /\ pc' = "idle" /\ opening' = New
      /\ UNCHANGED <<state, stream, opens, lost, trouble>>
  BY DEF Refused
<1>2. live' = [r \in Resources |-> live'[r]]
  BY <1>1 DEF Minus
<1>3. \A r \in Resources :
        live'[r] = live[r] - (IF pc = "new" /\ r = "track" THEN 1 ELSE 0)
                           - (IF r \in opening.res THEN 1 ELSE 0)
  BY <1>1 DEF Minus
<1>4. QED
  BY <1>1, <1>2, <1>3, GivenUp

(* How what is allocated grows with the stream.                            *)
LEMMA AllocatedGrown ==
  ASSUME IInv, pc \in Calls, pc' \in Calls \ {"new"}, lost' = lost, stream' = stream,
         NEW R \in SUBSET Resources, opening'.res = opening.res \cup R,
         R \cap opening.res = {},
         live' = Plus(live, IF pc = "new" THEN R \ {"track"} ELSE R),
         pc = "new" => "track" \in R
  PROVE  Allocated' /\ live' = [r \in Resources |-> live'[r]]
<1>1. live' = [r \in Resources |-> live'[r]]
  BY DEF Plus
<1>2. ASSUME NEW r \in Resources
      PROVE  live'[r] = lost[r] + (IF r \in stream.res THEN 1 ELSE 0)
                                + (IF r \in opening'.res THEN 1 ELSE 0)
  <2>1. live[r] \in Nat /\ lost[r] \in Nat
    BY DEF IInv, TypeOK
  <2>2. live[r] = lost[r] + (IF r \in stream.res THEN 1 ELSE 0)
                          + (IF r \in opening.res THEN 1 ELSE 0)
                          + (IF pc = "new" /\ r = "track" THEN 1 ELSE 0)
    BY DEF IInv, Allocated
  <2>3. CASE pc = "new"
    <3>1. live'[r] = live[r] + (IF r \in R \ {"track"} THEN 1 ELSE 0)
      BY <2>3 DEF Plus
    <3>2. QED
      BY <2>1, <2>2, <2>3, <3>1
  <2>4. CASE pc # "new"
    <3>1. live'[r] = live[r] + (IF r \in R THEN 1 ELSE 0)
      BY <2>4 DEF Plus
    <3>2. QED
      BY <2>1, <2>2, <2>4, <3>1
  <2>5. QED
    BY <2>3, <2>4
<1>3. Allocated'
  <2>1. \A r \in Resources : lost[r] \in Nat
    BY DEF IInv, TypeOK
  <2>2. QED
    BY <1>2, <2>1 DEF Allocated
<1>4. QED
  BY <1>1, <1>3

(* All that is known of the stream method_open works on.                   *)
LEMMA OpeningFacts ==
  ASSUME IInv
  PROVE  /\ opening \in StreamType /\ Unused(opening) /\ Acquired(pc, opening.res)
         /\ opens \in 0 .. MaxOpens /\ opening.res \in SUBSET Resources
         /\ pc \in {"coded", "remuxed"} => Direct(opening)
<1>1. opening \in StreamType /\ opens \in 0 .. MaxOpens
  BY DEF IInv, TypeOK
<1>2. opening.res \in SUBSET Resources
  BY <1>1 DEF StreamType
<1>3. QED
  BY <1>1, <1>2 DEF IInv, OpeningSound

LEMMA StreamOpenStep ==
  ASSUME IInv, StreamOpen
  PROVE  IInv'
<1>1. CASE pc = "new" /\ Refused({"track"})
  BY <1>1, RefusedStep DEF Calls
<1>2. ASSUME NEW cue \in BOOLEAN, NEW src \in SrcRates,
             NEW p \in IF cue THEN {0} \cup Near(TrackStart) ELSE {0},
             Step("new", "opened",
                  [opening EXCEPT !.res = @ \cup {"track", "source"},
                                  !.cue = cue, !.pos = p, !.src = src]),
             live' = Plus(live, {"source"})
      PROVE  IInv'
  <2> DEFINE res == opening.res \cup {"track", "source"}
             o == [opening EXCEPT !.res = res, !.cue = cue, !.pos = p, !.src = src]
  <2>1. /\ pc = "new" /\ pc' = "opened" /\ opening' = o
        /\ UNCHANGED <<state, stream, opens, lost, trouble>>
    BY <1>2 DEF Step
  <2>2. opening \in StreamType /\ Unused(opening) /\ opening.res = {"stream"}
    BY <2>1, OpeningFacts DEF Acquired
  <2>3. p \in 0 .. Length /\ src \in Nat \ {0} /\ res \in SUBSET Resources
        /\ res = Source
    BY <2>2, StreamAssumption DEF Near, Resources, Source
  <2> HIDE DEF res
  <2>4. o \in StreamType /\ o.res = res
    BY <2>2, <2>3 DEF StreamType
  <2>5. Unused(o)
    BY <2>2 DEF Unused, StreamType
  <2> HIDE DEF o
  <2>6. Acquired("opened", o.res)
    BY <2>3, <2>4 DEF Acquired, Calls
  <2>7. Allocated' /\ live' = [r \in Resources |-> live'[r]]
    <3>1. opening'.res = opening.res \cup {"track", "source"}
      BY <2>1, <2>4 DEF res
    <3>2. {"track", "source"} \in SUBSET Resources
          /\ {"track", "source"} \ {"track"} = {"source"}
      BY DEF Resources
    <3>3. live' = Plus(live, IF pc = "new" THEN {"track", "source"} \ {"track"}
                                           ELSE {"track", "source"})
      BY <1>2, <2>1, <3>2
    <3>4. {"track", "source"} \cap opening.res = {} /\ "track" \in {"track", "source"}
      BY <2>2
    <3>5. QED
      BY <2>1, <3>1, <3>2, <3>3, <3>4, AllocatedGrown DEF Calls
  <2>8. opens' \in 0 .. MaxOpens
    BY <2>1, OpeningFacts
  <2>9. QED
    BY <2>1, <2>4, <2>5, <2>6, <2>7, <2>8, OpeningStep DEF Calls
<1>3. QED
  BY <1>1, <1>2 DEF StreamOpen

LEMMA TranscodeStep ==
  ASSUME IInv, NEW rate \in Nat, Transcode(rate)
  PROVE  IInv'
<1>1. PICK differ \in FormatsDiffer :
        LET codecs == {"decoder", "encoder"} \cup
                      IF differ \/ rate # opening.src THEN {"resampler"} ELSE {}
        IN  /\ rate # 0
            /\ Step("opened", "coded",
                    [opening EXCEPT !.res = @ \cup codecs \cup {"buffers"},
                                    !.dst_rate = rate])
            /\ live' = Plus(live, codecs \cup {"buffers"})
  BY DEF Transcode
<1> DEFINE R == {"decoder", "encoder", "buffers"} \cup
                IF differ \/ rate # opening.src THEN {"resampler"} ELSE {}
           res == opening.res \cup R
           o == [opening EXCEPT !.res = res, !.dst_rate = rate]
<1>2. /\ rate # 0 /\ pc = "opened" /\ pc' = "coded" /\ opening' = o
      /\ UNCHANGED <<state, stream, opens, lost, trouble>>
      /\ live' = Plus(live, R)
  <2> DEFINE codecs == {"decoder", "encoder"} \cup
                       IF differ \/ rate # opening.src THEN {"resampler"} ELSE {}
  <2>1. codecs \cup {"buffers"} = R /\ opening.res \cup codecs \cup {"buffers"} = res
    OBVIOUS
  <2>2. /\ rate # 0
        /\ Step("opened", "coded",
                [opening EXCEPT !.res = opening.res \cup codecs \cup {"buffers"},
                                !.dst_rate = rate])
        /\ live' = Plus(live, codecs \cup {"buffers"})
    BY <1>1, Zenon
  <2> HIDE DEF codecs, R, res
  <2>3. QED
    BY <2>1, <2>2 DEF Step
<1>3. opening \in StreamType /\ Unused(opening) /\ opening.res = Source
  BY <1>2, OpeningFacts DEF Acquired
<1>4. R \in SUBSET Resources /\ R \ {"resampler"} = Codecs
      /\ R \cap opening.res = {} /\ ("resampler" \notin R => rate = opening.src)
  BY <1>3 DEF Resources, Codecs, Source
<1> HIDE DEF R
<1>5. res \in SUBSET Resources /\ res \ {"resampler"} = Source \cup Codecs
      /\ ("resampler" \notin res => rate = opening.src)
  BY <1>3, <1>4 DEF Resources, Source
<1> HIDE DEF res
<1>6. o \in StreamType /\ o.res = res
  BY <1>2, <1>3, <1>5 DEF StreamType
<1>7. Unused(o)
  BY <1>3 DEF Unused, StreamType
<1>8. Direct(o)
  BY <1>3, <1>5 DEF Direct, StreamType
<1> HIDE DEF o
<1>9. Acquired("coded", o.res)
  BY <1>5, <1>6 DEF Acquired, Calls
<1>10. Allocated' /\ live' = [r \in Resources |-> live'[r]]
  <2>1. opening'.res = opening.res \cup R
    BY <1>2, <1>6 DEF res
  <2>2. QED
    BY <1>2, <1>4, <2>1, AllocatedGrown DEF Calls
<1>11. opens' \in 0 .. MaxOpens
  BY <1>2, OpeningFacts
<1>12. QED
  BY <1>2, <1>6, <1>7, <1>8, <1>9, <1>10, <1>11, OpeningStep DEF Calls

(* The label fail of stream_transcode leaves none of the three behind.     *)
LEMMA TranscodeFailsStep ==
  ASSUME IInv, TranscodeFails
  PROVE  IInv'
<1>1. PICK R \in SUBSET {"decoder", "encoder", "resampler"} :
        live' = Minus(Plus(live, LeftAfterFail(R)), opening.res)
  BY DEF TranscodeFails
<1>2. /\ pc = "opened" /\ pc' = "idle" /\ opening' = New
      /\ UNCHANGED <<state, stream, opens, lost, trouble>>
  BY DEF TranscodeFails
<1>3. LeftAfterFail(R) = {}
  BY DEF LeftAfterFail
<1>4. live' = [r \in Resources |-> live'[r]]
  BY <1>1 DEF Minus
<1>5. ASSUME NEW r \in Resources
      PROVE  live'[r] = live[r] - (IF pc = "new" /\ r = "track" THEN 1 ELSE 0)
                                - (IF r \in opening.res THEN 1 ELSE 0)
  <2>1. live[r] \in Nat
    BY DEF IInv, TypeOK
  <2>2. Plus(live, {})[r] = live[r]
    BY <2>1 DEF Plus
  <2>3. live'[r] = live[r] - (IF r \in opening.res THEN 1 ELSE 0)
    BY <1>1, <1>3, <2>2 DEF Minus
  <2>4. QED
    BY <1>2, <2>1, <2>3
<1>6. QED
  BY <1>2, <1>4, <1>5, GivenUp DEF Calls

LEMMA StreamTranscodeStep ==
  ASSUME IInv, StreamTranscode
  PROVE  IInv'
<1>1. opening.src \in Nat
  BY OpeningFacts DEF StreamType
<1>2. FindSampleRate(opening.src) \in Nat
  BY <1>1, RateFound
<1>3. QED
  BY <1>2, TranscodeStep, TranscodeFailsStep DEF StreamTranscode

LEMMA StreamRemuxStep ==
  ASSUME IInv, StreamRemux
  PROVE  IInv'
<1>1. CASE pc = "coded" /\ Refused({})
  BY <1>1, RefusedStep DEF Calls
<1>2. CASE /\ Step("coded", "remuxed", [opening EXCEPT !.res = @ \cup {"output"}])
           /\ live' = Plus(live, {"output"})
  <2> DEFINE res == opening.res \cup {"output"}
             o == [opening EXCEPT !.res = res]
  <2>1. /\ pc = "coded" /\ pc' = "remuxed" /\ opening' = o
        /\ UNCHANGED <<state, stream, opens, lost, trouble>>
    BY <1>2 DEF Step
  <2>2. /\ opening \in StreamType /\ Unused(opening) /\ Direct(opening)
        /\ opening.res \ {"resampler"} = Source \cup Codecs
        /\ opening.res \in SUBSET Resources
    BY <2>1, OpeningFacts DEF Acquired
  <2>3. res \in SUBSET Resources /\ "output" \notin opening.res
        /\ res \ {"resampler"} = Source \cup Codecs \cup {"output"}
    BY <2>2 DEF Resources, Source, Codecs
  <2>4. "resampler" \notin res => "resampler" \notin opening.res
    OBVIOUS
  <2> HIDE DEF res
  <2>5. o \in StreamType /\ o.res = res
    BY <2>2, <2>3 DEF StreamType
  <2>6. Unused(o)
    BY <2>2 DEF Unused, StreamType
  <2>7. Direct(o)
    BY <2>2, <2>4 DEF Direct, StreamType
  <2> HIDE DEF o
  <2>8. Acquired("remuxed", o.res)
    BY <2>3, <2>5 DEF Acquired, Calls
  <2>9. Allocated' /\ live' = [r \in Resources |-> live'[r]]
    <3>1. opening'.res = opening.res \cup {"output"}
      BY <2>1, <2>5 DEF res
    <3>2. {"output"} \in SUBSET Resources /\ {"output"} \cap opening.res = {}
      BY <2>3 DEF Resources
    <3>3. QED
      BY <1>2, <2>1, <3>1, <3>2, AllocatedGrown DEF Calls
  <2>10. opens' \in 0 .. MaxOpens
    BY <2>1, OpeningFacts
  <2>11. QED
    BY <2>1, <2>5, <2>6, <2>7, <2>8, <2>9, <2>10, OpeningStep DEF Calls
<1>3. QED
  BY <1>1, <1>2 DEF StreamRemux

(* The stream is handed to the connection; the one before it is lost.      *)
LEMMA ServeStep ==
  ASSUME IInv, pc = "remuxed", NEW p \in 0 .. Length, Serve(p)
  PROVE  IInv'
<1> DEFINE s == [opening EXCEPT !.pos = p]
<1>1. /\ stream' = s /\ lost' = Plus(lost, stream.res) /\ pc' = "idle"
      /\ state' = "feed" /\ opening' = New /\ trouble' = "none"
      /\ live' = live /\ opens' = opens
  BY DEF Serve
<1>2. /\ opening \in StreamType /\ Unused(opening) /\ Direct(opening)
      /\ opening.res \ {"resampler"} = Source \cup Codecs \cup {"output"}
      /\ opens \in 0 .. MaxOpens
  BY OpeningFacts DEF Acquired
<1>3. s \in StreamType /\ Unused(s) /\ Direct(s) /\ s.res = opening.res
  BY <1>2 DEF StreamType, Unused, Direct
<1> HIDE DEF s
<1>4. OpeningSound'
  BY <1>1, NewSound DEF OpeningSound, Unused, Acquired, Calls
<1>5. lost' \in [Resources -> Nat]
  <2>1. lost \in [Resources -> Nat]
    BY DEF IInv, TypeOK
  <2>2. \A r \in Resources : lost[r] + (IF r \in stream.res THEN 1 ELSE 0) \in Nat
    BY <2>1
  <2>3. QED
    BY <1>1, <2>2 DEF Plus
<1>6. Allocated'
  <2>1. SUFFICES ASSUME NEW r \in Resources
                 PROVE  live[r] = lost'[r] + (IF r \in s.res THEN 1 ELSE 0)
    <3>1. \A r \in Resources : lost'[r] \in Nat
      BY <1>5
    <3>2. QED
      BY <1>1, <3>1, NewSound DEF Allocated
  <2>2. live[r] \in Nat /\ lost[r] \in Nat
    BY DEF IInv, TypeOK
  <2>3. live[r] = lost[r] + (IF r \in stream.res THEN 1 ELSE 0)
                          + (IF r \in opening.res THEN 1 ELSE 0)
    BY <2>2 DEF IInv, Allocated
  <2>4. lost'[r] = lost[r] + (IF r \in stream.res THEN 1 ELSE 0)
    BY <1>1 DEF Plus
  <2>5. QED
    BY <1>3, <2>2, <2>3, <2>4
<1>7. TypeOK'
  <2>1. live' \in [Resources -> Nat]
    BY <1>1 DEF IInv, TypeOK
  <2>2. QED
    BY <1>1, <1>2, <1>3, <1>5, <2>1, NewSound DEF TypeOK
<1>8. Conserved(stream)'
  <2>1. Conserved(s)
    <3>1. s.src \in Nat \ {0} /\ s.dst_rate \in Nat \ {0} /\ FrameSize \in Nat
      BY <1>3, StreamAssumption DEF StreamType
    <3>2. /\ s.decoded = 0 /\ s.fifo = 0 /\ s.frames = 0 /\ s.backlog = 0
          /\ s.failed = 0 /\ MaxDelay \in Nat
      BY <1>3, StreamAssumption DEF Unused
    <3> DEFINE src == s.src
               dst == s.dst_rate
               bound == (MaxDelay + 1) * src
    <3>3. 0 < bound
      BY <3>1, <3>2
    <3>4. 0 * dst = (0 + FrameSize * 0) * src + 0 + 0 * dst
      BY <3>1
    <3>5. QED
      BY <3>2, <3>3, <3>4 DEF Conserved
  <2>2. QED
    BY <1>1, <2>1 DEF Conserved
<1>9. FeedSound'
  <2>1. "stream" \in s.res
    BY <1>2, <1>3 DEF Source
  <2>2. s.bad = 0 /\ s.error_counter = 0 /\ MaxErrors \in Nat
    BY <1>3, StreamAssumption DEF Unused
  <2>3. QED
    BY <1>1, <1>3, <2>1, <2>2 DEF FeedSound, Direct
<1>10. PacketsSound'
  <2>1. Stale(<<>>) = {} /\ Numbered(<<>>) /\ Newest(<<>>) = 0
    BY DEF Stale, Numbered, Newest
  <2>2. Cardinality({}) = 0
    BY FS_EmptySet
  <2>3. stream'.muxed = <<>> /\ stream'.held = 0 /\ stream'.frames = 0 /\ stream'.dst = 0
    BY <1>1, <1>3 DEF Unused
  <2>4. Given(stream)' /\ Cardinality(Stale(stream.muxed))' = 0 /\ Numbered(stream.muxed)'
    BY <2>1, <2>2, <2>3 DEF Given, Stale, Numbered, Newest
  <2>5. QED
    BY <1>1, <2>3, <2>4 DEF PacketsSound
<1>11. EndsForAReason'
  BY <1>1 DEF EndsForAReason
<1>12. QED
  BY <1>4, <1>6, <1>7, <1>8, <1>9, <1>10, <1>11 DEF IInv

LEMMA StartFeedStep ==
  ASSUME IInv, StartFeed
  PROVE  IInv'
<1>1. pc = "remuxed"
  BY DEF StartFeed
<1>2. CASE Serve(opening.pos)
  <2>1. opening.pos \in 0 .. Length
    BY OpeningFacts DEF StreamType
  <2>2. QED
    BY <1>1, <1>2, <2>1, ServeStep
<1>3. ASSUME NEW t, NEW p \in Near(t), Serve(p)
      PROVE  IInv'
  BY <1>1, <1>3, ServeStep DEF Near
<1>4. CASE Refused({})
  BY <1>1, <1>4, RefusedStep DEF Calls
<1>5. QED
  BY <1>2, <1>3, <1>4 DEF StartFeed

-----------------------------------------------------------------------------
(* Every step preserves the invariant: stream_next and http_close.         *)

(* All that is known of http->stream in stream_next.                       *)
LEMMA StreamFacts ==
  ASSUME IInv
  PROVE  /\ stream \in StreamType /\ Conserved(stream)
         /\ stream.bad = stream.error_counter /\ stream.held <= stream.frames
         /\ Numbered(stream.muxed) /\ stream.muxed \in Seq(Packets)
         /\ Cardinality(Stale(stream.muxed)) <= stream.held
         /\ pc \in {"fill", "mux"} =>
              /\ state = "feed" /\ trouble = "none" /\ "stream" \in stream.res
              /\ Direct(stream) /\ stream.error_counter <= MaxErrors
         /\ pc = "fill" => Given(stream)
         /\ pc = "mux" => Due(stream)
<1>1. stream \in StreamType
  BY DEF IInv, TypeOK
<1>2. stream.muxed \in Seq(Packets)
  BY <1>1 DEF StreamType, Packets
<1>3. QED
  BY <1>1, <1>2 DEF IInv, FeedSound, PacketsSound

(* A step of stream_next that changes the stream only, to s.               *)
LEMMA StreamStep ==
  ASSUME IInv, pc \in {"fill", "mux"}, pc' \in {"idle", "fill", "mux"},
         NEW s \in StreamType, stream' = s, s.res = stream.res, s.src = stream.src,
         s.dst_rate = stream.dst_rate, Conserved(s), s.bad = s.error_counter,
         UNCHANGED <<opening, live, opens, lost>>,
         state' \in {"feed", "drain"}, pc' \in {"fill", "mux"} => state' = "feed",
         trouble' \in {"none", "read", "decode", "encode", "mux"},
         state' = "feed" => trouble' = "none" /\ s.error_counter <= MaxErrors,
         s.held <= s.frames, Numbered(s.muxed), Cardinality(Stale(s.muxed)) <= s.held,
         trouble' \notin {"mux", "encode"} /\ pc' # "mux" => Given(s),
         pc' = "mux" => Due(s), EndsForAReason'
  PROVE  IInv'
<1>1. OpeningSound' /\ Allocated'
  BY OpeningKept DEF Calls
<1>2. TypeOK'
  BY DEF IInv, TypeOK
<1>3. Conserved(stream)'
  BY DEF Conserved
<1>4. FeedSound'
  <2>1. "stream" \in s.res /\ Direct(s)
    BY StreamFacts DEF Direct
  <2>2. QED
    BY <2>1 DEF FeedSound, Direct
<1>5. PacketsSound'
  BY DEF PacketsSound, Numbered, Stale, Given, Due, Newest
<1>6. QED
  BY <1>1, <1>2, <1>3, <1>4, <1>5 DEF IInv

(* decode_next leaves the packets alone: the stream becomes s.             *)
LEMMA DecodeStep ==
  ASSUME IInv, pc = "fill", pc' \in {"idle", "fill"},
         NEW s \in StreamType, stream' = s, s.res = stream.res, s.src = stream.src,
         s.dst_rate = stream.dst_rate, Conserved(s), s.bad = s.error_counter,
         s.dst = stream.dst, s.frames = stream.frames, s.held = stream.held,
         s.muxed = stream.muxed, UNCHANGED <<opening, live, opens, lost>>,
         pc' = "fill" => UNCHANGED <<state, trouble>> /\ s.error_counter <= MaxErrors,
         pc' = "idle" => state' = "drain" /\ trouble' \in {"none", "read", "decode"},
         EndsForAReason'
  PROVE  IInv'
<1>1. Given(s)
  BY StreamFacts DEF Given
<1>2. state = "feed" /\ trouble = "none"
  BY StreamFacts
<1>3. s.held <= s.frames /\ Numbered(s.muxed) /\ Cardinality(Stale(s.muxed)) <= s.held
  BY StreamFacts
<1>4. QED
  BY <1>1, <1>2, <1>3, StreamStep

LEMMA ReadNothingStep ==
  ASSUME IInv, pc = "fill", stream.fifo < FrameSize, ReadNothing
  PROVE  IInv'
<1>1. CASE Ends("read", stream)
  <2>1. /\ pc' = "idle" /\ state' = "drain" /\ trouble' = "read" /\ stream' = stream
        /\ UNCHANGED <<opening, live, opens, lost>>
    BY <1>1 DEF Ends, GiveUp
  <2>2. EndsForAReason'
    BY <2>1 DEF EndsForAReason
  <2>3. QED
    BY <2>1, <2>2, StreamFacts, DecodeStep
<1>2. CASE stream.pos = Length /\ Ends("none", stream)
  <2>1. /\ pc' = "idle" /\ state' = "drain" /\ trouble' = "none" /\ stream' = stream
        /\ UNCHANGED <<opening, live, opens, lost>>
    BY <1>2 DEF Ends, GiveUp
  <2>2. EndsForAReason'
    BY <1>2, <2>1 DEF EndsForAReason
  <2>3. QED
    BY <2>1, <2>2, StreamFacts, DecodeStep
<1>3. CASE /\ stream.pos < Length /\ PastTrack(stream)
           /\ Ends("none", [stream EXCEPT !.pos = @ + 1])
  <2> DEFINE at == stream.pos + 1
             s == [stream EXCEPT !.pos = at]
  <2>1. /\ pc' = "idle" /\ state' = "drain" /\ trouble' = "none" /\ stream' = s
        /\ UNCHANGED <<opening, live, opens, lost>>
    BY <1>3 DEF Ends, GiveUp
  <2>2. stream \in StreamType /\ stream.pos \in 0 .. Length
    BY StreamFacts DEF StreamType
  <2>3. at \in 0 .. Length /\ stream.cue /\ at > TrackEnd
    BY <1>3, <2>2, StreamAssumption DEF PastTrack
  <2> HIDE DEF at
  <2>4. /\ s \in StreamType /\ s.res = stream.res /\ s.src = stream.src
        /\ s.dst_rate = stream.dst_rate /\ s.bad = stream.bad
        /\ s.error_counter = stream.error_counter /\ s.dst = stream.dst
        /\ s.frames = stream.frames /\ s.held = stream.held /\ s.muxed = stream.muxed
        /\ s.decoded = stream.decoded /\ s.failed = stream.failed /\ s.fifo = stream.fifo
        /\ s.backlog = stream.backlog /\ s.pos = at /\ s.cue = stream.cue
    BY <2>2, <2>3 DEF StreamType
  <2> HIDE DEF s
  <2>5. Conserved(s)
    BY <2>2, <2>4, StreamFacts, ConservedSame
  <2>6. EndsForAReason'
    BY <2>1, <2>3, <2>4 DEF EndsForAReason
  <2>7. s.bad = s.error_counter
    BY <2>4, StreamFacts
  <2>8. QED
    BY <2>1, <2>4, <2>5, <2>6, <2>7, DecodeStep
<1>4. QED
  BY <1>1, <1>2, <1>3 DEF ReadNothing

(* A packet is read: only the position, the error counters and the samples *)
(* of the stream can change.                                               *)
LEMMA DecodeOn ==
  ASSUME IInv, pc = "fill", NEW s \in StreamType, Continue("fill", s),
         s.res = stream.res, s.src = stream.src,
         s.dst_rate = stream.dst_rate, Conserved(s), s.bad = s.error_counter,
         s.dst = stream.dst, s.frames = stream.frames, s.held = stream.held,
         s.muxed = stream.muxed, s.error_counter <= MaxErrors
  PROVE  IInv'
<1>1. /\ pc' = "fill" /\ stream' = s
      /\ UNCHANGED <<state, opening, live, opens, lost, trouble>>
  BY DEF Continue
<1>2. state = "feed"
  BY StreamFacts
<1>3. EndsForAReason'
  BY <1>1, <1>2 DEF EndsForAReason
<1>4. QED
  BY <1>1, <1>3, DecodeStep

LEMMA ReadOtherStep ==
  ASSUME IInv, pc = "fill", ReadOther
  PROVE  IInv'
<1> DEFINE at == stream.pos + 1
           s == [stream EXCEPT !.pos = at]
<1>1. stream.pos < Length /\ Continue("fill", s)
  BY DEF ReadOther
<1>2. stream \in StreamType /\ stream.pos \in 0 .. Length
  BY StreamFacts DEF StreamType
<1>3. at \in 0 .. Length
  BY <1>1, <1>2, StreamAssumption
<1> HIDE DEF at
<1>4. /\ s \in StreamType /\ s.res = stream.res /\ s.src = stream.src
      /\ s.dst_rate = stream.dst_rate /\ s.bad = stream.bad
      /\ s.error_counter = stream.error_counter /\ s.dst = stream.dst
      /\ s.frames = stream.frames /\ s.held = stream.held /\ s.muxed = stream.muxed
      /\ s.decoded = stream.decoded /\ s.failed = stream.failed /\ s.fifo = stream.fifo
      /\ s.backlog = stream.backlog
  BY <1>2, <1>3 DEF StreamType
<1> HIDE DEF s
<1>5. Conserved(s)
  BY <1>2, <1>4, StreamFacts, ConservedSame
<1>6. s.bad = s.error_counter /\ s.error_counter <= MaxErrors
  BY <1>4, StreamFacts
<1>7. QED
  BY <1>1, <1>4, <1>5, <1>6, DecodeOn

(* The process dies: nothing is left of what it had.                       *)
LEMMA DiesStep ==
  ASSUME IInv, Dies
  PROVE  IInv'
<1>1. /\ pc' = "idle" /\ state' = "closed" /\ opening' = New /\ stream' = New
      /\ live' = [r \in Resources |-> 0] /\ lost' = [r \in Resources |-> 0]
      /\ opens' = opens /\ trouble' = trouble
  BY DEF Dies
<1>2. New \in StreamType /\ Unused(New) /\ New.res = {} /\ New.dst_rate = 1
      /\ New.src = 1
  BY NewSound
<1>3. TypeOK'
  BY <1>1, <1>2 DEF IInv, TypeOK
<1>4. OpeningSound' /\ Allocated'
  BY <1>1, <1>2 DEF OpeningSound, Acquired, Allocated, Calls
<1>5. Conserved(stream)' /\ PacketsSound'
  BY <1>1, UnusedSound, Zenon DEF PacketsSound
<1>6. FeedSound'
  BY <1>1, <1>2 DEF FeedSound, Unused
<1>7. EndsForAReason'
  BY <1>1 DEF EndsForAReason
<1>8. QED
  BY <1>3, <1>4, <1>5, <1>6, <1>7 DEF IInv

LEMMA DecodeActionStep ==
  ASSUME IInv, pc = "fill", stream.fifo < FrameSize, Decode
  PROVE  IInv'
<1> DEFINE at == stream.pos + 1
           more == stream.error_counter + 1
           worse == stream.bad + 1
           s == [stream EXCEPT !.pos = at]
           failed == [s EXCEPT !.error_counter = more, !.bad = worse]
<1>1. stream.pos < Length
  BY DEF Decode
<1>2. /\ stream \in StreamType /\ stream.pos \in 0 .. Length /\ Conserved(stream)
      /\ stream.error_counter \in 0 .. MaxErrors /\ stream.bad = stream.error_counter
      /\ Direct(stream) /\ MaxErrors \in Nat
  BY StreamFacts, StreamAssumption DEF StreamType
<1>3. at \in 0 .. Length /\ more \in 0 .. MaxErrors + 1 /\ worse \in Nat /\ worse = more
  <2>1. Length \in Nat
    BY StreamAssumption
  <2>2. at \in 0 .. Length
    BY <1>1, <1>2, <2>1
  <2>3. QED
    BY <1>2, <2>2
<1>4. \/ IF failed.error_counter > MaxErrors THEN Ends("decode", failed)
                                              ELSE Continue("fill", failed)
      \/ Continue("fill", Recovered(s))
      \/ \E n \in 1 .. MaxSamples : \E u \in Buffered(Recovered(s), n) : Continue("fill", u)
      \/ Dies
  <2>1. s.error_counter = stream.error_counter /\ s.bad = stream.bad
    BY <1>2 DEF StreamType
  <2>2. [s EXCEPT !.error_counter = @ + 1, !.bad = @ + 1] = failed
    BY <2>1
  <2>3. QED
    BY <2>2, Zenon DEF Decode
<1> HIDE DEF at, more, worse
<1>5. /\ s \in StreamType /\ s.res = stream.res /\ s.src = stream.src
      /\ s.dst_rate = stream.dst_rate /\ s.dst = stream.dst
      /\ s.frames = stream.frames /\ s.held = stream.held /\ s.muxed = stream.muxed
      /\ s.decoded = stream.decoded /\ s.failed = stream.failed /\ s.fifo = stream.fifo
      /\ s.backlog = stream.backlog
  BY <1>2, <1>3 DEF StreamType
<1> HIDE DEF s
<1>6. CASE IF failed.error_counter > MaxErrors THEN Ends("decode", failed)
                                               ELSE Continue("fill", failed)
  <2>1. /\ failed \in StreamType /\ failed.res = stream.res /\ failed.src = stream.src
        /\ failed.dst_rate = stream.dst_rate /\ failed.dst = stream.dst
        /\ failed.frames = stream.frames /\ failed.held = stream.held
        /\ failed.muxed = stream.muxed /\ failed.decoded = stream.decoded /\ failed.failed = stream.failed
        /\ failed.fifo = stream.fifo /\ failed.backlog = stream.backlog
        /\ failed.error_counter = more /\ failed.bad = more
    BY <1>3, <1>5 DEF StreamType
  <2> HIDE DEF failed
  <2>2. Conserved(failed)
    BY <1>2, <2>1, ConservedSame
  <2>3. CASE more > MaxErrors
    <3>1. /\ pc' = "idle" /\ state' = "drain" /\ trouble' = "decode" /\ stream' = failed
          /\ UNCHANGED <<opening, live, opens, lost>>
      BY <1>6, <2>1, <2>3 DEF Ends, GiveUp
    <3>2. EndsForAReason'
      BY <2>1, <2>3, <3>1 DEF EndsForAReason
    <3>3. QED
      BY <2>1, <2>2, <3>1, <3>2, DecodeStep
  <2>4. CASE ~(more > MaxErrors)
    <3>1. Continue("fill", failed) /\ more <= MaxErrors
      BY <1>2, <1>3, <1>6, <2>1, <2>4
    <3>2. QED
      BY <2>1, <2>2, <3>1, DecodeOn
  <2>5. QED
    BY <2>3, <2>4
<1> DEFINE t == Recovered(s)
<1>7. /\ t \in StreamType /\ t.res = stream.res /\ t.src = stream.src
      /\ t.dst_rate = stream.dst_rate /\ t.dst = stream.dst
      /\ t.frames = stream.frames /\ t.held = stream.held /\ t.muxed = stream.muxed
      /\ t.decoded = stream.decoded /\ t.failed = stream.failed /\ t.fifo = stream.fifo
      /\ t.backlog = stream.backlog /\ t.error_counter = 0 /\ t.bad = 0
  <2>1. 0 \in 0 .. MaxErrors + 1 /\ 0 \in Nat
    BY <1>2
  <2>2. t = [s EXCEPT !.error_counter = 0, !.bad = 0]
    BY DEF Recovered
  <2> HIDE DEF t
  <2>3. QED
    BY <1>5, <2>1, <2>2 DEF StreamType
<1> HIDE DEF t
<1>8. Conserved(t) /\ Direct(t)
  BY <1>2, <1>7, ConservedSame DEF Direct
<1>9. CASE Continue("fill", t)
  BY <1>2, <1>7, <1>8, <1>9, DecodeOn
<1>10. ASSUME NEW n \in 1 .. MaxSamples, NEW u \in Buffered(t, n), Continue("fill", u)
       PROVE  IInv'
  <2>1. n \in Nat
    BY StreamAssumption
  <2>2. /\ u \in StreamType /\ Conserved(u) /\ u.res = t.res /\ u.src = t.src
        /\ u.dst_rate = t.dst_rate /\ u.error_counter = t.error_counter
        /\ u.dst = t.dst /\ u.bad = t.bad /\ u.frames = t.frames /\ u.held = t.held
        /\ u.muxed = t.muxed
    BY <1>7, <1>8, <2>1, BufferedSound
  <2>3. QED
    BY <1>2, <1>7, <1>10, <2>2, DecodeOn
<1>11. CASE Dies
  BY <1>11, DiesStep
<1>12. QED
  BY <1>4, <1>6, <1>9, <1>10, <1>11 DEF t

LEMMA EncodeNextStep ==
  ASSUME IInv, EncodeNext
  PROVE  IInv'
<1> DEFINE fifo == stream.fifo - FrameSize
           frames == stream.frames + 1
           more == stream.held + 1
           next == frames - stream.held
           s == [stream EXCEPT !.fifo = fifo, !.frames = frames]
           failed == [s EXCEPT !.fresh = FALSE]
           held == [s EXCEPT !.fresh = FALSE, !.held = more]
           got == [s EXCEPT !.fresh = TRUE, !.dst = next]
<1>1. pc = "fill" /\ stream.fifo >= FrameSize
  BY DEF EncodeNext
<1>2. /\ stream \in StreamType /\ Conserved(stream) /\ state = "feed"
      /\ trouble = "none" /\ stream.bad = stream.error_counter
      /\ stream.error_counter <= MaxErrors /\ stream.held <= stream.frames
      /\ Numbered(stream.muxed) /\ Cardinality(Stale(stream.muxed)) <= stream.held
      /\ stream.dst = stream.frames - stream.held
      /\ Newest(stream.muxed) = stream.dst
  BY <1>1, StreamFacts DEF Given
<1>3. /\ stream.fifo \in Nat /\ stream.frames \in Nat /\ stream.held \in 0 .. MaxHeld
      /\ stream.dst \in Nat /\ FrameSize \in Nat \ {0} /\ MaxHeld \in Nat
  BY <1>2, StreamAssumption DEF StreamType
<1>4. fifo \in Nat /\ frames \in Nat /\ next \in Nat /\ next = stream.dst + 1
      /\ next # 0 /\ more \in Nat /\ stream.held <= frames /\ more <= frames
      /\ stream.dst = frames - more /\ more = stream.held + 1
  BY <1>1, <1>2, <1>3
<1>5. Taken(stream) = s
  BY DEF Taken
<1>6. s.held = stream.held /\ s.frames = frames /\ s.dst = stream.dst
  BY <1>2 DEF StreamType
<1>7. \/ Ends("encode", failed)
      \/ stream.held < MaxHeld /\ Continue(Ready(held), held)
      \/ Continue(Ready(got), got)
  <2>1. [s EXCEPT !.fresh = FALSE, !.held = @ + 1] = held
    BY <1>6
  <2>2. Got(s) = got
    BY <1>6 DEF Got
  <2>3. \/ Ends("encode", [s EXCEPT !.fresh = FALSE])
        \/ s.held < MaxHeld /\ Continue(Ready(held), held)
        \/ Continue(Ready(Got(s)), Got(s))
    <3> HIDE DEF s
    <3>1. QED
      BY <1>5, <2>1, Zenon DEF EncodeNext
  <2>4. QED
    BY <1>6, <2>2, <2>3
<1> HIDE DEF fifo, frames, more, next
<1>8. /\ s \in StreamType /\ s.res = stream.res /\ s.src = stream.src
      /\ s.dst_rate = stream.dst_rate /\ s.bad = stream.bad
      /\ s.error_counter = stream.error_counter /\ s.muxed = stream.muxed
      /\ s.fifo = fifo /\ s.decoded = stream.decoded /\ s.failed = stream.failed /\ s.backlog = stream.backlog
  BY <1>2, <1>4 DEF StreamType
<1> HIDE DEF s
<1>9. Conserved(s)
  BY <1>1, <1>2, <1>6, <1>8, ConservedTaken DEF fifo, frames
<1>10. CASE Ends("encode", failed)
  <2>1. /\ pc' = "idle" /\ state' = "drain" /\ trouble' = "encode" /\ stream' = failed
        /\ UNCHANGED <<opening, live, opens, lost>>
    BY <1>10 DEF Ends, GiveUp
  <2>2. /\ failed \in StreamType /\ failed.res = s.res /\ failed.src = s.src
        /\ failed.dst_rate = s.dst_rate /\ failed.bad = s.bad
        /\ failed.error_counter = s.error_counter /\ failed.muxed = s.muxed
        /\ failed.held = s.held /\ failed.frames = s.frames /\ failed.decoded = s.decoded /\ failed.failed = s.failed
        /\ failed.backlog = s.backlog /\ failed.fifo = s.fifo
    BY <1>8 DEF StreamType
  <2> HIDE DEF failed
  <2>3. Conserved(failed)
    BY <1>8, <1>9, <2>2, ConservedSame
  <2>4. EndsForAReason'
    BY <2>1 DEF EndsForAReason
  <2>5. /\ failed.bad = failed.error_counter /\ failed.held <= failed.frames
        /\ Numbered(failed.muxed) /\ Cardinality(Stale(failed.muxed)) <= failed.held
    BY <1>2, <1>4, <1>6, <1>8, <2>2
  <2>6. QED
    BY <1>1, <1>8, <2>1, <2>2, <2>3, <2>4, <2>5, StreamStep
<1>11. CASE stream.held < MaxHeld /\ Continue(Ready(held), held)
  <2>1. more \in 0 .. MaxHeld
    BY <1>3, <1>4, <1>11
  <2>2. /\ held \in StreamType /\ held.res = s.res /\ held.src = s.src
        /\ held.dst_rate = s.dst_rate /\ held.bad = s.bad /\ held.fresh = FALSE
        /\ held.error_counter = s.error_counter /\ held.muxed = s.muxed
        /\ held.held = more /\ held.frames = s.frames /\ held.decoded = s.decoded /\ held.failed = s.failed
        /\ held.backlog = s.backlog /\ held.fifo = s.fifo /\ held.dst = s.dst
    BY <1>8, <2>1 DEF StreamType
  <2> HIDE DEF held
  <2>3. /\ pc' = Ready(held) /\ stream' = held
        /\ UNCHANGED <<state, opening, live, opens, lost, trouble>>
    BY <1>11 DEF Continue
  <2>4. Conserved(held)
    BY <1>8, <1>9, <2>2, ConservedSame
  <2>5. EndsForAReason'
    BY <1>2, <2>3 DEF EndsForAReason
  <2>6. Stale(stream.muxed) = Stale(held.muxed) /\ Cardinality(Stale(stream.muxed)) \in Nat
    BY <1>8, <2>2, StreamFacts, StaleCounted
  <2>7. Cardinality(Stale(held.muxed)) + 1 <= held.held
    BY <1>2, <1>3, <1>4, <2>2, <2>6
  <2>8. /\ held.bad = held.error_counter /\ held.held <= held.frames
        /\ Numbered(held.muxed) /\ Cardinality(Stale(held.muxed)) <= held.held
        /\ held.error_counter <= MaxErrors
    BY <1>2, <1>3, <1>4, <1>6, <1>8, <2>2, <2>6, <2>7
  <2>9. Given(held)
    BY <1>2, <1>4, <1>6, <1>8, <2>2 DEF Given
  <2>10. pc' = "mux" => Due(held)
    <3>1. pc' = "mux" => held.dst # 0
      BY <2>3 DEF Ready
    <3>2. held.dst = Newest(held.muxed) + 0
      BY <1>3, <1>6, <2>2, <2>9 DEF Given
    <3>3. QED
      BY <2>2, <2>7, <2>9, <3>1, <3>2 DEF Due, Given
  <2>11. pc' \in {"fill", "mux"}
    BY <2>3 DEF Ready
  <2>12. QED
    BY <1>1, <1>2, <1>8, <2>2, <2>3, <2>4, <2>5, <2>8, <2>9, <2>10, <2>11, StreamStep
<1>12. CASE Continue(Ready(got), got)
  <2>1. /\ got \in StreamType /\ got.res = s.res /\ got.src = s.src
        /\ got.dst_rate = s.dst_rate /\ got.bad = s.bad /\ got.fresh = TRUE
        /\ got.error_counter = s.error_counter /\ got.muxed = s.muxed
        /\ got.held = s.held /\ got.frames = s.frames /\ got.decoded = s.decoded /\ got.failed = s.failed
        /\ got.backlog = s.backlog /\ got.fifo = s.fifo /\ got.dst = next
    BY <1>4, <1>8 DEF StreamType
  <2> HIDE DEF got
  <2>2. /\ pc' = "mux" /\ stream' = got
        /\ UNCHANGED <<state, opening, live, opens, lost, trouble>>
    BY <1>4, <1>12, <2>1 DEF Continue, Ready
  <2>3. Conserved(got)
    BY <1>8, <1>9, <2>1, ConservedSame
  <2>4. EndsForAReason'
    BY <1>2, <2>2 DEF EndsForAReason
  <2>5. /\ got.bad = got.error_counter /\ got.held <= got.frames
        /\ Numbered(got.muxed) /\ Cardinality(Stale(got.muxed)) <= got.held
        /\ got.error_counter <= MaxErrors
    BY <1>2, <1>4, <1>6, <1>8, <2>1
  <2>6. Due(got)
    <3>1. Cardinality(Stale(got.muxed)) + 0 <= got.held
      <4>1. Cardinality(Stale(stream.muxed)) \in Nat
        BY StreamFacts, StaleCounted
      <4>2. QED
        BY <1>8, <2>1, <2>5, <4>1
    <3>2. got.dst = got.frames - got.held /\ got.dst # 0
      BY <1>4, <1>6, <2>1 DEF next
    <3>3. got.dst = Newest(got.muxed) + 1
      BY <1>2, <1>4, <1>8, <2>1
    <3>4. QED
      BY <2>1, <3>1, <3>2, <3>3 DEF Due
  <2>7. QED
    BY <1>1, <1>2, <1>8, <2>1, <2>2, <2>3, <2>4, <2>5, <2>6, StreamStep
<1>13. QED
  BY <1>7, <1>10, <1>11, <1>12

LEMMA MuxNextStep ==
  ASSUME IInv, MuxNext
  PROVE  IInv'
<1> DEFINE m == stream.muxed
           dst == stream.dst
           e == [n |-> dst, fresh |-> stream.fresh]
           w == Append(m, e)
           s == [stream EXCEPT !.muxed = w]
<1>1. pc = "mux" /\ (Ends("mux", stream) \/ Continue("idle", s))
  BY DEF MuxNext
<1>2. /\ stream \in StreamType /\ Conserved(stream) /\ state = "feed"
      /\ trouble = "none" /\ stream.bad = stream.error_counter
      /\ stream.error_counter <= MaxErrors /\ stream.held <= stream.frames
      /\ Numbered(m) /\ m \in Seq(Packets) /\ Cardinality(Stale(m)) <= stream.held
      /\ Due(stream)
  BY <1>1, StreamFacts
<1>3. CASE Ends("mux", stream)
  <2>1. /\ pc' = "idle" /\ state' = "drain" /\ trouble' = "mux" /\ stream' = stream
        /\ UNCHANGED <<opening, live, opens, lost>>
    BY <1>3 DEF Ends, GiveUp
  <2>2. EndsForAReason'
    BY <2>1 DEF EndsForAReason
  <2>3. QED
    BY <1>1, <1>2, <2>1, <2>2, StreamStep
<1>4. CASE Continue("idle", s)
  <2>1. /\ e \in Packets /\ e.n = dst
        /\ e.n = Newest(m) + (IF e.fresh THEN 1 ELSE 0)
        /\ dst = stream.frames - stream.held
        /\ Cardinality(Stale(m)) + (IF e.fresh THEN 0 ELSE 1) <= stream.held
    <3>1. stream.dst \in Nat /\ stream.fresh \in BOOLEAN
      BY <1>2 DEF StreamType
    <3>2. e.n = dst /\ e.fresh = stream.fresh
      OBVIOUS
    <3>3. QED
      BY <1>2, <3>1, <3>2 DEF Due, Packets
  <2> HIDE DEF m, dst, e
  <2>2. /\ w \in Seq(Packets) /\ Numbered(w) /\ Newest(w) = dst
        /\ Cardinality(Stale(w)) = Cardinality(Stale(m)) + (IF e.fresh THEN 0 ELSE 1)
    <3>1. w = Append(m, e) /\ m \in Seq(Packets) /\ Numbered(m)
      BY <1>2
    <3> HIDE DEF w
    <3>2. QED
      BY <2>1, <3>1, Muxed
  <2> HIDE DEF w
  <2>3. /\ s \in StreamType /\ s.res = stream.res /\ s.src = stream.src
        /\ s.dst_rate = stream.dst_rate /\ s.bad = stream.bad
        /\ s.error_counter = stream.error_counter /\ s.muxed = w
        /\ s.held = stream.held /\ s.frames = stream.frames
        /\ s.decoded = stream.decoded /\ s.failed = stream.failed /\ s.backlog = stream.backlog
        /\ s.fifo = stream.fifo /\ s.dst = dst
    <3>1. dst = stream.dst
      BY DEF dst
    <3>2. QED
      BY <1>2, <2>2, <3>1 DEF StreamType, Packets
  <2> HIDE DEF s
  <2>4. /\ pc' = "idle" /\ stream' = s
        /\ UNCHANGED <<state, opening, live, opens, lost, trouble>>
    BY <1>4 DEF Continue
  <2>5. Conserved(s)
    BY <1>2, <2>3, ConservedSame
  <2>6. EndsForAReason'
    BY <1>2, <2>4 DEF EndsForAReason
  <2>7. Cardinality(Stale(s.muxed)) <= s.held /\ Given(s) /\ Numbered(s.muxed)
    BY <2>1, <2>2, <2>3 DEF Given
  <2>8. QED
    BY <1>1, <1>2, <2>3, <2>4, <2>5, <2>6, <2>7, StreamStep
<1>5. QED
  BY <1>1, <1>3, <1>4

LEMMA HttpFeedStep ==
  ASSUME IInv, HttpFeed
  PROVE  IInv'
<1>1. /\ pc = "idle" /\ state = "feed" /\ pc' = "fill"
      /\ UNCHANGED <<state, opening, stream, live, opens, lost, trouble>>
  BY DEF HttpFeed
<1>2. OpeningSound' /\ Allocated'
  BY <1>1, OpeningKept DEF Calls
<1>3. TypeOK'
  BY <1>1 DEF IInv, TypeOK
<1>4. Conserved(stream)' /\ EndsForAReason'
  BY <1>1 DEF IInv, Conserved, EndsForAReason
<1>5. FeedSound'
  BY <1>1 DEF IInv, FeedSound, Direct
<1>6. PacketsSound'
  BY <1>1 DEF IInv, FeedSound, PacketsSound, Numbered, Stale, Given, Newest
<1>7. QED
  BY <1>2, <1>3, <1>4, <1>5, <1>6 DEF IInv

LEMMA HttpCloseStep ==
  ASSUME IInv, HttpClose
  PROVE  IInv'
<1> DEFINE s == [stream EXCEPT !.res = {}]
<1>1. /\ pc = "idle" /\ state' = "closed" /\ live' = Minus(live, stream.res)
      /\ stream' = s /\ UNCHANGED <<pc, opening, opens, lost, trouble>>
  BY DEF HttpClose
<1>2. stream \in StreamType /\ Conserved(stream) /\ stream.bad = stream.error_counter
  BY StreamFacts
<1>3. /\ s \in StreamType /\ s.res = {} /\ s.src = stream.src
      /\ s.dst_rate = stream.dst_rate /\ s.bad = stream.bad
      /\ s.error_counter = stream.error_counter /\ s.muxed = stream.muxed
      /\ s.held = stream.held /\ s.frames = stream.frames
      /\ s.decoded = stream.decoded /\ s.failed = stream.failed /\ s.backlog = stream.backlog
      /\ s.fifo = stream.fifo /\ s.dst = stream.dst
  BY <1>2 DEF StreamType
<1> HIDE DEF s
<1>4. OpeningSound'
  BY <1>1 DEF IInv, OpeningSound, Unused, Acquired, Direct
<1>5. lost' \in [Resources -> Nat]
  BY <1>1 DEF IInv, TypeOK
<1>6. Allocated'
  <2>1. opening.res = {}
    BY <1>1 DEF IInv, OpeningSound, Acquired, Calls
  <2>2. SUFFICES ASSUME NEW r \in Resources
                 PROVE  live'[r] = lost[r]
    <3>1. \A r \in Resources : lost[r] \in Nat
      BY DEF IInv, TypeOK
    <3>2. QED
      BY <1>1, <1>3, <2>1, <3>1 DEF Allocated
  <2>3. live[r] \in Nat /\ lost[r] \in Nat
    BY DEF IInv, TypeOK
  <2>4. live[r] = lost[r] + (IF r \in stream.res THEN 1 ELSE 0)
    BY <1>1, <2>1, <2>3 DEF IInv, Allocated
  <2>5. live'[r] = live[r] - (IF r \in stream.res THEN 1 ELSE 0)
    BY <1>1 DEF Minus
  <2>6. QED
    BY <2>3, <2>4, <2>5
<1>7. TypeOK'
  <2>1. live' = [r \in Resources |-> live'[r]]
    BY <1>1 DEF Minus
  <2>2. live' \in [Resources -> Nat]
    BY <1>5, <1>6, <2>1, LiveTyped
  <2>3. QED
    BY <1>1, <1>3, <1>5, <2>2 DEF IInv, TypeOK
<1>8. Conserved(stream)'
  <2>1. Conserved(s)
    BY <1>2, <1>3, ConservedSame
  <2>2. QED
    BY <1>1, <2>1 DEF Conserved
<1>9. FeedSound'
  BY <1>1, <1>2, <1>3 DEF FeedSound
<1>10. PacketsSound'
  BY <1>1, <1>3 DEF IInv, PacketsSound, Numbered, Stale, Given, Newest
<1>11. EndsForAReason'
  BY <1>1 DEF EndsForAReason
<1>12. QED
  BY <1>4, <1>6, <1>7, <1>8, <1>9, <1>10, <1>11 DEF IInv

LEMMA Stutters ==
  ASSUME IInv, UNCHANGED vars
  PROVE  IInv'
<1> USE DEF vars
<1>1. TypeOK' /\ OpeningSound' /\ Allocated'
  BY DEF IInv, TypeOK, OpeningSound, Unused, Acquired, Direct, Allocated
<1>2. Conserved(stream)' /\ EndsForAReason' /\ FeedSound'
  BY DEF IInv, Conserved, EndsForAReason, FeedSound, Direct
<1>3. PacketsSound'
  BY DEF IInv, PacketsSound, Numbered, Stale, Given, Due, Newest
<1>4. QED
  BY <1>1, <1>2, <1>3 DEF IInv

-----------------------------------------------------------------------------
(* The theorems.                                                           *)

THEOREM Invariance == Spec => []IInv
<1>1. Init => IInv
  BY InitSound
<1>2. IInv /\ [Next]_vars => IInv'
  <2> SUFFICES ASSUME IInv, [Next]_vars
               PROVE  IInv'
    OBVIOUS
  <2>1. CASE NewStream
    BY <2>1, NewStreamStep
  <2>2. CASE MethodOpen
    BY <2>2, StreamOpenStep, StreamTranscodeStep, StreamRemuxStep, StartFeedStep
    DEF MethodOpen
  <2>3. CASE HttpFeed
    BY <2>3, HttpFeedStep
  <2>4. CASE DecodeNext
    BY <2>4, ReadNothingStep, ReadOtherStep, DecodeActionStep DEF DecodeNext
  <2>5. CASE EncodeNext
    BY <2>5, EncodeNextStep
  <2>6. CASE MuxNext
    BY <2>6, MuxNextStep
  <2>7. CASE HttpClose
    BY <2>7, HttpCloseStep
  <2>8. CASE Closed \/ UNCHANGED vars
    BY <2>8, Stutters DEF Closed
  <2>9. QED
    BY <2>1, <2>2, <2>3, <2>4, <2>5, <2>6, <2>7, <2>8 DEF Next, StreamNext
<1>3. QED
  BY <1>1, <1>2, PTL DEF Spec

(* Every variable has its type.  That a packet muxed has a number above 0  *)
(* rests on get_next repeating encode_next while dst_size is 0, and that   *)
(* live is never negative on method_open freeing nothing twice.            *)
THEOREM TypesAlways == Spec => []TypeOK
<1>1. IInv => TypeOK
  BY DEF IInv
<1>2. QED
  BY <1>1, Invariance, PTL

(* No sample is lost or invented on the way from the decoder through the   *)
(* resampler and the fifo to the encoder.                                  *)
THEOREM ConservedAlways == Spec => []SamplesConserved
<1>1. IInv => SamplesConserved
  BY DEF IInv, Conserved, SamplesConserved
<1>2. QED
  BY <1>1, Invariance, PTL

(* Packets are muxed in the order of the encoder, without a gap, and one   *)
(* twice only in place of one the encoder has held back.                   *)
THEOREM PacketsAlways == Spec => []PacketsInOrder
<1>1. IInv => PacketsInOrder
  <2> SUFFICES ASSUME IInv PROVE PacketsInOrder
    OBVIOUS
  <2>1. /\ Numbered(stream.muxed) /\ Cardinality(Stale(stream.muxed)) <= stream.held
        /\ trouble \notin {"mux", "encode"} /\ pc # "mux" => Given(stream)
    BY DEF IInv, PacketsSound
  <2>2. pc = "idle" /\ trouble \notin {"mux", "encode"} /\ stream.muxed # <<>> =>
          Last(stream.muxed).n = stream.frames - stream.held
    BY <2>1 DEF Given, Newest, Last
  <2>3. QED
    BY <2>1, <2>2 DEF PacketsInOrder, Numbered, Stale
<1>2. QED
  BY <1>1, Invariance, PTL

(* stream_next ends a stream only for a reason, and with less than one     *)
(* frame in the fifo.                                                      *)
THEOREM ReasonAlways == Spec => []EndsForAReason
<1>1. IInv => EndsForAReason
  BY DEF IInv
<1>2. QED
  BY <1>1, Invariance, PTL

(* Between two calls exactly the resources of http->stream and of those    *)
(* overwritten are allocated, on every path through method_open.           *)
THEOREM ReleasedAlways == Spec => []ResourcesReleased
<1>1. IInv => ResourcesReleased
  <2> SUFFICES ASSUME IInv, pc = "idle", NEW r \in Resources
               PROVE  live[r] = lost[r] + (IF r \in stream.res THEN 1 ELSE 0)
    BY DEF ResourcesReleased
  <2>1. opening.res = {}
    BY DEF IInv, OpeningSound, Acquired, Calls
  <2>2. live[r] \in Nat /\ lost[r] \in Nat
    BY DEF IInv, TypeOK
  <2>3. QED
    BY <2>1, <2>2 DEF IInv, Allocated
<1>2. QED
  BY <1>1, Invariance, PTL

=============================================================================
