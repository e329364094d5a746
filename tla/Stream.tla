------------------------------- MODULE Stream -------------------------------
(***************************************************************************)
(* The stream of one HTTP connection: method_open of protocol_http.c       *)
(* builds it, http_feed asks it for one packet after the other, and        *)
(* http_close lets it go (stream.c).  A file is read packet by packet,     *)
(* decoded, resampled, collected in a fifo, encoded frame by frame, and    *)
(* muxed into the buffer of the client.                                    *)
(*                                                                         *)
(* All of it runs on the server thread, and what the libraries answer is   *)
(* chosen freely.  A sample is only counted.  The peer can ask for another *)
(* stream, or go away, between any two calls.                              *)
(***************************************************************************)
EXTENDS Integers, Sequences, SequencesExt, FiniteSets

CONSTANTS Length,      \* packets in the file; the one at position p is at time p
          MaxSamples,  \* the most samples a packet decodes to
          FrameSize,   \* encoder->frame_size
          MaxErrors,   \* the constant 10 of decode_next
          MaxDelay,    \* the most samples the resampler's filter keeps back
          MaxHeld,     \* bound: the most frames the encoder holds back
          MaxOpens,    \* bound: how many times the peer asks for a stream
          SrcRates,    \* sample rates of files
          DstRates,    \* supported_samplerates of the encoder, in its order
          TrackStart,  \* where a track of a cue sheet begins in the file
          TrackEnd     \* and ends

ASSUME StreamAssumption ==
  /\ {Length, MaxSamples, FrameSize, MaxErrors} \subseteq Nat \ {0}
  /\ {MaxDelay, MaxHeld, MaxOpens, TrackStart, TrackEnd} \subseteq Nat
  /\ TrackStart <= Length
  /\ SrcRates \subseteq Nat \ {0} /\ DstRates \in Seq(Nat \ {0})

(* What method_open and the functions of stream.c allocate.                *)
Resources == {"stream", "track", "source", "decoder", "encoder", "resampler",
              "buffers", "output"}

VARIABLES pc,       \* where the server thread is: between two calls ("idle"),
                    \* in method_open or in stream_next
          state,    \* client->state: "normal", "feed", "drain", or "closed"
          opening,  \* the stream method_open is working on
          stream,   \* http->stream
          live,     \* live[r]: how many of resource r are allocated
          opens,    \* history: how many times /open was called
          lost,     \* history: lost[r], how many of r an overwritten stream held
          trouble   \* history: what failed in the last call of stream_next

vars == <<pc, state, opening, stream, live, opens, lost, trouble>>

(***************************************************************************)
(* stream_new.  res is what stream_close will let go of; fifo, backlog and *)
(* capacity are the samples in src_buf, the input still in the resampler   *)
(* (in parts of a sample) and resample_frame->nb_samples; dst is the       *)
(* number of the packet dst_data points to (0: dst_size is 0), and fresh   *)
(* says that encode_packet still has it.  The rest is history: samples     *)
(* decoded, those of them that the resampler failed on, packets in a row   *)
(* that could not be decoded, frames encoded, frames the encoder holds     *)
(* back, and all that was muxed.                                           *)
(***************************************************************************)
New == [res |-> {}, cue |-> FALSE, pos |-> 0, src |-> 1, dst_rate |-> 1,
        error_counter |-> 0, capacity |-> 0, backlog |-> 0, fifo |-> 0,
        dst |-> 0, fresh |-> FALSE, decoded |-> 0, failed |-> 0, bad |-> 0,
        frames |-> 0, held |-> 0, muxed |-> <<>>]

Init == /\ pc = "idle" /\ state = "normal"
        /\ opening = New /\ stream = New
        /\ live = [r \in Resources |-> 0]
        /\ opens = 0
        /\ lost = [r \in Resources |-> 0]
        /\ trouble = "none"

Plus(f, R) == [r \in Resources |-> f[r] + (IF r \in R THEN 1 ELSE 0)]
Minus(f, R) == [r \in Resources |-> f[r] - (IF r \in R THEN 1 ELSE 0)]

-----------------------------------------------------------------------------
(* method_open.                                                            *)

(* The track is known to the library.                                      *)
NewStream == /\ pc = "idle" /\ state # "closed" /\ opens < MaxOpens
             /\ pc' = "new"
             /\ opens' = opens + 1
             /\ opening' = [New EXCEPT !.res = {"stream"}]
             /\ live' = Plus(live, {"stream", "track"})
             /\ UNCHANGED <<state, stream, lost, trouble>>

(* 500: what method_open frees itself, R, and what stream_close frees.     *)
Refused(R) == /\ live' = Minus(Minus(live, R), opening.res)
              /\ pc' = "idle"
              /\ opening' = New
              /\ UNCHANGED <<state, stream, opens, lost, trouble>>

(* The positions av_seek_frame can lead to.                                *)
Near(target) == {p \in 0 .. Length : p \in target - 1 .. target + 1}

Step(from, to, s) == /\ pc = from /\ pc' = to
                     /\ opening' = s
                     /\ UNCHANGED <<state, stream, opens, lost, trouble>>

(* A track of a cue sheet is sought; whether that worked is not looked at. *)
StreamOpen ==
  \/ /\ pc = "new" /\ Refused({"track"})
  \/ \E cue \in BOOLEAN, src \in SrcRates :
       /\ \E p \in IF cue THEN {0} \cup Near(TrackStart) ELSE {0} :
            Step("new", "opened",
                 [opening EXCEPT !.res = @ \cup {"track", "source"},
                                 !.cue = cue, !.pos = p, !.src = src])
       /\ live' = Plus(live, {"source"})

Dist(a, b) == IF a > b THEN a - b ELSE b - a

(* The supported rates closer to that of the file than 0 is, by position.  *)
Closer(rate) == {i \in DOMAIN DstRates : Dist(DstRates[i], rate) < Dist(0, rate)}

(* The first of the closest ones; without any, the 0 the search began with. *)
FindSampleRate(rate) ==
  LET closest == {i \in Closer(rate) : \A j \in Closer(rate) :
                    Dist(DstRates[i], rate) <= Dist(DstRates[j], rate)}
  IN  IF closest = {} THEN 0
      ELSE DstRates[CHOOSE i \in closest : \A j \in closest : i <= j]

(* Seeded fault: the encoder is left when the resampler cannot be opened.  *)
LeftAfterFailDecoderOnly(R) == R \ {"decoder", "resampler"}

(* The label fail of stream_transcode.                                     *)
LeftAfterFail(R) == R \ {"decoder", "encoder", "resampler"}

(* The sample formats that find_common_sample_fmt and find_sample_fmt lead *)
(* to may differ, whatever decoder and encoder have in common.             *)
FormatsDiffer == BOOLEAN

(* A resampler is needed for another rate, or another sample format.       *)
Transcode(rate) ==
  \E differ \in FormatsDiffer :
    LET codecs == {"decoder", "encoder"} \cup
                  IF differ \/ rate # opening.src THEN {"resampler"} ELSE {}
    IN  /\ rate # 0
        /\ Step("opened", "coded",
                [opening EXCEPT !.res = @ \cup codecs \cup {"buffers"},
                                !.dst_rate = rate])
        /\ live' = Plus(live, codecs \cup {"buffers"})

(* No encoder, or one of the three cannot be opened; no encoder opens with *)
(* a rate of 0.                                                            *)
TranscodeFails ==
  /\ pc = "opened"
  /\ \E R \in SUBSET {"decoder", "encoder", "resampler"} :
       /\ "resampler" \in R => "encoder" \in R
       /\ "encoder" \in R => "decoder" \in R
       /\ LET after == Plus(live, LeftAfterFail(R))
          IN  live' = Minus(after, opening.res)
  /\ pc' = "idle" /\ opening' = New
  /\ UNCHANGED <<state, stream, opens, lost, trouble>>

StreamTranscode == Transcode(FindSampleRate(opening.src)) \/ TranscodeFails

(* stream_remux frees what it allocated before it fails.                   *)
StreamRemux ==
  \/ /\ Step("coded", "remuxed", [opening EXCEPT !.res = @ \cup {"output"}])
     /\ live' = Plus(live, {"output"})
  \/ /\ pc = "coded" /\ Refused({})

(* The stream is handed to the connection, the header is written, and what *)
(* http->stream pointed to before is forgotten.                            *)
Serve(p) == /\ stream' = [opening EXCEPT !.pos = p]
            /\ lost' = Plus(lost, stream.res)
            /\ pc' = "idle" /\ state' = "feed"
            /\ opening' = New
            /\ trouble' = "none"
            /\ UNCHANGED <<live, opens>>

(* With seek, without, or with a seek that fails.                          *)
StartFeed == /\ pc = "remuxed"
             /\ \/ Serve(opening.pos)
                \/ \E t \in 1 .. Length :
                     \E p \in Near(t + (IF opening.cue THEN TrackStart ELSE 0)) :
                       Serve(p)
                \/ Refused({})

MethodOpen == StreamOpen \/ StreamTranscode \/ StreamRemux \/ StartFeed

-----------------------------------------------------------------------------
(* stream_next, called by http_feed.                                       *)

(* The connection is writable and its outgoing buffer is empty.            *)
HttpFeed == /\ pc = "idle" /\ state = "feed"
            /\ pc' = "fill"
            /\ UNCHANGED <<state, opening, stream, live, opens, lost, trouble>>

(* Seeded fault: a read that gives no packet is tried again.               *)
GiveUpNever(what) ==
  IF what \in {"none", "read"} THEN UNCHANGED <<pc, state>>
  ELSE pc' = "idle" /\ state' = "drain"

(* A result of 0 or less: client_drain.                                    *)
GiveUp(what) == pc' = "idle" /\ state' = "drain"

Ends(what, s) == /\ GiveUp(what)
                 /\ trouble' = what
                 /\ stream' = s
                 /\ UNCHANGED <<opening, live, opens, lost>>

Continue(at, s) == /\ pc' = at
                   /\ stream' = s
                   /\ UNCHANGED <<state, opening, live, opens, lost, trouble>>

(* The packet at the present position begins after the end of the track.   *)
PastTrack(s) == s.cue /\ s.pos > TrackEnd

(* Seeded fault: a packet that decodes does not reset the counter.         *)
RecoveredNot(s) == [s EXCEPT !.bad = 0]

Recovered(s) == [s EXCEPT !.error_counter = 0, !.bad = 0]

Lesser(a, b) == IF a < b THEN a ELSE b
Greater(a, b) == IF a < b THEN b ELSE a

(* What the resampler may give of the given parts of samples, with room    *)
(* for so many: as much as there is room for, or all but what its filter   *)
(* keeps back.                                                             *)
Outputs(s, given, room) ==
  LET ready == given \div s.src
  IN  {out \in 0 .. Lesser(ready, room) : out = room \/ ready - out <= MaxDelay}

(* Seeded fault: what does not come out is gone.                           *)
ResampledDropping(s, n) ==
  LET room == Greater(s.capacity, n)
      given == s.backlog + n * s.dst_rate
  IN  {[s EXCEPT !.capacity = room, !.fifo = @ + out, !.backlog = given % s.src] :
         out \in Outputs(s, given, room)}

(* The buffer for resampled data has room for as many samples as the       *)
(* largest frame decoded so far; the rest stays in the resampler.          *)
Resampled(s, n) ==
  LET room == Greater(s.capacity, n)
      given == s.backlog + n * s.dst_rate
  IN  {[s EXCEPT !.capacity = room, !.fifo = @ + out, !.backlog = given - out * s.src] :
         out \in Outputs(s, given, room)}

(* The resampler fails, which is not looked at: the count below 0 writes   *)
(* nothing to the fifo, and the samples of the frame are gone.             *)
Unconverted(s, n) ==
  [s EXCEPT !.capacity = Greater(@, n), !.failed = @ + n]

(* A frame of n samples is decoded.                                        *)
Buffered(s, n) ==
  LET t == [s EXCEPT !.decoded = @ + n]
  IN  IF "resampler" \in s.res THEN Resampled(t, n) \cup {Unconverted(t, n)}
      ELSE {[t EXCEPT !.fifo = @ + n]}

(* The other thing that count may do: the library copies that much memory, *)
(* and the process dies.                                                   *)
Dies == /\ "resampler" \in stream.res
        /\ pc' = "idle" /\ state' = "closed"
        /\ opening' = New /\ stream' = New
        /\ live' = [r \in Resources |-> 0] /\ lost' = [r \in Resources |-> 0]
        /\ UNCHANGED <<opens, trouble>>

(* read_next gives no packet: an error is taken for the end of the file.   *)
ReadNothing == \/ Ends("read", stream)
               \/ stream.pos = Length /\ Ends("none", stream)
               \/ /\ stream.pos < Length /\ PastTrack(stream)
                  /\ Ends("none", [stream EXCEPT !.pos = @ + 1])

(* read_next skips a packet of another stream of the file.                 *)
ReadOther == /\ stream.pos < Length
             /\ Continue("fill", [stream EXCEPT !.pos = @ + 1])

(* A packet is read, and decode_next makes something of it or fails; a     *)
(* decoder may also take a packet and give nothing.                        *)
Decode ==
  /\ stream.pos < Length /\ ~PastTrack(stream)
  /\ LET s == [stream EXCEPT !.pos = @ + 1]
         failed == [s EXCEPT !.error_counter = @ + 1, !.bad = @ + 1]
     IN  \/ IF failed.error_counter > MaxErrors THEN Ends("decode", failed)
                                                ELSE Continue("fill", failed)
         \/ Continue("fill", Recovered(s))
         \/ \E n \in 1 .. MaxSamples : \E t \in Buffered(Recovered(s), n) :
              Continue("fill", t)
         \/ Dies

(* encode_next reads on until the fifo holds a frame.                      *)
DecodeNext == /\ pc = "fill" /\ stream.fifo < FrameSize
              /\ ReadNothing \/ ReadOther \/ Decode

Taken(s) == [s EXCEPT !.fifo = @ - FrameSize, !.frames = @ + 1]

(* Seeded fault: a frame that gives no packet is muxed before the first.   *)
ReadyAlways(s) == "mux"

(* encode_next is repeated by get_next as long as dst_size is 0.           *)
Ready(s) == IF s.dst = 0 THEN "fill" ELSE "mux"

(* Seeded fault: dst_data is only set when there was none.                 *)
GotFirst(s) == IF s.dst # 0 THEN [s EXCEPT !.fresh = FALSE]
               ELSE [s EXCEPT !.fresh = TRUE, !.dst = s.frames - s.held]

(* dst_data and dst_size are those of the packet the encoder has given.    *)
Got(s) == [s EXCEPT !.fresh = TRUE, !.dst = s.frames - s.held]

(* The rest of encode_next.  The packet of the last call is let go first;  *)
(* without a new one dst_data and dst_size stay as they are.               *)
EncodeNext ==
  /\ pc = "fill" /\ stream.fifo >= FrameSize
  /\ LET s == Taken(stream)
         held == [s EXCEPT !.fresh = FALSE, !.held = @ + 1]
     IN  \/ Ends("encode", [s EXCEPT !.fresh = FALSE])
         \/ s.held < MaxHeld /\ Continue(Ready(held), held)
         \/ Continue(Ready(Got(s)), Got(s))

(* The rest of mux_next; the muxer writes to the client with feed_write.   *)
MuxNext ==
  /\ pc = "mux"
  /\ \/ Ends("mux", stream)
     \/ Continue("idle", [stream EXCEPT !.muxed =
                            Append(@, [n |-> stream.dst, fresh |-> stream.fresh])])

StreamNext == DecodeNext \/ EncodeNext \/ MuxNext

(* http_close.                                                             *)
HttpClose == /\ pc = "idle" /\ state # "closed"
             /\ state' = "closed"
             /\ live' = Minus(live, stream.res)
             /\ stream' = [stream EXCEPT !.res = {}]
             /\ UNCHANGED <<pc, opening, opens, lost, trouble>>

Closed == state = "closed" /\ UNCHANGED vars

Next == NewStream \/ MethodOpen \/ HttpFeed \/ StreamNext \/ HttpClose \/ Closed

Spec == Init /\ [][Next]_vars

(* A call that was begun goes on: nothing in it waits for anybody.         *)
FairSpec == Spec /\ WF_vars(MethodOpen \/ StreamNext)

-----------------------------------------------------------------------------
(* Properties.                                                             *)

StreamType ==
  [res : SUBSET Resources, cue : BOOLEAN, pos : 0 .. Length, src : Nat \ {0},
   dst_rate : Nat \ {0}, error_counter : 0 .. MaxErrors + 1, capacity : Nat,
   backlog : Nat, fifo : Nat, dst : Nat, fresh : BOOLEAN, decoded : Nat,
   failed : Nat, bad : Nat, frames : Nat, held : 0 .. MaxHeld,
   muxed : Seq([n : Nat \ {0}, fresh : BOOLEAN])]

(* Every variable has its type: dst_data is never muxed before the encoder *)
(* has given a first packet, and error_counter stops one past its limit.   *)
TypeOK == /\ pc \in {"idle", "new", "opened", "coded", "remuxed", "fill", "mux"}
          /\ state \in {"normal", "feed", "drain", "closed"}
          /\ {opening, stream} \subseteq StreamType
          /\ {live, lost} \subseteq [Resources -> Nat]
          /\ opens \in 0 .. MaxOpens
          /\ trouble \in {"none", "read", "decode", "encode", "mux"}

(* No sample is lost or invented between decoder and encoder, but those of *)
(* frames the resampler failed on: what was decoded is in the frames       *)
(* encoded, in the fifo or in the resampler, which keeps no more than its  *)
(* filter and a part of a sample, except when it raises the rate: then     *)
(* decode_next may collect less than it gives.                             *)
SamplesConserved ==
  /\ stream.decoded * stream.dst_rate =
       (stream.fifo + FrameSize * stream.frames) * stream.src + stream.backlog
         + stream.failed * stream.dst_rate
  /\ stream.dst_rate <= stream.src => stream.backlog < (MaxDelay + 1) * stream.src

(* What is muxed are the packets of the encoder, in order and without a    *)
(* gap; a packet is muxed again, from memory already freed, only in place  *)
(* of one the encoder has held back.                                       *)
PacketsInOrder ==
  LET m == stream.muxed
      stale == {i \in DOMAIN m : ~m[i].fresh}
  IN  /\ \A i \in DOMAIN m :
           m[i].n = (IF i = 1 THEN 0 ELSE m[i - 1].n) + (IF m[i].fresh THEN 1 ELSE 0)
      /\ Cardinality(stale) <= stream.held
      /\ pc = "idle" /\ trouble \notin {"mux", "encode"} /\ m # <<>> =>
           Last(m).n = stream.frames - stream.held

(* stream_next ends a stream only at the end of the file, at the end of a  *)
(* track of a cue sheet, after more than MaxErrors packets in a row that   *)
(* could not be decoded, or when a library fails; and then less than one   *)
(* frame is left in the fifo.                                              *)
EndsForAReason ==
  state = "drain" =>
    /\ trouble = "none" => \/ stream.pos = Length
                           \/ stream.cue /\ stream.pos > TrackEnd
    /\ trouble = "decode" => stream.bad > MaxErrors
    /\ trouble \in {"none", "read", "decode"} => stream.fifo < FrameSize

(* Between two calls exactly the resources of http->stream are allocated,  *)
(* whatever failed before, and those of the streams that another /open on  *)
(* the same connection has overwritten (lost), which nothing frees: not    *)
(* closing the connection either, although protocol.h says it frees all.   *)
(* But nothing is freed twice, and nothing else is left.                   *)
ResourcesReleased ==
  pc = "idle" => \A r \in Resources :
    live[r] = lost[r] + (IF r \in stream.res THEN 1 ELSE 0)

(* Every call of method_open and of stream_next returns, so one stream     *)
(* cannot keep the server thread to itself.                                *)
CallsReturn == pc # "idle" ~> pc = "idle"

=============================================================================
