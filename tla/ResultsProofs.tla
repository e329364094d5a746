--------------------------- MODULE ResultsProofs ----------------------------
(***************************************************************************)
(* Proofs about Results: its types, that what is answered about images and *)
(* lyrics is sound, and that lyrics found are kept.                        *)
(***************************************************************************)
EXTENDS Results, TLAPS

(***************************************************************************)
(* The inductive invariant.  It accounts for every half of the cache file  *)
(* that is not written: by a task that is still to write it, or by one of  *)
(* the events that an answer suffers from.                                 *)
(***************************************************************************)

(* A task for an image that has made, or failed to make, its thumbnail.    *)
ImageAt == {"made", "opened", "half", "written"}

(* Nothing stands for what an id has not yet been given to.                *)
RangesSound ==
  /\ image <= uses.image /\ track <= uses.track
  /\ cache # Absent => cache[1] <= uses.image /\ cache[2] <= uses.image
  /\ lyrics.of <= uses.track
  /\ \A c \in Clients : pc[c] \in ImageAt => read[c] <= uses.image
  /\ \A c \in Clients : pc[c] \in {"searching", "fetched"} => read[c] <= uses.track
  /\ saved # NoScan => /\ saved[1] <= uses.image /\ saved[2] <= uses.track
                       /\ saved[3].of <= uses.track

(* What a task has done, unless it has failed.                             *)
TasksSound ==
  /\ \A c \in Clients : pc[c] = "half" => read[c] # 0
  /\ \A c \in Clients : pc[c] \in ImageAt /\ "image" \notin events => read[c] # 0
  /\ \A c \in Clients : pc[c] \in {"opened", "half"} => cache # Absent
  /\ \A c \in Clients : pc[c] = "written" /\ "image" \notin events => cache # Absent
  /\ \A c \in Clients : pc[c] = "fetched" /\ read[c] = 0 => "track" \in events
  /\ \A c \in Clients : pc[c] = "stored" => lyrics.there \/ "track" \in events
  /\ lyrics.there /\ lyrics.of = 0 => "track" \in events
  /\ saved # NoScan /\ saved[3].there /\ saved[3].of = 0 => "track" \in events

(* Without a failure, every half that is missing has a task to write it.   *)
FileSound ==
  {"image", "torn"} \cap events = {} /\ cache # Absent =>
    /\ cache[1] = 0 => \E c \in Clients : pc[c] = "opened"
    /\ cache[2] = 0 => \E c \in Clients : pc[c] \in {"opened", "half"}

(* As long as no two tasks have written at a time, the file is the work of *)
(* one of them.                                                            *)
AloneSound ==
  "crossed" \notin events =>
    /\ \A c, d \in Clients :
         pc[c] \in {"opened", "half"} /\ pc[d] \in {"opened", "half"} => c = d
    /\ "torn" \notin events =>
         /\ \A c \in Clients : pc[c] = "opened" => cache = Truncated
         /\ \A c \in Clients : pc[c] = "half" => cache = <<read[c], 0>>
         /\ \/ \E c \in Clients : pc[c] \in {"opened", "half"}
            \/ cache \in {Absent, Truncated} \/ Whole(cache)

(* The server thread reads for one client at a time, and unless a task has *)
(* written meanwhile, it has read what is in the file.                     *)
Reading(c) == pc[c] \in {"sized", "begun"}
ReadSound ==
  /\ \A c, d \in Clients : Reading(c) /\ Reading(d) => c = d
  /\ \A c \in Clients : Reading(c) => cache # Absent
  /\ \A c \in Clients : Reading(c) /\ "writing" \notin get.despite =>
       /\ Writers = {}
       /\ cache # Truncated /\ get.size = Size(cache)
       /\ pc[c] = "begun" => get.first = cache[1]

(* MethodTrackLyrics asks for a task only when there is no row.            *)
NoneKnown == \A c \in Clients : ~known[c]

IInv == /\ TypeOK /\ RangesSound /\ TasksSound /\ FileSound /\ AloneSound
        /\ ReadSound /\ NoneKnown /\ AnswersSound

-----------------------------------------------------------------------------
(* What steps have in common.                                              *)

LEMMA TypesOf ==
  ASSUME TypeOK
  PROVE  /\ image \in 0 .. MaxUses /\ track \in 0 .. MaxUses /\ MaxUses \in Nat \ {0}
         /\ uses \in [image : 1 .. MaxUses, track : 1 .. MaxUses]
         /\ uses.image \in 1 .. MaxUses /\ uses.track \in 1 .. MaxUses
         /\ lyrics \in Lyrics
         /\ lyrics.there \in BOOLEAN /\ lyrics.of \in 0 .. MaxUses
         /\ saved = NoScan \/ saved \in (0 .. MaxUses) \X (0 .. MaxUses) \X Lyrics
         /\ get \in [size : 0 .. 2, first : 0 .. MaxUses, despite : SUBSET {"writing"}]
         /\ pc \in [Clients -> Steps] /\ read \in [Clients -> 0 .. MaxUses]
         /\ known \in [Clients -> BOOLEAN]
         /\ events \subseteq {"torn", "crossed", "image", "track"}
         /\ requests \in 0 .. MaxRequests /\ restarts \in 0 .. MaxRestarts
         /\ MaxRequests \in Nat /\ MaxRestarts \in Nat
         /\ cache = Absent \/ cache \in Files
         /\ \A c \in Clients : read[c] \in 0 .. MaxUses
<1>1. MaxUses \in Nat \ {0} /\ MaxRequests \in Nat /\ MaxRestarts \in Nat
  BY ResultsAssumption
<1>2. lyrics.there \in BOOLEAN /\ lyrics.of \in 0 .. MaxUses
  BY DEF TypeOK, Lyrics
<1>3. QED
  BY <1>1, <1>2 DEF TypeOK

(* The two halves of a file that is there.                                 *)
LEMMA Halves ==
  ASSUME TypeOK, cache # Absent
  PROVE  /\ cache[1] \in 0 .. MaxUses /\ cache[2] \in 0 .. MaxUses
         /\ cache = <<cache[1], cache[2]>>
<1>1. cache \in (0 .. MaxUses) \X (0 .. MaxUses)
  BY DEF TypeOK, Files
<1>2. QED
  BY <1>1

(* A step that answers nothing, or nothing new.                            *)
AnswerType ==
  /\ answer \in [code : {0, 200, 404}, of : {"none", "file", "image", "track"},
                body : Files, despite : SUBSET Troubles]
  /\ answer.code = 200 /\ answer.body = <<0, 0>> => "writing" \in answer.despite

LEMMA NoBody == <<0, 0>> \in Files
<1>1. 0 \in 0 .. MaxUses
  BY ResultsAssumption
<1>2. QED
  BY <1>1 DEF Files

LEMMA SilentSound ==
  ASSUME Silent
  PROVE  AnswerType' /\ AnswersSound'
<1>1. answer' = [code |-> 0, of |-> "none", body |-> <<0, 0>>, despite |-> {}]
  BY DEF Silent, Nothing
<1>2. AnswerType'
  BY <1>1, NoBody DEF AnswerType
<1>3. answer'.of = "none"
  BY <1>1
<1>4. AnswersSound'
  BY <1>3 DEF AnswersSound
<1>5. QED
  BY <1>2, <1>4

(* What an answer records of the state it is given in.                     *)
LEMMA SuffersFacts ==
  /\ Suffers("image") \subseteq Troubles /\ Suffers("track") \subseteq Troubles
  /\ "torn" \in Suffers("image") <=> "torn" \in events
  /\ "reused" \in Suffers("image") <=> uses.image > 1
  /\ "failed" \in Suffers("image") <=> "image" \in events
  /\ "crossed" \in Suffers("image") <=> "crossed" \in events
  /\ "reused" \in Suffers("track") <=> uses.track > 1
  /\ "failed" \in Suffers("track") <=> "track" \in events
<1>1. Suffers("image") \subseteq Troubles /\ Suffers("track") \subseteq Troubles
  BY DEF Suffers
<1>2. "torn" \in Suffers("image") <=> "torn" \in events
  BY DEF Suffers, Troubles
<1>3. "reused" \in Suffers("image") <=> uses.image > 1
  BY DEF Suffers, Troubles
<1>4. "failed" \in Suffers("image") <=> "image" \in events
  BY DEF Suffers, Troubles
<1>5. "crossed" \in Suffers("image") <=> "crossed" \in events
  BY DEF Suffers, Troubles
<1>6. "reused" \in Suffers("track") <=> uses.track > 1
  BY DEF Suffers, Troubles
<1>7. "failed" \in Suffers("track") <=> "track" \in events
  BY DEF Suffers, Troubles
<1>8. QED
  BY <1>1, <1>2, <1>3, <1>4, <1>5, <1>6, <1>7

(* A reply records what it suffers from.                                   *)
LEMMA ReplyIs ==
  ASSUME NEW of \in {"image", "track"}, NEW code \in {200, 404}, NEW body \in Files,
         NEW T \in SUBSET Troubles,
         code = 200 /\ body = <<0, 0>> => "writing" \in T,
         Reply(of, code, body, T)
  PROVE  /\ AnswerType' /\ answer'.of = of /\ answer'.code = code
         /\ answer'.body = body /\ answer'.despite = T \cup Suffers(of)
<1> DEFINE D == T \cup Suffers(of)
<1>1. answer' = [code |-> code, of |-> of, body |-> body, despite |-> D]
  BY DEF Reply
<1>2. D \in SUBSET Troubles /\ T \subseteq D
  BY SuffersFacts
<1> HIDE DEF D
<1>3. AnswerType'
  BY <1>1, <1>2 DEF AnswerType
<1>4. /\ answer'.of = of /\ answer'.code = code /\ answer'.body = body
      /\ answer'.despite = D
  BY <1>1
<1>5. QED
  BY <1>3, <1>4 DEF D

(* A file nobody is writing is a whole thumbnail, but for what once        *)
(* happened.                                                               *)
LEMMA FileWhole ==
  ASSUME IInv, Writers = {}, cache # Absent, cache # Truncated, "torn" \notin events,
         "crossed" \notin events \/ ("image" \notin events /\ ~(uses.image > 1))
  PROVE  Whole(cache)
<1>1. TypeOK /\ RangesSound /\ FileSound /\ AloneSound
  BY DEF IInv
<1>2. ~ \E d \in Clients : pc[d] \in {"opened", "half"}
  BY DEF Writers
<1>3. CASE "crossed" \notin events
  BY <1>1, <1>2, <1>3 DEF AloneSound
<1>4. CASE "image" \notin events /\ ~(uses.image > 1)
  <2>1. cache[1] # 0 /\ cache[2] # 0
    BY <1>1, <1>2, <1>4 DEF FileSound
  <2>2. cache[1] <= uses.image /\ cache[2] <= uses.image
    BY <1>1 DEF RangesSound
  <2>3. /\ cache[1] \in Nat /\ cache[2] \in Nat /\ uses.image \in Nat
    BY <1>1, Halves, TypesOf
  <2>4. cache[1] = 1 /\ cache[2] = 1
    BY <1>4, <2>1, <2>2, <2>3
  <2>5. QED
    BY <2>4 DEF Whole
<1>5. QED
  BY <1>3, <1>4

(* A client is refused a thumbnail for one of the reasons there are.       *)
LEMMA RefusedSound ==
  ASSUME IInv, NEW c \in Clients, NEW T \in SUBSET {"writing", "unopened"},
         \/ "unopened" \in T
         \/ /\ T = Others(c) /\ pc[c] \notin {"opened", "half"} /\ Empty
            /\ cache # Absent \/ "image" \in events,
         Reply("image", 404, <<0, 0>>, T)
  PROVE  AnswerType' /\ AnswersSound'
<1>1. TypeOK /\ FileSound
  BY DEF IInv
<1>2. T \in SUBSET Troubles
  BY DEF Troubles
<1>3. /\ AnswerType' /\ answer'.of = "image" /\ answer'.code = 404
      /\ answer'.despite = T \cup Suffers("image")
  BY <1>2, NoBody, ReplyIs
<1>4. (T \cup Suffers("image")) \cap {"writing", "torn", "failed", "unopened"} # {}
  <2>1. SUFFICES ASSUME T = Others(c), pc[c] \notin {"opened", "half"}, Empty,
                        cache # Absent \/ "image" \in events,
                        "writing" \notin T, "torn" \notin events, "image" \notin events
                 PROVE  FALSE
    BY SuffersFacts
  <2>2. Writers \ {c} = {}
    BY <2>1 DEF Others
  <2>3. cache # Absent /\ cache[1] = 0
    BY <2>1 DEF Empty, Truncated
  <2>4. PICK d \in Clients : pc[d] = "opened"
    BY <1>1, <2>1, <2>3 DEF FileSound
  <2>5. d \in Writers \ {c}
    BY <2>1, <2>4 DEF Writers
  <2>6. QED
    BY <2>2, <2>5
<1>5. AnswersSound'
  BY <1>3, <1>4 DEF AnswersSound
<1>6. QED
  BY <1>3, <1>5

(* What cache_get leaves to be read is what the file is now.               *)
LEMMA CacheGetSound ==
  ASSUME IInv, NEW c \in Clients, pc[c] \in {"free", "written"}, ServerFree,
         cache # Absent \/ "image" \in events, CacheGet(c), cache' = cache
  PROVE  /\ AnswerType' /\ AnswersSound' /\ ReadSound'
         /\ get' \in [size : 0 .. 2, first : 0 .. MaxUses, despite : SUBSET {"writing"}]
         /\ \/ pc' = [pc EXCEPT ![c] = "free"]
            \/ pc' = [pc EXCEPT ![c] = "sized"]
<1>1. TypeOK
  BY DEF IInv
<1>2. /\ pc \in [Clients -> Steps] /\ MaxUses \in Nat
      /\ get \in [size : 0 .. 2, first : 0 .. MaxUses, despite : SUBSET {"writing"}]
  BY <1>1, TypesOf
<1>3. \A d \in Clients : ~Reading(d)
  BY DEF ServerFree, Reading
<1>4. Others(c) \in SUBSET {"writing"}
  BY DEF Others
<1>5. ASSUME NEW T \in SUBSET {"writing", "unopened"}, Refused(c, T),
             \/ T = Others(c) /\ Empty
             \/ T = {"unopened"}
      PROVE  /\ AnswerType' /\ AnswersSound' /\ ReadSound' /\ get' = get
             /\ pc' = [pc EXCEPT ![c] = "free"]
  <2>1. /\ get' = get /\ pc' = [pc EXCEPT ![c] = "free"]
        /\ Reply("image", 404, <<0, 0>>, T)
    BY <1>5 DEF Refused
  <2>2. AnswerType' /\ AnswersSound'
    BY <1>5, <2>1, RefusedSound
  <2>3. \A d \in Clients : pc'[d] \notin {"sized", "begun"}
    BY <1>2, <1>3, <2>1 DEF Reading
  <2>4. ReadSound'
    BY <2>3 DEF ReadSound, Reading
  <2>5. QED
    BY <2>1, <2>2, <2>4
<1>6. CASE Empty /\ Refused(c, Others(c))
  BY <1>2, <1>4, <1>5, <1>6
<1>7. CASE cache # Absent /\ Refused(c, {"unopened"})
  BY <1>2, <1>5, <1>7
<1>8. CASE /\ ~Empty /\ pc' = [pc EXCEPT ![c] = "sized"]
           /\ get' = [size |-> Size(cache), first |-> 0, despite |-> Others(c)]
           /\ Silent
  <2>1. AnswerType' /\ AnswersSound'
    BY <1>8, SilentSound
  <2>2. Size(cache) \in 0 .. 2 /\ 0 \in 0 .. MaxUses
    BY <1>2 DEF Size
  <2>3. /\ get'.size = Size(cache) /\ get'.despite = Others(c)
        /\ get' \in [size : 0 .. 2, first : 0 .. MaxUses, despite : SUBSET {"writing"}]
    BY <1>4, <1>8, <2>2
  <2>4. \A d \in Clients : pc'[d] \in {"sized", "begun"} => d = c /\ pc'[d] = "sized"
    BY <1>2, <1>3, <1>8 DEF Reading
  <2>5. cache # Absent /\ cache # Truncated
    BY <1>8 DEF Empty
  <2>6. ASSUME "writing" \notin get'.despite
        PROVE  Writers' = {}
    <3>1. Writers \ {c} = {}
      BY <2>3, <2>6 DEF Others
    <3>2. \A d \in Clients : d # c => pc'[d] = pc[d]
      BY <1>2, <1>8
    <3>3. QED
      BY <1>2, <1>8, <3>1, <3>2 DEF Writers
  <2>7. ReadSound'
    BY <2>3, <2>4, <2>5, <2>6 DEF ReadSound, Reading
  <2>8. QED
    BY <1>8, <2>1, <2>3, <2>7
<1>9. QED
  BY <1>6, <1>7, <1>8 DEF CacheGet

(* What has been read of the file is sent.                                 *)
LEMMA SentSound ==
  ASSUME IInv, NEW c \in Clients, Reading(c), NEW body \in Files,
         "writing" \notin get.despite => body = cache, Sent(c, body)
  PROVE  AnswerType' /\ AnswersSound'
<1>1. TypeOK /\ ReadSound
  BY DEF IInv
<1>2. get.despite \in SUBSET Troubles
  BY <1>1, TypesOf DEF Troubles
<1>3. Reply("image", 200, body, get.despite)
  BY DEF Sent
<1>4. ASSUME "writing" \notin get.despite
      PROVE  /\ body = cache /\ Writers = {} /\ cache # Absent /\ cache # Truncated
  BY <1>1, <1>4 DEF ReadSound
<1>5. body = <<0, 0>> => "writing" \in get.despite
  BY <1>4 DEF Truncated
<1> DEFINE T == get.despite
<1>6. Reply("image", 200, body, T) /\ T \in SUBSET Troubles
  BY <1>2, <1>3
<1>7. body = <<0, 0>> => "writing" \in T
  BY <1>5
<1>8. /\ AnswerType' /\ answer'.of = "image" /\ answer'.code = 200
      /\ answer'.body = body /\ answer'.despite = T \cup Suffers("image")
  <2> HIDE DEF T
  <2>1. QED
    BY <1>6, <1>7, ReplyIs
<1>9. \/ Whole(body) \/ (T \cup Suffers("image")) \cap {"writing", "torn"} # {}
      \/ /\ (T \cup Suffers("image")) \cap {"crossed"} # {}
         /\ (T \cup Suffers("image")) \cap {"failed", "reused"} # {}
  <2>1. SUFFICES ASSUME "writing" \notin T, "torn" \notin events,
                        \/ "crossed" \notin events
                        \/ "image" \notin events /\ ~(uses.image > 1)
                 PROVE  Whole(body)
    BY SuffersFacts
  <2>2. QED
    BY <1>4, <2>1, FileWhole
<1> HIDE DEF T
<1>10. AnswersSound'
  BY <1>8, <1>9 DEF AnswersSound, Whole
<1>11. QED
  BY <1>8, <1>10

(* The lyrics are sent, or refused because a search for them has failed.   *)
LEMMA SendLyricsSound ==
  ASSUME IInv, lyrics.there \/ "track" \in events, SendLyrics
  PROVE  AnswerType' /\ AnswersSound'
<1>1. TypeOK /\ RangesSound /\ TasksSound
  BY DEF IInv
<1>2. CASE lyrics.of = 0
  <2>1. Reply("track", 404, <<0, 0>>, {})
    BY <1>2 DEF SendLyrics
  <2>2. /\ AnswerType' /\ answer'.of = "track" /\ answer'.code = 404
        /\ answer'.despite = Suffers("track")
    <3> DEFINE T == {}
    <3>1. T \in SUBSET Troubles /\ Reply("track", 404, <<0, 0>>, T)
      BY <2>1
    <3>2. T \cup Suffers("track") = Suffers("track")
      OBVIOUS
    <3> HIDE DEF T
    <3>3. 404 = 200 /\ <<0, 0>> = <<0, 0>> => "writing" \in T
      OBVIOUS
    <3>4. /\ AnswerType' /\ answer'.of = "track" /\ answer'.code = 404
          /\ answer'.body = <<0, 0>> /\ answer'.despite = T \cup Suffers("track")
      BY <3>1, NoBody, <3>3, ReplyIs
    <3>5. QED
      BY <3>2, <3>4
  <2>3. "track" \in events
    BY <1>1, <1>2 DEF TasksSound
  <2>4. Suffers("track") \cap {"failed"} # {}
    BY <2>3, SuffersFacts
  <2>5. AnswersSound'
    BY <2>2, <2>4 DEF AnswersSound
  <2>6. QED
    BY <2>2, <2>5
<1>3. CASE lyrics.of # 0
  <2> DEFINE l == lyrics.of
             body == <<l, l>>
  <2>1. l \in 0 .. MaxUses /\ l # 0 /\ l <= uses.track /\ uses.track \in 1 .. MaxUses
    BY <1>1, <1>3, TypesOf DEF RangesSound
  <2>2. Reply("track", 200, body, {})
    BY <1>3 DEF SendLyrics
  <2> HIDE DEF l
  <2>3. body \in Files /\ body # <<0, 0>>
    BY <2>1 DEF Files
  <2>4. /\ AnswerType' /\ answer'.of = "track" /\ answer'.code = 200
        /\ answer'.body = body /\ answer'.despite = Suffers("track")
    <3> DEFINE T == {}
    <3>1. T \in SUBSET Troubles /\ Reply("track", 200, body, T)
      BY <2>2
    <3>2. T \cup Suffers("track") = Suffers("track")
      OBVIOUS
    <3> HIDE DEF T, body
    <3>3. 200 = 200 /\ body = <<0, 0>> => "writing" \in T
      BY <2>3
    <3>4. /\ AnswerType' /\ answer'.of = "track" /\ answer'.code = 200
          /\ answer'.body = body /\ answer'.despite = T \cup Suffers("track")
      BY <2>3, <3>1, <3>3, ReplyIs
    <3>5. QED
      BY <3>2, <3>4
  <2>5. body = <<1, 1>> \/ Suffers("track") \cap {"reused"} # {}
    <3>1. CASE uses.track > 1
      BY <3>1, SuffersFacts
    <3>2. CASE ~(uses.track > 1)
      <4>1. l = 1
        BY <2>1, <3>2, ResultsAssumption
      <4>2. QED
        BY <4>1
    <3>3. QED
      BY <3>1, <3>2
  <2> HIDE DEF body
  <2>6. AnswersSound'
    BY <2>4, <2>5 DEF AnswersSound
  <2>7. QED
    BY <2>4, <2>6
<1>4. QED
  BY <1>2, <1>3

-----------------------------------------------------------------------------
(* Every step preserves the invariant.                                     *)

LEMMA InitSound == Init => IInv
<1> SUFFICES ASSUME Init PROVE IInv
  OBVIOUS
<1>1. MaxUses \in Nat \ {0} /\ MaxRequests \in Nat /\ MaxRestarts \in Nat
  BY ResultsAssumption
<1>2. TypeOK
  <2>1. image \in 0 .. MaxUses /\ track \in 0 .. MaxUses /\ 0 \in 0 .. MaxUses
    BY <1>1 DEF Init
  <2>2. uses \in [image : 1 .. MaxUses, track : 1 .. MaxUses]
    BY <1>1 DEF Init
  <2>3. AnswerType
    BY NoBody DEF Init, AnswerType, Nothing
  <2>4. lyrics \in Lyrics
    BY <2>1 DEF Init, NoRow, Lyrics
  <2>5. get \in [size : 0 .. 2, first : 0 .. MaxUses, despite : SUBSET {"writing"}]
    BY <2>1 DEF Init, NoFile
  <2>6. pc \in [Clients -> Steps] /\ read \in [Clients -> 0 .. MaxUses]
    BY <2>1 DEF Init, Steps
  <2>7. QED
    BY <1>1, <2>1, <2>2, <2>3, <2>4, <2>5, <2>6 DEF Init, TypeOK, AnswerType
<1>3. RangesSound
  BY <1>1 DEF Init, RangesSound, NoRow, ImageAt
<1>4. TasksSound /\ FileSound
  BY DEF Init, TasksSound, FileSound, ImageAt, NoRow
<1>5. AloneSound /\ ReadSound
  BY DEF Init, AloneSound, ReadSound, Reading
<1>6. NoneKnown /\ AnswersSound
  BY DEF Init, NoneKnown, AnswersSound, Nothing
<1>7. QED
  BY <1>2, <1>3, <1>4, <1>5, <1>6 DEF IInv

(* What a crash leaves of the database was there when the scan began.      *)
LEMMA DurableSound ==
  ASSUME TypeOK, RangesSound, TasksSound
  PROVE  /\ Durable \in (0 .. MaxUses) \X (0 .. MaxUses) \X Lyrics
         /\ Durable[1] \in 0 .. MaxUses /\ Durable[2] \in 0 .. MaxUses
         /\ Durable[3] \in Lyrics
         /\ Durable[1] <= uses.image /\ Durable[2] <= uses.track
         /\ Durable[3].of <= uses.track
         /\ Durable[3].there /\ Durable[3].of = 0 => "track" \in events
         /\ Durable # NoScan
<1>1. Durable \in (0 .. MaxUses) \X (0 .. MaxUses) \X Lyrics
  BY TypesOf DEF Durable
<1>2. CASE saved = NoScan
  <2>1. Durable = <<image, track, lyrics>>
    BY <1>2 DEF Durable
  <2>2. QED
    BY <1>1, <2>1, TypesOf DEF RangesSound, TasksSound, NoScan
<1>3. CASE saved # NoScan
  <2>1. Durable = saved
    BY <1>3 DEF Durable
  <2>2. QED
    BY <1>1, <1>3, <2>1 DEF RangesSound, TasksSound
<1>4. QED
  BY <1>2, <1>3

LEMMA ScanBeginStep ==
  ASSUME IInv, Scan, ScanBegin
  PROVE  IInv'
<1> USE DEF Scan, ScanBegin, rows, store, bounds
<1>1. /\ TypeOK /\ RangesSound /\ TasksSound /\ FileSound /\ AloneSound
      /\ ReadSound /\ NoneKnown /\ AnswersSound
  BY DEF IInv
<1>2. AnswerType' /\ AnswersSound'
  BY SilentSound
<1>3. /\ saved' = Durable /\ saved' \in (0 .. MaxUses) \X (0 .. MaxUses) \X Lyrics
      /\ saved'[1] <= uses.image /\ saved'[2] <= uses.track
      /\ saved'[3].of <= uses.track
      /\ saved'[3].there /\ saved'[3].of = 0 => "track" \in events
  BY <1>1, DurableSound
<1>4. TypeOK'
  BY <1>1, <1>2, <1>3, TypesOf DEF TypeOK, AnswerType, Steps
<1>5. RangesSound'
  BY <1>1, <1>3, TypesOf DEF RangesSound, ImageAt
<1>6. TasksSound'
  BY <1>1, <1>3, TypesOf DEF TasksSound, ImageAt
<1>7. FileSound'
  BY <1>1, <1>3, TypesOf DEF FileSound, TasksSound, ImageAt
<1>8. AloneSound'
  BY <1>1, <1>3, TypesOf DEF AloneSound, TasksSound, ImageAt
<1>9. ReadSound'
  BY <1>1, <1>3, TypesOf DEF ReadSound, Reading, Writers, TasksSound
<1>10. NoneKnown'
  BY <1>1, <1>3, TypesOf DEF NoneKnown
<1>11. QED
  BY <1>2, <1>4, <1>5, <1>6, <1>7, <1>8, <1>9, <1>10 DEF IInv

LEMMA ScanCommitStep ==
  ASSUME IInv, Scan, ScanCommit
  PROVE  IInv'
<1> USE DEF Scan, ScanCommit, rows, store, bounds
<1>1. /\ TypeOK /\ RangesSound /\ TasksSound /\ FileSound /\ AloneSound
      /\ ReadSound /\ NoneKnown /\ AnswersSound
  BY DEF IInv
<1>2. AnswerType' /\ AnswersSound'
  BY SilentSound
<1>3. TypeOK'
  BY <1>1, <1>2, TypesOf DEF TypeOK, AnswerType, Steps
<1>4. RangesSound'
  BY <1>1, TypesOf DEF RangesSound, ImageAt
<1>5. TasksSound'
  BY <1>1, TypesOf DEF TasksSound, ImageAt
<1>6. FileSound'
  BY <1>1, TypesOf DEF FileSound, TasksSound, ImageAt
<1>7. AloneSound'
  BY <1>1, TypesOf DEF AloneSound, TasksSound, ImageAt
<1>8. ReadSound'
  BY <1>1, TypesOf DEF ReadSound, Reading, Writers, TasksSound
<1>9. NoneKnown'
  BY <1>1, TypesOf DEF NoneKnown
<1>10. QED
  BY <1>2, <1>3, <1>4, <1>5, <1>6, <1>7, <1>8, <1>9 DEF IInv

LEMMA ScanRowsStep ==
  ASSUME IInv, Scan, ScanRows
  PROVE  IInv'
<1> USE DEF Scan, ScanRows, ImageRemoved, TrackRemoved, ImageAdded, TrackAdded,
            bounds
<1>1. /\ TypeOK /\ RangesSound /\ TasksSound /\ FileSound /\ AloneSound
      /\ ReadSound /\ NoneKnown /\ AnswersSound
  BY DEF IInv
<1>2. AnswerType' /\ AnswersSound'
  BY SilentSound
<1>3. TypeOK'
  BY <1>1, <1>2, TypesOf DEF TypeOK, AnswerType, Steps
<1>4. RangesSound'
  <2> DEFINE u == uses.image
             v == uses.track
             p == uses'.image
             q == uses'.track
  <2>1. /\ u \in Nat /\ v \in Nat /\ p \in {u, u + 1} /\ q \in {v, v + 1}
        /\ image' <= p /\ track' <= q
    BY <1>1, TypesOf DEF RangesSound
  <2>2. \A x \in Nat : (x <= u => x <= p) /\ (x <= v => x <= q)
    BY <2>1
  <2>3. /\ pc' = pc /\ read' = read /\ cache' = cache /\ lyrics' = lyrics
        /\ saved' = saved
    BY DEF store
  <2>4. cache # Absent => cache[1] <= p /\ cache[2] <= p
    BY <1>1, <2>2, Halves DEF RangesSound
  <2>5. lyrics.of <= q
    BY <1>1, <2>2, TypesOf DEF RangesSound
  <2>6. \A c \in Clients : pc[c] \in ImageAt => read[c] <= p
    BY <1>1, <2>2, TypesOf DEF RangesSound
  <2>7. \A c \in Clients : pc[c] \in {"searching", "fetched"} => read[c] <= q
    BY <1>1, <2>2, TypesOf DEF RangesSound
  <2>8. saved # NoScan => saved[1] <= p /\ saved[2] <= q /\ saved[3].of <= q
    <3>1. SUFFICES ASSUME saved # NoScan
                   PROVE  saved[1] <= p /\ saved[2] <= q /\ saved[3].of <= q
      OBVIOUS
    <3>2. saved[1] \in Nat /\ saved[2] \in Nat /\ saved[3].of \in Nat
      BY <1>1, <3>1, TypesOf DEF Lyrics
    <3>3. QED
      BY <1>1, <2>2, <3>1, <3>2 DEF RangesSound
  <2> HIDE DEF u, v, p, q
  <2>9. QED
    BY <2>1, <2>3, <2>4, <2>5, <2>6, <2>7, <2>8 DEF RangesSound, p, q
<1>5. TasksSound'
  BY <1>1, TypesOf DEF TasksSound, ImageAt
<1>6. FileSound'
  BY <1>1, TypesOf DEF FileSound, TasksSound, ImageAt
<1>7. AloneSound'
  BY <1>1, TypesOf DEF AloneSound, TasksSound, ImageAt
<1>8. ReadSound'
  BY <1>1, TypesOf DEF ReadSound, Reading, Writers, TasksSound
<1>9. NoneKnown'
  BY <1>1, TypesOf DEF NoneKnown
<1>10. QED
  BY <1>2, <1>3, <1>4, <1>5, <1>6, <1>7, <1>8, <1>9 DEF IInv

LEMMA RestartStep ==
  ASSUME IInv, Restart
  PROVE  IInv'
<1> USE DEF Restart, Writers
<1>1. /\ TypeOK /\ RangesSound /\ TasksSound /\ FileSound /\ AloneSound
      /\ ReadSound /\ NoneKnown /\ AnswersSound
  BY DEF IInv
<1>2. AnswerType' /\ AnswersSound'
  BY SilentSound
<1>3. /\ image' \in 0 .. MaxUses /\ track' \in 0 .. MaxUses /\ lyrics' \in Lyrics
      /\ image' <= uses.image /\ track' <= uses.track /\ lyrics'.of <= uses.track
      /\ lyrics'.there /\ lyrics'.of = 0 => "track" \in events
  BY <1>1, DurableSound
<1>4. get' \in [size : 0 .. 2, first : 0 .. MaxUses, despite : SUBSET {"writing"}]
  BY <1>1, TypesOf DEF NoFile
<1>5. TypeOK'
  BY <1>1, <1>2, <1>3, <1>4, TypesOf DEF TypeOK, AnswerType, Steps
<1>6. RangesSound'
  BY <1>1, <1>3, <1>4, TypesOf DEF RangesSound, ImageAt
<1>7. TasksSound'
  BY <1>1, <1>3, <1>4, TypesOf DEF TasksSound, ImageAt
<1>8. FileSound'
  BY <1>1, <1>3, <1>4, TypesOf DEF FileSound, TasksSound, ImageAt
<1>9. AloneSound'
  BY <1>1, <1>3, <1>4, TypesOf DEF AloneSound, TasksSound, ImageAt
<1>10. ReadSound'
  BY <1>1, <1>3, <1>4, TypesOf DEF ReadSound, Reading, Writers, TasksSound
<1>11. NoneKnown'
  BY <1>1, <1>3, <1>4, TypesOf DEF NoneKnown
<1>12. QED
  BY <1>2, <1>5, <1>6, <1>7, <1>8, <1>9, <1>10, <1>11 DEF IInv

LEMMA MethodImageFileStep ==
  ASSUME IInv, NEW c \in Clients, MethodImageFile(c)
  PROVE  IInv'
<1> USE DEF MethodImageFile, Asks, rows, store
<1>1. /\ TypeOK /\ RangesSound /\ TasksSound /\ FileSound /\ AloneSound
      /\ ReadSound /\ NoneKnown /\ AnswersSound
  BY DEF IInv
<1>2. AnswerType' /\ AnswersSound'
  <2>1. image \in 0 .. MaxUses /\ 0 \in 0 .. MaxUses
    BY <1>1, TypesOf
  <2>2. PICK found \in {0, image} :
          answer' = [code |-> IF found = 0 THEN 404 ELSE 200, of |-> "file",
                     body |-> <<found, found>>, despite |-> {}]
    OBVIOUS
  <2>3. <<found, found>> \in Files
    BY <2>1 DEF Files
  <2>4. found # 0 => <<found, found>> # <<0, 0>>
    OBVIOUS
  <2>5. AnswerType'
    BY <2>2, <2>3, <2>4 DEF AnswerType
  <2>6. answer'.of = "file"
    BY <2>2
  <2>7. AnswersSound'
    BY <2>6 DEF AnswersSound
  <2>8. QED
    BY <2>5, <2>7
<1>3. TypeOK'
  BY <1>1, <1>2, TypesOf DEF TypeOK, AnswerType, Steps
<1>4. RangesSound'
  BY <1>1, TypesOf DEF RangesSound, ImageAt
<1>5. TasksSound'
  BY <1>1, TypesOf DEF TasksSound, ImageAt
<1>6. FileSound'
  BY <1>1, TypesOf DEF FileSound, TasksSound, ImageAt
<1>7. AloneSound'
  BY <1>1, TypesOf DEF AloneSound, TasksSound, ImageAt
<1>8. ReadSound'
  BY <1>1, TypesOf DEF ReadSound, Reading, Writers, TasksSound
<1>9. NoneKnown'
  BY <1>1, TypesOf DEF NoneKnown
<1>10. QED
  BY <1>2, <1>3, <1>4, <1>5, <1>6, <1>7, <1>8, <1>9 DEF IInv

LEMMA MethodImageGetStep ==
  ASSUME IInv, NEW c \in Clients, MethodImage(c), cache # Absent
  PROVE  IInv'
<1> USE DEF MethodImage, Asks, rows, store
<1>1. /\ TypeOK /\ RangesSound /\ TasksSound /\ FileSound /\ AloneSound
      /\ ReadSound /\ NoneKnown /\ AnswersSound
  BY DEF IInv
<1>2. /\ AnswerType' /\ AnswersSound' /\ ReadSound'
      /\ get' \in [size : 0 .. 2, first : 0 .. MaxUses, despite : SUBSET {"writing"}]
      /\ \/ pc' = [pc EXCEPT ![c] = "free"]
         \/ pc' = [pc EXCEPT ![c] = "sized"]
  BY CacheGetSound
<1>3. TypeOK'
  BY <1>1, <1>2, <1>2, TypesOf DEF TypeOK, AnswerType, Steps
<1>4. RangesSound'
  BY <1>1, <1>2, TypesOf DEF RangesSound, ImageAt
<1>5. TasksSound'
  BY <1>1, <1>2, TypesOf DEF TasksSound, ImageAt
<1>6. FileSound'
  BY <1>1, <1>2, TypesOf DEF FileSound, TasksSound, ImageAt
<1>7. AloneSound'
  BY <1>1, <1>2, TypesOf DEF AloneSound, TasksSound, ImageAt
<1>8. ReadSound'
  BY <1>2
<1>9. NoneKnown'
  BY <1>1, <1>2, TypesOf DEF NoneKnown
<1>10. QED
  BY <1>2, <1>3, <1>4, <1>5, <1>6, <1>7, <1>8, <1>9 DEF IInv

LEMMA MethodImageTaskStep ==
  ASSUME IInv, NEW c \in Clients, MethodImage(c), cache = Absent
  PROVE  IInv'
<1> USE DEF MethodImage, Asks, Goto, rows, store
<1>1. /\ TypeOK /\ RangesSound /\ TasksSound /\ FileSound /\ AloneSound
      /\ ReadSound /\ NoneKnown /\ AnswersSound
  BY DEF IInv
<1>2. AnswerType' /\ AnswersSound'
  BY SilentSound
<1>3. TypeOK'
  BY <1>1, <1>2, TypesOf DEF TypeOK, AnswerType, Steps
<1>4. RangesSound'
  BY <1>1, TypesOf DEF RangesSound, ImageAt
<1>5. TasksSound'
  BY <1>1, TypesOf DEF TasksSound, ImageAt
<1>6. FileSound'
  BY <1>1, TypesOf DEF FileSound, TasksSound, ImageAt
<1>7. AloneSound'
  BY <1>1, TypesOf DEF AloneSound, TasksSound, ImageAt
<1>8. ReadSound'
  BY <1>1, TypesOf DEF ReadSound, Reading, Writers, TasksSound
<1>9. NoneKnown'
  BY <1>1, TypesOf DEF NoneKnown
<1>10. QED
  BY <1>2, <1>3, <1>4, <1>5, <1>6, <1>7, <1>8, <1>9 DEF IInv

LEMMA ImageDoneStep ==
  ASSUME IInv, NEW c \in Clients, ImageDone(c)
  PROVE  IInv'
<1> USE DEF ImageDone, Written, rows, store, bounds
<1>1. /\ TypeOK /\ RangesSound /\ TasksSound /\ FileSound /\ AloneSound
      /\ ReadSound /\ NoneKnown /\ AnswersSound
  BY DEF IInv
<1>2. /\ AnswerType' /\ AnswersSound' /\ ReadSound'
      /\ get' \in [size : 0 .. 2, first : 0 .. MaxUses, despite : SUBSET {"writing"}]
      /\ \/ pc' = [pc EXCEPT ![c] = "free"]
         \/ pc' = [pc EXCEPT ![c] = "sized"]
  <2>1. cache # Absent \/ "image" \in events
    BY <1>1 DEF TasksSound
  <2>2. QED
    BY <2>1, CacheGetSound
<1>3. TypeOK'
  BY <1>1, <1>2, <1>2, TypesOf DEF TypeOK, AnswerType, Steps
<1>4. RangesSound'
  BY <1>1, <1>2, TypesOf DEF RangesSound, ImageAt
<1>5. TasksSound'
  BY <1>1, <1>2, TypesOf DEF TasksSound, ImageAt
<1>6. FileSound'
  BY <1>1, <1>2, TypesOf DEF FileSound, TasksSound, ImageAt
<1>7. AloneSound'
  BY <1>1, <1>2, TypesOf DEF AloneSound, TasksSound, ImageAt
<1>8. ReadSound'
  BY <1>2
<1>9. NoneKnown'
  BY <1>1, <1>2, TypesOf DEF NoneKnown
<1>10. QED
  BY <1>2, <1>3, <1>4, <1>5, <1>6, <1>7, <1>8, <1>9 DEF IInv

LEMMA CacheReadFirstStep ==
  ASSUME IInv, NEW c \in Clients, CacheRead(c), pc[c] = "sized", Size(cache) # 0
  PROVE  IInv'
<1> USE DEF CacheRead, rows, store, bounds
<1>1. /\ TypeOK /\ RangesSound /\ TasksSound /\ FileSound /\ AloneSound
      /\ ReadSound /\ NoneKnown /\ AnswersSound
  BY DEF IInv
<1>2. AnswerType' /\ AnswersSound'
  BY SilentSound
<1>3. /\ pc' = [pc EXCEPT ![c] = "begun"] /\ get' = [get EXCEPT !.first = cache[1]]
      /\ pc \in [Clients -> Steps]
  BY <1>1, TypesOf
<1>4. /\ get'.size = get.size /\ get'.despite = get.despite /\ get'.first = cache[1]
      /\ get' \in [size : 0 .. 2, first : 0 .. MaxUses, despite : SUBSET {"writing"}]
  <2>1. cache # Absent
    BY <1>1 DEF ReadSound, Reading
  <2>2. cache[1] \in 0 .. MaxUses
    BY <1>1, <2>1, Halves
  <2>3. QED
    BY <1>1, <1>3, <2>2, TypesOf
<1>5. TypeOK'
  BY <1>1, <1>2, <1>3, <1>4, TypesOf DEF TypeOK, AnswerType, Steps
<1>6. RangesSound'
  BY <1>1, <1>3, <1>4, TypesOf DEF RangesSound, ImageAt
<1>7. TasksSound'
  BY <1>1, <1>3, <1>4, TypesOf DEF TasksSound, ImageAt
<1>8. FileSound'
  BY <1>1, <1>3, <1>4, TypesOf DEF FileSound, TasksSound, ImageAt
<1>9. AloneSound'
  BY <1>1, <1>3, <1>4, TypesOf DEF AloneSound, TasksSound, ImageAt
<1>10. ReadSound'
  BY <1>1, <1>3, <1>4, TypesOf DEF ReadSound, Reading, Writers, TasksSound
<1>11. NoneKnown'
  BY <1>1, <1>3, <1>4, TypesOf DEF NoneKnown
<1>12. QED
  BY <1>2, <1>5, <1>6, <1>7, <1>8, <1>9, <1>10, <1>11 DEF IInv

LEMMA CacheReadLastStep ==
  ASSUME IInv, NEW c \in Clients, CacheRead(c), NEW body \in Files, Reading(c), Sent(c, body),
         "writing" \notin get.despite => body = cache
  PROVE  IInv'
<1> USE DEF CacheRead, Sent, rows, store, bounds
<1>1. /\ TypeOK /\ RangesSound /\ TasksSound /\ FileSound /\ AloneSound
      /\ ReadSound /\ NoneKnown /\ AnswersSound
  BY DEF IInv
<1>2. AnswerType' /\ AnswersSound'
  BY SentSound
<1>3. get' \in [size : 0 .. 2, first : 0 .. MaxUses, despite : SUBSET {"writing"}]
  BY <1>1, TypesOf DEF NoFile
<1>4. pc' = [pc EXCEPT ![c] = "free"] /\ pc \in [Clients -> Steps]
  BY <1>1, TypesOf
<1>5. TypeOK'
  BY <1>1, <1>2, <1>3, <1>4, TypesOf DEF TypeOK, AnswerType, Steps
<1>6. RangesSound'
  BY <1>1, <1>3, <1>4, TypesOf DEF RangesSound, ImageAt
<1>7. TasksSound'
  BY <1>1, <1>3, <1>4, TypesOf DEF TasksSound, ImageAt
<1>8. FileSound'
  BY <1>1, <1>3, <1>4, TypesOf DEF FileSound, TasksSound, ImageAt
<1>9. AloneSound'
  BY <1>1, <1>3, <1>4, TypesOf DEF AloneSound, TasksSound, ImageAt
<1>10. ReadSound'
  BY <1>1, <1>3, <1>4, TypesOf DEF ReadSound, Reading, Writers, TasksSound
<1>11. NoneKnown'
  BY <1>1, <1>3, <1>4, TypesOf DEF NoneKnown
<1>12. QED
  BY <1>2, <1>5, <1>6, <1>7, <1>8, <1>9, <1>10, <1>11 DEF IInv

LEMMA CacheReadStep ==
  ASSUME IInv, NEW c \in Clients, CacheRead(c)
  PROVE  IInv'
<1>1. TypeOK /\ ReadSound
  BY DEF IInv
<1>2. Reading(c) /\ cache # Absent
  BY <1>1 DEF CacheRead, Reading, ReadSound
<1>3. /\ cache[1] \in 0 .. MaxUses /\ cache[2] \in 0 .. MaxUses
      /\ cache = <<cache[1], cache[2]>> /\ get.first \in 0 .. MaxUses /\ 0 \in 0 .. MaxUses
  BY <1>1, <1>2, Halves, TypesOf
<1>4. CASE pc[c] = "sized" /\ Size(cache) = 0
  <2>1. Sent(c, <<0, 0>>)
    BY <1>4 DEF CacheRead
  <2>2. cache = <<0, 0>>
    BY <1>3, <1>4 DEF Size
  <2>3. QED
    BY <1>2, <2>1, <2>2, NoBody, CacheReadLastStep
<1>5. CASE pc[c] = "sized" /\ Size(cache) # 0
  BY <1>5, CacheReadFirstStep
<1>6. CASE pc[c] = "begun"
  <2> DEFINE body == <<get.first, IF get.size = 2 THEN cache[2] ELSE 0>>
  <2>1. Sent(c, body)
    BY <1>6 DEF CacheRead
  <2>2. body \in Files
    BY <1>3 DEF Files
  <2>3. ASSUME "writing" \notin get.despite
        PROVE  body = cache
    <3>1. get.size = Size(cache) /\ get.first = cache[1]
      BY <1>1, <1>2, <1>6, <2>3 DEF ReadSound
    <3>2. (IF get.size = 2 THEN cache[2] ELSE 0) = cache[2]
      BY <1>3, <3>1 DEF Size
    <3>3. QED
      BY <1>3, <3>1, <3>2
  <2> HIDE DEF body
  <2>4. QED
    BY <1>2, <2>1, <2>2, <2>3, CacheReadLastStep
<1>7. QED
  BY <1>4, <1>5, <1>6 DEF CacheRead

LEMMA MethodTrackLyricsStep ==
  ASSUME IInv, NEW c \in Clients, MethodTrackLyrics(c)
  PROVE  IInv'
<1> USE DEF MethodTrackLyrics, Remembered, Asks, Goto, rows, store
<1>1. /\ TypeOK /\ RangesSound /\ TasksSound /\ FileSound /\ AloneSound
      /\ ReadSound /\ NoneKnown /\ AnswersSound
  BY DEF IInv
<1>2. AnswerType' /\ AnswersSound'
  <2>1. CASE lyrics.there
    BY <2>1, SendLyricsSound
  <2>2. CASE ~lyrics.there
    BY <2>2, SilentSound
  <2>3. QED
    BY <2>1, <2>2
<1>3. TypeOK'
  BY <1>1, <1>2, TypesOf DEF TypeOK, AnswerType, Steps
<1>4. RangesSound'
  BY <1>1, TypesOf DEF RangesSound, ImageAt
<1>5. TasksSound'
  BY <1>1, TypesOf DEF TasksSound, ImageAt
<1>6. FileSound'
  BY <1>1, TypesOf DEF FileSound, TasksSound, ImageAt
<1>7. AloneSound'
  BY <1>1, TypesOf DEF AloneSound, TasksSound, ImageAt
<1>8. ReadSound'
  BY <1>1, TypesOf DEF ReadSound, Reading, Writers, TasksSound
<1>9. NoneKnown'
  BY <1>1, TypesOf DEF NoneKnown
<1>10. QED
  BY <1>2, <1>3, <1>4, <1>5, <1>6, <1>7, <1>8, <1>9 DEF IInv

LEMMA TrackLyricsCbStep ==
  ASSUME IInv, NEW c \in Clients, TrackLyricsCb(c)
  PROVE  IInv'
<1> USE DEF TrackLyricsCb, Goto, rows, store, bounds
<1>1. /\ TypeOK /\ RangesSound /\ TasksSound /\ FileSound /\ AloneSound
      /\ ReadSound /\ NoneKnown /\ AnswersSound
  BY DEF IInv
<1>2. AnswerType' /\ AnswersSound'
  <2>1. lyrics.there \/ "track" \in events
    BY <1>1 DEF TasksSound
  <2>2. QED
    BY <2>1, SendLyricsSound
<1>3. TypeOK'
  BY <1>1, <1>2, TypesOf DEF TypeOK, AnswerType, Steps
<1>4. RangesSound'
  BY <1>1, TypesOf DEF RangesSound, ImageAt
<1>5. TasksSound'
  BY <1>1, TypesOf DEF TasksSound, ImageAt
<1>6. FileSound'
  BY <1>1, TypesOf DEF FileSound, TasksSound, ImageAt
<1>7. AloneSound'
  BY <1>1, TypesOf DEF AloneSound, TasksSound, ImageAt
<1>8. ReadSound'
  BY <1>1, TypesOf DEF ReadSound, Reading, Writers, TasksSound
<1>9. NoneKnown'
  BY <1>1, TypesOf DEF NoneKnown
<1>10. QED
  BY <1>2, <1>3, <1>4, <1>5, <1>6, <1>7, <1>8, <1>9 DEF IInv

LEMMA CreateThumbnailStep ==
  ASSUME IInv, NEW c \in Clients, CreateThumbnail(c)
  PROVE  IInv'
<1> USE DEF CreateThumbnail, Thumbnails, Reads, Goto, rows, store, bounds
<1>1. /\ TypeOK /\ RangesSound /\ TasksSound /\ FileSound /\ AloneSound
      /\ ReadSound /\ NoneKnown /\ AnswersSound
  BY DEF IInv
<1>2. AnswerType' /\ AnswersSound'
  BY SilentSound
<1>3. TypeOK'
  BY <1>1, <1>2, TypesOf DEF TypeOK, AnswerType, Steps
<1>4. RangesSound'
  BY <1>1, TypesOf DEF RangesSound, ImageAt
<1>5. TasksSound'
  BY <1>1, TypesOf DEF TasksSound, ImageAt
<1>6. FileSound'
  BY <1>1, TypesOf DEF FileSound, TasksSound, ImageAt
<1>7. AloneSound'
  BY <1>1, TypesOf DEF AloneSound, TasksSound, ImageAt
<1>8. ReadSound'
  BY <1>1, TypesOf DEF ReadSound, Reading, Writers, TasksSound
<1>9. NoneKnown'
  BY <1>1, TypesOf DEF NoneKnown
<1>10. QED
  BY <1>2, <1>3, <1>4, <1>5, <1>6, <1>7, <1>8, <1>9 DEF IInv

LEMMA CacheOpenStep ==
  ASSUME IInv, NEW c \in Clients, CacheOpen(c)
  PROVE  IInv'
<1> USE DEF CacheOpen, Writes, Goto, Writers, rows, bounds, Truncated
<1>1. /\ TypeOK /\ RangesSound /\ TasksSound /\ FileSound /\ AloneSound
      /\ ReadSound /\ NoneKnown /\ AnswersSound
  BY DEF IInv
<1>2. AnswerType' /\ AnswersSound'
  BY SilentSound
<1>3. cache' = <<0, 0>> /\ cache' # Absent /\ cache'[1] = 0 /\ cache'[2] = 0
      /\ cache' \in Files
  BY NoBody DEF Absent
<1>4. get' \in [size : 0 .. 2, first : 0 .. MaxUses, despite : SUBSET {"writing"}]
  BY <1>1, TypesOf
<1>5. pc \in [Clients -> Steps] /\ pc' = [pc EXCEPT ![c] = "opened"] /\ pc[c] = "made"
  BY <1>1, TypesOf
<1>6. (\E e \in Clients : Reading(e)) => "writing" \in get'.despite
  BY <1>1, TypesOf DEF ServerFree, Reading
<1>7. TypeOK'
  BY <1>1, <1>2, <1>3, <1>4, <1>5, TypesOf DEF TypeOK, AnswerType, Steps
<1>8. RangesSound'
  BY <1>1, <1>3, <1>4, <1>5, TypesOf DEF RangesSound, ImageAt
<1>9. TasksSound'
  BY <1>1, <1>3, <1>4, <1>5, TypesOf DEF TasksSound, ImageAt
<1>10. FileSound'
  BY <1>1, <1>3, <1>4, <1>5, TypesOf DEF FileSound, TasksSound, ImageAt
<1>11. AloneSound'
  BY <1>1, <1>3, <1>4, <1>5, TypesOf DEF AloneSound, TasksSound, ImageAt
<1>12. ReadSound'
  <2>1. \A e \in Clients : Reading(e)' => Reading(e)
    BY <1>5 DEF Reading
  <2>2. QED
    BY <1>1, <1>3, <1>6, <2>1 DEF ReadSound
<1>13. NoneKnown'
  BY <1>1, <1>3, <1>4, <1>5, TypesOf DEF NoneKnown
<1>14. QED
  BY <1>2, <1>7, <1>8, <1>9, <1>10, <1>11, <1>12, <1>13 DEF IInv

LEMMA CacheWriteStep ==
  ASSUME IInv, NEW c \in Clients, CacheWrite(c)
  PROVE  IInv'
<1> USE DEF Writes, Goto, rows, bounds
<1>1. /\ TypeOK /\ RangesSound /\ TasksSound /\ FileSound /\ AloneSound
      /\ ReadSound /\ NoneKnown /\ AnswersSound
  BY DEF IInv
<1>2. AnswerType' /\ AnswersSound'
  BY SilentSound DEF CacheWrite
<1> DEFINE a == cache[1]
           b == cache[2]
           r == read[c]
<1>3. /\ cache # Absent /\ pc[c] \in {"opened", "half"} /\ r \in 0 .. MaxUses
      /\ r <= uses.image /\ (r = 0 => "image" \in events)
  BY <1>1, TypesOf DEF CacheWrite, TasksSound, RangesSound, ImageAt
<1>4. /\ a \in 0 .. MaxUses /\ b \in 0 .. MaxUses /\ cache = <<a, b>>
      /\ a <= uses.image /\ b <= uses.image
  BY <1>1, <1>3, Halves DEF RangesSound
<1>5. /\ UNCHANGED <<image, track, uses, lyrics, saved, get, read, known, events,
                    requests, restarts>>
      /\ \/ /\ r # 0 /\ pc[c] = "opened" /\ pc' = [pc EXCEPT ![c] = "half"]
            /\ cache' = <<r, b>>
         \/ /\ r # 0 /\ pc[c] = "half" /\ pc' = [pc EXCEPT ![c] = "written"]
            /\ cache' = <<a, r>>
         \/ /\ r = 0 /\ pc[c] = "opened" /\ pc' = [pc EXCEPT ![c] = "written"]
            /\ cache' = <<a, b>>
  BY <1>4 DEF CacheWrite
<1>6. cache' # Absent /\ cache' \in Files
  <2> HIDE DEF a, b, r
  <2>1. PICK x \in 0 .. MaxUses, y \in 0 .. MaxUses : cache' = <<x, y>>
    BY <1>3, <1>4, <1>5
  <2>2. <<x, y>> # <<>>
    OBVIOUS
  <2>3. QED
    BY <2>1, <2>2 DEF Absent, Files
<1>7. TypeOK'
  BY <1>1, <1>2, <1>5, <1>6, TypesOf DEF TypeOK, AnswerType, Steps
<1>8. RangesSound'
  <2>1. cache'[1] <= uses.image /\ cache'[2] <= uses.image
    <3> HIDE DEF a, b, r
    <3>1. QED
      BY <1>3, <1>4, <1>5
  <2>2. QED
    BY <1>1, <1>3, <1>5, <2>1, TypesOf DEF RangesSound, ImageAt
<1>9. TasksSound'
  BY <1>1, <1>3, <1>5, <1>6, TypesOf DEF TasksSound, ImageAt
<1>10. FileSound'
  <2>1. SUFFICES ASSUME "image" \notin events, "torn" \notin events
                 PROVE  /\ cache'[1] = 0 => \E d \in Clients : pc'[d] = "opened"
                        /\ cache'[2] = 0 => \E d \in Clients : pc'[d] \in {"opened", "half"}
    BY <1>5 DEF FileSound
  <2>2. /\ a = 0 => \E d \in Clients : pc[d] = "opened"
        /\ b = 0 => \E d \in Clients : pc[d] \in {"opened", "half"}
    BY <1>1, <1>3, <2>1 DEF FileSound
  <2>3. r # 0 /\ pc \in [Clients -> Steps]
    BY <1>1, <1>3, <2>1, TypesOf
  <2> HIDE DEF a, b, r
  <2>4. CASE pc[c] = "opened"
    <3>1. cache'[1] # 0 /\ pc'[c] = "half"
      BY <1>5, <2>3, <2>4
    <3>2. QED
      BY <3>1
  <2>5. CASE pc[c] = "half"
    <3>1. cache'[1] = a /\ cache'[2] # 0 /\ pc' = [pc EXCEPT ![c] = "written"]
      BY <1>5, <2>3, <2>5
    <3>2. QED
      BY <2>2, <2>3, <2>5, <3>1
  <2>6. QED
    BY <1>3, <2>4, <2>5
<1>11. AloneSound'
  <2>1. SUFFICES ASSUME "crossed" \notin events
                 PROVE  AloneSound'
    BY <1>5 DEF AloneSound
  <2>2. \A d \in Clients : pc[d] \in {"opened", "half"} => d = c
    BY <1>1, <1>3, <2>1 DEF AloneSound
  <2>3. "torn" \notin events => /\ pc[c] = "opened" => (a = 0 /\ b = 0)
                                /\ pc[c] = "half" => (a = r /\ b = 0)
    BY <1>1, <1>3, <2>1 DEF AloneSound, Truncated
  <2>4. \A d \in Clients : pc'[d] \in {"opened", "half"} => d = c
    BY <1>1, <1>5, <2>2, TypesOf
  <2>5. ASSUME "torn" \notin events
        PROVE  \/ pc'[c] = "half" /\ cache' = <<r, 0>>
               \/ pc'[c] = "written" /\ ((cache' = <<r, r>> /\ r # 0) \/ cache' = <<0, 0>>)
    <3>1. pc \in [Clients -> Steps]
      BY <1>1, TypesOf
    <3>2. (pc[c] = "opened" => a = 0 /\ b = 0) /\ (pc[c] = "half" => a = r /\ b = 0)
      BY <2>3, <2>5
    <3> HIDE DEF a, b, r
    <3>3. CASE pc[c] = "opened"
      BY <1>5, <3>1, <3>2, <3>3
    <3>4. CASE pc[c] = "half"
      BY <1>5, <3>1, <3>2, <3>4
    <3>5. QED
      BY <1>3, <3>3, <3>4
  <2>6. ASSUME "torn" \notin events
        PROVE  /\ \A d \in Clients : pc'[d] = "opened" => cache' = Truncated
               /\ \A d \in Clients : pc'[d] = "half" => cache' = <<read'[d], 0>>
               /\ \/ \E d \in Clients : pc'[d] \in {"opened", "half"}
                  \/ cache' \in {Absent, Truncated} \/ Whole(cache')
    <3>1. read' = read
      BY <1>5
    <3>2. CASE pc'[c] = "half" /\ cache' = <<r, 0>>
      BY <2>4, <3>1, <3>2
    <3>3. CASE pc'[c] = "written" /\ ((cache' = <<r, r>> /\ r # 0) \/ cache' = <<0, 0>>)
      <4> HIDE DEF r
      <4>1. cache' = Truncated \/ Whole(cache')
        BY <3>3 DEF Truncated, Whole
      <4>2. QED
        BY <2>4, <3>3, <4>1
    <3>4. QED
      BY <2>5, <2>6, <3>2, <3>3
  <2>7. QED
    BY <1>5, <2>4, <2>6 DEF AloneSound
<1>12. NoneKnown'
  BY <1>1, <1>5 DEF NoneKnown
<1>13. ReadSound'
  <2>1. \A e \in Clients : Reading(e)' => Reading(e)
    BY <1>1, <1>5, TypesOf DEF Reading
  <2>2. c \in Writers
    BY <1>3 DEF Writers
  <2>3. (\E e \in Clients : Reading(e)) => "writing" \in get.despite
    BY <1>1, <2>2 DEF ReadSound
  <2>4. QED
    BY <1>1, <1>5, <1>6, <2>1, <2>3 DEF ReadSound
<1>14. QED
  BY <1>2, <1>7, <1>8, <1>9, <1>10, <1>11, <1>12, <1>13 DEF IInv

LEMMA CacheShortStep ==
  ASSUME IInv, NEW c \in Clients, CacheShort(c)
  PROVE  IInv'
<1> USE DEF CacheShort, Writes, Goto, rows, bounds
<1>1. /\ TypeOK /\ RangesSound /\ TasksSound /\ FileSound /\ AloneSound
      /\ ReadSound /\ NoneKnown /\ AnswersSound
  BY DEF IInv
<1>2. AnswerType' /\ AnswersSound'
  BY SilentSound
<1>3. TypeOK'
  BY <1>1, <1>2, TypesOf DEF TypeOK, AnswerType, Steps
<1>4. RangesSound'
  BY <1>1, TypesOf DEF RangesSound, ImageAt
<1>5. TasksSound'
  BY <1>1, TypesOf DEF TasksSound, ImageAt
<1>6. FileSound'
  BY <1>1, TypesOf DEF FileSound, TasksSound, ImageAt
<1>7. AloneSound'
  BY <1>1, TypesOf DEF AloneSound, TasksSound, ImageAt
<1>8. ReadSound'
  <2>1. \A e \in Clients : Reading(e)' => Reading(e) /\ pc'[e] = pc[e]
    BY <1>1, TypesOf DEF Reading
  <2>2. Writers' \subseteq Writers
    BY <1>1, TypesOf DEF Writers
  <2>3. QED
    BY <1>1, <2>1, <2>2 DEF ReadSound
<1>9. NoneKnown'
  BY <1>1, TypesOf DEF NoneKnown
<1>10. QED
  BY <1>2, <1>3, <1>4, <1>5, <1>6, <1>7, <1>8, <1>9 DEF IInv

LEMMA CacheFailsStep ==
  ASSUME IInv, NEW c \in Clients, CacheFails(c)
  PROVE  IInv'
<1> USE DEF CacheFails, Writes, Goto, rows, bounds
<1>1. /\ TypeOK /\ RangesSound /\ TasksSound /\ FileSound /\ AloneSound
      /\ ReadSound /\ NoneKnown /\ AnswersSound
  BY DEF IInv
<1>2. AnswerType' /\ AnswersSound'
  BY SilentSound
<1>3. TypeOK'
  BY <1>1, <1>2, TypesOf DEF TypeOK, AnswerType, Steps
<1>4. RangesSound'
  BY <1>1, TypesOf DEF RangesSound, ImageAt
<1>5. TasksSound'
  BY <1>1, TypesOf DEF TasksSound, ImageAt
<1>6. FileSound'
  BY <1>1, TypesOf DEF FileSound, TasksSound, ImageAt
<1>7. AloneSound'
  BY <1>1, TypesOf DEF AloneSound, TasksSound, ImageAt
<1>8. ReadSound'
  <2>1. \A e \in Clients : Reading(e)' => Reading(e) /\ pc'[e] = pc[e]
    BY <1>1, TypesOf DEF Reading
  <2>2. Writers' \subseteq Writers
    BY <1>1, TypesOf DEF Writers
  <2>3. QED
    BY <1>1, <2>1, <2>2 DEF ReadSound
<1>9. NoneKnown'
  BY <1>1, TypesOf DEF NoneKnown
<1>10. QED
  BY <1>2, <1>3, <1>4, <1>5, <1>6, <1>7, <1>8, <1>9 DEF IInv

LEMMA TrackByIdStep ==
  ASSUME IInv, NEW c \in Clients, TrackById(c)
  PROVE  IInv'
<1> USE DEF TrackById, NextStep, Reads, Goto, rows, store, bounds
<1>1. /\ TypeOK /\ RangesSound /\ TasksSound /\ FileSound /\ AloneSound
      /\ ReadSound /\ NoneKnown /\ AnswersSound
  BY DEF IInv
<1>2. AnswerType' /\ AnswersSound'
  BY SilentSound
<1>3. TypeOK'
  BY <1>1, <1>2, TypesOf DEF TypeOK, AnswerType, Steps
<1>4. RangesSound'
  BY <1>1, TypesOf DEF RangesSound, ImageAt
<1>5. TasksSound'
  BY <1>1, TypesOf DEF TasksSound, ImageAt
<1>6. FileSound'
  BY <1>1, TypesOf DEF FileSound, TasksSound, ImageAt
<1>7. AloneSound'
  BY <1>1, TypesOf DEF AloneSound, TasksSound, ImageAt
<1>8. ReadSound'
  BY <1>1, TypesOf DEF ReadSound, Reading, Writers, TasksSound
<1>9. NoneKnown'
  BY <1>1, TypesOf DEF NoneKnown
<1>10. QED
  BY <1>2, <1>3, <1>4, <1>5, <1>6, <1>7, <1>8, <1>9 DEF IInv

LEMMA LyricsFetchStep ==
  ASSUME IInv, NEW c \in Clients, LyricsFetch(c)
  PROVE  IInv'
<1> USE DEF LyricsFetch, Reads, Goto, rows, store, bounds
<1>1. /\ TypeOK /\ RangesSound /\ TasksSound /\ FileSound /\ AloneSound
      /\ ReadSound /\ NoneKnown /\ AnswersSound
  BY DEF IInv
<1>2. AnswerType' /\ AnswersSound'
  BY SilentSound
<1>3. TypeOK'
  BY <1>1, <1>2, TypesOf DEF TypeOK, AnswerType, Steps
<1>4. RangesSound'
  BY <1>1, TypesOf DEF RangesSound, ImageAt
<1>5. TasksSound'
  BY <1>1, TypesOf DEF TasksSound, ImageAt
<1>6. FileSound'
  BY <1>1, TypesOf DEF FileSound, TasksSound, ImageAt
<1>7. AloneSound'
  BY <1>1, TypesOf DEF AloneSound, TasksSound, ImageAt
<1>8. ReadSound'
  BY <1>1, TypesOf DEF ReadSound, Reading, Writers, TasksSound
<1>9. NoneKnown'
  BY <1>1, TypesOf DEF NoneKnown
<1>10. QED
  BY <1>2, <1>3, <1>4, <1>5, <1>6, <1>7, <1>8, <1>9 DEF IInv

LEMMA LyricsSetStep ==
  ASSUME IInv, NEW c \in Clients, LyricsSet(c)
  PROVE  IInv'
<1> USE DEF LyricsSet, Goto, rows, bounds
<1>1. /\ TypeOK /\ RangesSound /\ TasksSound /\ FileSound /\ AloneSound
      /\ ReadSound /\ NoneKnown /\ AnswersSound
  BY DEF IInv
<1>2. AnswerType' /\ AnswersSound'
  BY SilentSound
<1>3. /\ lyrics' \in Lyrics /\ lyrics'.of = read[c] /\ lyrics'.there
  BY <1>1, TypesOf DEF Lyrics
<1>4. TypeOK'
  BY <1>1, <1>2, <1>3, TypesOf DEF TypeOK, AnswerType, Steps
<1>5. RangesSound'
  BY <1>1, <1>3, TypesOf DEF RangesSound, ImageAt
<1>6. TasksSound'
  BY <1>1, <1>3, TypesOf DEF TasksSound, ImageAt
<1>7. FileSound'
  BY <1>1, <1>3, TypesOf DEF FileSound, TasksSound, ImageAt
<1>8. AloneSound'
  BY <1>1, <1>3, TypesOf DEF AloneSound, TasksSound, ImageAt
<1>9. ReadSound'
  BY <1>1, <1>3, TypesOf DEF ReadSound, Reading, Writers, TasksSound
<1>10. NoneKnown'
  BY <1>1, <1>3, TypesOf DEF NoneKnown
<1>11. QED
  BY <1>2, <1>4, <1>5, <1>6, <1>7, <1>8, <1>9, <1>10 DEF IInv

LEMMA StutterStep ==
  ASSUME IInv, UNCHANGED vars
  PROVE  IInv'
<1> USE DEF vars, rows, store, bounds
<1>1. /\ TypeOK /\ RangesSound /\ TasksSound /\ FileSound /\ AloneSound
      /\ ReadSound /\ NoneKnown /\ AnswersSound
  BY DEF IInv
<1>2. AnswerType' /\ AnswersSound'
  BY <1>1 DEF TypeOK, AnswerType, AnswersSound
<1>3. TypeOK'
  BY <1>1, <1>2, TypesOf DEF TypeOK, AnswerType, Steps
<1>4. RangesSound'
  BY <1>1, TypesOf DEF RangesSound, ImageAt
<1>5. TasksSound'
  BY <1>1, TypesOf DEF TasksSound, ImageAt
<1>6. FileSound'
  BY <1>1, TypesOf DEF FileSound, TasksSound, ImageAt
<1>7. AloneSound'
  BY <1>1, TypesOf DEF AloneSound, TasksSound, ImageAt
<1>8. ReadSound'
  BY <1>1, TypesOf DEF ReadSound, Reading, Writers, TasksSound
<1>9. NoneKnown'
  BY <1>1, TypesOf DEF NoneKnown
<1>10. QED
  BY <1>2, <1>3, <1>4, <1>5, <1>6, <1>7, <1>8, <1>9 DEF IInv

-----------------------------------------------------------------------------
(* The theorems.                                                           *)

THEOREM Invariance == Spec => []IInv
<1>1. Init => IInv
  BY InitSound
<1>2. IInv /\ [Next]_vars => IInv'
  <2> SUFFICES ASSUME IInv, [Next]_vars
               PROVE  IInv'
    OBVIOUS
  <2>1. CASE Scan
    BY <2>1, ScanBeginStep, ScanRowsStep, ScanCommitStep DEF Scan
  <2>2. CASE Restart
    BY <2>2, RestartStep
  <2>3. CASE Quiet \/ UNCHANGED vars
    BY <2>3, StutterStep DEF Quiet
  <2>4. ASSUME NEW c \in Clients, Request(c)
        PROVE  IInv'
    BY <2>4, MethodImageFileStep, MethodImageGetStep, MethodImageTaskStep,
       MethodTrackLyricsStep DEF Request
  <2>5. ASSUME NEW c \in Clients, ImageTask(c) \/ Served(c)
        PROVE  IInv'
    BY <2>5, CreateThumbnailStep, CacheOpenStep, CacheWriteStep, CacheShortStep,
       CacheFailsStep, ImageDoneStep, TrackLyricsCbStep, CacheReadStep
       DEF ImageTask, Served
  <2>6. ASSUME NEW c \in Clients, LyricsTask(c)
        PROVE  IInv'
    BY <2>6, TrackByIdStep, LyricsFetchStep, LyricsSetStep DEF LyricsTask
  <2>7. QED
    BY <2>1, <2>2, <2>3, <2>4, <2>5, <2>6 DEF Next, Work
<1>3. QED
  BY <1>1, <1>2, PTL DEF Spec

(* Every variable has its type, and an answer of 200 is empty only if a    *)
(* task truncated the file between ftell and fread of cache_get: otherwise *)
(* the file it has found is neither absent nor of length 0, and lyrics     *)
(* that are NULL are not sent.                                             *)
THEOREM TypesAlways == Spec => []TypeOK
<1>1. IInv => TypeOK
  BY DEF IInv
<1>2. QED
  BY <1>1, Invariance, PTL

(* However the tasks for one image and one track interleave with each      *)
(* other, with the calls of cache_get, the scan, a full disk and restarts: *)
(* what is sent is whole and of the right image or track, and nothing is   *)
(* refused, but for the reasons an answer records.                         *)
THEOREM AnswersAlways == Spec => []AnswersSound
<1>1. IInv => AnswersSound
  BY DEF IInv
<1>2. QED
  BY <1>1, Invariance, PTL

(* Lyrics that were found are replaced only by a task whose client had     *)
(* asked before the table had a row for the track, or by a crash in the    *)
(* transaction of a scan, which takes the row back to what it was before.  *)
THEOREM KeptAlways == Spec => LyricsKept
<1>1. IInv /\ [Next]_vars =>
        [lyrics.of # 0 /\ lyrics' # lyrics =>
           \/ \E c \in Clients : pc[c] = "fetched" /\ ~known[c]
           \/ saved # NoScan /\ restarts' # restarts /\ lyrics' = saved[3]]_vars
  <2> SUFFICES ASSUME IInv, Next, lyrics' # lyrics
               PROVE  \/ \E c \in Clients : pc[c] = "fetched" /\ ~known[c]
                      \/ saved # NoScan /\ restarts' # restarts /\ lyrics' = saved[3]
    BY DEF vars, store
  <2>1. CASE Restart
    <3>1. restarts' # restarts
      BY <2>1, TypesOf DEF Restart, IInv
    <3>2. lyrics' = Durable[3]
      BY <2>1 DEF Restart
    <3>3. saved # NoScan
      BY <3>2 DEF Durable
    <3>4. Durable = saved
      BY <3>3 DEF Durable
    <3>5. QED
      BY <3>1, <3>2, <3>3, <3>4
  <2>2. CASE ~Restart
    <3>1. ~Scan /\ ~Quiet
      BY DEF Scan, ScanBegin, ScanRows, ScanCommit, Quiet, vars, store
    <3>2. \A c \in Clients : ~Request(c)
      BY DEF Request, MethodImageFile, MethodImage, MethodTrackLyrics, store
    <3>3. \A c \in Clients : ~ImageTask(c)
      BY DEF ImageTask, CreateThumbnail, Reads, CacheOpen, CacheWrite, CacheShort,
             CacheFails, Writes, store
    <3>4. \A c \in Clients : ~Served(c)
      BY DEF Served, ImageDone, TrackLyricsCb, CacheRead, store
    <3>5. \A c \in Clients : ~TrackById(c) /\ ~LyricsFetch(c)
      BY DEF TrackById, LyricsFetch, Reads, store
    <3>6. \E c \in Clients : LyricsSet(c)
      BY <2>2, <3>1, <3>2, <3>3, <3>4, <3>5 DEF Next, Work, LyricsTask
    <3>7. QED
      BY <3>6 DEF IInv, NoneKnown, LyricsSet, Goto
  <2>3. QED
    BY <2>1, <2>2
<1>2. QED
  BY <1>1, Invariance, PTL DEF Spec, LyricsKept

=============================================================================
