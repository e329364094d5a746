------------------------------ MODULE Results -------------------------------
(***************************************************************************)
(* Thumbnails and lyrics: what the HTTP methods /image and /track/lyrics   *)
(* answer from the cache directory and the table lyrics, and the tasks     *)
(* that fill them (image.c, lyrics.c, cache.c).                            *)
(*                                                                         *)
(* The server thread makes a task per request and does not look whether    *)
(* one for the same image or track is under way, so tasks interleave with  *)
(* each other, with the server thread, and with a scan that removes rows   *)
(* and gives their ids to new ones.  Each call of the C library that       *)
(* opens, measures, reads or writes the cache file is a step, and so is    *)
(* each half of a read or write.  That a task is executed once and then    *)
(* announced is what TaskPool shows; the connection is in EventLoop.       *)
(*                                                                         *)
(* There is one id for images and one for tracks: nothing here relates two *)
(* ids.  What an id stands for is named by a number that grows whenever    *)
(* the id is used again, 0 if there is no such row.                        *)
(***************************************************************************)
EXTENDS Naturals, FiniteSets

CONSTANTS Clients,      \* connections with at most one request under way each
          MaxRequests,  \* bound: requests of all the clients together
          MaxUses,      \* bound: how many things the two ids stand for
          MaxRestarts   \* bound: how many times the server is started again

ASSUME ResultsAssumption ==
  {MaxRequests, MaxRestarts} \subseteq Nat /\ MaxUses \in Nat \ {0}

VARIABLES image,    \* what the row of the image's file holds
          track,    \* what the row of the track holds
          cache,    \* the cache file: absent, or its two halves, 0 if not written
          lyrics,   \* the row of the track in table lyrics
          saved,    \* what the database keeps if the process dies in a scan
          get,      \* the cache file that cache_get is reading
          pc,       \* pc[c]: how far the request of c and its task have come
          read,     \* read[c]: what the task has made of the row it has read
          answer,   \* what was answered in the last step, if anything
          uses,     \* history: how many things each of the two ids has stood for
          known,    \* history: known[c], lyrics had a row when c asked
          events,   \* history: what happened that a later answer suffers from
          requests, \* history: how many requests were made
          restarts  \* history: how many restarts there were

rows == <<image, track, uses>>
store == <<cache, lyrics>>
bounds == <<requests, restarts>>
vars == <<rows, store, saved, get, pc, read, answer, known, events, bounds>>

(***************************************************************************)
(* A client is free, waits for its task, or has the server thread read the *)
(* cache file for it.  A task for an image is handed over, has made the    *)
(* thumbnail, has truncated the file, has written half of it, and is done; *)
(* a task for lyrics is handed over, searches, has ended its search, and   *)
(* is done.  The file that is read has been measured, or is read half.     *)
(***************************************************************************)
Steps == {"free", "image", "made", "opened", "half", "written",
          "lyrics", "searching", "fetched", "stored", "sized", "begun"}

(* What an answer may suffer from: another task is between fopen and       *)
(* fclose of the file while it is read, a task was stopped there once by a *)
(* restart or a full disk, the id was used again, a task found no row or   *)
(* could not make anything of it, a task has truncated the file while      *)
(* another was writing it, or the file cannot be opened for reading.       *)
Troubles == {"writing", "torn", "reused", "failed", "crossed", "unopened"}

Nothing == [code |-> 0, of |-> "none", body |-> <<0, 0>>, despite |-> {}]
NoRow == [there |-> FALSE, of |-> 0]  \* lyrics that are NULL are of 0
Absent == <<>>
Truncated == <<0, 0>>
NoScan == <<>>
NoFile == [size |-> 0, first |-> 0, despite |-> {}]

Init == /\ image = 1 /\ track = 1
        /\ cache = Absent /\ lyrics = NoRow
        /\ saved = NoScan /\ get = NoFile
        /\ pc = [c \in Clients |-> "free"]
        /\ read = [c \in Clients |-> 0]
        /\ answer = Nothing
        /\ uses = [image |-> 1, track |-> 1]
        /\ known = [c \in Clients |-> FALSE]
        /\ events = {}
        /\ requests = 0 /\ restarts = 0

Silent == answer' = Nothing

Goto(c, from, to) == pc[c] = from /\ pc' = [pc EXCEPT ![c] = to]

-----------------------------------------------------------------------------
(* A scan, and a restart.                                                  *)

(* A row goes with its file; neither cache file nor lyrics go with it.     *)
ImageRemoved == image # 0 /\ image' = 0 /\ UNCHANGED <<track, uses>>
TrackRemoved == track # 0 /\ track' = 0 /\ UNCHANGED <<image, uses>>

(* A new row gets the id again, if no row has a higher one.                *)
ImageAdded == /\ image = 0 /\ uses.image + uses.track < MaxUses
              /\ uses' = [uses EXCEPT !.image = @ + 1]
              /\ image' = uses.image + 1
              /\ UNCHANGED track

TrackAdded == /\ track = 0 /\ uses.image + uses.track < MaxUses
              /\ uses' = [uses EXCEPT !.track = @ + 1]
              /\ track' = uses.track + 1
              /\ UNCHANGED image

ScanRows == /\ saved # NoScan
            /\ ImageRemoved \/ TrackRemoved \/ ImageAdded \/ TrackAdded
            /\ UNCHANGED <<lyrics, saved>>

(* What a crash leaves of the database.  There is one connection, so that  *)
(* the lyrics stored during a scan belong to the transaction of the scan.  *)
Durable == IF saved = NoScan THEN <<image, track, lyrics>> ELSE saved

(* BEGIN TRANSACTION and COMMIT TRANSACTION of scan_thread_func.           *)
ScanBegin == /\ saved = NoScan /\ saved' = Durable
             /\ UNCHANGED <<rows, lyrics>>
ScanCommit == /\ saved # NoScan /\ saved' = NoScan
              /\ UNCHANGED <<rows, lyrics>>

Scan == /\ ScanBegin \/ ScanRows \/ ScanCommit
        /\ Silent
        /\ UNCHANGED <<cache, get, pc, read, known, events, bounds>>

Writers == {c \in Clients : pc[c] \in {"opened", "half"}}

(* The server ends or is killed, and is started again: connections and     *)
(* tasks are gone, the cache directory and what was committed are not.     *)
Restart == /\ restarts < MaxRestarts
           /\ restarts' = restarts + 1
           /\ image' = Durable[1] /\ track' = Durable[2] /\ lyrics' = Durable[3]
           /\ saved' = NoScan /\ get' = NoFile
           /\ events' = events \cup (IF Writers = {} THEN {} ELSE {"torn"})
           /\ pc' = [c \in Clients |-> "free"]
           /\ read' = [c \in Clients |-> 0]
           /\ known' = [c \in Clients |-> FALSE]
           /\ Silent
           /\ UNCHANGED <<cache, uses, requests>>

-----------------------------------------------------------------------------
(* The server thread, which does one thing at a time.                      *)

ServerFree == \A c \in Clients : pc[c] \notin {"sized", "begun"}

Asks(c) == /\ pc[c] = "free" /\ requests < MaxRequests /\ ServerFree
           /\ requests' = requests + 1

Others(c) == IF Writers \ {c} = {} THEN {} ELSE {"writing"}

Suffers(of) ==
  {t \in Troubles :
     CASE t \in {"writing", "unopened"} -> FALSE
       [] t = "torn" -> of = "image" /\ "torn" \in events
       [] t = "reused" -> uses[of] > 1
       [] t = "failed" -> of \in events
       [] t = "crossed" -> of = "image" /\ "crossed" \in events}

Reply(of, code, body, troubles) ==
  answer' = [code |-> code, of |-> of, body |-> body,
             despite |-> troubles \cup Suffers(of)]

Size(file) == IF file[2] # 0 THEN 2 ELSE IF file[1] # 0 THEN 1 ELSE 0

(* Seeded fault: a file of length 0 is read like any other.                *)
EmptyAbsent == cache = Absent

(* cache_get has no data for a file that is not there, or of length 0.     *)
Empty == cache \in {Absent, Truncated}

Refused(c, troubles) == /\ pc' = [pc EXCEPT ![c] = "free"]
                        /\ Reply("image", 404, <<0, 0>>, troubles)
                        /\ UNCHANGED get

(* send_image: cache_get opens the file, if it can, and takes its size.    *)
CacheGet(c) ==
  \/ Empty /\ Refused(c, Others(c))
  \/ cache # Absent /\ Refused(c, {"unopened"})
  \/ /\ ~Empty
     /\ pc' = [pc EXCEPT ![c] = "sized"]
     /\ get' = [size |-> Size(cache), first |-> 0, despite |-> Others(c)]
     /\ Silent

Sent(c, body) == /\ pc' = [pc EXCEPT ![c] = "free"]
                 /\ Reply("image", 200, body, get.despite)
                 /\ get' = NoFile

(* fread gives what is in the file by now, as far as the size goes; it     *)
(* stops where the file ends, and its count is not looked at.              *)
CacheRead(c) ==
  /\ \/ /\ pc[c] = "sized"
        /\ IF Size(cache) = 0 THEN Sent(c, <<0, 0>>)
           ELSE /\ pc' = [pc EXCEPT ![c] = "begun"]
                /\ get' = [get EXCEPT !.first = cache[1]]
                /\ Silent
     \/ /\ pc[c] = "begun"
        /\ Sent(c, <<get.first, IF get.size = 2 THEN cache[2] ELSE 0>>)
  /\ UNCHANGED <<rows, store, saved, read, known, events, bounds>>

(* /image without a size: the file itself, if it can be read.              *)
MethodImageFile(c) ==
  /\ Asks(c)
  /\ \E found \in {0, image} :
       answer' = [code |-> IF found = 0 THEN 404 ELSE 200, of |-> "file",
                  body |-> <<found, found>>, despite |-> {}]
  /\ UNCHANGED <<rows, store, saved, get, pc, read, known, events, restarts>>

(* /image with a size.                                                     *)
MethodImage(c) ==
  /\ Asks(c)
  /\ IF cache # Absent THEN CacheGet(c)
                       ELSE Goto(c, "free", "image") /\ Silent /\ UNCHANGED get
  /\ UNCHANGED <<rows, store, saved, read, known, events, restarts>>

(* Seeded fault: the client is woken while the file is being written.      *)
WrittenHalf(c) == pc[c] \in {"half", "written"}

(* The byte in the pipe says that the task has returned.                   *)
Written(c) == pc[c] = "written"

(* Its callback send_image.                                                *)
ImageDone(c) == /\ Written(c) /\ ServerFree
                /\ CacheGet(c)
                /\ read' = [read EXCEPT ![c] = 0]
                /\ UNCHANGED <<rows, store, saved, known, events, bounds>>

(* send_lyrics, or 404 when library_lyrics has none.                       *)
SendLyrics == IF lyrics.of = 0
                 THEN Reply("track", 404, <<0, 0>>, {})
                 ELSE Reply("track", 200, <<lyrics.of, lyrics.of>>, {})

(* Seeded fault: only a row without lyrics stops another search.           *)
RememberedFailed == lyrics.there /\ lyrics.of = 0

(* The time of the row is not 0.                                           *)
Remembered == lyrics.there

MethodTrackLyrics(c) ==
  /\ Asks(c)
  /\ IF Remembered THEN SendLyrics /\ UNCHANGED <<pc, known>>
     ELSE /\ Goto(c, "free", "lyrics") /\ Silent
          /\ known' = [known EXCEPT ![c] = lyrics.there]
  /\ UNCHANGED <<rows, store, saved, get, read, events, restarts>>

TrackLyricsCb(c) == /\ Goto(c, "stored", "free") /\ ServerFree
                    /\ SendLyrics
                    /\ read' = [read EXCEPT ![c] = 0]
                    /\ known' = [known EXCEPT ![c] = FALSE]
                    /\ UNCHANGED <<rows, store, saved, get, events, bounds>>

-----------------------------------------------------------------------------
(* The tasks.                                                              *)

Reads(c, what, made) ==
  /\ read' = [read EXCEPT ![c] = made]
  /\ events' = events \cup (IF made = 0 THEN {what} ELSE {})
  /\ Silent
  /\ UNCHANGED <<rows, store, saved, get, known, bounds>>

(* image_create_thumbnail: the image is read, cropped and scaled, or not.  *)
Thumbnails == {0, image}

(* library_image_path, and the thumbnail of what is there.                 *)
CreateThumbnail(c) == /\ Goto(c, "image", "made")
                      /\ \E made \in Thumbnails : Reads(c, "image", made)

Writes(c, from, to, file) ==
  /\ Goto(c, from, to)
  /\ cache' = file
  /\ Silent
  /\ UNCHANGED <<rows, lyrics, saved, read, known, bounds>>

(* fopen of cache_set, which truncates the file.                           *)
CacheOpen(c) ==
  /\ Writes(c, "made", "opened", Truncated)
  /\ events' = events \cup (IF Writers = {} THEN {} ELSE {"crossed"})
  /\ get' = [get EXCEPT !.despite = IF ServerFree THEN {} ELSE {"writing"}]

(* fwrite and fclose, each at the place its own FILE has come to.          *)
CacheWrite(c) ==
  /\ \/ read[c] # 0 /\ Writes(c, "opened", "half", <<read[c], cache[2]>>)
     \/ read[c] # 0 /\ Writes(c, "half", "written", <<cache[1], read[c]>>)
     \/ read[c] = 0 /\ Writes(c, "opened", "written", cache)
  /\ UNCHANGED <<events, get>>

(* fwrite stops, since the disk is full: nobody looks at its count, and    *)
(* what is written so far is what remains.                                 *)
CacheShort(c) == /\ read[c] # 0
                 /\ \E from \in {"opened", "half"} : Writes(c, from, "written", cache)
                 /\ events' = events \cup {"torn"}
                 /\ UNCHANGED get

(* fopen fails: nothing is written.                                        *)
CacheFails(c) == /\ Writes(c, "made", "written", cache)
                 /\ events' = events \cup {"image"}
                 /\ UNCHANGED get

ImageTask(c) == CreateThumbnail(c) \/ CacheOpen(c) \/ CacheWrite(c) \/ CacheShort(c)
                \/ CacheFails(c)

(* Seeded fault: a task that finds no track does not come to its end.      *)
NextStepNever == IF track = 0 THEN "lyrics" ELSE "searching"

(* A task that finds no track ends without storing anything.               *)
NextStep == IF track = 0 THEN "stored" ELSE "searching"

(* library_track_by_id.                                                    *)
TrackById(c) == Goto(c, "lyrics", NextStep) /\ Reads(c, "track", track)

(* lyrics_fetch: three pages are tried, and one of them has the lyrics of  *)
(* the track that was read, or none.                                       *)
LyricsFetch(c) == \E made \in {0, read[c]} :
                    Goto(c, "searching", "fetched") /\ Reads(c, "track", made)

(* library_lyrics_set: INSERT OR REPLACE, with or without lyrics.          *)
LyricsSet(c) == /\ Goto(c, "fetched", "stored")
                /\ lyrics' = [there |-> TRUE, of |-> read[c]]
                /\ Silent
                /\ UNCHANGED <<rows, cache, saved, get, read, known, events, bounds>>

LyricsTask(c) == TrackById(c) \/ LyricsFetch(c) \/ LyricsSet(c)

-----------------------------------------------------------------------------
(* The client has its answer and asks nothing more.                        *)
Quiet == (\A c \in Clients : pc[c] = "free") /\ UNCHANGED vars

Request(c) == MethodImageFile(c) \/ MethodImage(c) \/ MethodTrackLyrics(c)

Served(c) == ImageDone(c) \/ TrackLyricsCb(c) \/ CacheRead(c)

Work(c) == Served(c) \/ ImageTask(c) \/ LyricsTask(c)

Next == \/ Scan \/ Restart \/ Quiet
        \/ \E c \in Clients : Request(c) \/ Work(c)

Spec == Init /\ [][Next]_vars

(* Every task is executed and announced (TaskPool), and the server thread  *)
(* serves every connection whose pipe is readable (EventLoop), if every    *)
(* task function returns.  Of a search for lyrics that is an assumption    *)
(* about the site and the network: url_fetch sets no timeout.              *)
FairSpec == Spec /\ \A c \in Clients : WF_vars(Work(c))

-----------------------------------------------------------------------------
(* Properties.                                                             *)

Files == (0 .. MaxUses) \X (0 .. MaxUses)
Lyrics == [there : BOOLEAN, of : 0 .. MaxUses]

(* Every variable has its type, and an answer of 200 is empty only if      *)
(* another task has written the cache file while it was read.              *)
TypeOK ==
  /\ {image, track} \subseteq 0 .. MaxUses
  /\ uses \in [image : 1 .. MaxUses, track : 1 .. MaxUses]
  /\ cache = Absent \/ cache \in Files
  /\ lyrics \in Lyrics
  /\ saved = NoScan \/ saved \in (0 .. MaxUses) \X (0 .. MaxUses) \X Lyrics
  /\ get \in [size : 0 .. 2, first : 0 .. MaxUses, despite : SUBSET {"writing"}]
  /\ pc \in [Clients -> Steps] /\ read \in [Clients -> 0 .. MaxUses]
  /\ answer \in [code : {0, 200, 404}, of : {"none", "file", "image", "track"},
                body : Files, despite : SUBSET Troubles]
  /\ answer.code = 200 /\ answer.body = <<0, 0>> => "writing" \in answer.despite
  /\ known \in [Clients -> BOOLEAN] /\ events \subseteq {"torn", "crossed", "image", "track"}
  /\ requests \in 0 .. MaxRequests /\ restarts \in 0 .. MaxRestarts

Whole(body) == body[1] # 0 /\ body[1] = body[2]

(* A thumbnail that is sent is the whole of one thumbnail, unless another  *)
(* task has written the file while it was measured and read, a restart or  *)
(* a full disk once cut a writer short, or two tasks once wrote the file   *)
(* at a time and did not write the same, since one has failed or the id    *)
(* has passed to another image; and /image answers 404 only if a task has  *)
(* failed or was cut short, the file is being written, or it cannot be     *)
(* opened.  Lyrics are those of the track unless its id was used again,    *)
(* and are refused only if a search for them has failed.                   *)
AnswersSound ==
  LET is(of, code) == answer.of = of /\ answer.code = code
      despite(T) == answer.despite \cap T # {}
  IN  /\ is("image", 200) => \/ Whole(answer.body) \/ despite({"writing", "torn"})
                             \/ despite({"crossed"}) /\ despite({"failed", "reused"})
      /\ is("image", 404) => despite({"writing", "torn", "failed", "unopened"})
      /\ is("track", 200) => answer.body = <<1, 1>> \/ despite({"reused"})
      /\ is("track", 404) => despite({"failed"})

(* Lyrics that were found are replaced, by others or by none, only by a    *)
(* task whose client had asked before there was a row for the track, or by *)
(* a crash in the middle of a scan, which takes the table back to where it *)
(* was when the scan began.                                                *)
LyricsKept ==
  [][lyrics.of # 0 /\ lyrics' # lyrics =>
       \/ \E c \in Clients : pc[c] = "fetched" /\ ~known[c]
       \/ saved # NoScan /\ restarts' # restarts /\ lyrics' = saved[3]]_vars

(* Every request that waits for a task is answered, unless a restart ends  *)
(* its connection, provided that no search for lyrics goes on for ever: it *)
(* would leave its own request without an answer, and hold a thread of the *)
(* pool that other tasks need.                                             *)
RequestsAnswered == \A c \in Clients : pc[c] # "free" ~> pc[c] = "free"

=============================================================================
