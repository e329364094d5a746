---------------------------- MODULE LibraryScan ----------------------------
(***************************************************************************)
(* A scan of the music directory (scan.c): the walk over the directories   *)
(* of the library and of the file system that brings the tables up to date.*)
(*                                                                         *)
(* The walk is recursive in the code; here its calls of scan_directory and *)
(* scan_directory_cb are the frames of a stack, and each step handles one  *)
(* row or one directory entry.  Between two steps the user may change      *)
(* files, the scan may be interrupted, and the program may crash, which    *)
(* takes the database back to the last transaction that was committed.     *)
(*                                                                         *)
(* An assumption on the user, without which the library is not kept up to  *)
(* date: every change has a time of its own (mtimes are whole seconds) and *)
(* also touches the directory (a directory whose mtime is unchanged is not *)
(* looked into).  And no cue sheets name each other's files in a circle,   *)
(* or a file by a path with . or .. in it.                                 *)
(***************************************************************************)
EXTENDS Library, Sequences

CONSTANTS Root,        \* the music directory, one of Dirs
          Audio,       \* paths of audio files
          Images,      \* paths of image files
          Sheets,      \* paths of cue sheets
          Base,        \* Base[p]: the sheet with the base name of audio file p
          SheetAlbum,  \* the album in the header of the sheets
          SheetTracks, \* bound: the tracks in a sheet
          Home,        \* Home[p]: the directory p is in; Home[Root] = Root
          NoName,      \* no album tag
          Broken,      \* not the contents of an audio or image file, or a
                       \*   sheet whose FILE is not there
          NoFile,      \* a sheet that has no FILE, or none that is music
          Rank,        \* Rank[p]: how image-prefix and name rank image p, best is least
          Given,       \* the files and directories there at the start
          GivenTag,    \* GivenTag[p]: what file p then holds
          MaxChanges,  \* bound: changes of the file system
          MaxScans,    \* bound: scans
          MaxBreaks    \* bound: interruptions and crashes

Files == Audio \cup Images \cup Sheets
Paths == Dirs \cup Files

(* What is below directory p, with p.                                      *)
Under(p) ==
  LET reach[n \in 0 .. Cardinality(Dirs)] ==
        IF n = 0 THEN {p} ELSE reach[n - 1] \cup {q \in Paths : Home[q] \in reach[n - 1]}
  IN reach[Cardinality(Dirs)]

(* What a file may hold: an image has no tag, and a sheet names a file at  *)
(* or below its directory, whose path is put before the name, or none.     *)
Contents(p) == CASE p \in Audio -> Names \cup {NoName, Broken}
                 [] p \in Sheets -> (Audio \cap Under(Home[p])) \cup {Broken, NoFile}
                 [] OTHER -> {NoName, Broken}

ASSUME LibraryScanAssumption ==
  /\ IsFiniteSet(Paths) /\ Dirs \cap Files = {}
  /\ Root \in Dirs /\ {NoName, Broken, NoFile} \cap Names = {} /\ NoName # Broken
  /\ Home \in [Paths -> Dirs] /\ Home[Root] = Root
  /\ \E depth \in [Dirs -> 0 .. Cardinality(Dirs) - 1] :
       \A p \in Dirs \ {Root} : depth[p] = depth[Home[p]] + 1
  /\ Rank \in [Images -> Nat]
  /\ Given \subseteq Paths /\ \A p \in Given : Home[p] \in Given
  /\ GivenTag \in [Files -> Names \cup Audio \cup {NoName, Broken, NoFile}]
  /\ \A p \in Files : GivenTag[p] \in Contents(p)
  /\ Base \in [Audio -> Sheets \cup {NoSheet}] /\ {NoSheet, Broken, NoFile} \cap Paths = {}
  /\ \A p \in Audio : Base[p] # NoSheet => Home[Base[p]] = Home[p]
  /\ Sheets \cap Audio = {} /\ Images \cap (Audio \cup Sheets) = {}
  /\ SheetAlbum \in Names /\ SheetTracks \in Nat \ {0}
  /\ {MaxChanges, MaxScans, MaxBreaks} \subseteq Nat

VARIABLES fs,           \* the file system: present paths, their mtimes and tags
          db,           \* the tables
          saved,        \* the tables as last committed
          stack,        \* the calls of the walk, the innermost last
          scanning,     \* between BEGIN and COMMIT
          interrupted,
          quiet,        \* history: nothing was changed, interrupted or lost
                        \*   since the last scan began
          rewritten,    \* history: files written anew during a scan that knew
                        \*   them, and files of which a sheet set another's time
          astray,       \* history: sheets that named a file of another directory
          changes, scans, breaks  \* counters for the bounds

bounds == <<changes, scans, breaks>>
vars == <<fs, db, saved, stack, scanning, interrupted, quiet, rewritten, astray, bounds>>

(* Can the sheet s be read, and the file it names be found?                *)
Found(s) == s \in fs.present /\ fs.tag[s] \in fs.present

(* What cue_read answers for sheet s: that the file was not missing, which *)
(* is also so if there is none.                                            *)
Taken(s) == Found(s) \/ (s \in fs.present /\ fs.tag[s] = NoFile)

(* The sheet cue_read goes by when it is given s: instead of s that with   *)
(* the base name of the file s names, if cue_read takes that one, and so   *)
(* on.  The code does not return from a circle of sheets.                  *)
Instead(s) == IF Found(s) /\ Base[fs.tag[s]] \in Sheets /\ Taken(Base[fs.tag[s]])
              THEN Base[fs.tag[s]] ELSE s
Preferred(s) ==
  LET tried[n \in 0 .. Cardinality(Sheets)] == IF n = 0 THEN s ELSE Instead(tried[n - 1])
  IN tried[Cardinality(Sheets)]
NoCircle == \A s \in Sheets : Found(s) => Instead(Preferred(s)) = Preferred(s)

(* The files that a sheet names while the sheet with their base name is    *)
(* there and is not taken: cue_read gives their rows the time of that one. *)
Misdated == {p \in Audio : /\ Base[p] \in fs.present /\ ~Taken(Base[p])
                           /\ \E s \in Sheets : Found(s) /\ fs.tag[s] = p}

(* The sheets that name a file of another directory.                       *)
Straying == {s \in Sheets \cap fs.present : /\ fs.tag[s] \in Audio
                                            /\ Home[fs.tag[s]] # Home[s]}

(* The program is new; the music directory has been there before it.       *)
Init == /\ fs = [present |-> Given, mtime |-> [p \in Paths |-> 1], tag |-> GivenTag]
        /\ db = Empty /\ saved = Empty
        /\ stack = <<>> /\ scanning = FALSE /\ interrupted = FALSE
        /\ quiet = FALSE /\ rewritten = Misdated /\ astray = Straying
        /\ changes = 0 /\ scans = 0 /\ breaks = 0
        /\ NoCircle

-----------------------------------------------------------------------------
(* The user and other programs.                                            *)

(* A change at a time nothing else was changed at, that leaves no circle.  *)
Now == changes + 2
Change == /\ changes' = changes + 1
          /\ quiet' = FALSE /\ NoCircle' /\ astray' = astray \cup Straying'
          /\ UNCHANGED <<db, saved, stack, scanning, interrupted, scans, breaks>>

(* A file or directory appears, or a file is written anew.                 *)
Put(p) ==
  /\ changes < MaxChanges
  /\ p # Root => Home[p] \in fs.present
  /\ p \in Dirs => p \notin fs.present
  /\ \E tag \in Contents(p) :
       fs' = [present |-> fs.present \cup {p},
              mtime |-> [q \in Paths |-> IF q \in {p, Home[p]} THEN Now ELSE fs.mtime[q]],
              tag |-> [q \in Files |-> IF q = p THEN tag ELSE fs.tag[q]]]
  /\ rewritten' = rewritten \cup Misdated'
                    \cup (IF scanning /\ FileId(db, p) # 0 THEN {p} ELSE {})
  /\ Change

(* A file goes, or a directory with all that is below it.                  *)
Drop(p) == /\ changes < MaxChanges
           /\ p \in fs.present
           /\ fs' = [fs EXCEPT !.present = @ \ Under(p), !.mtime[Home[p]] = Now]
           /\ rewritten' = rewritten \cup Misdated'
           /\ Change

-----------------------------------------------------------------------------
(* The calls.                                                              *)

(* A call on directory p with rowid id and the mtime that stat gave.  It   *)
(* goes over the known subdirectories ("subs"), the known files ("files")  *)
(* and the entries of the directory ("read").  todo is what is left of a   *)
(* phase.  cb: it is a call of scan_directory_cb.                          *)
Frame(p, id, phase, todo, cb) ==
  [path |-> p, id |-> id, mtime |-> fs.mtime[p], phase |-> phase, todo |-> todo, cb |-> cb]

Top == stack[Len(stack)]
Caller == IF Len(stack) > 1 THEN SubSeq(stack, 1, Len(stack) - 1) ELSE <<>>
Replace(f) == Append(Caller, f)

(* On to the known files: a new directory starts here.                     *)
ToFiles(f, d) == [f EXCEPT !.phase = "files", !.todo = FilesIn(d, f.id)]

(* scan_directory(p, parent), called from the calls in rest.               *)
ScanDirectory(p, parent, rest) ==
  LET id == DirectoryId(db, p)
      new == Directory(db, p, parent)
  IN IF p \notin fs.present
     THEN /\ db' = IF id > 0 THEN DirectoryDelete(db, id) ELSE db
          /\ stack' = rest
     ELSE IF id > 0
     THEN /\ stack' = Append(rest, Frame(p, id, "subs", Subdirectories(db, id), FALSE))
          /\ UNCHANGED db
     ELSE /\ db' = new
          /\ stack' = Append(rest, ToFiles(Frame(p, DirectoryId(new, p), "subs", {}, FALSE), new))

(* Return from a call of scan_directory_cb with false ends the loop over   *)
(* the rows of its caller.                                                 *)
Return(f, result) ==
  stack' = IF f.cb /\ ~result
           THEN [Caller EXCEPT ![Len(Caller)].todo = {}]
           ELSE Caller

(* The time cue_read gives the row of the file: the last stat is of the    *)
(* sheet with its base name, if there is one that was tried in vain.       *)
Dated(s) == LET base == Base[fs.tag[s]]
            IN IF base # s /\ base \in fs.present THEN fs.mtime[base] ELSE fs.mtime[fs.tag[s]]

(* The FILE line: the file gets a row, or loses the tracks it had.         *)
CueFile(d, s, directory) ==
  LET known == FileId(d, fs.tag[s])
      d1 == IF known # 0 THEN FileClear(d, {known}) ELSE File(d, fs.tag[s], directory)
  IN FileMtimeSet(d1, FileId(d1, fs.tag[s]), Dated(s))

(* cue_read, and the tracks of the sheet it goes by; nothing is read of one*)
(* that names no file, or one that is not music.                           *)
CueRead(d, given, directory) ==
  LET s == IF Found(given) THEN Preferred(given) ELSE given
      added[n \in 0 .. SheetTracks] ==
        IF n = 0 THEN CueFile(d, s, directory)
        ELSE TrackAdd(added[n - 1], fs.tag[s], directory, SheetAlbum, s)
  IN IF Found(s) /\ fs.tag[fs.tag[s]] # Broken THEN added[SheetTracks] ELSE d

(* scan_file of a file that is there, and the mtime of its row if that has *)
(* given it a track or an image; it gives none for a cue sheet.            *)
ScanFile(d, p, directory) ==
  LET d1 == IF p \in Images THEN ImageAdd(d, p, directory)
            ELSE TrackAdd(d, p, directory, fs.tag[p], NoSheet)
  IN IF p \in Sheets THEN CueRead(d, p, directory)
     ELSE IF fs.tag[p] = Broken THEN d
     ELSE FileMtimeSet(d1, FileId(d1, p), fs.mtime[p])

(* scan_files_cb for a file that has changed: the row goes if the file is  *)
(* no longer one of music or an image, and that of a cue sheet always.     *)
Rescan(d, x) ==
  LET p == d.files[x].path
      d1 == ScanFile(d, p, d.files[x].directory)
  IN IF p \in Sheets \/ fs.tag[p] = Broken THEN FileDelete(d1, {x}) ELSE d1

(* A frame with the row or entry x done.                                   *)
Done(f, x) == Replace([f EXCEPT !.todo = @ \ {x}])

-----------------------------------------------------------------------------
(* The steps of the walk.                                                  *)

(* Seeded fault: the walk goes on into a directory it has deleted.         *)
SubdirectoryDeleted(f) ==
  LET s == Min(f.todo)
      p == db.directories[s].path
  IN /\ f.phase = "subs" /\ f.todo # {}
     /\ db' = IF p \notin fs.present THEN DirectoryDelete(db, s) ELSE db
     /\ stack' = IF interrupted
                 THEN Replace([f EXCEPT !.todo = {}])
                 ELSE Append(Done(f, s), Frame(p, s, "subs", Subdirectories(db, s), TRUE))

(* scan_directory_cb for the next known subdirectory.                      *)
Subdirectory(f) ==
  LET s == Min(f.todo)
      p == db.directories[s].path
  IN /\ f.phase = "subs" /\ f.todo # {}
     /\ IF p \notin fs.present
        THEN db' = DirectoryDelete(db, s) /\ stack' = Done(f, s)
        ELSE /\ UNCHANGED db
             /\ stack' = IF interrupted
                         THEN Replace([f EXCEPT !.todo = {}])
                         ELSE Append(Done(f, s), Frame(p, s, "subs", Subdirectories(db, s), TRUE))

(* The comparison of the times of the directory.                           *)
Compare(f) ==
  /\ f.phase = "subs" /\ f.todo = {}
  /\ IF db.directories[f.id].mtime = f.mtime
     THEN Return(f, TRUE)
     ELSE stack' = Replace(ToFiles(f, db))
  /\ UNCHANGED db

(* scan_files_cb for the next known file; the statement comes to the rows  *)
(* that are added behind it.                                               *)
KnownFile(f) ==
  LET x == Min(f.todo)
      p == db.files[x].path
  IN /\ f.phase = "files" /\ f.todo # {}
     /\ db' = IF p \notin fs.present THEN FileDelete(db, {x})
              ELSE IF db.files[x].mtime = fs.mtime[p] THEN db
              ELSE Rescan(FileClear(db, {x}), x)
     /\ stack' = Replace([f EXCEPT !.todo = {y \in FilesIn(db', f.id) : y > x}])

(* opendir: the entries of the directory as they are now.                  *)
OpenDirectory(f) ==
  /\ f.phase = "files" /\ f.todo = {}
  /\ stack' = Replace([f EXCEPT !.phase = "read",
                 !.todo = {p \in fs.present \ {Root} : Home[p] = f.path}])
  /\ UNCHANGED db

(* One round of the loop of iterate_directory, in any order of entries.    *)
Entry(f) ==
  /\ f.phase = "read" /\ f.todo # {} /\ ~interrupted
  /\ \E p \in f.todo :
       IF p \in Dirs /\ p \in fs.present
       THEN ScanDirectory(p, f.id, Done(f, p))
       ELSE /\ stack' = Done(f, p)
            /\ db' = IF p \notin fs.present THEN db
                     ELSE IF FileId(db, p) > 0 /\ db.files[FileId(db, p)].mtime = fs.mtime[p] THEN db
                     ELSE ScanFile(db, p, f.id)

(* assign_images, with update_albumimg: the album most tracks of the       *)
(* directory are of gets the images of the directory and of those of its   *)
(* subdirectories that have tracks, and shows the best of them.            *)
AssignImages(d, dir, a) ==
  LET with == {dir} \cup {s \in Subdirectories(d, dir) : TracksIn(d, s) # {}}
      d1 == ImageAlbumSet(d, with, a)
      own == {i \in DOMAIN d1.images : d1.images[i].album = a}
      rank(i) == Rank[d1.files[d1.images[i].file].path]
      best == Min({i \in own : \A j \in own : rank(i) <= rank(j)})
  IN IF own = {} THEN d1 ELSE [d1 EXCEPT !.albums[a].image = best]

(* Seeded fault: the time is set though the scan was interrupted.          *)
EndAlways(f) ==
  /\ f.phase = "read" /\ (f.todo = {} \/ interrupted)
  /\ \E a \in MainAlbums(db, f.id) :
       db' = DirectoryMtimeSet(IF a = 0 THEN db ELSE AssignImages(db, f.id, a), f.id, f.mtime)
  /\ Return(f, TRUE)

(* The end of iterate_directory and of the call: the images, and the time  *)
(* of the directory unless the scan was interrupted.                       *)
End(f) ==
  /\ f.phase = "read" /\ (f.todo = {} \/ interrupted)
  /\ \E a \in MainAlbums(db, f.id) :
       LET d == IF a = 0 THEN db ELSE AssignImages(db, f.id, a)
       IN db' = IF interrupted THEN d ELSE DirectoryMtimeSet(d, f.id, f.mtime)
  /\ Return(f, ~interrupted)

Walk == /\ stack # <<>>
        /\ LET f == Top IN \/ Subdirectory(f) \/ Compare(f) \/ KnownFile(f) \/ OpenDirectory(f)
                           \/ Entry(f) \/ End(f)
        /\ UNCHANGED <<fs, saved, scanning, interrupted, quiet, rewritten, astray, bounds>>

(* BEGIN TRANSACTION and the call of scan_directory on the music directory.*)
Start == /\ ~scanning /\ scans < MaxScans
         /\ scanning' = TRUE /\ quiet' = TRUE
         /\ scans' = scans + 1
         /\ ScanDirectory(Root, 0, <<>>)
         /\ UNCHANGED <<fs, saved, interrupted, rewritten, astray, changes, breaks>>

(* COMMIT TRANSACTION; restart or the end of the process reset interrupted.*)
Commit == /\ scanning /\ stack = <<>>
          /\ scanning' = FALSE /\ interrupted' = FALSE
          /\ saved' = db
          /\ UNCHANGED <<fs, db, stack, quiet, rewritten, astray, bounds>>

Interrupt == /\ scanning /\ ~interrupted /\ breaks < MaxBreaks
             /\ interrupted' = TRUE /\ quiet' = FALSE
             /\ breaks' = breaks + 1
             /\ UNCHANGED <<fs, db, saved, stack, scanning, rewritten, astray, changes, scans>>

(* The process dies and is started again.                                  *)
Crash == /\ scanning /\ breaks < MaxBreaks
         /\ db' = saved
         /\ stack' = <<>> /\ scanning' = FALSE /\ interrupted' = FALSE
         /\ quiet' = FALSE
         /\ breaks' = breaks + 1
         /\ UNCHANGED <<fs, saved, rewritten, astray, changes, scans>>

-----------------------------------------------------------------------------
(* The bounds are used up; any other state without a next step is an error.*)
Idle == ~scanning /\ scans = MaxScans /\ changes = MaxChanges /\ UNCHANGED vars

Next == \/ \E p \in Paths : Put(p) \/ Drop(p)
        \/ Start \/ Walk \/ Commit \/ Interrupt \/ Crash \/ Idle

Spec == Init /\ [][Next]_vars

-----------------------------------------------------------------------------
(* Properties.                                                             *)

TypeOK ==
  /\ fs.present \subseteq Paths
  /\ \A d \in {db, saved} :
       /\ \A x \in DOMAIN d.directories : d.directories[x] \in [path : Dirs, mtime : Nat, parent : Nat]
       /\ \A x \in DOMAIN d.files : d.files[x] \in [path : Files, mtime : Nat, directory : Nat \ {0}]
       /\ \A x \in DOMAIN d.albums : d.albums[x] \in [name : Names, tracks : Nat, image : Nat]
       /\ \A x \in DOMAIN d.tracks : d.tracks[x] \in [file : Nat \ {0}, album : Nat, cue : Nat]
       /\ \A x \in DOMAIN d.images : d.images[x] \in [file : Nat \ {0}, album : Nat]
  /\ \A i \in DOMAIN stack : stack[i].phase \in {"subs", "files", "read"}
  /\ stack # <<>> => scanning

(* At every step of a scan, and after every crash, the count of tracks that*)
(* /albums shows is the number of tracks.                                  *)
AlbumCountsExact == CountsExact(db)

(* Rows are deleted in several places, one table after the other, and a    *)
(* rowid may be used again; still no row is left of what belonged to one   *)
(* that is gone (see Owned), and no path has two rows.                     *)
TablesSound == Owned(db) /\ Unique(db)

(* The walk works with rowids it has read earlier: they stay those of the  *)
(* directories and files they were read for.                               *)
WalkSound ==
  \A i \in DOMAIN stack :
    /\ stack[i].id \in DOMAIN db.directories
    /\ db.directories[stack[i].id].path = stack[i].path
    /\ stack[i].phase = "files" => stack[i].todo \subseteq FilesIn(db, stack[i].id)
    /\ stack[i].phase = "subs" => stack[i].todo \subseteq Subdirectories(db, stack[i].id)

(* The library says of the file system what is true: a file of music has   *)
(* the tracks of the cue sheet that counts for it, or else its own, or else*)
(* those of a sheet that was there once.  The exceptions: a file written   *)
(* anew during a scan, after scan_files_cb had seen it (iterate_directory  *)
(* adds its track a second time and clears nothing), and a file whose row  *)
(* was given the time of a sheet (it is added beside its sheet's tracks).  *)
Counting == {c \in {Preferred(s) : s \in {t \in Sheets : Found(t)}} : Found(c)}

OwnTrack(d, f, ts) ==
  /\ Cardinality(ts) = 1
  /\ \A t \in ts : /\ d.tracks[t].cue = 0
                   /\ d.tracks[t].album = AlbumId(d, fs.tag[d.files[f].path])
FromSheet(d, ts, cues) ==
  /\ Cardinality(ts) = SheetTracks
  /\ \E c \in cues : \A t \in ts : /\ d.tracks[t].cue = c
                                  /\ d.tracks[t].album = AlbumId(d, SheetAlbum)

Agrees ==
  /\ {db.directories[d].path : d \in DOMAIN db.directories} = fs.present \cap Dirs
  /\ {db.files[f].path : f \in DOMAIN db.files} \ Sheets =
       {p \in fs.present \cap (Audio \cup Images) : fs.tag[p] # Broken}
  /\ \A f \in DOMAIN db.files :
       LET p == db.files[f].path
           tracks == TracksOf(db, {f})
           sheets == {s \in Counting : fs.tag[s] = p}
           past == {db.tracks[t].cue : t \in tracks} \ {0}
       IN /\ db.directories[db.files[f].directory].path = Home[p]
          /\ p \in Sheets => p \in Counting
          /\ p \in Audio => tracks # {}
          /\ p \in Audio \ rewritten =>
               IF sheets = {} THEN OwnTrack(db, f, tracks) \/ FromSheet(db, tracks, past)
               ELSE FromSheet(db, tracks, {FileId(db, s) : s \in sheets})
          /\ p \in Images => ImagesOf(db, {f}) # {}
          /\ p \in Images \ rewritten => Cardinality(ImagesOf(db, {f})) = 1

(* After a scan during which nothing happened the library agrees with the  *)
(* file system, whatever happened in and between the scans before it:      *)
(* changes under way, an interruption that was committed half way, a crash.*)
(* But not if a sheet has ever named a file of another directory: the rows *)
(* of that file are then put in the directory of the sheet, and a change of*)
(* the one directory is not seen in the scan of the other.                 *)
ScanCompletes == (~scanning /\ quiet /\ astray = {}) => Agrees

=============================================================================
