------------------------------ MODULE Library ------------------------------
(***************************************************************************)
(* The tables of musicd's database that a scan maintains, and the          *)
(* operations of library.c on them.                                        *)
(*                                                                         *)
(* A table is a function from rowids to rows.  SQLite gives a new row the  *)
(* rowid after the highest one in use, so the rowid of the last row of a   *)
(* table is given again once that row is deleted.                          *)
(***************************************************************************)
EXTENDS Naturals, FiniteSetsExt

CONSTANTS Dirs,       \* paths of directories
          Names,      \* names of albums
          NoSheet     \* not the path of a cue sheet

(* directories: path, mtime, parent.   files: path, mtime, directory.      *)
(* albums: name, tracks, image.        tracks: file, album, cue.           *)
(* images: file, album.                The value NULL counts as 0.         *)
Empty == [directories |-> <<>>, files |-> <<>>, albums |-> <<>>,
          tracks |-> <<>>, images |-> <<>>]

(* The rowid of the next row.                                              *)
NewId(t) == IF DOMAIN t = {} THEN 1 ELSE Max(DOMAIN t) + 1
Insert(t, row) == [id \in DOMAIN t \cup {NewId(t)} |-> IF id \in DOMAIN t THEN t[id] ELSE row]
Delete(t, ids) == [id \in DOMAIN t \ ids |-> t[id]]

(* field_rowid and execute_scalar: the rowid of the row, or 0.             *)
Only(ids) == IF ids = {} THEN 0 ELSE Min(ids)
DirectoryId(db, p) == Only({d \in DOMAIN db.directories : db.directories[d].path = p})
FileId(db, p) == Only({f \in DOMAIN db.files : db.files[f].path = p})
AlbumId(db, n) == Only({a \in DOMAIN db.albums : db.albums[a].name = n})

Subdirectories(db, d) == {s \in DOMAIN db.directories : db.directories[s].parent = d}
FilesIn(db, d) == {f \in DOMAIN db.files : db.files[f].directory = d}
TracksOf(db, fs) == {t \in DOMAIN db.tracks : db.tracks[t].file \in fs}
ImagesOf(db, fs) == {i \in DOMAIN db.images : db.images[i].file \in fs}
AlbumTracks(db, a) == {t \in DOMAIN db.tracks : db.tracks[t].album = a}

(* library_directory and library_file, which create the row if it is not   *)
(* there and a parent or a directory is given.                             *)
Directory(db, p, parent) ==
  IF DirectoryId(db, p) # 0 THEN db
  ELSE [db EXCEPT !.directories = Insert(@, [path |-> p, mtime |-> 0, parent |-> parent])]
File(db, p, d) ==
  IF FileId(db, p) # 0 \/ d = 0 THEN db
  ELSE [db EXCEPT !.files = Insert(@, [path |-> p, mtime |-> 0, directory |-> d])]

(* field_rowid_create on the albums.                                       *)
Album(db, n) ==
  IF AlbumId(db, n) # 0 THEN db
  ELSE [db EXCEPT !.albums = Insert(@, [name |-> n, tracks |-> 0, image |-> 0])]

(* The rows a new track of file p needs: its file, the cue sheet c that    *)
(* told of it (if that is a path), its album (if n is a name).             *)
TrackRows(db, p, d, n, c) ==
  LET db1 == IF c = NoSheet THEN File(db, p, d) ELSE File(File(db, p, d), c, d)
  IN IF n \in Names THEN Album(db1, n) ELSE db1
TrackRow(db, p, n, c) ==
  [file |-> FileId(db, p), album |-> IF n \in Names THEN AlbumId(db, n) ELSE 0,
   cue |-> IF c = NoSheet THEN 0 ELSE FileId(db, c)]

(* Seeded fault: the album of the track is not told.                       *)
TrackAddUncounted(db, p, d, n, c) ==
  LET db1 == TrackRows(db, p, d, n, c)
  IN [db1 EXCEPT !.tracks = Insert(@, TrackRow(db1, p, n, c))]

(* library_track_add, with increment_album_tracks.                         *)
TrackAdd(db, p, d, n, c) ==
  LET db1 == TrackRows(db, p, d, n, c)
      row == TrackRow(db1, p, n, c)
      db2 == [db1 EXCEPT !.tracks = Insert(@, row)]
  IN IF row.album = 0 THEN db2 ELSE [db2 EXCEPT !.albums[row.album].tracks = @ + 1]

(* Seeded fault: library_file is not given the directory to create a row.  *)
ImageAddNoFile(db, p, d) ==
  LET db1 == File(db, p, 0)
  IN [db1 EXCEPT !.images = Insert(@, [file |-> FileId(db1, p), album |-> 0])]

(* library_file followed by library_image_add.                             *)
ImageAdd(db, p, d) ==
  LET db1 == File(db, p, d)
  IN [db1 EXCEPT !.images = Insert(@, [file |-> FileId(db1, p), album |-> 0])]

FileMtimeSet(db, f, m) == [db EXCEPT !.files[f].mtime = m]
DirectoryMtimeSet(db, d, m) == [db EXCEPT !.directories[d].mtime = m]

(* library_file_clear, for one file or for several in turn: the albums     *)
(* that lose tracks are counted again, the tracks and the images go.       *)
FileClear(db, fs) ==
  LET gone == TracksOf(db, fs)
      touched == {db.tracks[t].album : t \in gone}
      count(a) == Cardinality(AlbumTracks(db, a) \ gone)
  IN [db EXCEPT !.albums = [a \in DOMAIN @ |-> IF a \in touched
                                               THEN [@[a] EXCEPT !.tracks = count(a)]
                                               ELSE @[a]],
                !.tracks = Delete(@, gone),
                !.images = Delete(@, ImagesOf(db, fs))]

(* Seeded fault: the tracks and images of the file stay.                   *)
FileDeleteOnly(db, fs) == [db EXCEPT !.files = Delete(@, fs)]

(* library_file_delete.                                                    *)
FileDelete(db, fs) ==
  LET db1 == FileClear(db, fs) IN [db1 EXCEPT !.files = Delete(@, fs)]

(* The directories that library_directory_delete goes through: d, and the  *)
(* subdirectories of each it goes through.                                 *)
Below(db, d) ==
  LET closed == {ds \in SUBSET DOMAIN db.directories :
                   d \in ds /\ \A s \in ds : Subdirectories(db, s) \subseteq ds}
  IN {s \in DOMAIN db.directories : \A ds \in closed : s \in ds}

(* library_directory_delete.                                               *)
DirectoryDelete(db, d) ==
  LET below == Below(db, d)
      db1 == FileDelete(db, UNION {FilesIn(db, s) : s \in below})
  IN [db1 EXCEPT !.directories = Delete(@, below)]

(* library_image_album_set_by_directory.                                   *)
ImageAlbumSet(db, ds, a) ==
  [db EXCEPT !.images = [i \in DOMAIN @ |->
      IF \E d \in ds : @[i].file \in FilesIn(db, d) THEN [@[i] EXCEPT !.album = a] ELSE @[i]]]

(* library_album_by_directory: the albums most tracks of a directory are   *)
(* of, one of which the query returns; 0 stands for no album.              *)
TracksIn(db, d) == TracksOf(db, FilesIn(db, d))
MainAlbums(db, d) ==
  LET albums == {db.tracks[t].album : t \in TracksIn(db, d)}
      count(a) == Cardinality(AlbumTracks(db, a) \cap TracksIn(db, d))
  IN IF albums = {} THEN {0} ELSE {a \in albums : \A b \in albums : count(b) <= count(a)}

-----------------------------------------------------------------------------
(* What the tables owe to the rest of the program.                         *)

(* albums.tracks, which library.c keeps by incrementing it for each track  *)
(* added and recounting it for each file cleared, is the number of tracks. *)
CountsExact(db) ==
  \A a \in DOMAIN db.albums : db.albums[a].tracks = Cardinality(AlbumTracks(db, a))

(* What is deleted takes along what belongs to it: a file is in a directory*)
(* that is there, a track and an image are of a file that is, and of an    *)
(* album that is or of none.  Two references are left behind by the code   *)
(* and are no part of this: tracks.cueid when the row of a cue sheet is    *)
(* deleted, and albums.imageid when an image is (library_file_clear).      *)
Owned(db) ==
  /\ \A t \in DOMAIN db.tracks : /\ db.tracks[t].file \in DOMAIN db.files
                                 /\ db.tracks[t].album \in DOMAIN db.albums \cup {0}
  /\ \A i \in DOMAIN db.images : /\ db.images[i].file \in DOMAIN db.files
                                 /\ db.images[i].album \in DOMAIN db.albums \cup {0}
  /\ \A f \in DOMAIN db.files : db.files[f].directory \in DOMAIN db.directories
  /\ \A d \in DOMAIN db.directories : db.directories[d].parent \in DOMAIN db.directories \cup {0}

(* The columns declared UNIQUE.                                            *)
Unique(db) ==
  /\ \A x, y \in DOMAIN db.directories : db.directories[x].path = db.directories[y].path => x = y
  /\ \A x, y \in DOMAIN db.files : db.files[x].path = db.files[y].path => x = y
  /\ \A x, y \in DOMAIN db.albums : db.albums[x].name = db.albums[y].name => x = y

=============================================================================
