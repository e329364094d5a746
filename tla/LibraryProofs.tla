--------------------------- MODULE LibraryProofs ---------------------------
(***************************************************************************)
(* Theorems about the library and its scan, for every tree of directories, *)
(* every set of files in it, and every number of changes, scans and breaks.*)
(***************************************************************************)
EXTENDS LibraryScan, SequenceLemmas, FiniteSetTheorems, TLAPS

-----------------------------------------------------------------------------
(* The tables.                                                             *)

(* The tables with rows of R: functions from finitely many rowids.         *)
Table(R) ==
  {t \in UNION {[ids -> R] : ids \in SUBSET (Nat \ {0})} : IsFiniteSet(DOMAIN t)}

DirectoryType == [path : Dirs, mtime : Nat, parent : Nat]
FileType == [path : Files, mtime : Nat, directory : Nat \ {0}]
AlbumType == [name : Names, tracks : Nat, image : Nat]
TrackType == [file : Nat \ {0}, album : Nat, cue : Nat]
ImageType == [file : Nat \ {0}, album : Nat]

Database == [directories : Table(DirectoryType), files : Table(FileType),
             albums : Table(AlbumType), tracks : Table(TrackType),
             images : Table(ImageType)]

(* The table of directories is a tree as the directories are: the parent   *)
(* of a row is that of the directory its path is in.                       *)
Rooted(dirs) ==
  \A d \in DOMAIN dirs :
    /\ dirs[d].parent = 0 <=> dirs[d].path = Root
    /\ dirs[d].parent # 0 => /\ dirs[d].parent \in DOMAIN dirs
                             /\ dirs[dirs[d].parent].path = Home[dirs[d].path]

DirectoriesSound(dirs) ==
  /\ \A x, y \in DOMAIN dirs : dirs[x].path = dirs[y].path => x = y
  /\ Rooted(dirs)

(* The rows of a table refer to rows that are there, and a row of images   *)
(* to one of an image.                                                     *)
FilesSound(dirs, files) ==
  /\ \A x, y \in DOMAIN files : files[x].path = files[y].path => x = y
  /\ \A x \in DOMAIN files : files[x].directory \in DOMAIN dirs
AlbumsSound(albums) ==
  \A x, y \in DOMAIN albums : albums[x].name = albums[y].name => x = y
TracksSound(files, albums, tracks) ==
  \A t \in DOMAIN tracks : /\ tracks[t].file \in DOMAIN files
                           /\ tracks[t].album \in DOMAIN albums \cup {0}
ImagesSound(files, albums, images) ==
  \A i \in DOMAIN images : /\ images[i].file \in DOMAIN files
                           /\ files[images[i].file].path \in Images
                           /\ images[i].album \in DOMAIN albums \cup {0}

(* CountsExact of two tables.                                              *)
OnAlbum(tracks, a) == {t \in DOMAIN tracks : tracks[t].album = a}
Counted(albums, tracks) ==
  \A a \in DOMAIN albums : albums[a].tracks = Cardinality(OnAlbum(tracks, a))

(* A library between two operations.                                       *)
Sound(d) == /\ d \in Database
            /\ DirectoriesSound(d.directories)
            /\ FilesSound(d.directories, d.files)
            /\ AlbumsSound(d.albums)
            /\ TracksSound(d.files, d.albums, d.tracks)
            /\ ImagesSound(d.files, d.albums, d.images)
            /\ Counted(d.albums, d.tracks)

-----------------------------------------------------------------------------
(* The walk.                                                               *)

(* How deep a directory is below the music directory.                      *)
Depths == [Dirs -> 0 .. Cardinality(Dirs) - 1]
IsDepth(depth) == \A p \in Dirs \ {Root} : depth[p] = depth[Home[p]] + 1
Depth == CHOOSE depth \in Depths : IsDepth(depth)

FrameType == [path : Dirs, id : Nat, mtime : Nat, phase : {"subs", "files", "read"},
              todo : SUBSET (Nat \cup Paths), cb : BOOLEAN]

Entries(p) == {q \in Paths \ {Root} : Home[q] = p}

(* The frame of a call, while the library is d.                            *)
FrameSound(d, f) ==
  /\ f.id \in DOMAIN d.directories /\ d.directories[f.id].path = f.path
  /\ f.phase = "subs" => f.todo \subseteq Subdirectories(d, f.id)
  /\ f.phase = "files" => f.todo \subseteq FilesIn(d, f.id)
  /\ f.phase = "read" => f.todo \subseteq Entries(f.path)

(* Each call is on a directory below that of its caller, and only the last *)
(* one is at its files.                                                    *)
StackSound(d, q) ==
  /\ \A i \in 1 .. Len(q) : FrameSound(d, q[i])
  /\ \A i, j \in 1 .. Len(q) : i < j => Depth[q[i].path] < Depth[q[j].path]
  /\ \A i \in 1 .. Len(q) : q[i].phase = "files" => i = Len(q)

SystemType ==
  /\ fs = [present |-> fs.present, mtime |-> fs.mtime, tag |-> fs.tag]
  /\ fs.present \in SUBSET Paths /\ fs.mtime \in [Paths -> Nat]
  /\ DOMAIN fs.tag = Files /\ \A p \in Files : fs.tag[p] \in Contents(p)
  /\ changes \in Nat

IInv == /\ SystemType
        /\ Sound(db) /\ Sound(saved)
        /\ stack \in Seq(FrameType) /\ StackSound(db, stack)
        /\ stack # <<>> => scanning

-----------------------------------------------------------------------------
(* Tables.                                                                 *)

(* How a table is shown to be one, and what one is.                        *)
LEMMA TableIntro ==
  ASSUME NEW R, NEW ids \in SUBSET (Nat \ {0}), IsFiniteSet(ids), NEW t \in [ids -> R]
  PROVE  t \in Table(R)
BY DEF Table

(* What a table is.                                                        *)
LEMMA TableElim ==
  ASSUME NEW R, NEW t \in Table(R)
  PROVE  /\ DOMAIN t \in SUBSET (Nat \ {0}) /\ 0 \notin DOMAIN t
         /\ IsFiniteSet(DOMAIN t)
         /\ t \in [DOMAIN t -> R]
         /\ \A id \in DOMAIN t : t[id] \in R
BY DEF Table

LEMMA EmptyTable == ASSUME NEW R PROVE <<>> \in Table(R) /\ DOMAIN <<>> = {}
<1>1. <<>> \in [{} -> R] /\ DOMAIN <<>> = {}
  OBVIOUS
<1>2. QED
  BY <1>1, FS_EmptySet, TableIntro

(* The rowids in use have a highest one, which MAX of SQLite returns.      *)
LEMMA HasMost ==
  ASSUME NEW S \in SUBSET Nat, IsFiniteSet(S), S # {}
  PROVE  \E m \in S : \A n \in S : n <= m
<1> DEFINE Most(T) == \E m \in T : \A n \in T : n <= m
           C == {n \in Nat : \E T \in SUBSET S : T # {} /\ ~Most(T) /\ Cardinality(T) = n}
<1>1. ASSUME NEW T \in SUBSET S PROVE IsFiniteSet(T) /\ Cardinality(T) \in Nat
  BY <1>1, FS_Subset, FS_CardinalityType
<1>2. SUFFICES ASSUME C # {} PROVE FALSE
  BY <1>1, FS_CardinalityType
<1>3. PICK k \in C : \A n \in C : k <= n
  BY <1>2, HasLeast
<1>4. PICK T \in SUBSET S : T # {} /\ ~Most(T) /\ Cardinality(T) = k
  BY <1>3
<1>5. PICK x \in T : TRUE
  BY <1>4
<1> DEFINE U == {y \in T : ~(y <= x)}
<1>6. x \in Nat /\ U \in SUBSET S /\ U \in SUBSET T /\ x \notin U
  <2>1. x \in Nat
    BY <1>4, <1>5
  <2>2. x <= x
    BY <2>1
  <2>3. QED
    BY <1>4, <1>5, <2>1, <2>2
<1>7. U # {}
  BY <1>4, <1>5
<1>8. Cardinality(U) < Cardinality(T)
  <2>1. Cardinality(U) <= Cardinality(T) /\ (Cardinality(T) = Cardinality(U) => T = U)
    BY <1>1, <1>4, <1>6, FS_Subset
  <2>2. QED
    BY <2>1, <1>1, <1>4, <1>5, <1>6
<1>9. Most(U)
  <2> HIDE DEF Most
  <2>1. Cardinality(U) \in Nat /\ Cardinality(U) \notin C
    BY <1>1, <1>3, <1>4, <1>6, <1>8
  <2> QED
    BY <2>1, <1>6, <1>7
<1>10. PICK m \in U : \A n \in U : n <= m
  BY <1>9
<1>11. \A n \in T : n <= m
  BY <1>5, <1>6, <1>10
<1>12. QED
  BY <1>4, <1>6, <1>10, <1>11

(* The rowid of an INSERT is one no row has.                               *)
LEMMA NewIdIsNew ==
  ASSUME NEW R, NEW t \in Table(R)
  PROVE  /\ NewId(t) \in Nat \ {0} /\ NewId(t) \notin DOMAIN t
         /\ \A id \in DOMAIN t : id < NewId(t)
<1>1. DOMAIN t \in SUBSET Nat /\ IsFiniteSet(DOMAIN t)
  BY TableElim
<1>2. CASE DOMAIN t = {}
  BY <1>2 DEF NewId
<1>3. CASE DOMAIN t # {}
  <2>1. \E m \in DOMAIN t : \A n \in DOMAIN t : m >= n
    BY <1>1, <1>3, HasMost
  <2>2. Max(DOMAIN t) \in DOMAIN t /\ \A n \in DOMAIN t : Max(DOMAIN t) >= n
    BY <2>1 DEF Max
  <2>3. QED
    BY <1>1, <1>3, <2>2 DEF NewId
<1>4. QED
  BY <1>2, <1>3

(* A table after an INSERT.                                                *)
LEMMA Inserted ==
  ASSUME NEW R, NEW t \in Table(R), NEW row \in R
  PROVE  /\ Insert(t, row) \in Table(R)
         /\ DOMAIN Insert(t, row) = DOMAIN t \cup {NewId(t)}
         /\ \A id \in DOMAIN t : Insert(t, row)[id] = t[id]
         /\ Insert(t, row)[NewId(t)] = row
         /\ NewId(t) \notin DOMAIN t /\ NewId(t) # 0
<1> DEFINE n == NewId(t)
<1>1. n \in Nat \ {0} /\ n \notin DOMAIN t
  BY NewIdIsNew
<1>2. DOMAIN t \in SUBSET (Nat \ {0}) /\ IsFiniteSet(DOMAIN t) /\ \A id \in DOMAIN t : t[id] \in R
  BY TableElim
<1>3. IsFiniteSet(DOMAIN t \cup {n})
  BY <1>2, FS_AddElement
<1> HIDE DEF n
<1>4. Insert(t, row) = [id \in DOMAIN t \cup {n} |-> IF id \in DOMAIN t THEN t[id] ELSE row]
  BY DEF Insert, n
<1>5. Insert(t, row) \in [DOMAIN t \cup {n} -> R]
  BY <1>2, <1>4
<1>6. Insert(t, row) \in Table(R)
  BY <1>1, <1>2, <1>3, <1>5, TableIntro
<1>7. QED
  BY <1>1, <1>4, <1>6 DEF n

(* A table after a DELETE.                                                 *)
LEMMA Deleted ==
  ASSUME NEW R, NEW t \in Table(R), NEW ids
  PROVE  /\ Delete(t, ids) \in Table(R)
         /\ DOMAIN Delete(t, ids) = DOMAIN t \ ids
         /\ \A id \in DOMAIN t \ ids : Delete(t, ids)[id] = t[id]
<1>1. DOMAIN t \in SUBSET (Nat \ {0}) /\ IsFiniteSet(DOMAIN t) /\ \A id \in DOMAIN t : t[id] \in R
  BY TableElim
<1>2. DOMAIN t \ ids \in SUBSET (Nat \ {0}) /\ IsFiniteSet(DOMAIN t \ ids)
  BY <1>1, FS_Subset
<1>3. Delete(t, ids) = [id \in DOMAIN t \ ids |-> t[id]]
  BY DEF Delete
<1>4. Delete(t, ids) \in [DOMAIN t \ ids -> R]
  BY <1>1, <1>3
<1>5. QED
  BY <1>2, <1>3, <1>4, TableIntro

(* Rows of a table that are written, none added or taken away.             *)
LEMMA Updated ==
  ASSUME NEW R, NEW t \in Table(R), NEW u \in [DOMAIN t -> R]
  PROVE  u \in Table(R) /\ DOMAIN u = DOMAIN t
BY TableElim, TableIntro

(* A statement that returns at most one row gives that row, or 0.          *)
LEMMA OnlyOne ==
  ASSUME NEW ids \in SUBSET (Nat \ {0})
  PROVE  /\ Only(ids) = 0 <=> ids = {}
         /\ ids # {} => Only(ids) \in ids
         /\ Only(ids) \in Nat
<1>1. CASE ids = {}
  BY <1>1 DEF Only
<1>2. CASE ids # {}
  <2>1. \E m \in ids : \A n \in ids : m <= n
    BY <1>2, HasLeast
  <2>2. Min(ids) \in ids
    BY <2>1 DEF Min
  <2>3. QED
    BY <1>2, <2>2 DEF Only
<1>3. QED
  BY <1>1, <1>2

-----------------------------------------------------------------------------
(* The operations of Library.  Most of them leave the directories alone;   *)
(* what is said of the others is that they leave enough of them alone.     *)

Known(d, p) == \E x \in DOMAIN d.files : d.files[x].path = p

(* The five tables of a library.                                           *)
LEMMA DatabaseFields ==
  ASSUME NEW d \in Database
  PROVE  /\ d.directories \in Table(DirectoryType) /\ d.files \in Table(FileType)
         /\ d.albums \in Table(AlbumType) /\ d.tracks \in Table(TrackType)
         /\ d.images \in Table(ImageType)
BY DEF Database

(* The lookups by path and by name, which give 0 if there is no row.       *)
LEMMA IdOfFile ==
  ASSUME NEW d \in Database, NEW p
  PROVE  /\ FileId(d, p) # 0 <=> Known(d, p)
         /\ FileId(d, p) > 0 <=> Known(d, p)
         /\ Known(d, p) => FileId(d, p) \in DOMAIN d.files /\ d.files[FileId(d, p)].path = p
<1> DEFINE ids == {f \in DOMAIN d.files : d.files[f].path = p}
<1>1. ids \in SUBSET (Nat \ {0})
  BY DatabaseFields, TableElim
<1>2. Known(d, p) <=> ids # {}
  BY DEF Known
<1>3. FileId(d, p) = Only(ids)
  BY DEF FileId
<1>4. \A f \in ids : f \in DOMAIN d.files /\ d.files[f].path = p
  OBVIOUS
<1> HIDE DEF ids
<1>5. QED
  BY <1>1, <1>2, <1>3, <1>4, OnlyOne

(* The same of the row of a directory.                                     *)
LEMMA IdOfDirectory ==
  ASSUME NEW d \in Database, NEW p
  PROVE  /\ DirectoryId(d, p) = 0 <=> \A x \in DOMAIN d.directories : d.directories[x].path # p
         /\ DirectoryId(d, p) \in Nat
         /\ DirectoryId(d, p) # 0 => /\ DirectoryId(d, p) \in DOMAIN d.directories
                                     /\ d.directories[DirectoryId(d, p)].path = p
<1> DEFINE ids == {f \in DOMAIN d.directories : d.directories[f].path = p}
<1>1. ids \in SUBSET (Nat \ {0})
  BY DatabaseFields, TableElim
<1>2. (\A x \in DOMAIN d.directories : d.directories[x].path # p) <=> ids = {}
  OBVIOUS
<1>3. DirectoryId(d, p) = Only(ids)
  BY DEF DirectoryId
<1>4. \A f \in ids : f \in DOMAIN d.directories /\ d.directories[f].path = p
  OBVIOUS
<1> HIDE DEF ids
<1>5. QED
  BY <1>1, <1>2, <1>3, <1>4, OnlyOne

(* The same of the row of an album.                                        *)
LEMMA IdOfAlbum ==
  ASSUME NEW d \in Database, NEW n
  PROVE  /\ AlbumId(d, n) = 0 <=> \A x \in DOMAIN d.albums : d.albums[x].name # n
         /\ AlbumId(d, n) # 0 => /\ AlbumId(d, n) \in DOMAIN d.albums
                                 /\ d.albums[AlbumId(d, n)].name = n
<1> DEFINE ids == {f \in DOMAIN d.albums : d.albums[f].name = n}
<1>1. ids \in SUBSET (Nat \ {0})
  BY DatabaseFields, TableElim
<1>2. (\A x \in DOMAIN d.albums : d.albums[x].name # n) <=> ids = {}
  OBVIOUS
<1>3. AlbumId(d, n) = Only(ids)
  BY DEF AlbumId
<1>4. \A f \in ids : f \in DOMAIN d.albums /\ d.albums[f].name = n
  OBVIOUS
<1> HIDE DEF ids
<1>5. QED
  BY <1>1, <1>2, <1>3, <1>4, OnlyOne

(* What the operations that add rows of files, albums, tracks and images   *)
(* have in common.                                                         *)
Kept(d, e) == /\ e.directories = d.directories
              /\ \A q : Known(d, q) => Known(e, q)

(* What the operations do to the tables: no album loses its name; a row of *)
(* files is added behind the others; the rows of the files of S lose their *)
(* tracks and images, or go.                                               *)
AlbumNames(d, e) ==
  \A a \in DOMAIN d.albums : a \in DOMAIN e.albums /\ e.albums[a].name = d.albums[a].name
FileAdded(d, e, p, dir) ==
  /\ e.albums = d.albums /\ e.tracks = d.tracks /\ e.images = d.images
  /\ \A x \in DOMAIN d.files : x \in DOMAIN e.files /\ e.files[x] = d.files[x]
  /\ \A x \in DOMAIN e.files \ DOMAIN d.files :
       /\ e.files[x] = [path |-> p, mtime |-> 0, directory |-> dir]
       /\ \A y \in DOMAIN d.files : y < x
RowAdded(t, u, row) ==
  \E n : /\ n \notin DOMAIN t /\ DOMAIN u = DOMAIN t \cup {n} /\ u[n] = row
         /\ \A x \in DOMAIN t : u[x] = t[x]
MtimeSet(d, e, f, m) ==
  /\ e.albums = d.albums /\ e.tracks = d.tracks /\ e.images = d.images
  /\ DOMAIN e.files = DOMAIN d.files /\ \A x \in DOMAIN d.files \ {f} : e.files[x] = d.files[x]
  /\ e.files[f].path = d.files[f].path /\ e.files[f].directory = d.files[f].directory
  /\ e.files[f].mtime = m
Cleared(d, e, S) ==
  /\ AlbumNames(d, e)
  /\ DOMAIN e.tracks = DOMAIN d.tracks \ TracksOf(d, S)
  /\ \A t \in DOMAIN e.tracks : e.tracks[t] = d.tracks[t]
  /\ DOMAIN e.images = DOMAIN d.images \ ImagesOf(d, S)
  /\ \A i \in DOMAIN e.images : e.images[i] = d.images[i]
FilesLeft(d, e, S) ==
  /\ Cleared(d, e, S)
  /\ DOMAIN e.files = DOMAIN d.files \ S
  /\ \A x \in DOMAIN e.files : e.files[x] = d.files[x]

(* library_file: the row that is there, or a new one.                      *)
LEMMA FileKeeps ==
  ASSUME NEW d, Sound(d), NEW p \in Files, NEW dir \in DOMAIN d.directories
  PROVE  /\ Sound(File(d, p, dir)) /\ Kept(d, File(d, p, dir)) /\ Known(File(d, p, dir), p)
         /\ FileAdded(d, File(d, p, dir), p, dir)
<1>1. d \in Database /\ dir \in Nat \ {0}
  BY DatabaseFields, TableElim DEF Sound
<1>2. CASE FileId(d, p) # 0
  BY <1>1, <1>2, IdOfFile DEF File, Kept, FileAdded
<1>3. CASE FileId(d, p) = 0
  <2> DEFINE row == [path |-> p, mtime |-> 0, directory |-> dir]
             fl == Insert(d.files, row)
             n == NewId(d.files)
             e == [d EXCEPT !.files = fl]
  <2>1. row \in FileType
    BY <1>1 DEF FileType
  <2>3. row.path = p /\ row.directory = dir
    OBVIOUS
  <2>4. File(d, p, dir) = e
    BY <1>1, <1>3 DEF File
  <2> HIDE DEF row
  <2>2. /\ fl \in Table(FileType) /\ DOMAIN fl = DOMAIN d.files \cup {n}
        /\ \A id \in DOMAIN d.files : fl[id] = d.files[id]
        /\ fl[n] = row /\ n \notin DOMAIN d.files /\ \A id \in DOMAIN d.files : id < n
    <3> DEFINE t == d.files
    <3>1. t \in Table(FileType)
      BY <1>1, DatabaseFields
    <3> HIDE DEF t
    <3>2. /\ Insert(t, row) \in Table(FileType)
          /\ DOMAIN Insert(t, row) = DOMAIN t \cup {NewId(t)}
          /\ \A id \in DOMAIN t : Insert(t, row)[id] = t[id]
          /\ Insert(t, row)[NewId(t)] = row
          /\ NewId(t) \notin DOMAIN t /\ NewId(t) # 0
      BY <2>1, <3>1, Inserted
    <3>3. \A id \in DOMAIN t : id < NewId(t)
      BY <3>1, NewIdIsNew
    <3>4. QED
      BY <3>2, <3>3 DEF t
  <2> HIDE DEF fl, n
  <2>5. /\ e \in Database /\ e.files = fl /\ e.directories = d.directories
        /\ e.albums = d.albums /\ e.tracks = d.tracks /\ e.images = d.images
    BY <1>1, <2>2 DEF Database
  <2> HIDE DEF e
  <2>6. \A x \in DOMAIN d.files : d.files[x].path # p
    BY <1>1, <1>3, IdOfFile DEF Known
  <2>7. FilesSound(d.directories, fl)
    BY <2>2, <2>3, <2>6 DEF Sound, FilesSound
  <2>8. TracksSound(fl, d.albums, d.tracks)
    BY <2>2 DEF Sound, TracksSound
  <2>9. ImagesSound(fl, d.albums, d.images)
    BY <2>2 DEF Sound, ImagesSound
  <2>10. Sound(e)
    BY <2>5, <2>7, <2>8, <2>9 DEF Sound
  <2>11. Kept(d, e) /\ Known(e, p)
    BY <2>2, <2>3, <2>5 DEF Kept, Known
  <2>12. FileAdded(d, e, p, dir)
    BY <2>2, <2>5 DEF FileAdded, row
  <2>13. QED
    BY <2>4, <2>10, <2>11, <2>12
<1>4. QED
  BY <1>2, <1>3

(* The same for albums: a new one has no tracks and counts none.           *)
LEMMA AlbumKeeps ==
  ASSUME NEW d, Sound(d), NEW n \in Names
  PROVE  /\ Sound(Album(d, n)) /\ Album(d, n).files = d.files
         /\ Album(d, n).directories = d.directories
         /\ AlbumId(Album(d, n), n) \in DOMAIN Album(d, n).albums
         /\ Album(d, n).tracks = d.tracks /\ Album(d, n).images = d.images
         /\ AlbumNames(d, Album(d, n))
<1>1. d \in Database
  BY DEF Sound
<1>2. CASE AlbumId(d, n) # 0
  BY <1>1, <1>2, IdOfAlbum DEF Album, AlbumNames
<1>3. CASE AlbumId(d, n) = 0
  <2> DEFINE row == [name |-> n, tracks |-> 0, image |-> 0]
             al == Insert(d.albums, row)
             a == NewId(d.albums)
             e == [d EXCEPT !.albums = al]
  <2>1. row \in AlbumType
    BY DEF AlbumType
  <2>0. row.name = n /\ row.tracks = 0
    OBVIOUS
  <2>3. Album(d, n) = e
    BY <1>3 DEF Album
  <2> HIDE DEF row
  <2>2. /\ al \in Table(AlbumType) /\ DOMAIN al = DOMAIN d.albums \cup {a}
        /\ \A id \in DOMAIN d.albums : al[id] = d.albums[id]
        /\ al[a] = row /\ a \notin DOMAIN d.albums /\ a # 0
    <3> DEFINE t == d.albums
    <3>1. t \in Table(AlbumType)
      BY <1>1, DatabaseFields
    <3> HIDE DEF t
    <3>2. /\ Insert(t, row) \in Table(AlbumType)
          /\ DOMAIN Insert(t, row) = DOMAIN t \cup {NewId(t)}
          /\ \A id \in DOMAIN t : Insert(t, row)[id] = t[id]
          /\ Insert(t, row)[NewId(t)] = row
          /\ NewId(t) \notin DOMAIN t /\ NewId(t) # 0
      BY <2>1, <3>1, Inserted
    <3>3. QED
      BY <3>2 DEF t
  <2> HIDE DEF al, a
  <2>4. /\ e \in Database /\ e.files = d.files /\ e.directories = d.directories
        /\ e.albums = al /\ e.tracks = d.tracks /\ e.images = d.images
    BY <1>1, <2>2 DEF Database
  <2> HIDE DEF e
  <2>5. \A x \in DOMAIN d.albums : d.albums[x].name # n
    BY <1>1, <1>3, IdOfAlbum
  <2>6. AlbumsSound(al)
    BY <2>0, <2>2, <2>5 DEF Sound, AlbumsSound
  <2>7. TracksSound(d.files, al, d.tracks)
    BY <2>2 DEF Sound, TracksSound
  <2>8. ImagesSound(d.files, al, d.images)
    BY <2>2 DEF Sound, ImagesSound
  <2>9. Counted(al, d.tracks)
    <3>1. OnAlbum(d.tracks, a) = {}
      BY <2>2 DEF Sound, TracksSound, OnAlbum
    <3>2. al[a].tracks = Cardinality(OnAlbum(d.tracks, a))
      BY <2>0, <2>2, <3>1, FS_EmptySet
    <3>3. QED
      BY <2>2, <3>2 DEF Sound, Counted
  <2>10. Sound(e)
    BY <2>4, <2>6, <2>7, <2>8, <2>9 DEF Sound
  <2>11. AlbumId(e, n) \in DOMAIN e.albums
    BY <2>0, <2>2, <2>4, IdOfAlbum
  <2>12. AlbumNames(d, e)
    BY <2>2, <2>4 DEF AlbumNames
  <2>13. QED
    BY <2>3, <2>4, <2>10, <2>11, <2>12
<1>4. QED
  BY <1>2, <1>3

(* A row of tracks, and the number of tracks its album then has.           *)
WithTrack(d, row) ==
  LET d2 == [d EXCEPT !.tracks = Insert(@, row)]
  IN IF row.album = 0 THEN d2 ELSE [d2 EXCEPT !.albums[row.album].tracks = @ + 1]

(* An INSERT into tracks with the count of its album: the rows and the     *)
(* count grow together.                                                    *)
LEMMA TrackInserted ==
  ASSUME NEW d, Sound(d), NEW row \in TrackType,
         row.file \in DOMAIN d.files, row.album \in DOMAIN d.albums \cup {0}
  PROVE  /\ Sound(WithTrack(d, row)) /\ WithTrack(d, row).files = d.files
         /\ WithTrack(d, row).directories = d.directories
         /\ WithTrack(d, row).images = d.images /\ AlbumNames(d, WithTrack(d, row))
         /\ RowAdded(d.tracks, WithTrack(d, row).tracks, row)
<1> DEFINE d2 == [d EXCEPT !.tracks = Insert(@, row)]
           e == IF row.album = 0 THEN d2 ELSE [d2 EXCEPT !.albums[row.album].tracks = @ + 1]
           tr == Insert(d.tracks, row)
           n == NewId(d.tracks)
           al == IF row.album = 0 THEN d.albums ELSE [d.albums EXCEPT ![row.album].tracks = @ + 1]
<1>1. d \in Database /\ d.albums \in Table(AlbumType)
  BY DatabaseFields DEF Sound
<1>2. /\ tr \in Table(TrackType) /\ DOMAIN tr = DOMAIN d.tracks \cup {n}
      /\ \A id \in DOMAIN d.tracks : tr[id] = d.tracks[id]
      /\ tr[n] = row /\ n \notin DOMAIN d.tracks
  <2> DEFINE t == d.tracks
  <2>1. t \in Table(TrackType)
    BY <1>1, DatabaseFields
  <2> HIDE DEF t
  <2>2. /\ Insert(t, row) \in Table(TrackType)
        /\ DOMAIN Insert(t, row) = DOMAIN t \cup {NewId(t)}
        /\ \A id \in DOMAIN t : Insert(t, row)[id] = t[id]
        /\ Insert(t, row)[NewId(t)] = row
        /\ NewId(t) \notin DOMAIN t /\ NewId(t) # 0
    BY <2>1, Inserted
  <2>3. QED
    BY <2>2 DEF t
<1>0. WithTrack(d, row) = e
  BY DEF WithTrack
<1> HIDE DEF tr, n
<1>3. d2 = [d EXCEPT !.tracks = tr]
  BY DEF tr
<1>4. e = [d EXCEPT !.tracks = tr, !.albums = al]
  BY <1>1, <1>3 DEF Database
<1> HIDE DEF e, d2
<1>5. /\ al \in Table(AlbumType) /\ DOMAIN al = DOMAIN d.albums
      /\ \A a \in DOMAIN al : al[a].name = d.albums[a].name
      /\ \A a \in DOMAIN al :
           al[a].tracks = d.albums[a].tracks + (IF a = row.album THEN 1 ELSE 0)
  <2>1. DOMAIN d.albums \in SUBSET (Nat \ {0}) /\ \A a \in DOMAIN d.albums : d.albums[a] \in AlbumType
    BY <1>1, TableElim
  <2>2. d.albums \in [DOMAIN d.albums -> AlbumType]
    BY <1>1, TableElim
  <2>3. CASE row.album = 0
    BY <1>1, <2>1, <2>3 DEF AlbumType
  <2>4. CASE row.album # 0
    <3> DEFINE b == row.album
               t == d.albums
               k == t[b].tracks + 1
               new == [t[b] EXCEPT !.tracks = k]
    <3>1. b \in DOMAIN t /\ t[b] \in AlbumType
      BY <2>1, <2>4
    <3>2. k \in Nat
      BY <3>1 DEF AlbumType
    <3>3. al = [t EXCEPT ![b] = new]
      BY <2>2, <2>4, <3>1
    <3> HIDE DEF k
    <3>4. new \in AlbumType /\ new.name = t[b].name /\ new.tracks = k
      BY <3>1, <3>2 DEF AlbumType
    <3> HIDE DEF new, al
    <3>5. al \in [DOMAIN t -> AlbumType]
      BY <2>2, <3>1, <3>3, <3>4
    <3>6. al \in Table(AlbumType) /\ DOMAIN al = DOMAIN t
      BY <1>1, <3>5, Updated
    <3>7. al[b] = new /\ \A a \in DOMAIN t : a # b => al[a] = t[a]
      BY <2>2, <3>1, <3>3
    <3>8. \A a \in DOMAIN t : t[a].tracks \in Nat
      BY <2>1 DEF AlbumType
    <3>9. QED
      BY <3>4, <3>6, <3>7, <3>8 DEF k
  <2>5. QED
    BY <2>3, <2>4
<1> HIDE DEF al
<1>6. /\ e \in Database /\ e.files = d.files /\ e.directories = d.directories
      /\ e.albums = al /\ e.tracks = tr /\ e.images = d.images
  BY <1>1, <1>2, <1>4, <1>5 DEF Database
<1>7. AlbumsSound(al)
  BY <1>5 DEF Sound, AlbumsSound
<1>8. TracksSound(d.files, al, tr)
  BY <1>2, <1>5 DEF Sound, TracksSound
<1>9. ImagesSound(d.files, al, d.images)
  BY <1>5 DEF Sound, ImagesSound
<1>10. ASSUME NEW a \in DOMAIN al
       PROVE  al[a].tracks = Cardinality(OnAlbum(tr, a))
  <2> DEFINE old == OnAlbum(d.tracks, a)
  <2>1. d.albums[a].tracks = Cardinality(old) /\ al[a].tracks = d.albums[a].tracks + (IF a = row.album THEN 1 ELSE 0)
    BY <1>5 DEF Sound, Counted
  <2>2. IsFiniteSet(old) /\ n \notin old
    <3>1. IsFiniteSet(DOMAIN d.tracks) /\ old \in SUBSET DOMAIN d.tracks
      BY <1>1, DatabaseFields, TableElim DEF OnAlbum
    <3>2. QED
      BY <1>2, <3>1, FS_Subset
  <2>3. OnAlbum(tr, a) = IF a = row.album THEN old \cup {n} ELSE old
    BY <1>2 DEF OnAlbum
  <2> HIDE DEF old
  <2>4. Cardinality(old) \in Nat /\ Cardinality(old \cup {n}) = Cardinality(old) + 1
    BY <2>2, FS_AddElement, FS_CardinalityType
  <2>5. QED
    BY <2>1, <2>3, <2>4
<1>11. AlbumNames(d, e) /\ RowAdded(d.tracks, e.tracks, row)
  BY <1>2, <1>5, <1>6 DEF AlbumNames, RowAdded
<1>12. QED
  BY <1>0, <1>6, <1>7, <1>8, <1>9, <1>10, <1>11 DEF Sound, Counted

(* library_track_add: its lookups may add rows, which the track then       *)
(* refers to.                                                              *)
LEMMA TrackAddKeeps ==
  ASSUME NEW d, Sound(d), NEW p \in Files, NEW dir \in DOMAIN d.directories, NEW n,
         NEW c \in Sheets \cup {NoSheet}
  PROVE  /\ Sound(TrackAdd(d, p, dir, n, c)) /\ Kept(d, TrackAdd(d, p, dir, n, c))
         /\ Known(TrackAdd(d, p, dir, n, c), p)
<1> DEFINE d0 == File(d, p, dir)
           d1 == IF c = NoSheet THEN d0 ELSE File(d0, c, dir)
           d2 == IF n \in Names THEN Album(d1, n) ELSE d1
           row == TrackRow(d2, p, n, c)
           e == TrackAdd(d, p, dir, n, c)
<1>1. Sound(d0) /\ Kept(d, d0) /\ Known(d0, p)
  BY FileKeeps
<1> HIDE DEF d0
<1>2. Sound(d1) /\ Kept(d, d1) /\ Known(d1, p) /\ (c # NoSheet => Known(d1, c))
  <2>1. CASE c = NoSheet
    BY <1>1, <2>1
  <2>2. CASE c # NoSheet
    <3>1. c \in Files /\ dir \in DOMAIN d0.directories
      BY <1>1, <2>2 DEF Files, Kept
    <3>2. Sound(d1) /\ Kept(d0, d1) /\ Known(d1, c)
      BY <1>1, <2>2, <3>1, FileKeeps
    <3>3. QED
      BY <1>1, <3>2 DEF Kept
  <2>3. QED
    BY <2>1, <2>2
<1> HIDE DEF d1
<1>3. Sound(d2) /\ d2.files = d1.files /\ d2.directories = d1.directories
  BY <1>2, AlbumKeeps
<1>4. n \in Names => AlbumId(d2, n) \in DOMAIN d2.albums
  BY <1>2, AlbumKeeps
<1>5. d2 = TrackRows(d, p, dir, n, c)
  BY DEF TrackRows, d1, d0
<1>6. e = WithTrack(d2, row)
  BY <1>5 DEF TrackAdd, WithTrack
<1> HIDE DEF d2, e
<1>7. Kept(d, d2) /\ Known(d2, p) /\ (c # NoSheet => Known(d2, c))
  BY <1>2, <1>3 DEF Kept, Known
<1>8. d2 \in Database
  BY <1>3 DEF Sound
<1>9. DOMAIN d2.files \subseteq Nat \ {0} /\ DOMAIN d2.albums \subseteq Nat
  BY <1>8, DatabaseFields, TableElim
<1>10. FileId(d2, p) \in DOMAIN d2.files /\ (c # NoSheet => FileId(d2, c) \in DOMAIN d2.files)
  BY <1>7, <1>8, IdOfFile
<1>11. /\ row \in TrackType /\ row.file \in DOMAIN d2.files
       /\ row.album \in DOMAIN d2.albums \cup {0}
  <2>1. /\ row.file = FileId(d2, p) /\ row.album = IF n \in Names THEN AlbumId(d2, n) ELSE 0
        /\ row.cue = IF c = NoSheet THEN 0 ELSE FileId(d2, c)
        /\ row = [file |-> row.file, album |-> row.album, cue |-> row.cue]
    BY DEF TrackRow
  <2> HIDE DEF row
  <2>2. row.file \in Nat \ {0} /\ row.album \in Nat /\ row.cue \in Nat
    BY <1>4, <1>9, <1>10, <2>1
  <2>3. QED
    BY <1>4, <1>10, <2>1, <2>2 DEF TrackType
<1> HIDE DEF row
<1>12. Sound(e) /\ e.files = d2.files /\ e.directories = d2.directories
  BY <1>3, <1>6, <1>11, TrackInserted
<1>13. QED
  BY <1>7, <1>12 DEF e, Kept, Known

(* library_image_add.                                                      *)
LEMMA ImageAddKeeps ==
  ASSUME NEW d, Sound(d), NEW p \in Images, NEW dir \in DOMAIN d.directories
  PROVE  /\ Sound(ImageAdd(d, p, dir)) /\ Kept(d, ImageAdd(d, p, dir))
         /\ Known(ImageAdd(d, p, dir), p)
<1> DEFINE d1 == File(d, p, dir)
           row == [file |-> FileId(d1, p), album |-> 0]
           im == Insert(d1.images, row)
           n == NewId(d1.images)
           e == [d1 EXCEPT !.images = im]
<1>1. Sound(d1) /\ Kept(d, d1) /\ Known(d1, p)
  BY FileKeeps DEF Files
<1>2. ImageAdd(d, p, dir) = e
  BY DEF ImageAdd
<1> HIDE DEF d1
<1>3. d1 \in Database /\ DOMAIN d1.files \subseteq Nat \ {0}
  BY <1>1, DatabaseFields, TableElim DEF Sound
<1>4. row.file \in DOMAIN d1.files /\ d1.files[row.file].path = p /\ row.album = 0
  BY <1>1, <1>3, IdOfFile
<1>5. row \in ImageType
  BY <1>3, <1>4 DEF ImageType
<1> HIDE DEF row
<1>6. /\ im \in Table(ImageType) /\ DOMAIN im = DOMAIN d1.images \cup {n}
      /\ \A id \in DOMAIN d1.images : im[id] = d1.images[id]
      /\ im[n] = row
  <2> DEFINE t == d1.images
  <2>1. t \in Table(ImageType)
    BY <1>3, DatabaseFields
  <2> HIDE DEF t
  <2>2. /\ Insert(t, row) \in Table(ImageType)
        /\ DOMAIN Insert(t, row) = DOMAIN t \cup {NewId(t)}
        /\ \A id \in DOMAIN t : Insert(t, row)[id] = t[id]
        /\ Insert(t, row)[NewId(t)] = row
        /\ NewId(t) \notin DOMAIN t /\ NewId(t) # 0
    BY <1>5, <2>1, Inserted
  <2>3. QED
    BY <2>2 DEF t
<1> HIDE DEF im, n
<1>7. /\ e \in Database /\ e.files = d1.files /\ e.directories = d1.directories
      /\ e.albums = d1.albums /\ e.tracks = d1.tracks /\ e.images = im
  BY <1>3, <1>6 DEF Database
<1> HIDE DEF e
<1>8. ImagesSound(d1.files, d1.albums, im)
  BY <1>1, <1>4, <1>6 DEF Sound, ImagesSound
<1>9. Sound(e)
  BY <1>1, <1>7, <1>8 DEF Sound
<1>10. QED
  BY <1>1, <1>2, <1>7, <1>9 DEF Kept, Known

(* library_file_mtime_set.                                                 *)
LEMMA FileMtimeSetKeeps ==
  ASSUME NEW d, Sound(d), NEW f \in DOMAIN d.files, NEW m \in Nat
  PROVE  /\ Sound(FileMtimeSet(d, f, m)) /\ Kept(d, FileMtimeSet(d, f, m))
         /\ MtimeSet(d, FileMtimeSet(d, f, m), f, m)
<1> DEFINE t == d.files
           fl == [t EXCEPT ![f].mtime = m]
           e == [d EXCEPT !.files = fl]
<1>1. d \in Database /\ t \in Table(FileType)
  BY DatabaseFields DEF Sound
<1>2. FileMtimeSet(d, f, m) = e
  BY <1>1 DEF FileMtimeSet, Database
<1>3. t \in [DOMAIN t -> FileType] /\ t[f] \in FileType
  BY <1>1, TableElim
<1> HIDE DEF t
<1> DEFINE row == [t[f] EXCEPT !.mtime = m]
<1>0. /\ row \in FileType /\ row.mtime = m
      /\ row.path = t[f].path /\ row.directory = t[f].directory
  BY <1>3 DEF FileType
<1> HIDE DEF row
<1>4. /\ fl \in [DOMAIN t -> FileType]
      /\ \A x \in DOMAIN t : fl[x].path = t[x].path /\ fl[x].directory = t[x].directory
      /\ fl[f].mtime = m /\ \A x \in DOMAIN t \ {f} : fl[x] = t[x]
  <2>1. fl = [t EXCEPT ![f] = row]
    BY <1>3 DEF row
  <2>2. f \in DOMAIN t
    BY DEF t
  <2> HIDE DEF fl
  <2>3. fl \in [DOMAIN t -> FileType] /\ fl[f] = row /\ \A x \in DOMAIN t \ {f} : fl[x] = t[x]
    BY <1>0, <1>3, <2>1, <2>2
  <2>4. QED
    BY <1>0, <2>3
<1> HIDE DEF fl
<1>5. fl \in Table(FileType) /\ DOMAIN fl = DOMAIN t
  BY <1>1, <1>4, Updated
<1>6. /\ e \in Database /\ e.files = fl /\ e.directories = d.directories
      /\ e.albums = d.albums /\ e.tracks = d.tracks /\ e.images = d.images
  BY <1>1, <1>5 DEF Database
<1> HIDE DEF e
<1>7. FilesSound(d.directories, fl)
  BY <1>4, <1>5 DEF t, Sound, FilesSound
<1>8. TracksSound(fl, d.albums, d.tracks)
  BY <1>5 DEF t, Sound, TracksSound
<1>9. ImagesSound(fl, d.albums, d.images)
  BY <1>4, <1>5 DEF t, Sound, ImagesSound
<1>10. Sound(e)
  BY <1>6, <1>7, <1>8, <1>9 DEF Sound
<1>11. Kept(d, e)
  BY <1>4, <1>5, <1>6 DEF t, Kept, Known
<1>12. MtimeSet(d, e, f, m)
  BY <1>4, <1>5, <1>6 DEF t, MtimeSet
<1>13. QED
  BY <1>2, <1>10, <1>11, <1>12

(* library_file_clear, the albums of which are counted again.              *)
LEMMA FileClearKeeps ==
  ASSUME NEW d, Sound(d), NEW S
  PROVE  /\ Sound(FileClear(d, S)) /\ FileClear(d, S).files = d.files
         /\ FileClear(d, S).directories = d.directories
         /\ \A t \in DOMAIN FileClear(d, S).tracks : FileClear(d, S).tracks[t].file \notin S
         /\ \A i \in DOMAIN FileClear(d, S).images : FileClear(d, S).images[i].file \notin S
         /\ Cleared(d, FileClear(d, S), S)
<1> DEFINE gone == TracksOf(d, S)
           touched == {d.tracks[t].album : t \in gone}
           count(a) == Cardinality(AlbumTracks(d, a) \ gone)
           al == [a \in DOMAIN d.albums |->
                    IF a \in touched THEN [d.albums[a] EXCEPT !.tracks = count(a)] ELSE d.albums[a]]
           tr == Delete(d.tracks, gone)
           im == Delete(d.images, ImagesOf(d, S))
           e == [d EXCEPT !.albums = al, !.tracks = tr, !.images = im]
<1>1. d \in Database
  BY DEF Sound
<1>2. FileClear(d, S) = e
  BY DEF FileClear
<1>3. /\ tr \in Table(TrackType) /\ DOMAIN tr = DOMAIN d.tracks \ gone
      /\ \A t \in DOMAIN tr : tr[t] = d.tracks[t]
  <2> DEFINE t == d.tracks
  <2>1. t \in Table(TrackType)
    BY <1>1, DatabaseFields
  <2> HIDE DEF t, gone
  <2>2. /\ Delete(t, gone) \in Table(TrackType)
        /\ DOMAIN Delete(t, gone) = DOMAIN t \ gone
        /\ \A id \in DOMAIN t \ gone : Delete(t, gone)[id] = t[id]
    BY <2>1, Deleted, ZenonT(30)
  <2>3. QED
    BY <2>2 DEF t
<1>4. /\ im \in Table(ImageType) /\ DOMAIN im = DOMAIN d.images \ ImagesOf(d, S)
      /\ \A i \in DOMAIN im : im[i] = d.images[i]
  <2> DEFINE t == d.images
             no == ImagesOf(d, S)
  <2>1. t \in Table(ImageType)
    BY <1>1, DatabaseFields
  <2> HIDE DEF t, no
  <2>2. /\ Delete(t, no) \in Table(ImageType)
        /\ DOMAIN Delete(t, no) = DOMAIN t \ no
        /\ \A id \in DOMAIN t \ no : Delete(t, no)[id] = t[id]
    BY <2>1, Deleted, ZenonT(30)
  <2>3. QED
    BY <2>2 DEF t, no
<1> HIDE DEF tr, im
<1>5. /\ gone = {t \in DOMAIN d.tracks : d.tracks[t].file \in S}
      /\ ImagesOf(d, S) = {i \in DOMAIN d.images : d.images[i].file \in S}
  BY DEF TracksOf, ImagesOf
<1>6. ASSUME NEW a \in DOMAIN d.albums
      PROVE  /\ OnAlbum(tr, a) = AlbumTracks(d, a) \ gone
             /\ count(a) \in Nat
             /\ al[a] \in AlbumType /\ al[a].name = d.albums[a].name
             /\ al[a].tracks = Cardinality(OnAlbum(tr, a))
  <2> HIDE DEF gone
  <2>1. OnAlbum(tr, a) = AlbumTracks(d, a) \ gone
    BY <1>3 DEF OnAlbum, AlbumTracks
  <2>2. IsFiniteSet(AlbumTracks(d, a) \ gone)
    <3>1. IsFiniteSet(DOMAIN d.tracks) /\ AlbumTracks(d, a) \ gone \in SUBSET DOMAIN d.tracks
      BY <1>1, DatabaseFields, TableElim DEF AlbumTracks
    <3>2. QED
      BY <3>1, FS_Subset
  <2>3. count(a) \in Nat
    BY <2>2, FS_CardinalityType
  <2>4. d.albums[a] \in AlbumType
    BY <1>1, DatabaseFields, TableElim
  <2>5. d.albums[a].tracks = Cardinality(AlbumTracks(d, a))
    BY DEF Sound, Counted, OnAlbum, AlbumTracks
  <2>6. a \notin touched => AlbumTracks(d, a) \ gone = AlbumTracks(d, a)
    BY DEF AlbumTracks
  <2>7. count(a) = Cardinality(OnAlbum(tr, a))
    BY <2>1
  <2> DEFINE k == count(a)
  <2> HIDE DEF touched
  <2>8. al[a] = IF a \in touched THEN [d.albums[a] EXCEPT !.tracks = k] ELSE d.albums[a]
    OBVIOUS
  <2>9. a \notin touched => d.albums[a].tracks = Cardinality(OnAlbum(tr, a))
    BY <2>1, <2>5, <2>6
  <2> HIDE DEF k, al
  <2>10. k \in Nat /\ k = Cardinality(OnAlbum(tr, a))
    BY <2>3, <2>7 DEF k
  <2> HIDE DEF count
  <2>11. /\ al[a] \in AlbumType /\ al[a].name = d.albums[a].name
         /\ al[a].tracks = Cardinality(OnAlbum(tr, a))
    BY <2>4, <2>8, <2>9, <2>10 DEF AlbumType
  <2>12. QED
    BY <2>1, <2>3, <2>11
<1>7. al \in [DOMAIN d.albums -> AlbumType]
  <2>1. al = [a \in DOMAIN d.albums |-> al[a]]
    OBVIOUS
  <2> HIDE DEF al
  <2>2. QED
    BY <1>6, <2>1
<1> HIDE DEF al, gone
<1>8. al \in Table(AlbumType) /\ DOMAIN al = DOMAIN d.albums
  BY <1>1, <1>7, DatabaseFields, Updated
<1>9. /\ e \in Database /\ e.files = d.files /\ e.directories = d.directories
      /\ e.albums = al /\ e.tracks = tr /\ e.images = im
  BY <1>1, <1>3, <1>4, <1>8 DEF Database
<1> HIDE DEF e
<1>10. AlbumsSound(al)
  BY <1>6, <1>8 DEF Sound, AlbumsSound
<1>11. TracksSound(d.files, al, tr)
  BY <1>3, <1>8 DEF Sound, TracksSound
<1>12. ImagesSound(d.files, al, im)
  BY <1>4, <1>8 DEF Sound, ImagesSound
<1>13. Counted(al, tr)
  BY <1>6, <1>8 DEF Counted
<1>14. Sound(e)
  BY <1>9, <1>10, <1>11, <1>12, <1>13 DEF Sound
<1>15. Cleared(d, e, S)
  BY <1>3, <1>4, <1>6, <1>8, <1>9 DEF Cleared, AlbumNames, gone
<1>16. QED
  BY <1>2, <1>3, <1>4, <1>5, <1>9, <1>14, <1>15

(* library_file_delete: what referred to the rows is cleared before they   *)
(* go.                                                                     *)
LEMMA FileDeleteKeeps ==
  ASSUME NEW d, Sound(d), NEW S
  PROVE  /\ Sound(FileDelete(d, S)) /\ FileDelete(d, S).directories = d.directories
         /\ \A x \in DOMAIN FileDelete(d, S).files :
              /\ x \in DOMAIN d.files /\ x \notin S
              /\ FileDelete(d, S).files[x] = d.files[x]
         /\ FilesLeft(d, FileDelete(d, S), S)
<1> DEFINE d1 == FileClear(d, S)
           fl == Delete(d1.files, S)
           e == [d1 EXCEPT !.files = fl]
<1>1. /\ Sound(d1) /\ d1.files = d.files /\ d1.directories = d.directories
      /\ \A t \in DOMAIN d1.tracks : d1.tracks[t].file \notin S
      /\ \A i \in DOMAIN d1.images : d1.images[i].file \notin S
      /\ Cleared(d, d1, S)
  BY FileClearKeeps
<1>2. FileDelete(d, S) = e
  BY DEF FileDelete
<1> HIDE DEF d1
<1>3. d1 \in Database
  BY <1>1 DEF Sound
<1>4. /\ fl \in Table(FileType) /\ DOMAIN fl = DOMAIN d1.files \ S
      /\ \A x \in DOMAIN fl : fl[x] = d1.files[x]
  <2> DEFINE t == d1.files
  <2>1. t \in Table(FileType)
    BY <1>3, DatabaseFields
  <2> HIDE DEF t
  <2>2. /\ Delete(t, S) \in Table(FileType)
        /\ DOMAIN Delete(t, S) = DOMAIN t \ S
        /\ \A id \in DOMAIN t \ S : Delete(t, S)[id] = t[id]
    BY <2>1, Deleted, ZenonT(30)
  <2>3. QED
    BY <2>2 DEF t
<1> HIDE DEF fl
<1>5. /\ e \in Database /\ e.files = fl /\ e.directories = d1.directories
      /\ e.albums = d1.albums /\ e.tracks = d1.tracks /\ e.images = d1.images
  BY <1>3, <1>4 DEF Database
<1> HIDE DEF e
<1>6. FilesSound(d1.directories, fl)
  BY <1>1, <1>4 DEF Sound, FilesSound
<1>7. TracksSound(fl, d1.albums, d1.tracks)
  BY <1>1, <1>4 DEF Sound, TracksSound
<1>8. ImagesSound(fl, d1.albums, d1.images)
  BY <1>1, <1>4 DEF Sound, ImagesSound
<1>9. Sound(e)
  BY <1>1, <1>5, <1>6, <1>7, <1>8 DEF Sound
<1>10. FilesLeft(d, e, S)
  BY <1>1, <1>4, <1>5 DEF FilesLeft, Cleared, AlbumNames
<1>11. QED
  BY <1>1, <1>2, <1>4, <1>5, <1>9, <1>10

-----------------------------------------------------------------------------
(* The operations on directories.                                          *)

(* The directories are a tree of finite depth.                             *)
LEMMA DepthExists == Depth \in Depths /\ IsDepth(Depth)
<1>1. \E depth \in Depths : IsDepth(depth)
  BY LibraryScanAssumption DEF Depths, IsDepth
<1>2. QED
  BY <1>1 DEF Depth

(* A directory is one deeper than the one it is in.                        *)
LEMMA DepthGrows ==
  /\ \A p \in Dirs : Depth[p] \in Nat
  /\ \A p \in Dirs \ {Root} : Home[p] \in Dirs /\ Depth[p] = Depth[Home[p]] + 1
<1>1. IsFiniteSet(Dirs) /\ Dirs \in SUBSET Paths /\ Home \in [Paths -> Dirs]
  <2>1. IsFiniteSet(Paths) /\ Home \in [Paths -> Dirs]
    BY LibraryScanAssumption
  <2>2. QED
    BY <2>1, FS_Subset DEF Paths
<1>2. Cardinality(Dirs) \in Nat
  BY <1>1, FS_CardinalityType
<1>3. \A p \in Dirs : Depth[p] \in 0 .. Cardinality(Dirs) - 1
  BY DepthExists DEF Depths
<1>4. QED
  BY <1>1, <1>2, <1>3, DepthExists DEF IsDepth

(* The rows of directories other than those of gone are in e what they were*)
(* in d, but for their times.                                              *)
Keeps(d, e, gone) ==
  \A x \in DOMAIN d.directories \ gone :
    /\ x \in DOMAIN e.directories
    /\ e.directories[x].path = d.directories[x].path
    /\ e.directories[x].parent = d.directories[x].parent

(* The rows of directories with the times they then have, the other tables *)
(* left alone.                                                             *)
OthersKept(d, e) ==
  /\ e.files = d.files /\ e.albums = d.albums /\ e.tracks = d.tracks /\ e.images = d.images
DirectorySet(d, e, x, m) ==
  /\ OthersKept(d, e) /\ DOMAIN e.directories = DOMAIN d.directories
  /\ \A y \in DOMAIN d.directories \ {x} : e.directories[y] = d.directories[y]
  /\ e.directories[x].path = d.directories[x].path /\ e.directories[x].mtime = m
DirectoryAdded(d, e, p) ==
  /\ OthersKept(d, e)
  /\ \A x \in DOMAIN d.directories : x \in DOMAIN e.directories /\ e.directories[x] = d.directories[x]
  /\ \A x \in DOMAIN e.directories \ DOMAIN d.directories :
       e.directories[x].path = p /\ e.directories[x].mtime = 0
DirectoriesLeft(d, e, gone) ==
  /\ DOMAIN e.directories = DOMAIN d.directories \ gone
  /\ \A x \in DOMAIN e.directories : e.directories[x] = d.directories[x]

(* library_directory_mtime_set.                                            *)
LEMMA DirectoryMtimeSetKeeps ==
  ASSUME NEW d, Sound(d), NEW x \in DOMAIN d.directories, NEW m \in Nat
  PROVE  /\ Sound(DirectoryMtimeSet(d, x, m)) /\ Keeps(d, DirectoryMtimeSet(d, x, m), {})
         /\ DirectorySet(d, DirectoryMtimeSet(d, x, m), x, m)
<1> DEFINE t == d.directories
           dr == [t EXCEPT ![x].mtime = m]
           e == [d EXCEPT !.directories = dr]
<1>1. d \in Database /\ t \in Table(DirectoryType)
  BY DatabaseFields DEF Sound
<1>2. DirectoryMtimeSet(d, x, m) = e
  BY <1>1 DEF DirectoryMtimeSet, Database
<1>3. t \in [DOMAIN t -> DirectoryType] /\ t[x] \in DirectoryType
  BY <1>1, TableElim
<1> HIDE DEF t
<1> DEFINE row == [t[x] EXCEPT !.mtime = m]
<1>0. row \in DirectoryType /\ row.mtime = m /\ row.path = t[x].path /\ row.parent = t[x].parent
  BY <1>3 DEF DirectoryType
<1> HIDE DEF row
<1>4. /\ dr \in [DOMAIN t -> DirectoryType]
      /\ \A y \in DOMAIN t : dr[y].path = t[y].path /\ dr[y].parent = t[y].parent
      /\ dr[x].mtime = m /\ \A y \in DOMAIN t \ {x} : dr[y] = t[y]
  <2>1. dr = [t EXCEPT ![x] = row]
    BY <1>3 DEF row
  <2>2. x \in DOMAIN t
    BY DEF t
  <2> HIDE DEF dr
  <2>3. dr \in [DOMAIN t -> DirectoryType] /\ dr[x] = row /\ \A y \in DOMAIN t \ {x} : dr[y] = t[y]
    BY <1>0, <1>3, <2>1, <2>2
  <2>4. QED
    BY <1>0, <2>3
<1> HIDE DEF dr
<1>5. dr \in Table(DirectoryType) /\ DOMAIN dr = DOMAIN t
  BY <1>1, <1>4, Updated
<1>6. /\ e \in Database /\ e.files = d.files /\ e.directories = dr
      /\ e.albums = d.albums /\ e.tracks = d.tracks /\ e.images = d.images
  BY <1>1, <1>5 DEF Database
<1> HIDE DEF e
<1>7. DirectoriesSound(dr)
  <2>1. DirectoriesSound(t)
    BY DEF t, Sound
  <2>2. QED
    BY <1>4, <1>5, <2>1 DEF DirectoriesSound, Rooted
<1>8. FilesSound(dr, d.files)
  BY <1>5 DEF t, Sound, FilesSound
<1>9. Sound(e)
  BY <1>6, <1>7, <1>8 DEF Sound
<1>10. Keeps(d, e, {})
  BY <1>4, <1>5, <1>6 DEF t, Keeps
<1>11. DirectorySet(d, e, x, m)
  BY <1>4, <1>5, <1>6 DEF t, DirectorySet, OthersKept
<1>12. QED
  BY <1>2, <1>9, <1>10, <1>11

(* library_directory for a new one, called with the directory its path is  *)
(* in: the table stays a tree.                                             *)
LEMMA DirectoryKeeps ==
  ASSUME NEW d, Sound(d), NEW p \in Dirs, NEW parent, DirectoryId(d, p) = 0,
         IF p = Root THEN parent = 0
         ELSE parent \in DOMAIN d.directories /\ d.directories[parent].path = Home[p]
  PROVE  /\ Sound(Directory(d, p, parent)) /\ Keeps(d, Directory(d, p, parent), {})
         /\ DirectoryId(Directory(d, p, parent), p) \in DOMAIN Directory(d, p, parent).directories
         /\ Directory(d, p, parent).directories[DirectoryId(Directory(d, p, parent), p)].path = p
         /\ DirectoryAdded(d, Directory(d, p, parent), p)
<1> DEFINE t == d.directories
           row == [path |-> p, mtime |-> 0, parent |-> parent]
           dr == Insert(t, row)
           n == NewId(t)
           e == [d EXCEPT !.directories = dr]
<1>1. d \in Database /\ t \in Table(DirectoryType) /\ DOMAIN t \in SUBSET (Nat \ {0})
  BY DatabaseFields, TableElim DEF Sound
<1>2. Directory(d, p, parent) = e
  BY DEF Directory
<1>3. row.path = p /\ row.parent = parent /\ row.mtime = 0
  OBVIOUS
<1>4. parent \in Nat /\ (parent = 0 <=> p = Root)
  BY <1>1
<1>5. row \in DirectoryType
  BY <1>4 DEF DirectoryType
<1>6. \A x \in DOMAIN t : t[x].path # p
  BY <1>1, IdOfDirectory
<1> HIDE DEF row, t
<1>7. /\ dr \in Table(DirectoryType) /\ DOMAIN dr = DOMAIN t \cup {n}
      /\ \A id \in DOMAIN t : dr[id] = t[id]
      /\ dr[n] = row /\ n \notin DOMAIN t /\ n # 0
  BY <1>1, <1>5, Inserted
<1> HIDE DEF dr, n
<1>8. /\ e \in Database /\ e.files = d.files /\ e.directories = dr
      /\ e.albums = d.albums /\ e.tracks = d.tracks /\ e.images = d.images
  BY <1>1, <1>7 DEF Database
<1> HIDE DEF e
<1>9. DirectoriesSound(dr)
  <2>1. DirectoriesSound(t)
    BY DEF t, Sound
  <2>2. \A x, y \in DOMAIN dr : dr[x].path = dr[y].path => x = y
    BY <1>3, <1>6, <1>7, <2>1 DEF DirectoriesSound
  <2>3. ASSUME NEW x \in DOMAIN dr
        PROVE  /\ dr[x].parent = 0 <=> dr[x].path = Root
               /\ dr[x].parent # 0 => /\ dr[x].parent \in DOMAIN dr
                                      /\ dr[dr[x].parent].path = Home[dr[x].path]
    <3>1. CASE x \in DOMAIN t
      BY <1>7, <2>1, <3>1 DEF DirectoriesSound, Rooted
    <3>2. CASE x = n
      BY <1>3, <1>4, <1>7, <3>2 DEF t
    <3>3. QED
      BY <1>7, <3>1, <3>2
  <2>4. QED
    BY <2>2, <2>3 DEF DirectoriesSound, Rooted
<1>10. FilesSound(dr, d.files)
  BY <1>7 DEF t, Sound, FilesSound
<1>11. Sound(e)
  BY <1>8, <1>9, <1>10 DEF Sound
<1>12. Keeps(d, e, {})
  BY <1>7, <1>8 DEF t, Keeps
<1>13. DirectoryId(e, p) # 0
  BY <1>3, <1>7, <1>8, IdOfDirectory
<1>14. DirectoryAdded(d, e, p)
  BY <1>3, <1>7, <1>8 DEF t, DirectoryAdded, OthersKept
<1>15. QED
  BY <1>2, <1>8, <1>11, <1>12, <1>13, <1>14, IdOfDirectory

(* The directories that go with s are s, those whose parent goes, and no   *)
(* others that are not deeper in the tree than s.                          *)
LEMMA BelowIs ==
  ASSUME NEW d, Sound(d), NEW s \in DOMAIN d.directories
  PROVE  /\ \A x \in Below(d, s) : Subdirectories(d, x) \subseteq Below(d, s)
         /\ \A x \in Below(d, s) :
              x # s => Depth[d.directories[s].path] < Depth[d.directories[x].path]
<1> DEFINE t == d.directories
           Closed(ds) == s \in ds /\ \A x \in ds : Subdirectories(d, x) \subseteq ds
<1>1. Below(d, s) = {x \in DOMAIN t : \A ds \in SUBSET DOMAIN t : Closed(ds) => x \in ds}
  BY DEF Below
<1>2. \A x \in Below(d, s) : Subdirectories(d, x) \subseteq Below(d, s)
  BY <1>1 DEF Subdirectories
<1> DEFINE deeper == {x \in DOMAIN t : x # s => Depth[t[s].path] < Depth[t[x].path]}
<1>3. t \in Table(DirectoryType) /\ DirectoriesSound(t)
  BY DatabaseFields DEF Sound
<1>4. \A x \in DOMAIN t : t[x].path \in Dirs
  <2>1. \A x \in DOMAIN t : t[x] \in DirectoryType
    BY <1>3, TableElim
  <2>2. QED
    BY <2>1 DEF DirectoryType
<1>5. ASSUME NEW x \in deeper, NEW y \in Subdirectories(d, x)
      PROVE  y \in deeper
  <2>1. y \in DOMAIN t /\ t[y].parent = x /\ x \in DOMAIN t
    BY <1>5 DEF Subdirectories
  <2>2. x # 0
    BY <1>3, <2>1, TableElim
  <2>3. t[y].path \in Dirs \ {Root} /\ t[x].path = Home[t[y].path]
    BY <1>3, <1>4, <2>1, <2>2 DEF DirectoriesSound, Rooted
  <2>4. Depth[t[y].path] = Depth[t[x].path] + 1
    BY <2>3, DepthGrows
  <2>5. Depth[t[y].path] \in Nat /\ Depth[t[x].path] \in Nat /\ Depth[t[s].path] \in Nat
    BY <1>4, <2>1, DepthGrows
  <2>6. x = s \/ Depth[t[s].path] < Depth[t[x].path]
    BY <1>5
  <2>7. Depth[t[s].path] < Depth[t[y].path]
    <3> DEFINE i == Depth[t[s].path]
               j == Depth[t[x].path]
               k == Depth[t[y].path]
    <3>1. i \in Nat /\ j \in Nat /\ k = j + 1 /\ (i = j \/ i < j)
      BY <2>4, <2>5, <2>6
    <3> HIDE DEF i, j, k
    <3>2. i < k
      BY <3>1
    <3>3. QED
      BY <3>2 DEF i, k
  <2>8. QED
    BY <2>1, <2>7
<1>6. deeper \in SUBSET DOMAIN t /\ Closed(deeper)
  BY <1>5
<1>7. Below(d, s) \subseteq deeper
  <2> HIDE DEF deeper
  <2>1. QED
    BY <1>1, <1>6
<1>8. QED
  BY <1>2, <1>7

(* library_directory_delete: all rows below go, so no row is left without  *)
(* its parent, and no other row is touched.                                *)
LEMMA DirectoryDeleteKeeps ==
  ASSUME NEW d, Sound(d), NEW s \in DOMAIN d.directories
  PROVE  /\ Sound(DirectoryDelete(d, s))
         /\ Keeps(d, DirectoryDelete(d, s), Below(d, s))
         /\ DirectoriesLeft(d, DirectoryDelete(d, s), Below(d, s))
         /\ FilesLeft(d, DirectoryDelete(d, s),
                      {f \in DOMAIN d.files : d.files[f].directory \in Below(d, s)})
<1> DEFINE below == Below(d, s)
           gone == UNION {FilesIn(d, x) : x \in below}
           d1 == FileDelete(d, gone)
           dr == Delete(d1.directories, below)
           e == [d1 EXCEPT !.directories = dr]
<1>1. DirectoryDelete(d, s) = e
  BY DEF DirectoryDelete
<1>2. \A x \in below : Subdirectories(d, x) \subseteq below
  BY BelowIs
<1>3. gone = {f \in DOMAIN d.files : d.files[f].directory \in below}
  BY DEF FilesIn
<1> HIDE DEF gone
<1>4. /\ Sound(d1) /\ d1.directories = d.directories
      /\ \A x \in DOMAIN d1.files :
           x \in DOMAIN d.files /\ x \notin gone /\ d1.files[x] = d.files[x]
      /\ FilesLeft(d, d1, gone)
  BY FileDeleteKeeps
<1> HIDE DEF d1, below
<1>5. d1 \in Database
  BY <1>4 DEF Sound
<1>6. /\ dr \in Table(DirectoryType) /\ DOMAIN dr = DOMAIN d1.directories \ below
      /\ \A x \in DOMAIN dr : dr[x] = d1.directories[x]
  <2> DEFINE t == d1.directories
  <2>1. t \in Table(DirectoryType)
    BY <1>5, DatabaseFields
  <2> HIDE DEF t
  <2>2. /\ Delete(t, below) \in Table(DirectoryType)
        /\ DOMAIN Delete(t, below) = DOMAIN t \ below
        /\ \A id \in DOMAIN t \ below : Delete(t, below)[id] = t[id]
    BY <2>1, Deleted, ZenonT(30)
  <2>3. QED
    BY <2>2 DEF t
<1> HIDE DEF dr
<1>7. /\ e \in Database /\ e.files = d1.files /\ e.directories = dr
      /\ e.albums = d1.albums /\ e.tracks = d1.tracks /\ e.images = d1.images
  BY <1>5, <1>6 DEF Database
<1> HIDE DEF e
<1>8. DirectoriesSound(dr)
  <2>1. DirectoriesSound(d.directories)
    BY DEF Sound
  <2>2. \A x, y \in DOMAIN dr : dr[x].path = dr[y].path => x = y
    BY <1>4, <1>6, <2>1 DEF DirectoriesSound
  <2>3. \A x \in DOMAIN dr : dr[x].parent \notin below
    BY <1>2, <1>4, <1>6 DEF Subdirectories
  <2>4. Rooted(dr)
    BY <1>4, <1>6, <2>1, <2>3 DEF DirectoriesSound, Rooted
  <2>5. QED
    BY <2>2, <2>4 DEF DirectoriesSound
<1>9. FilesSound(dr, d1.files)
  BY <1>3, <1>4, <1>6 DEF Sound, FilesSound
<1>10. Sound(e)
  BY <1>4, <1>7, <1>8, <1>9 DEF Sound
<1>11. Keeps(d, e, below)
  BY <1>4, <1>6, <1>7 DEF Keeps
<1>12. DirectoriesLeft(d, e, below)
  BY <1>4, <1>6, <1>7 DEF DirectoriesLeft
<1>13. FilesLeft(d, e, gone)
  BY <1>4, <1>7 DEF FilesLeft, Cleared, AlbumNames
<1>14. QED
  BY <1>1, <1>3, <1>10, <1>11, <1>12, <1>13 DEF below

-----------------------------------------------------------------------------
(* The operations of the scan that are made of those of the library.       *)

(* assign_images changes which album images are of and which one an album  *)
(* shows.                                                                  *)
ImagesAssigned(d, e) ==
  /\ e.files = d.files /\ e.tracks = d.tracks /\ AlbumNames(d, e)
  /\ DOMAIN e.images = DOMAIN d.images
  /\ \A i \in DOMAIN d.images : e.images[i].file = d.images[i].file

LEMMA AssignImagesKeeps ==
  ASSUME NEW d, Sound(d), NEW dir, NEW a \in DOMAIN d.albums
  PROVE  /\ Sound(AssignImages(d, dir, a))
         /\ AssignImages(d, dir, a).directories = d.directories
         /\ ImagesAssigned(d, AssignImages(d, dir, a))
<1> DEFINE with == {dir} \cup {s \in Subdirectories(d, dir) : TracksIn(d, s) # {}}
           t == d.images
           Of(i) == \E x \in with : t[i].file \in FilesIn(d, x)
           im == [i \in DOMAIN t |-> IF Of(i) THEN [t[i] EXCEPT !.album = a] ELSE t[i]]
           d1 == ImageAlbumSet(d, with, a)
           own == {i \in DOMAIN d1.images : d1.images[i].album = a}
           rank(i) == Rank[d1.files[d1.images[i].file].path]
           first == {i \in own : \A j \in own : rank(i) <= rank(j)}
           best == Min(first)
           e == [d1 EXCEPT !.albums[a].image = best]
<1>1. d \in Database /\ t \in Table(ImageType)
  BY DatabaseFields DEF Sound
<1>2. d1 = [d EXCEPT !.images = im]
  BY DEF ImageAlbumSet
<1>3. AssignImages(d, dir, a) = IF own = {} THEN d1 ELSE e
  BY DEF AssignImages
<1>4. a \in Nat
  BY <1>1, DatabaseFields, TableElim
<1>5. /\ im \in [DOMAIN t -> ImageType]
      /\ \A i \in DOMAIN t : im[i].file = t[i].file /\ im[i].album \in {t[i].album, a}
  <2>1. \A i \in DOMAIN t : t[i] \in ImageType
    BY <1>1, TableElim
  <2> HIDE DEF t, Of
  <2>2. QED
    BY <1>4, <2>1 DEF ImageType
<1> HIDE DEF im, d1
<1>6. im \in Table(ImageType) /\ DOMAIN im = DOMAIN t
  BY <1>1, <1>5, Updated
<1>7. /\ d1 \in Database /\ d1.files = d.files /\ d1.directories = d.directories
      /\ d1.albums = d.albums /\ d1.tracks = d.tracks /\ d1.images = im
  BY <1>1, <1>2, <1>6 DEF Database
<1>8. ImagesSound(d.files, d.albums, im)
  <2>1. ImagesSound(d.files, d.albums, t)
    BY DEF Sound
  <2>2. QED
    BY <1>5, <1>6, <2>1 DEF ImagesSound
<1>9. Sound(d1)
  BY <1>7, <1>8 DEF Sound
<1>10. ImagesAssigned(d, d1)
  BY <1>5, <1>6, <1>7 DEF ImagesAssigned, AlbumNames
<1>11. ASSUME own # {}
       PROVE  Sound(e) /\ e.directories = d1.directories /\ ImagesAssigned(d, e)
  <2>1. own \in SUBSET Nat /\ \A i \in own : rank(i) \in Nat
    <3>1. DOMAIN d1.images \in SUBSET (Nat \ {0})
      BY <1>7, DatabaseFields, TableElim
    <3>2. \A i \in DOMAIN d1.images : d1.files[d1.images[i].file].path \in Images
      BY <1>9 DEF Sound, ImagesSound
    <3>3. Rank \in [Images -> Nat]
      BY LibraryScanAssumption
    <3>4. QED
      BY <3>1, <3>2, <3>3
  <2> DEFINE ranks == {rank(i) : i \in own}
  <2> HIDE DEF rank, own
  <2>2. ranks \in SUBSET Nat /\ ranks # {}
    BY <1>11, <2>1
  <2>3. PICK m \in ranks : \A k \in ranks : m <= k
    BY <2>2, HasLeast
  <2>4. first # {} /\ first \in SUBSET Nat
    <3>1. PICK i \in own : rank(i) = m
      BY <2>3
    <3>2. i \in first
      BY <2>3, <3>1
    <3>3. QED
      BY <2>1, <3>2
  <2> HIDE DEF first
  <2>5. best \in Nat
    <3>1. \E k \in first : \A j \in first : k <= j
      BY <2>4, HasLeast
    <3>2. QED
      BY <2>4, <3>1 DEF Min
  <2> HIDE DEF best
  <2> DEFINE u == d1.albums
             new == [u[a] EXCEPT !.image = best]
             al == [u EXCEPT ![a] = new]
  <2>6. u \in Table(AlbumType) /\ a \in DOMAIN u
    BY <1>7, DatabaseFields
  <2>7. u \in [DOMAIN u -> AlbumType] /\ u[a] \in AlbumType
    BY <2>6, TableElim
  <2>8. e = [d1 EXCEPT !.albums = al]
    BY <1>7, <2>7 DEF Database
  <2> HIDE DEF e, u
  <2>9. new \in AlbumType /\ new.name = u[a].name /\ new.tracks = u[a].tracks
    BY <2>5, <2>7 DEF AlbumType
  <2> HIDE DEF new
  <2>10. /\ al \in [DOMAIN u -> AlbumType]
         /\ \A b \in DOMAIN u : al[b].name = u[b].name /\ al[b].tracks = u[b].tracks
    BY <2>7, <2>9
  <2> HIDE DEF al
  <2>11. al \in Table(AlbumType) /\ DOMAIN al = DOMAIN u
    BY <2>6, <2>10, Updated
  <2>12. /\ e \in Database /\ e.files = d1.files /\ e.directories = d1.directories
         /\ e.albums = al /\ e.tracks = d1.tracks /\ e.images = d1.images
    BY <1>7, <2>8, <2>11 DEF Database
  <2>13. AlbumsSound(al)
    BY <1>9, <2>10, <2>11 DEF u, Sound, AlbumsSound
  <2>14. TracksSound(d1.files, al, d1.tracks) /\ ImagesSound(d1.files, al, d1.images)
    BY <1>9, <2>11 DEF u, Sound, TracksSound, ImagesSound
  <2>15. Counted(al, d1.tracks)
    BY <1>9, <2>10, <2>11 DEF u, Sound, Counted
  <2>16. ImagesAssigned(d, e)
    BY <1>10, <2>10, <2>11, <2>12 DEF u, ImagesAssigned, AlbumNames
  <2>17. QED
    BY <1>9, <2>12, <2>13, <2>14, <2>15, <2>16 DEF Sound
<1>12. QED
  BY <1>3, <1>7, <1>9, <1>10, <1>11

(* What a sheet that is found names is a file of music.                    *)
LEMMA FoundNames ==
  ASSUME SystemType, NEW s \in Sheets, Found(s)
  PROVE  /\ fs.tag[s] \in Audio /\ fs.tag[s] \in Files
         /\ Base[fs.tag[s]] \in Sheets \cup {NoSheet}
         /\ Straying = {} => Home[fs.tag[s]] = Home[s]
<1>1. s \in Files /\ s \notin Audio
  BY LibraryScanAssumption DEF Files
<1>2. Contents(s) = (Audio \cap Under(Home[s])) \cup {Broken, NoFile}
  BY <1>1 DEF Contents
<1>3. fs.tag[s] \in Contents(s) /\ fs.tag[s] \in Paths /\ {Broken, NoFile} \cap Paths = {}
  BY <1>1, LibraryScanAssumption DEF SystemType, Found
<1>4. fs.tag[s] \in Audio
  BY <1>2, <1>3
<1>5. Base \in [Audio -> Sheets \cup {NoSheet}]
  BY LibraryScanAssumption
<1>6. Straying = {} => Home[fs.tag[s]] = Home[s]
  BY <1>4 DEF Found, Straying
<1>7. QED
  BY <1>4, <1>5, <1>6 DEF Files

LEMMA PathTimes == ASSUME SystemType, NEW p \in Paths PROVE fs.mtime[p] \in Nat
BY DEF SystemType

(* The file a sheet names is cleared, or added, and is given a time.       *)
LEMMA CueFileKeeps ==
  ASSUME SystemType, NEW d, Sound(d), NEW s \in Sheets, Found(s),
         NEW dir \in DOMAIN d.directories
  PROVE  Sound(CueFile(d, s, dir)) /\ Kept(d, CueFile(d, s, dir))
<1> DEFINE p == fs.tag[s]
           known == FileId(d, p)
           d1 == IF known # 0 THEN FileClear(d, {known}) ELSE File(d, p, dir)
           m == Dated(s)
<1>1. CueFile(d, s, dir) = FileMtimeSet(d1, FileId(d1, p), m)
  BY DEF CueFile
<1>2. m \in Nat
  <2>1. (m = fs.mtime[Base[p]] /\ Base[p] \in fs.present) \/ m = fs.mtime[p]
    BY DEF Dated
  <2>2. fs.present \subseteq Paths /\ p \in Paths
    BY FoundNames DEF SystemType, Paths
  <2>3. QED
    BY <2>1, <2>2, PathTimes
<1>3. p \in Files
  BY FoundNames
<1> HIDE DEF p, m
<1>4. d \in Database
  BY DEF Sound
<1>5. Sound(d1) /\ Kept(d, d1) /\ Known(d1, p)
  <2>1. CASE known # 0
    <3>1. Known(d, p)
      BY <1>4, <2>1, IdOfFile
    <3>2. Sound(d1) /\ d1.files = d.files /\ d1.directories = d.directories
      BY <2>1, FileClearKeeps
    <3>3. QED
      BY <3>1, <3>2 DEF Kept, Known
  <2>2. CASE known = 0
    BY <1>3, <2>2, FileKeeps
  <2>3. QED
    BY <2>1, <2>2
<1> HIDE DEF d1
<1>6. FileId(d1, p) \in DOMAIN d1.files
  BY <1>5, IdOfFile DEF Sound
<1>7. Sound(FileMtimeSet(d1, FileId(d1, p), m)) /\ Kept(d1, FileMtimeSet(d1, FileId(d1, p), m))
  BY <1>2, <1>5, <1>6, FileMtimeSetKeeps
<1>8. QED
  BY <1>1, <1>5, <1>7 DEF Kept

(* The recursion of cue_read stays among the sheets of a directory that are*)
(* found.                                                                  *)
LEMMA SheetsFinite == Cardinality(Sheets) \in Nat
<1>1. IsFiniteSet(Paths) /\ Sheets \in SUBSET Paths
  BY LibraryScanAssumption DEF Paths, Files
<1>2. QED
  BY <1>1, FS_Subset, FS_CardinalityType

(* The sheet read instead is one that is taken, of the same directory if   *)
(* sheets name files beside them.                                          *)
SameHome(t, s) == Straying = {} => Home[t] = Home[s]
LEMMA InsteadIs ==
  ASSUME SystemType, NEW s \in Sheets, Taken(s)
  PROVE  Instead(s) \in Sheets /\ Taken(Instead(s)) /\ SameHome(Instead(s), s)
<1> DEFINE base == Base[fs.tag[s]]
<1>1. CASE Found(s) /\ base \in Sheets /\ Taken(base)
  <2>1. Instead(s) = base /\ base # NoSheet
    BY <1>1, LibraryScanAssumption DEF Instead, Paths, Files
  <2>2. fs.tag[s] \in Audio /\ SameHome(fs.tag[s], s)
    BY <1>1, FoundNames DEF SameHome
  <2>3. Home[base] = Home[fs.tag[s]]
    BY <2>1, <2>2, LibraryScanAssumption
  <2>4. QED
    BY <1>1, <2>1, <2>2, <2>3 DEF SameHome
<1>2. CASE ~(Found(s) /\ base \in Sheets /\ Taken(base))
  BY <1>2 DEF Instead, SameHome
<1>3. QED
  BY <1>1, <1>2

PreferredTried ==
  \A s \in Sheets :
    \E f : /\ f = [n \in 0 .. Cardinality(Sheets) |-> IF n = 0 THEN s ELSE Instead(f[n - 1])]
          /\ Preferred(s) = f[Cardinality(Sheets)]
LEMMA PreferredTries == PreferredTried
<1> SUFFICES ASSUME NEW s \in Sheets
             PROVE  \E f : /\ f = [n \in 0 .. Cardinality(Sheets) |-> IF n = 0 THEN s ELSE Instead(f[n - 1])]
                          /\ Preferred(s) = f[Cardinality(Sheets)]
  BY DEF PreferredTried
<1> DEFINE N == Cardinality(Sheets)
           next(t) == Instead(t)
           Tries(f, k) == f = [n \in 0 .. k |-> IF n = 0 THEN s ELSE next(f[n - 1])]
           tried == CHOOSE f : Tries(f, N)
<1>1. Preferred(s) = tried[N]
  BY DEF Preferred
<1>2. N \in Nat
  BY SheetsFinite
<1> HIDE DEF next, N
<1>4. \A k \in Nat : \E f : Tries(f, k)
  <2> DEFINE C == {k \in Nat : ~\E f : Tries(f, k)}
  <2>1. SUFFICES ASSUME C # {} PROVE FALSE
    OBVIOUS
  <2>2. PICK k \in C : \A j \in C : k <= j
    BY <2>1, HasLeast
  <2>3. CASE k = 0
    <3>1. Tries([n \in 0 .. 0 |-> s], 0)
      OBVIOUS
    <3>2. QED
      BY <2>2, <2>3, <3>1
  <2>4. CASE k # 0
    <3>0. C \in SUBSET Nat
      OBVIOUS
    <3>1. k \in Nat /\ k - 1 \in Nat /\ k - 1 \notin C
      <4> HIDE DEF C
      <4>1. k \in Nat /\ k - 1 \in Nat /\ ~(k <= k - 1)
        BY <2>2, <2>4, <3>0
      <4>2. QED
        BY <2>2, <4>1
    <3>2. PICK f : Tries(f, k - 1)
      BY <3>1
    <3> DEFINE g == [n \in 0 .. k |-> IF n < k THEN f[n] ELSE next(f[k - 1])]
    <3>3. ASSUME NEW n \in 0 .. k
          PROVE  g[n] = IF n = 0 THEN s ELSE next(g[n - 1])
      <4>1. CASE n = 0
        BY <2>4, <3>1, <3>2, <4>1
      <4>2. CASE n # 0 /\ n < k
        <5>1. n - 1 \in 0 .. k /\ n - 1 < k /\ n \in 0 .. k - 1
          BY <3>1, <4>2
        <5>2. g[n] = f[n] /\ g[n - 1] = f[n - 1]
          BY <4>2, <5>1
        <5>3. f[n] = next(f[n - 1])
          BY <3>2, <4>2, <5>1
        <5>4. QED
          BY <4>2, <5>2, <5>3
      <4>3. CASE n # 0 /\ n = k
        <5>1. k - 1 \in 0 .. k /\ k - 1 < k
          BY <3>1, <4>3
        <5>2. g[n] = next(f[k - 1]) /\ g[k - 1] = f[k - 1]
          BY <3>1, <4>3, <5>1
        <5>3. QED
          BY <4>3, <5>2
      <4>4. QED
        BY <3>1, <4>1, <4>2, <4>3
    <3>4. g = [n \in 0 .. k |-> g[n]]
      OBVIOUS
    <3> HIDE DEF g
    <3>5. Tries(g, k)
      BY <3>3, <3>4
    <3>6. QED
      BY <2>2, <3>5
  <2>5. QED
    BY <2>3, <2>4
<1>5. Tries(tried, N)
  BY <1>2, <1>4
<1> HIDE DEF tried
<1>6. QED
  BY <1>1, <1>5 DEF N, next

LEMMA PreferredTriesNext == PreferredTried'
BY PreferredTries, PTL

(* So is the one at the end of the search.                                 *)
LEMMA PreferredIs ==
  ASSUME SystemType, NEW s \in Sheets, Found(s)
  PROVE  /\ Preferred(s) \in Sheets /\ Taken(Preferred(s)) /\ SameHome(Preferred(s), s)
<1> DEFINE N == Cardinality(Sheets)
           next(t) == Instead(t)
           Good(t) == t \in Sheets /\ Taken(t) /\ SameHome(t, s)
<1>1. PICK tried : /\ tried = [n \in 0 .. N |-> IF n = 0 THEN s ELSE next(tried[n - 1])]
                   /\ Preferred(s) = tried[N]
  BY PreferredTries DEF PreferredTried
<1>2. N \in Nat
  BY SheetsFinite
<1>3. Good(s) /\ \A t \in Sheets : Good(t) => Good(next(t))
  BY InsteadIs DEF SameHome, Taken
<1> HIDE DEF next, N, Good
<1>4. ASSUME NEW n \in 0 .. N, ~Good(tried[n])
      PROVE  FALSE
  <2> DEFINE C == {k \in 0 .. N : ~Good(tried[k])}
  <2>1. C \in SUBSET Nat /\ C # {}
    BY <1>2, <1>4
  <2>2. PICK k \in C : \A j \in C : k <= j
    BY <2>1, HasLeast
  <2>3. k # 0
    BY <1>1, <1>3, <2>2
  <2>4. k \in 0 .. N /\ k - 1 \in 0 .. N /\ k - 1 \notin C
    BY <1>2, <2>2, <2>3
  <2>5. tried[k] = next(tried[k - 1])
    BY <1>1, <2>3, <2>4
  <2>6. Good(tried[k - 1]) /\ tried[k - 1] \in Sheets
    BY <2>4 DEF Good
  <2>7. QED
    BY <1>3, <2>2, <2>5, <2>6
<1>5. QED
  BY <1>1, <1>2, <1>4 DEF Good

(* Reading a sheet: its tracks are added one by one.                       *)
CueSteps(d, s, dir, f) ==
  f = [n \in 0 .. SheetTracks |-> IF n = 0 THEN CueFile(d, s, dir)
                                  ELSE TrackAdd(f[n - 1], fs.tag[s], dir, SheetAlbum, s)]
LEMMA CueReadSteps ==
  ASSUME NEW d, NEW given, NEW dir, NEW s, s = IF Found(given) THEN Preferred(given) ELSE given,
         Found(s), fs.tag[fs.tag[s]] # Broken
  PROVE  \E f : CueSteps(d, s, dir, f) /\ CueRead(d, given, dir) = f[SheetTracks]
<1> DEFINE p == fs.tag[s]
           b == CueFile(d, s, dir)
           next(e) == TrackAdd(e, p, dir, SheetAlbum, s)
           Adds(f, k) == f = [n \in 0 .. k |-> IF n = 0 THEN b ELSE next(f[n - 1])]
           added == CHOOSE f : Adds(f, SheetTracks)
<1>1. CueRead(d, given, dir) = added[SheetTracks]
  BY DEF CueRead
<1>2. SheetTracks \in Nat
  BY LibraryScanAssumption
<1> HIDE DEF b, next, p
<1>3. \A k \in Nat : \E f : Adds(f, k)
  <2> DEFINE C == {k \in Nat : ~\E f : Adds(f, k)}
  <2>1. SUFFICES ASSUME C # {} PROVE FALSE
    OBVIOUS
  <2>2. PICK k \in C : \A j \in C : k <= j
    BY <2>1, HasLeast
  <2>3. CASE k = 0
    <3>1. Adds([n \in 0 .. 0 |-> b], 0)
      OBVIOUS
    <3>2. QED
      BY <2>2, <2>3, <3>1
  <2>4. CASE k # 0
    <3>1. C \in SUBSET Nat
      OBVIOUS
    <3>2. k \in Nat /\ k - 1 \in Nat /\ k - 1 \notin C
      <4> HIDE DEF C
      <4>1. k \in Nat /\ k - 1 \in Nat /\ ~(k <= k - 1)
        BY <2>2, <2>4, <3>1
      <4>2. QED
        BY <2>2, <4>1
    <3>3. PICK f : Adds(f, k - 1)
      BY <3>2
    <3> DEFINE g == [n \in 0 .. k |-> IF n < k THEN f[n] ELSE next(f[k - 1])]
    <3>4. ASSUME NEW n \in 0 .. k
          PROVE  g[n] = IF n = 0 THEN b ELSE next(g[n - 1])
      <4>1. CASE n = 0
        BY <2>4, <3>2, <3>3, <4>1
      <4>2. CASE n # 0 /\ n < k
        <5>1. n - 1 \in 0 .. k /\ n - 1 < k /\ n \in 0 .. k - 1
          BY <3>2, <4>2
        <5>2. g[n] = f[n] /\ g[n - 1] = f[n - 1]
          BY <4>2, <5>1
        <5>3. f[n] = next(f[n - 1])
          BY <3>3, <4>2, <5>1
        <5>4. QED
          BY <4>2, <5>2, <5>3
      <4>3. CASE n # 0 /\ n = k
        <5>1. k - 1 \in 0 .. k /\ k - 1 < k
          BY <3>2, <4>3
        <5>2. g[n] = next(f[k - 1]) /\ g[k - 1] = f[k - 1]
          BY <3>2, <4>3, <5>1
        <5>3. QED
          BY <4>3, <5>2
      <4>4. QED
        BY <3>2, <4>1, <4>2, <4>3
    <3>5. g = [n \in 0 .. k |-> g[n]]
      OBVIOUS
    <3> HIDE DEF g
    <3>6. Adds(g, k)
      BY <3>4, <3>5
    <3>7. QED
      BY <2>2, <3>6
  <2>5. QED
    BY <2>3, <2>4
<1>4. Adds(added, SheetTracks)
  BY <1>2, <1>3
<1> HIDE DEF added
<1>5. QED
  BY <1>1, <1>4 DEF CueSteps, b, next, p

LEMMA CueReadKeeps ==
  ASSUME SystemType, NEW d, Sound(d), NEW given \in Sheets, NEW dir \in DOMAIN d.directories
  PROVE  Sound(CueRead(d, given, dir)) /\ Kept(d, CueRead(d, given, dir))
<1> DEFINE s == IF Found(given) THEN Preferred(given) ELSE given
           p == fs.tag[s]
           Good(e) == Sound(e) /\ Kept(d, e)
<1>1. s \in Sheets
  BY PreferredIs
<1>2. ~(Found(s) /\ fs.tag[p] # Broken) => CueRead(d, given, dir) = d
  BY DEF CueRead
<1>3. Good(d)
  BY DEF Kept
<1>4. SUFFICES ASSUME Found(s), fs.tag[p] # Broken PROVE Good(CueRead(d, given, dir))
  BY <1>2, <1>3
<1>5. PICK added : CueSteps(d, s, dir, added) /\ CueRead(d, given, dir) = added[SheetTracks]
  BY <1>4, CueReadSteps
<1> HIDE DEF s
<1>6. p \in Files
  BY <1>1, <1>4, FoundNames
<1>7. ASSUME NEW e, Good(e) PROVE Good(TrackAdd(e, p, dir, SheetAlbum, s))
  <2>1. dir \in DOMAIN e.directories
    BY <1>7 DEF Kept
  <2> DEFINE g == TrackAdd(e, p, dir, SheetAlbum, s)
  <2>2. Sound(g) /\ Kept(e, g)
    BY <1>1, <1>6, <1>7, <2>1, TrackAddKeeps
  <2>3. QED
    BY <1>7, <2>2 DEF Kept
<1>8. SheetTracks \in Nat
  BY LibraryScanAssumption
<1>9. Good(added[0])
  <2>1. Sound(CueFile(d, s, dir)) /\ Kept(d, CueFile(d, s, dir))
    BY <1>1, <1>4, CueFileKeeps
  <2>2. added[0] = CueFile(d, s, dir)
    BY <1>5, <1>8 DEF CueSteps
  <2>3. QED
    BY <2>1, <2>2
<1> HIDE DEF Good
<1>10. ASSUME NEW n \in 0 .. SheetTracks, ~Good(added[n])
       PROVE  FALSE
  <2> DEFINE C == {k \in 0 .. SheetTracks : ~Good(added[k])}
  <2>1. C \in SUBSET Nat /\ C # {}
    BY <1>8, <1>10
  <2>2. PICK k \in C : \A j \in C : k <= j
    BY <2>1, HasLeast
  <2>3. k # 0
    BY <1>9, <2>2
  <2>4. k \in 0 .. SheetTracks /\ k - 1 \in 0 .. SheetTracks /\ k - 1 \notin C
    BY <1>8, <2>2, <2>3
  <2>5. added[k] = TrackAdd(added[k - 1], p, dir, SheetAlbum, s)
    BY <1>5, <2>3, <2>4 DEF CueSteps
  <2>6. QED
    BY <1>7, <2>2, <2>4, <2>5
<1>11. QED
  BY <1>5, <1>8, <1>10 DEF Good

(* scan_file, for a sheet, a file of music or an image.                    *)
LEMMA ScanFileKeeps ==
  ASSUME SystemType, NEW d, Sound(d), NEW p \in Files, NEW dir \in DOMAIN d.directories
  PROVE  Sound(ScanFile(d, p, dir)) /\ Kept(d, ScanFile(d, p, dir))
<1> DEFINE d1 == IF p \in Images THEN ImageAdd(d, p, dir)
                 ELSE TrackAdd(d, p, dir, fs.tag[p], NoSheet)
           m == fs.mtime[p]
<1>1. ScanFile(d, p, dir) =
        IF p \in Sheets THEN CueRead(d, p, dir)
        ELSE IF fs.tag[p] = Broken THEN d ELSE FileMtimeSet(d1, FileId(d1, p), m)
  BY DEF ScanFile
<1>2. m \in Nat
  BY PathTimes DEF Paths
<1>3. Sound(d1) /\ Kept(d, d1) /\ Known(d1, p)
  BY ImageAddKeeps, TrackAddKeeps
<1> HIDE DEF d1, m
<1>4. FileId(d1, p) \in DOMAIN d1.files
  BY <1>3, IdOfFile DEF Sound
<1>5. Sound(FileMtimeSet(d1, FileId(d1, p), m)) /\ Kept(d1, FileMtimeSet(d1, FileId(d1, p), m))
  BY <1>2, <1>3, <1>4, FileMtimeSetKeeps
<1>6. Kept(d, FileMtimeSet(d1, FileId(d1, p), m))
  BY <1>3, <1>5 DEF Kept
<1>7. p \in Sheets => Sound(CueRead(d, p, dir)) /\ Kept(d, CueRead(d, p, dir))
  BY CueReadKeeps
<1>8. Kept(d, d)
  BY DEF Kept
<1>9. QED
  BY <1>1, <1>5, <1>6, <1>7, <1>8

(* A file that has changed: read again, and deleted if nothing came of     *)
(* it.                                                                     *)
LEMMA RescanKeeps ==
  ASSUME SystemType, NEW d, Sound(d), NEW x \in DOMAIN d.files
  PROVE  Sound(Rescan(d, x)) /\ Rescan(d, x).directories = d.directories
<1> DEFINE p == d.files[x].path
           dir == d.files[x].directory
           d1 == ScanFile(d, p, dir)
<1>1. Rescan(d, x) = IF p \in Sheets \/ fs.tag[p] = Broken THEN FileDelete(d1, {x}) ELSE d1
  BY DEF Rescan
<1>2. p \in Files
  <2>1. d.files[x] \in FileType
    BY DatabaseFields, TableElim DEF Sound
  <2>2. QED
    BY <2>1 DEF FileType
<1>3. dir \in DOMAIN d.directories
  BY DEF Sound, FilesSound
<1> HIDE DEF p, dir
<1>4. Sound(d1) /\ d1.directories = d.directories
  BY <1>2, <1>3, ScanFileKeeps DEF Kept
<1> HIDE DEF d1
<1>5. Sound(FileDelete(d1, {x})) /\ FileDelete(d1, {x}).directories = d1.directories
  BY <1>4, FileDeleteKeeps
<1>6. QED
  BY <1>1, <1>4, <1>5

-----------------------------------------------------------------------------
(* The stack of calls.                                                     *)

(* The calls in q are those under which one on directory p is made.        *)
CallersSound(d, q, p) ==
  /\ \A i \in 1 .. Len(q) : /\ FrameSound(d, q[i]) /\ q[i].phase # "files"
                            /\ Depth[q[i].path] < Depth[p]
  /\ \A i, j \in 1 .. Len(q) : i < j => Depth[q[i].path] < Depth[q[j].path]

(* A call of the walk.                                                     *)
LEMMA FrameFields ==
  ASSUME NEW f \in FrameType
  PROVE  /\ f.path \in Dirs /\ f.id \in Nat /\ f.mtime \in Nat /\ f.cb \in BOOLEAN
         /\ f.phase \in {"subs", "files", "read"} /\ f.todo \in SUBSET (Nat \cup Paths)
BY DEF FrameType

(* What a call may have before it: rows or entries.                        *)
LEMMA Todos ==
  ASSUME NEW d, Sound(d), NEW id, NEW p
  PROVE  /\ Subdirectories(d, id) \in SUBSET (Nat \cup Paths)
         /\ FilesIn(d, id) \in SUBSET (Nat \cup Paths)
         /\ Subdirectories(d, id) \in SUBSET Nat /\ FilesIn(d, id) \in SUBSET Nat
         /\ Entries(p) \in SUBSET (Nat \cup Paths)
<1>1. DOMAIN d.directories \in SUBSET Nat /\ DOMAIN d.files \in SUBSET Nat
  BY DatabaseFields, TableElim DEF Sound
<1>2. QED
  BY <1>1 DEF Subdirectories, FilesIn, Entries

(* A row of a directory and that of its parent.                            *)
LEMMA ChildOf ==
  ASSUME NEW d, Sound(d), NEW id \in DOMAIN d.directories, NEW s \in Subdirectories(d, id)
  PROVE  /\ s \in DOMAIN d.directories /\ s \in Nat /\ d.directories[s].path \in Dirs
         /\ d.directories[id].path \in Dirs
         /\ Depth[d.directories[s].path] = Depth[d.directories[id].path] + 1
         /\ Depth[d.directories[id].path] \in Nat
<1> DEFINE t == d.directories
<1>1. t \in Table(DirectoryType) /\ DirectoriesSound(t)
  BY DatabaseFields DEF Sound
<1>2. s \in DOMAIN t /\ t[s].parent = id
  BY DEF Subdirectories
<1>3. s \in Nat /\ id # 0 /\ t[s] \in DirectoryType /\ t[id] \in DirectoryType
  BY <1>1, <1>2, TableElim
<1>4. t[s].path \in Dirs \ {Root} /\ t[id].path \in Dirs /\ t[id].path = Home[t[s].path]
  BY <1>1, <1>2, <1>3 DEF DirectoryType, DirectoriesSound, Rooted
<1>5. QED
  BY <1>2, <1>3, <1>4, DepthGrows

(* A call goes on as before if its row and those before it are not         *)
(* touched.                                                                *)
LEMMA FrameKept ==
  ASSUME NEW d, NEW e, NEW f, NEW gone, FrameSound(d, f), Keeps(d, e, gone),
         f.id \notin gone, f.phase # "files",
         f.phase = "subs" => f.todo \cap gone = {}
  PROVE  FrameSound(e, f)
<1>1. f.id \in DOMAIN e.directories /\ e.directories[f.id].path = f.path
  BY DEF FrameSound, Keeps
<1>2. f.phase = "subs" => f.todo \subseteq Subdirectories(e, f.id)
  BY DEF FrameSound, Keeps, Subdirectories
<1>3. QED
  BY <1>1, <1>2 DEF FrameSound

(* The same for all the callers, when no directory is deleted.             *)
LEMMA CallersKept ==
  ASSUME NEW d, NEW e, NEW q, NEW p, CallersSound(d, q, p), Keeps(d, e, {})
  PROVE  CallersSound(e, q, p)
<1>1. ASSUME NEW i \in 1 .. Len(q) PROVE FrameSound(e, q[i])
  BY FrameKept DEF CallersSound
<1>2. QED
  BY <1>1 DEF CallersSound

(* A subdirectory that is deleted is none that a call is on or still has to*)
(* come to.                                                                *)
LEMMA CallersAbove ==
  ASSUME NEW d, Sound(d), NEW e, NEW q \in Seq(FrameType), NEW p \in Dirs, CallersSound(d, q, p),
         NEW s \in DOMAIN d.directories, Depth[d.directories[s].path] = Depth[p] + 1,
         Keeps(d, e, Below(d, s))
  PROVE  CallersSound(e, q, p)
<1>1. ASSUME NEW i \in 1 .. Len(q) PROVE FrameSound(e, q[i])
  <2> DEFINE f == q[i]
             t == d.directories
             k == Depth[t[s].path]
  <2>1. /\ f \in FrameType /\ FrameSound(d, f) /\ f.phase # "files"
        /\ Depth[f.path] < Depth[p]
    BY DEF CallersSound
  <2>2. Depth[f.path] \in Nat /\ Depth[p] \in Nat
    BY <2>1, FrameFields, DepthGrows
  <2>3. t[f.id].path = f.path /\ f.id \in DOMAIN t
    BY <2>1 DEF FrameSound
  <2>4. Depth[t[f.id].path] < k /\ f.id # s
    BY <2>1, <2>2, <2>3
  <2>5. \A x \in Below(d, s) : x # s => k < Depth[t[x].path]
    BY BelowIs
  <2>6. f.id \notin Below(d, s)
    BY <2>2, <2>3, <2>4, <2>5
  <2>7. ASSUME f.phase = "subs", NEW x \in f.todo
        PROVE  x \notin Below(d, s)
    <3>1. x \in Subdirectories(d, f.id)
      BY <2>1, <2>7 DEF FrameSound
    <3>2. Depth[t[x].path] = Depth[f.path] + 1
      BY <2>3, <3>1, ChildOf
    <3>3. Depth[t[x].path] < k /\ ~(k < Depth[t[x].path]) /\ x # s
      BY <2>1, <2>2, <3>2
    <3>4. QED
      BY <2>5, <3>3
  <2>8. QED
    BY <2>1, <2>6, <2>7, FrameKept
<1>2. QED
  BY <1>1 DEF CallersSound

(* A call on top of its callers.                                           *)
LEMMA Called ==
  ASSUME NEW d, NEW q \in Seq(FrameType), NEW h \in FrameType,
         CallersSound(d, q, h.path), FrameSound(d, h)
  PROVE  Append(q, h) \in Seq(FrameType) /\ StackSound(d, Append(q, h))
<1> DEFINE r == Append(q, h)
<1>1. /\ r \in Seq(FrameType) /\ Len(r) = Len(q) + 1 /\ Len(q) \in Nat
      /\ r[Len(q) + 1] = h /\ \A i \in 1 .. Len(q) : r[i] = q[i]
  OBVIOUS
<1> HIDE DEF r
<1>2. \A i \in 1 .. Len(r) : i \in 1 .. Len(q) \/ i = Len(q) + 1
  BY <1>1
<1>3. \A i \in 1 .. Len(r) : FrameSound(d, r[i])
  BY <1>1, <1>2 DEF CallersSound
<1>4. \A i \in 1 .. Len(r) : r[i].phase = "files" => i = Len(r)
  BY <1>1, <1>2 DEF CallersSound
<1>5. ASSUME NEW i \in 1 .. Len(r), NEW j \in 1 .. Len(r), i < j
      PROVE  Depth[r[i].path] < Depth[r[j].path]
  <2>1. i \in 1 .. Len(q) /\ r[i] = q[i]
    BY <1>1, <1>5
  <2>2. CASE j \in 1 .. Len(q)
    BY <1>1, <1>5, <2>1, <2>2 DEF CallersSound
  <2>3. CASE j = Len(q) + 1
    BY <1>1, <2>1, <2>3 DEF CallersSound
  <2>4. QED
    BY <1>2, <2>2, <2>3
<1>6. QED
  BY <1>1, <1>3, <1>4, <1>5 DEF StackSound, r

(* A call becomes a caller, of one for a directory below its own.          *)
LEMMA CallersMore ==
  ASSUME NEW d, NEW q \in Seq(FrameType), NEW g \in FrameType, NEW p,
         CallersSound(d, q, g.path), FrameSound(d, g), g.phase # "files",
         Depth[p] = Depth[g.path] + 1
  PROVE  Append(q, g) \in Seq(FrameType) /\ CallersSound(d, Append(q, g), p)
<1> DEFINE r == Append(q, g)
<1>1. r \in Seq(FrameType) /\ StackSound(d, r)
  BY Called
<1>2. /\ Len(r) = Len(q) + 1 /\ Len(q) \in Nat
      /\ r[Len(q) + 1] = g /\ \A i \in 1 .. Len(q) : r[i] = q[i]
  OBVIOUS
<1> HIDE DEF r
<1>3. Depth[g.path] \in Nat /\ \A i \in 1 .. Len(r) : Depth[r[i].path] \in Nat
  BY <1>1, FrameFields, DepthGrows
<1>4. ASSUME NEW i \in 1 .. Len(r)
      PROVE  r[i].phase # "files" /\ Depth[r[i].path] < Depth[p]
  <2>1. CASE i \in 1 .. Len(q)
    <3> DEFINE m == Depth[r[i].path]
               n == Depth[g.path]
    <3>1. m \in Nat /\ n \in Nat /\ m < n /\ Depth[p] = n + 1 /\ r[i].phase # "files"
      BY <1>2, <1>3, <2>1 DEF CallersSound
    <3> HIDE DEF m, n
    <3>2. m < n + 1
      BY <3>1
    <3>3. QED
      BY <3>1, <3>2 DEF m
  <2>2. CASE i = Len(q) + 1
    BY <1>2, <1>3, <2>2
  <2>3. QED
    BY <1>2, <2>1, <2>2
<1>5. CallersSound(d, r, p)
  BY <1>1, <1>4 DEF StackSound, CallersSound
<1>6. QED
  BY <1>1, <1>5 DEF r

(* The callers when the last call has returned, also if the scan was       *)
(* interrupted.                                                            *)
LEMMA CallersAlone ==
  ASSUME NEW d, NEW q \in Seq(FrameType), NEW p, CallersSound(d, q, p)
  PROVE  /\ StackSound(d, q)
         /\ [q EXCEPT ![Len(q)].todo = {}] \in Seq(FrameType)
         /\ StackSound(d, [q EXCEPT ![Len(q)].todo = {}])
<1> DEFINE n == Len(q)
           g == [q[n] EXCEPT !.todo = {}]
           r == [q EXCEPT ![n] = g]
<1>1. StackSound(d, q)
  BY DEF CallersSound, StackSound
<1>2. n \in Nat /\ r = [q EXCEPT ![n].todo = {}]
  OBVIOUS
<1>3. CASE n = 0
  <2>1. q = <<>> /\ r = q
    BY <1>3
  <2>2. QED
    BY <1>1, <1>2, <2>1
<1>4. CASE n # 0
  <2>1. q[n] \in FrameType /\ {} \in SUBSET (Nat \cup Paths) /\ n \in 1 .. n
    BY <1>2, <1>4
  <2>2. /\ g \in FrameType /\ g.path = q[n].path /\ g.id = q[n].id
        /\ g.phase = q[n].phase /\ g.todo = {}
    BY <2>1 DEF FrameType
  <2> HIDE DEF g
  <2>3. r \in Seq(FrameType) /\ Len(r) = n /\ \A i \in 1 .. n : r[i] = IF i = n THEN g ELSE q[i]
    BY <2>1, <2>2
  <2> HIDE DEF r
  <2>4. FrameSound(d, g)
    <3>1. FrameSound(d, q[n])
      BY <2>1 DEF CallersSound
    <3>2. QED
      BY <2>2, <3>1 DEF FrameSound
  <2>5. \A i \in 1 .. n : r[i].path = q[i].path /\ r[i].phase = q[i].phase /\ FrameSound(d, r[i])
    BY <2>2, <2>3, <2>4 DEF CallersSound
  <2>6. StackSound(d, r)
    BY <1>1, <2>3, <2>5 DEF StackSound
  <2>7. QED
    BY <1>1, <1>2, <2>3, <2>6
<1>5. QED
  BY <1>3, <1>4

(* The last call and its callers.                                          *)
LEMMA TopIs ==
  ASSUME IInv, stack # <<>>
  PROVE  /\ Caller \in Seq(FrameType) /\ Top \in FrameType
         /\ FrameSound(db, Top) /\ CallersSound(db, Caller, Top.path)
<1> DEFINE n == Len(stack)
<1>1. /\ stack \in Seq(FrameType) /\ StackSound(db, stack) /\ n \in Nat \ {0}
  BY DEF IInv
<1>2. Top \in FrameType /\ FrameSound(db, Top)
  BY <1>1 DEF Top, StackSound
<1>3. /\ Caller \in Seq(FrameType) /\ Len(Caller) = n - 1
      /\ \A i \in 1 .. n - 1 : Caller[i] = stack[i]
  <2>1. CASE n > 1
    BY <1>1, <2>1 DEF Caller
  <2>2. CASE n = 1
    BY <1>1, <2>2 DEF Caller
  <2>3. n > 1 \/ n = 1
    <3>1. n \in Nat /\ n # 0
      BY <1>1
    <3> HIDE DEF n
    <3>2. QED
      BY <3>1
  <2>4. QED
    BY <2>1, <2>2, <2>3
<1>4. CallersSound(db, Caller, Top.path)
  <2>1. \A i \in 1 .. n - 1 : i \in 1 .. n /\ i < n /\ i # n
    BY <1>1
  <2>2. n \in 1 .. n
    BY <1>1
  <2> HIDE DEF n
  <2>3. \A i \in 1 .. Len(Caller) : /\ FrameSound(db, Caller[i]) /\ Caller[i].phase # "files"
                                    /\ Depth[Caller[i].path] < Depth[Top.path]
    BY <1>1, <1>3, <2>1, <2>2 DEF StackSound, Top, n
  <2>4. QED
    BY <1>1, <1>3, <2>1, <2>3 DEF StackSound, CallersSound, n
<1>5. QED
  BY <1>2, <1>3, <1>4

-----------------------------------------------------------------------------
(* The steps of the walk.                                                  *)

WalkInv == Sound(db) /\ stack \in Seq(FrameType) /\ StackSound(db, stack)

(* A call returns to its caller, which may be told to go no further.       *)
LEMMA Returned ==
  ASSUME IInv, stack # <<>>, Sound(db'), Keeps(db, db', {}), NEW result,
         Return(Top, result)
  PROVE  WalkInv'
<1>1. Caller \in Seq(FrameType) /\ CallersSound(db, Caller, Top.path)
  BY TopIs
<1>2. CallersSound(db', Caller, Top.path)
  BY <1>1, CallersKept
<1>3. \/ stack' = Caller
      \/ stack' = [Caller EXCEPT ![Len(Caller)].todo = {}]
  BY DEF Return
<1> DEFINE q == Caller
           p == Top.path
<1> HIDE DEF q, p
<1>4. q \in Seq(FrameType) /\ CallersSound(db', q, p)
  BY <1>1, <1>2 DEF q, p
<1>5. stack' = q \/ stack' = [q EXCEPT ![Len(q)].todo = {}]
  BY <1>3 DEF q
<1>6. /\ StackSound(db', q)
      /\ [q EXCEPT ![Len(q)].todo = {}] \in Seq(FrameType)
      /\ StackSound(db', [q EXCEPT ![Len(q)].todo = {}])
  BY <1>4, CallersAlone
<1>7. QED
  BY <1>4, <1>5, <1>6 DEF WalkInv

(* A call goes on: its frame is g, and the directories are what they were. *)
LEMMA Continued ==
  ASSUME IInv, stack # <<>>, Sound(db'), Keeps(db, db', {}), NEW g \in FrameType,
         g.path = Top.path, FrameSound(db', g), stack' = Append(Caller, g)
  PROVE  WalkInv'
<1>1. Caller \in Seq(FrameType) /\ CallersSound(db', Caller, g.path)
  BY TopIs, CallersKept
<1>2. QED
  BY <1>1, Called DEF WalkInv

(* The walk over the subdirectories that are known deletes those that      *)
(* have gone, and calls itself for the others.                             *)
LEMMA SubdirectoryStep ==
  ASSUME IInv, stack # <<>>, Subdirectory(Top)
  PROVE  WalkInv'
<1> DEFINE f == Top
           q == Caller
           s == Min(f.todo)
           p == db.directories[s].path
           g == [f EXCEPT !.todo = @ \ {s}]
           h == Frame(p, s, "subs", Subdirectories(db, s), TRUE)
<1>1. /\ q \in Seq(FrameType) /\ f \in FrameType
      /\ FrameSound(db, f) /\ CallersSound(db, q, f.path)
  BY TopIs
<1>2. /\ f.phase = "subs" /\ f.todo # {}
      /\ IF p \notin fs.present
         THEN db' = DirectoryDelete(db, s) /\ stack' = Append(q, g)
         ELSE /\ db' = db
              /\ stack' = IF interrupted THEN Append(q, [f EXCEPT !.todo = {}])
                          ELSE Append(Append(q, g), h)
  BY DEF Subdirectory, Replace, Done
<1>3. SystemType /\ Sound(db)
  BY DEF IInv
<1>4. /\ f.id \in DOMAIN db.directories /\ db.directories[f.id].path = f.path
      /\ f.todo \subseteq Subdirectories(db, f.id)
  BY <1>1, <1>2 DEF FrameSound
<1>5. s \in f.todo
  <2>1. f.todo \in SUBSET Nat
    BY <1>3, <1>4, Todos
  <2>2. \E k \in f.todo : \A j \in f.todo : k <= j
    BY <1>2, <2>1, HasLeast
  <2>3. QED
    BY <2>2 DEF Min
<1> HIDE DEF f, q, s
<1>6. /\ s \in DOMAIN db.directories /\ s \in Nat /\ p \in Dirs
      /\ Depth[p] = Depth[f.path] + 1 /\ Depth[f.path] \in Nat /\ f.path \in Dirs
  BY <1>3, <1>4, <1>5, ChildOf
<1>7. g \in FrameType /\ g.path = f.path /\ g.id = f.id /\ g.phase = "subs" /\ g.todo = f.todo \ {s}
  <2> DEFINE rest == f.todo \ {s}
  <2>1. rest \in SUBSET (Nat \cup Paths)
    BY <1>1, FrameFields
  <2>2. g = [f EXCEPT !.todo = rest]
    OBVIOUS
  <2> HIDE DEF rest, g
  <2>3. g \in FrameType /\ g.path = f.path /\ g.id = f.id /\ g.phase = f.phase /\ g.todo = rest
    BY <1>1, <2>1, <2>2 DEF FrameType
  <2>4. QED
    BY <1>2, <2>3 DEF rest
<1> HIDE DEF g, p
<1>8. CASE p \notin fs.present
  <2>1. /\ db' = DirectoryDelete(db, s) /\ stack' = Append(q, g)
        /\ Sound(db') /\ Keeps(db, db', Below(db, s))
    BY <1>2, <1>3, <1>6, <1>8, DirectoryDeleteKeeps
  <2>2. CallersSound(db', q, f.path)
    BY <1>1, <1>3, <1>6, <2>1, CallersAbove DEF p
  <2>3. FrameSound(db', g)
    <3>1. \A x \in Below(db, s) : x # s => Depth[p] < Depth[db.directories[x].path]
      BY <1>3, <1>6, BelowIs DEF p
    <3>2. f.id \notin Below(db, s)
      <4>1. Depth[db.directories[f.id].path] = Depth[f.path] /\ ~(Depth[p] < Depth[f.path])
        BY <1>4, <1>6
      <4>2. f.id # s
        BY <1>4, <1>6 DEF p
      <4>3. QED
        BY <3>1, <4>1, <4>2
    <3>3. ASSUME NEW x \in f.todo \ {s} PROVE x \notin Below(db, s)
      <4>1. Depth[db.directories[x].path] = Depth[f.path] + 1
        BY <1>3, <1>4, ChildOf
      <4>2. ~(Depth[p] < Depth[db.directories[x].path])
        BY <1>6, <4>1
      <4>3. QED
        BY <3>1, <4>2
    <3>4. FrameSound(db, g)
      BY <1>4, <1>7 DEF FrameSound
    <3>5. g.id \notin Below(db, s) /\ g.todo \cap Below(db, s) = {}
      BY <1>7, <3>2, <3>3
    <3>6. QED
      BY <1>7, <2>1, <3>4, <3>5, FrameKept
  <2>4. QED
    BY <1>1, <1>7, <2>1, <2>2, <2>3, Called DEF WalkInv
<1>9. CASE p \in fs.present /\ interrupted
  <2> DEFINE k == [f EXCEPT !.todo = {}]
  <2>1. k \in FrameType /\ k.path = f.path /\ k.id = f.id /\ k.phase = "subs" /\ k.todo = {}
    BY <1>1, <1>2 DEF FrameType
  <2>2. db' = db /\ stack' = Append(q, k)
    BY <1>2, <1>9
  <2> HIDE DEF k
  <2>3. FrameSound(db, k)
    BY <1>4, <2>1 DEF FrameSound
  <2>4. CallersSound(db, q, k.path)
    BY <1>1, <2>1
  <2>5. Append(q, k) \in Seq(FrameType) /\ StackSound(db, Append(q, k))
    BY <1>1, <2>1, <2>3, <2>4, Called
  <2>6. QED
    BY <1>3, <2>2, <2>5 DEF WalkInv
<1>10. CASE p \in fs.present /\ ~interrupted
  <2>1. db' = db /\ stack' = Append(Append(q, g), h)
    BY <1>2, <1>10
  <2>2. Subdirectories(db, s) \in SUBSET (Nat \cup Paths)
    BY <1>3, Todos
  <2>3. /\ h \in FrameType /\ h.path = p /\ h.id = s
        /\ h.phase = "subs" /\ h.todo = Subdirectories(db, s)
    <3> DEFINE todo == Subdirectories(db, s)
    <3>1. todo \in SUBSET (Nat \cup Paths) /\ h = Frame(p, s, "subs", todo, TRUE)
      BY <2>2
    <3>2. fs.mtime[p] \in Nat
      BY <1>3, <1>6, PathTimes DEF Paths
    <3> HIDE DEF todo, h
    <3>3. h \in FrameType /\ h.path = p /\ h.id = s /\ h.phase = "subs" /\ h.todo = todo
      BY <1>6, <3>1, <3>2 DEF Frame, FrameType
    <3>4. QED
      BY <3>3 DEF todo
  <2> HIDE DEF h
  <2>4. FrameSound(db, h)
    BY <1>6, <2>3 DEF FrameSound, p
  <2>5. FrameSound(db, g)
    BY <1>4, <1>7 DEF FrameSound
  <2>6. Depth[h.path] = Depth[g.path] + 1 /\ CallersSound(db, q, g.path) /\ g.phase # "files"
    BY <1>1, <1>6, <1>7, <2>3
  <2>7. /\ Append(Append(q, g), h) \in Seq(FrameType)
        /\ StackSound(db, Append(Append(q, g), h))
    <3>1. Append(q, g) \in Seq(FrameType) /\ CallersSound(db, Append(q, g), h.path)
      BY <1>1, <1>7, <2>5, <2>6, CallersMore
    <3>2. QED
      BY <2>3, <2>4, <3>1, Called
  <2>8. QED
    BY <1>3, <2>1, <2>7 DEF WalkInv
<1>11. QED
  BY <1>8, <1>9, <1>10

LEMMA Unmoved == ASSUME NEW d, NEW e, e.directories = d.directories PROVE Keeps(d, e, {})
BY DEF Keeps

(* The decision whether to look into a directory.                          *)
LEMMA CompareStep ==
  ASSUME IInv, stack # <<>>, Compare(Top)
  PROVE  WalkInv'
<1> DEFINE f == Top
           g == ToFiles(f, db)
<1>1. f \in FrameType /\ FrameSound(db, f)
  BY TopIs
<1>2. Sound(db) /\ db' = db
  BY DEF IInv, Compare
<1>3. Sound(db') /\ Keeps(db, db', {})
  BY <1>2, Unmoved
<1>4. Return(f, TRUE) \/ stack' = Append(Caller, g)
  BY DEF Compare, Replace
<1>5. /\ g \in FrameType /\ g.path = f.path /\ g.id = f.id
      /\ g.phase = "files" /\ g.todo = FilesIn(db, f.id)
  <2>1. FilesIn(db, f.id) \in SUBSET (Nat \cup Paths)
    BY <1>2, Todos
  <2> DEFINE todo == FilesIn(db, f.id)
  <2>2. g = [f EXCEPT !.phase = "files", !.todo = todo] /\ todo \in SUBSET (Nat \cup Paths)
    BY <2>1 DEF ToFiles
  <2> HIDE DEF g, todo, f
  <2>3. /\ g \in FrameType /\ g.path = f.path /\ g.id = f.id
        /\ g.phase = "files" /\ g.todo = todo
    BY <1>1, <2>2 DEF FrameType
  <2>4. QED
    BY <2>3 DEF todo
<1> HIDE DEF g
<1>6. FrameSound(db', g)
  BY <1>1, <1>2, <1>5 DEF FrameSound
<1>7. QED
  BY <1>3, <1>4, <1>5, <1>6, Returned, Continued

(* The walk over the files that are known, which reads, adds and deletes   *)
(* rows while it goes.                                                     *)
LEMMA KnownFileStep ==
  ASSUME IInv, stack # <<>>, KnownFile(Top)
  PROVE  WalkInv'
<1> DEFINE f == Top
           x == Min(f.todo)
           p == db.files[x].path
           todo == {y \in FilesIn(db', f.id) : y > x}
           g == [f EXCEPT !.todo = todo]
<1>1. f \in FrameType /\ FrameSound(db, f)
  BY TopIs
<1>2. /\ f.phase = "files" /\ f.todo # {} /\ stack' = Append(Caller, g)
      /\ db' \in {FileDelete(db, {x}), db, Rescan(FileClear(db, {x}), x)}
  BY DEF KnownFile, Replace
<1>3. SystemType /\ Sound(db)
  BY DEF IInv
<1>4. x \in DOMAIN db.files
  <2>1. f.todo \subseteq FilesIn(db, f.id)
    BY <1>1, <1>2 DEF FrameSound
  <2>2. f.todo \in SUBSET Nat
    BY <1>3, <2>1, Todos
  <2>3. \E k \in f.todo : \A j \in f.todo : k <= j
    BY <1>2, <2>2, HasLeast
  <2>4. x \in f.todo
    BY <2>3 DEF Min
  <2>5. QED
    BY <2>1, <2>4 DEF FilesIn
<1> HIDE DEF x
<1>5. Sound(db') /\ db'.directories = db.directories
  <2>1. /\ Sound(FileDelete(db, {x})) /\ FileDelete(db, {x}).directories = db.directories
    BY <1>3, FileDeleteKeeps
  <2>2. /\ Sound(FileClear(db, {x})) /\ FileClear(db, {x}).directories = db.directories
        /\ FileClear(db, {x}).files = db.files
    BY <1>3, FileClearKeeps
  <2> DEFINE d1 == FileClear(db, {x})
  <2> HIDE DEF d1
  <2>3. Sound(Rescan(d1, x)) /\ Rescan(d1, x).directories = d1.directories
    BY <1>3, <1>4, <2>2, RescanKeeps DEF d1
  <2>4. QED
    BY <1>2, <1>3, <2>1, <2>2, <2>3 DEF d1
<1>6. Keeps(db, db', {})
  BY <1>5, Unmoved
<1>7. /\ g \in FrameType /\ g.path = f.path /\ g.id = f.id
      /\ g.phase = "files" /\ g.todo = todo
  <2>1. todo \in SUBSET (Nat \cup Paths)
    BY <1>5, Todos
  <2> HIDE DEF todo
  <2>2. QED
    BY <1>1, <1>2, <2>1 DEF FrameType
<1> HIDE DEF g
<1>8. FrameSound(db', g)
  BY <1>1, <1>5, <1>7 DEF FrameSound
<1>9. QED
  BY <1>2, <1>5, <1>6, <1>7, <1>8, Continued

(* The entries of a directory are listed.                                  *)
LEMMA OpenDirectoryStep ==
  ASSUME IInv, stack # <<>>, OpenDirectory(Top)
  PROVE  WalkInv'
<1> DEFINE f == Top
           todo == {p \in fs.present \ {Root} : Home[p] = f.path}
           g == [f EXCEPT !.phase = "read", !.todo = todo]
<1>1. f \in FrameType /\ FrameSound(db, f)
  BY TopIs
<1>2. Sound(db) /\ db' = db /\ fs.present \subseteq Paths
  BY DEF IInv, OpenDirectory, SystemType
<1>3. Sound(db') /\ Keeps(db, db', {})
  BY <1>2, Unmoved
<1>4. stack' = Append(Caller, g)
  BY DEF OpenDirectory, Replace
<1>5. todo \subseteq Entries(f.path) /\ todo \in SUBSET (Nat \cup Paths)
  BY <1>2 DEF Entries
<1> HIDE DEF todo
<1>6. g \in FrameType /\ g.path = f.path /\ g.id = f.id /\ g.phase = "read" /\ g.todo = todo
  BY <1>1, <1>5 DEF FrameType
<1> HIDE DEF g
<1>7. FrameSound(db', g)
  BY <1>1, <1>2, <1>5, <1>6 DEF FrameSound
<1>8. QED
  BY <1>3, <1>4, <1>6, <1>7, Continued

(* The end of a directory: its images get their album, and it gets its     *)
(* time, unless the scan is interrupted.                                   *)
LEMMA EndStep ==
  ASSUME IInv, stack # <<>>, End(Top)
  PROVE  WalkInv'
<1> DEFINE f == Top
<1>1. f \in FrameType /\ FrameSound(db, f)
  BY TopIs
<1>2. Sound(db)
  BY DEF IInv
<1>3. PICK a \in MainAlbums(db, f.id) :
        LET d == IF a = 0 THEN db ELSE AssignImages(db, f.id, a)
        IN db' = IF interrupted THEN d ELSE DirectoryMtimeSet(d, f.id, f.mtime)
  BY DEF End
<1> DEFINE d == IF a = 0 THEN db ELSE AssignImages(db, f.id, a)
<1>4. a = 0 \/ a \in DOMAIN db.albums
  BY <1>2, <1>3 DEF MainAlbums, TracksIn, TracksOf, Sound, TracksSound
<1>5. Sound(d) /\ d.directories = db.directories
  BY <1>2, <1>4, AssignImagesKeeps
<1>6. db' = IF interrupted THEN d ELSE DirectoryMtimeSet(d, f.id, f.mtime)
  BY <1>3
<1> HIDE DEF d, f
<1>7. f.id \in DOMAIN d.directories /\ f.mtime \in Nat
  BY <1>1, <1>5, FrameFields DEF FrameSound
<1>8. /\ Sound(DirectoryMtimeSet(d, f.id, f.mtime))
      /\ Keeps(d, DirectoryMtimeSet(d, f.id, f.mtime), {})
  BY <1>5, <1>7, DirectoryMtimeSetKeeps
<1>9. Sound(db') /\ Keeps(db, db', {})
  BY <1>5, <1>6, <1>8, Unmoved DEF Keeps
<1>10. Return(Top, ~interrupted)
  BY DEF End
<1>11. QED
  BY <1>9, <1>10, Returned

(* scan_directory on a directory that is new, or is known and is read.     *)
LEMMA ScanDirectoryStep ==
  ASSUME SystemType, Sound(db), NEW q \in Seq(FrameType), NEW p \in Dirs, NEW parent,
         p \in fs.present, CallersSound(db, q, p),
         IF p = Root THEN parent = 0
         ELSE parent \in DOMAIN db.directories /\ db.directories[parent].path = Home[p],
         ScanDirectory(p, parent, q)
  PROVE  WalkInv'
<1> DEFINE id == DirectoryId(db, p)
           new == Directory(db, p, parent)
           todo == Subdirectories(db, id)
           g == Frame(p, id, "subs", todo, FALSE)
           n == DirectoryId(new, p)
           h0 == Frame(p, n, "subs", {}, FALSE)
           h == ToFiles(h0, new)
<1>1. /\ id > 0 => stack' = Append(q, g) /\ db' = db
      /\ ~(id > 0) => stack' = Append(q, h) /\ db' = new
  BY DEF ScanDirectory
<1>2. db \in Database /\ fs.mtime[p] \in Nat
  BY PathTimes DEF Sound, Paths
<1>3. id \in Nat /\ (id # 0 => id \in DOMAIN db.directories /\ db.directories[id].path = p)
  BY <1>2, IdOfDirectory
<1>4. CASE id > 0
  <2>1. todo \in SUBSET (Nat \cup Paths)
    BY Todos
  <2>2. FrameSound(db, g) /\ g \in FrameType /\ g.path = p
    <3> HIDE DEF id
    <3>1. id \in DOMAIN db.directories /\ db.directories[id].path = p
      BY <1>3, <1>4
    <3>2. g.phase = "subs" /\ g.todo = todo /\ g.id = id /\ g.path = p
      BY DEF Frame
    <3> HIDE DEF todo
    <3>3. g \in FrameType
      BY <1>2, <1>3, <2>1 DEF Frame, FrameType
    <3> HIDE DEF g
    <3>4. QED
      BY <3>1, <3>2, <3>3 DEF FrameSound, todo
  <2> HIDE DEF g
  <2>3. Append(q, g) \in Seq(FrameType) /\ StackSound(db, Append(q, g))
    BY <2>2, Called
  <2>4. QED
    BY <1>1, <1>4, <2>3 DEF WalkInv
<1>5. CASE ~(id > 0)
  <2>1. id = 0
    BY <1>3, <1>5
  <2>2. /\ Sound(new) /\ Keeps(db, new, {})
        /\ n \in DOMAIN new.directories /\ new.directories[n].path = p
    BY <2>1, DirectoryKeeps
  <2> HIDE DEF new, n
  <2>3. n \in Nat
    BY <2>2, DatabaseFields, TableElim DEF Sound
  <2>4. h0 \in FrameType /\ h0.path = p /\ h0.id = n
    BY <1>2, <2>3 DEF Frame, FrameType
  <2> HIDE DEF h0
  <2>5. h \in FrameType /\ h.path = p /\ h.id = n /\ h.phase = "files" /\ h.todo = FilesIn(new, n)
    <3> DEFINE files == FilesIn(new, n)
    <3>1. files \in SUBSET (Nat \cup Paths)
      BY <2>2, Todos
    <3>2. h = [h0 EXCEPT !.phase = "files", !.todo = files]
      BY <2>4 DEF ToFiles
    <3> HIDE DEF files, h
    <3>3. h \in FrameType /\ h.path = p /\ h.id = n /\ h.phase = "files" /\ h.todo = files
      BY <2>4, <3>1, <3>2 DEF FrameType
    <3>4. QED
      BY <3>3 DEF files
  <2> HIDE DEF h
  <2>6. FrameSound(new, h)
    BY <2>2, <2>5 DEF FrameSound
  <2>7. CallersSound(new, q, h.path)
    BY <2>2, <2>5, CallersKept
  <2>8. Append(q, h) \in Seq(FrameType) /\ StackSound(new, Append(q, h))
    BY <2>5, <2>6, <2>7, Called
  <2>9. QED
    BY <1>1, <1>5, <2>2, <2>8 DEF WalkInv
<1>6. QED
  BY <1>4, <1>5

(* An entry: a new directory is added and called for, a file is scanned.   *)
LEMMA EntryStep ==
  ASSUME IInv, stack # <<>>, Entry(Top)
  PROVE  WalkInv'
<1> DEFINE f == Top
<1>1. /\ Caller \in Seq(FrameType) /\ f \in FrameType
      /\ FrameSound(db, f) /\ CallersSound(db, Caller, f.path)
  BY TopIs
<1>2. SystemType /\ Sound(db)
  BY DEF IInv
<1>3. PICK p \in f.todo :
        IF p \in Dirs /\ p \in fs.present
        THEN ScanDirectory(p, f.id, Done(f, p))
        ELSE /\ stack' = Done(f, p)
             /\ db' = IF p \notin fs.present THEN db
                      ELSE IF FileId(db, p) > 0 /\ db.files[FileId(db, p)].mtime = fs.mtime[p] THEN db
                      ELSE ScanFile(db, p, f.id)
  BY DEF Entry
<1>4. f.phase = "read"
  BY DEF Entry
<1> DEFINE rest == f.todo \ {p}
           g == [f EXCEPT !.todo = rest]
<1>5. Done(f, p) = Append(Caller, g)
  BY DEF Done, Replace
<1> HIDE DEF f
<1>6. /\ p \in Paths \ {Root} /\ Home[p] = f.path
      /\ f.id \in DOMAIN db.directories /\ db.directories[f.id].path = f.path
      /\ rest \subseteq Entries(f.path)
  BY <1>1, <1>3, <1>4 DEF FrameSound, Entries
<1>7. rest \in SUBSET (Nat \cup Paths)
  BY <1>1, FrameFields
<1> HIDE DEF rest
<1>8. g \in FrameType /\ g.path = f.path /\ g.id = f.id /\ g.phase = "read" /\ g.todo = rest
  BY <1>1, <1>4, <1>7 DEF FrameType
<1> HIDE DEF g
<1>9. \A d : Keeps(db, d, {}) => FrameSound(d, g)
  <2>1. FrameSound(db, g)
    BY <1>6, <1>8 DEF FrameSound
  <2>2. QED
    BY <1>8, <2>1, FrameKept
<1>10. CASE p \in Dirs /\ p \in fs.present
  <2>1. Depth[p] = Depth[g.path] + 1 /\ p # Root
    BY <1>6, <1>8, <1>10, DepthGrows
  <2>2. FrameSound(db, g) /\ CallersSound(db, Caller, g.path) /\ g.phase # "files"
    BY <1>1, <1>8, <1>9 DEF Keeps
  <2>3. Append(Caller, g) \in Seq(FrameType) /\ CallersSound(db, Append(Caller, g), p)
    BY <1>1, <1>8, <2>1, <2>2, CallersMore
  <2>4. ScanDirectory(p, f.id, Append(Caller, g))
    BY <1>3, <1>5, <1>10
  <2>5. QED
    BY <1>2, <1>6, <1>10, <2>1, <2>3, <2>4, ScanDirectoryStep
<1>11. CASE ~(p \in Dirs /\ p \in fs.present)
  <2>1. /\ stack' = Append(Caller, g)
        /\ db' = db \/ (p \in fs.present /\ db' = ScanFile(db, p, f.id))
    BY <1>3, <1>5, <1>11
  <2>2. p \in fs.present => p \in Files
    BY <1>6, <1>11 DEF Paths
  <2>3. Sound(db') /\ db'.directories = db.directories
    BY <1>2, <1>6, <2>1, <2>2, ScanFileKeeps DEF Kept
  <2>4. Keeps(db, db', {})
    BY <2>3, Unmoved
  <2>5. g.path = Top.path /\ FrameSound(db', g)
    BY <1>8, <1>9, <2>4 DEF f
  <2>6. QED
    BY <1>8, <2>1, <2>3, <2>4, <2>5, Continued
<1>12. QED
  BY <1>10, <1>11

(* All the steps of the walk.                                              *)
LEMMA WalkStep ==
  ASSUME IInv, Walk
  PROVE  WalkInv'
<1>1. stack # <<>> /\ (\/ Subdirectory(Top) \/ Compare(Top) \/ KnownFile(Top)
                       \/ OpenDirectory(Top) \/ Entry(Top) \/ End(Top))
  BY DEF Walk
<1>2. QED
  BY <1>1, SubdirectoryStep, CompareStep, KnownFileStep, OpenDirectoryStep, EntryStep, EndStep

(* With no call under way, the library alone is to be sound.               *)
LEMMA NoCalls ==
  ASSUME NEW d, NEW p
  PROVE  <<>> \in Seq(FrameType) /\ StackSound(d, <<>>) /\ CallersSound(d, <<>>, p)
BY DEF StackSound, CallersSound

(* A scan starts at the music directory.                                   *)
LEMMA StartStep ==
  ASSUME IInv, Start
  PROVE  WalkInv'
<1>1. SystemType /\ Sound(db) /\ ScanDirectory(Root, 0, <<>>) /\ Root \in Dirs
  BY LibraryScanAssumption DEF IInv, Start
<1>2. CASE Root \in fs.present
  BY <1>1, <1>2, NoCalls, ScanDirectoryStep
<1>3. CASE Root \notin fs.present
  <2> DEFINE id == DirectoryId(db, Root)
  <2>1. stack' = <<>> /\ db' = IF id > 0 THEN DirectoryDelete(db, id) ELSE db
    BY <1>1, <1>3 DEF ScanDirectory
  <2>2. id \in Nat /\ (id # 0 => id \in DOMAIN db.directories)
    BY <1>1, IdOfDirectory DEF Sound
  <2> HIDE DEF id
  <2>3. id \in DOMAIN db.directories => Sound(DirectoryDelete(db, id))
    BY <1>1, DirectoryDeleteKeeps
  <2>4. Sound(db')
    BY <1>1, <2>1, <2>2, <2>3
  <2>5. QED
    BY <2>1, <2>4, NoCalls DEF WalkInv
<1>4. QED
  BY <1>2, <1>3

-----------------------------------------------------------------------------
(* The whole.                                                              *)

(* A library after create_schema.                                          *)
LEMMA EmptySound == Sound(Empty)
<1> DEFINE o == <<>>
<1>1. \A R : o \in Table(R)
  BY EmptyTable
<1>2. DOMAIN o = {}
  OBVIOUS
<1>3. Empty = [directories |-> o, files |-> o, albums |-> o, tracks |-> o, images |-> o]
  BY DEF Empty
<1> HIDE DEF o
<1>4. /\ Empty \in Database /\ Empty.directories = o /\ Empty.files = o
      /\ Empty.albums = o /\ Empty.tracks = o /\ Empty.images = o
  BY <1>1, <1>3 DEF Database
<1>5. QED
  BY <1>2, <1>4 DEF Sound, DirectoriesSound, Rooted, FilesSound, AlbumsSound, TracksSound,
                    ImagesSound, Counted

(* The tables and the stack are empty at the start.                        *)
LEMMA InitInv == Init => IInv
<1> SUFFICES ASSUME Init PROVE IInv
  OBVIOUS
<1>1. fs = [present |-> Given, mtime |-> [p \in Paths |-> 1], tag |-> GivenTag]
  BY DEF Init
<1>2. /\ Given \subseteq Paths /\ DOMAIN GivenTag = Files
      /\ \A p \in Files : GivenTag[p] \in Contents(p)
  BY LibraryScanAssumption
<1>3. SystemType
  <2>1. fs.present = Given /\ fs.mtime = [p \in Paths |-> 1] /\ fs.tag = GivenTag
    BY <1>1
  <2>2. changes \in Nat
    BY DEF Init
  <2>3. QED
    BY <1>1, <1>2, <2>1, <2>2 DEF SystemType
<1>4. db = Empty /\ saved = Empty /\ stack = <<>>
  BY DEF Init
<1>5. QED
  BY <1>3, <1>4, EmptySound, NoCalls DEF IInv

(* What the user does to files leaves the library alone.                   *)
LEMMA PutStep ==
  ASSUME IInv, NEW p \in Paths, Put(p)
  PROVE  SystemType'
<1>1. PICK tag \in Contents(p) :
        fs' = [present |-> fs.present \cup {p},
               mtime |-> [q \in Paths |-> IF q \in {p, Home[p]} THEN Now ELSE fs.mtime[q]],
               tag |-> [q \in Files |-> IF q = p THEN tag ELSE fs.tag[q]]]
  BY DEF Put
<1>2. changes \in Nat /\ changes' = changes + 1 /\ Now \in Nat
  BY DEF IInv, SystemType, Put, Change, Now
<1>3. fs.present \in SUBSET Paths /\ fs.mtime \in [Paths -> Nat]
      /\ \A q \in Files : fs.tag[q] \in Contents(q)
  BY DEF IInv, SystemType
<1>4. /\ fs'.present = fs.present \cup {p}
      /\ fs'.mtime = [q \in Paths |-> IF q \in {p, Home[p]} THEN Now ELSE fs.mtime[q]]
      /\ fs'.tag = [q \in Files |-> IF q = p THEN tag ELSE fs.tag[q]]
      /\ fs' = [present |-> fs'.present, mtime |-> fs'.mtime, tag |-> fs'.tag]
  BY <1>1
<1>5. fs'.mtime \in [Paths -> Nat]
  BY <1>2, <1>3, <1>4
<1>6. DOMAIN fs'.tag = Files /\ \A q \in Files : fs'.tag[q] \in Contents(q)
  BY <1>3, <1>4
<1>7. QED
  BY <1>2, <1>3, <1>4, <1>5, <1>6 DEF SystemType

LEMMA DropStep ==
  ASSUME IInv, NEW p \in Paths, Drop(p)
  PROVE  SystemType'
<1> DEFINE there == fs.present \ Under(p)
           times == [fs.mtime EXCEPT ![Home[p]] = Now]
<1>1. /\ fs = [present |-> fs.present, mtime |-> fs.mtime, tag |-> fs.tag]
      /\ fs.present \in SUBSET Paths /\ fs.mtime \in [Paths -> Nat]
      /\ DOMAIN fs.tag = Files /\ \A q \in Files : fs.tag[q] \in Contents(q)
      /\ changes \in Nat /\ changes' = changes + 1 /\ Now \in Nat
  BY DEF IInv, SystemType, Drop, Change, Now
<1>2. fs' = [fs EXCEPT !.present = there, !.mtime[Home[p]] = Now]
  BY DEF Drop
<1> HIDE DEF there
<1>3. fs' = [present |-> there, mtime |-> times, tag |-> fs.tag]
  BY <1>1, <1>2
<1>4. times \in [Paths -> Nat] /\ there \in SUBSET Paths
  BY <1>1 DEF there
<1> HIDE DEF times
<1>5. QED
  BY <1>1, <1>3, <1>4 DEF SystemType

(* Each step, those of the walk, of the user and the breaks.               *)
LEMMA NextInv == IInv /\ [Next]_vars => IInv'
<1> SUFFICES ASSUME IInv, [Next]_vars PROVE IInv'
  OBVIOUS
<1> USE DEF IInv
<1>1. ASSUME NEW p \in Paths, Put(p) \/ Drop(p) PROVE IInv'
  <2>1. SystemType'
    BY <1>1, PutStep, DropStep
  <2>2. UNCHANGED <<db, saved, stack, scanning>>
    BY <1>1 DEF Put, Drop, Change
  <2>3. QED
    BY <2>1, <2>2
<1>2. CASE Start
  <2>1. WalkInv' /\ UNCHANGED <<fs, saved, changes>> /\ scanning' = TRUE
    BY <1>2, StartStep DEF Start
  <2>2. QED
    BY <2>1 DEF WalkInv, SystemType
<1>3. CASE Walk
  <2>1. WalkInv' /\ UNCHANGED <<fs, saved, changes, scanning>> /\ stack # <<>>
    BY <1>3, WalkStep DEF Walk, bounds
  <2>2. QED
    BY <2>1 DEF WalkInv, SystemType
<1>4. CASE Commit
  <2>1. UNCHANGED <<fs, db, stack, changes>> /\ saved' = db /\ stack = <<>>
    BY <1>4 DEF Commit, bounds
  <2>2. QED
    BY <2>1 DEF SystemType
<1>5. CASE Interrupt
  <2>1. UNCHANGED <<fs, db, saved, stack, scanning, changes>>
    BY <1>5 DEF Interrupt
  <2>2. QED
    BY <2>1 DEF SystemType
<1>6. CASE Crash
  <2>1. UNCHANGED <<fs, saved, changes>> /\ db' = saved /\ stack' = <<>>
    BY <1>6 DEF Crash
  <2>2. stack' \in Seq(FrameType) /\ StackSound(db', stack')
    BY <2>1, NoCalls
  <2>3. QED
    BY <2>1, <2>2 DEF SystemType
<1>7. CASE Idle \/ UNCHANGED vars
  <2>1. UNCHANGED <<fs, db, saved, stack, scanning, changes>>
    BY <1>7 DEF Idle, vars, bounds
  <2>2. QED
    BY <2>1 DEF SystemType
<1>8. QED
  BY <1>1, <1>2, <1>3, <1>4, <1>5, <1>6, <1>7 DEF Next

(* The invariant holds in every state of the system.                       *)
THEOREM Invariance == Spec => []IInv
BY InitInv, NextInv, PTL DEF Spec

(* The types of the file system, the tables in use and as committed, and   *)
(* the calls of the walk.                                                  *)
THEOREM TypesAlways == Spec => []TypeOK
<1>1. IInv => TypeOK
  <2> SUFFICES ASSUME IInv PROVE TypeOK
    OBVIOUS
  <2>1. ASSUME NEW d, Sound(d)
        PROVE  /\ \A x \in DOMAIN d.directories : d.directories[x] \in DirectoryType
               /\ \A x \in DOMAIN d.files : d.files[x] \in FileType
               /\ \A x \in DOMAIN d.albums : d.albums[x] \in AlbumType
               /\ \A x \in DOMAIN d.tracks : d.tracks[x] \in TrackType
               /\ \A x \in DOMAIN d.images : d.images[x] \in ImageType
    BY <2>1, DatabaseFields, TableElim DEF Sound
  <2>2. \A i \in DOMAIN stack : stack[i].phase \in {"subs", "files", "read"}
    BY FrameFields DEF IInv
  <2>3. fs.present \subseteq Paths /\ (stack # <<>> => scanning)
    BY DEF IInv, SystemType
  <2>4. Sound(db) /\ Sound(saved)
    BY DEF IInv
  <2>5. QED
    BY <2>1, <2>2, <2>3, <2>4
       DEF TypeOK, DirectoryType, FileType, AlbumType, TrackType, ImageType
<1>2. QED
  BY <1>1, Invariance, PTL

(* albums.tracks is the number of tracks, at every step of a scan: it is   *)
(* incremented for each track added and counted again when one is cleared. *)
THEOREM CountsAlways == Spec => []AlbumCountsExact
<1>1. IInv => AlbumCountsExact
  BY DEF IInv, Sound, Counted, OnAlbum, AlbumCountsExact, CountsExact, AlbumTracks
<1>2. QED
  BY <1>1, Invariance, PTL

(* No row is left that refers to one that is gone, and no path has two     *)
(* rows, whatever the scan deletes and whichever rowid is given again.     *)
THEOREM TablesAlways == Spec => []TablesSound
<1>1. IInv => TablesSound
  <2> SUFFICES ASSUME IInv PROVE TablesSound
    OBVIOUS
  <2>1. Sound(db)
    BY DEF IInv
  <2>2. Owned(db)
    <3>1. \A x \in DOMAIN db.directories : db.directories[x].parent \in DOMAIN db.directories \cup {0}
      BY <2>1 DEF Sound, DirectoriesSound, Rooted
    <3>2. QED
      BY <2>1, <3>1 DEF Sound, FilesSound, TracksSound, ImagesSound, Owned
  <2>3. Unique(db)
    BY <2>1 DEF Sound, DirectoriesSound, FilesSound, AlbumsSound, Unique
  <2>4. QED
    BY <2>2, <2>3 DEF TablesSound
<1>2. QED
  BY <1>1, Invariance, PTL

(* The rowids that the calls of the walk hold stay those of the rows they  *)
(* were read for, while the calls below delete and insert rows.            *)
THEOREM WalkAlways == Spec => []WalkSound
<1>1. IInv => WalkSound
  <2> SUFFICES ASSUME IInv, NEW i \in DOMAIN stack
               PROVE  FrameSound(db, stack[i])
    BY DEF WalkSound, FrameSound
  <2>1. i \in 1 .. Len(stack)
    BY DEF IInv
  <2>2. QED
    BY <2>1 DEF IInv, StackSound
<1>2. QED
  BY <1>1, Invariance, PTL

-----------------------------------------------------------------------------
(* The tree of directories.                                                *)

(* What the assumption says of the directories.                            *)
LEMMA TreeFacts ==
  /\ Cardinality(Dirs) \in Nat /\ Root \in Dirs /\ Dirs \subseteq Paths /\ Files \subseteq Paths
  /\ \A p \in Paths : Home[p] \in Dirs
  /\ Home[Root] = Root
  /\ \A p \in Dirs : Depth[p] \in 0 .. Cardinality(Dirs) - 1
<1>1. IsFiniteSet(Paths) /\ Dirs \subseteq Paths /\ Files \subseteq Paths
  BY LibraryScanAssumption DEF Paths
<1>2. IsFiniteSet(Dirs)
  BY <1>1, FS_Subset
<1>3. QED
  BY <1>1, <1>2, FS_CardinalityType, DepthExists, LibraryScanAssumption DEF Depths

(* Under(p) is p and all that is in a directory of it.                     *)
LEMMA UnderIs ==
  ASSUME NEW p \in Paths
  PROVE  /\ p \in Under(p) /\ Under(p) \subseteq Paths
         /\ \A q \in Paths : Home[q] \in Under(p) => q \in Under(p)
         /\ \A q \in Under(p) : q = p \/ Home[q] \in Under(p)
         /\ \A S : p \in S /\ (\A q \in Paths : Home[q] \in S => q \in S) => Under(p) \subseteq S
<1> DEFINE N == Cardinality(Dirs)
           next(R) == R \cup {q \in Paths : Home[q] \in R}
           Tries(f, k) == f = [n \in 0 .. k |-> IF n = 0 THEN {p} ELSE next(f[n - 1])]
           reach == CHOOSE f : Tries(f, N)
<1>1. Under(p) = reach[N]
  BY DEF Under
<1>2. N \in Nat
  BY TreeFacts
<1>3. /\ \A R : R \subseteq next(R)
      /\ \A R : \A q \in Paths : Home[q] \in R => q \in next(R)
      /\ \A R : \A q \in next(R) : q \in R \/ (q \in Paths /\ Home[q] \in R)
  OBVIOUS
<1>0. \A p1 \in Dirs : Depth[p1] \in 0 .. N - 1
  BY TreeFacts
<1> HIDE DEF next, N
<1>4. \A k \in Nat : \E f : Tries(f, k)
  <2> DEFINE C == {k \in Nat : ~\E f : Tries(f, k)}
  <2>1. SUFFICES ASSUME C # {} PROVE FALSE
    OBVIOUS
  <2>2. PICK k \in C : \A j \in C : k <= j
    BY <2>1, HasLeast
  <2>3. CASE k = 0
    <3>1. Tries([n \in 0 .. 0 |-> {p}], 0)
      OBVIOUS
    <3>2. QED
      BY <2>2, <2>3, <3>1
  <2>4. CASE k # 0
    <3>0. C \in SUBSET Nat
      OBVIOUS
    <3>1. k \in Nat /\ k - 1 \in Nat /\ k - 1 \notin C
      <4> HIDE DEF C
      <4>1. k \in Nat /\ k - 1 \in Nat /\ ~(k <= k - 1)
        BY <2>2, <2>4, <3>0
      <4>2. QED
        BY <2>2, <4>1
    <3>2. PICK f : Tries(f, k - 1)
      BY <3>1
    <3> DEFINE g == [n \in 0 .. k |-> IF n < k THEN f[n] ELSE next(f[k - 1])]
    <3>3. ASSUME NEW n \in 0 .. k
          PROVE  g[n] = IF n = 0 THEN {p} ELSE next(g[n - 1])
      <4>1. CASE n = 0
        BY <2>4, <3>1, <3>2, <4>1
      <4>2. CASE n # 0 /\ n < k
        <5>1. n - 1 \in 0 .. k /\ n - 1 < k /\ n \in 0 .. k - 1
          BY <3>1, <4>2
        <5>2. g[n] = f[n] /\ g[n - 1] = f[n - 1]
          BY <4>2, <5>1
        <5>3. f[n] = next(f[n - 1])
          BY <3>2, <4>2, <5>1
        <5>4. QED
          BY <4>2, <5>2, <5>3
      <4>3. CASE n # 0 /\ n = k
        <5>1. k - 1 \in 0 .. k /\ k - 1 < k
          BY <3>1, <4>3
        <5>2. g[n] = next(f[k - 1]) /\ g[k - 1] = f[k - 1]
          BY <3>1, <4>3, <5>1
        <5>3. QED
          BY <4>3, <5>2
      <4>4. QED
        BY <3>1, <4>1, <4>2, <4>3
    <3>4. g = [n \in 0 .. k |-> g[n]]
      OBVIOUS
    <3> HIDE DEF g
    <3>5. Tries(g, k)
      BY <3>3, <3>4
    <3>6. QED
      BY <2>2, <3>5
  <2>5. QED
    BY <2>3, <2>4
<1>5. Tries(reach, N)
  BY <1>2, <1>4
<1> HIDE DEF reach
<1>6. reach[0] = {p} /\ \A n \in 0 .. N : n # 0 => n - 1 \in 0 .. N /\ reach[n] = next(reach[n - 1])
  BY <1>2, <1>5, SMTT(30)
<1>7. ASSUME NEW n \in 0 .. N PROVE reach[n] \subseteq reach[N]
  <2> DEFINE C == {j \in 0 .. N : ~(reach[N - j] \subseteq reach[N])}
  <2>1. SUFFICES ASSUME C # {} PROVE FALSE
    <3>1. N - n \in 0 .. N /\ N - (N - n) = n
      BY <1>2
    <3>2. QED
      BY <3>1
  <2>2. C \in SUBSET Nat
    BY <1>2
  <2>3. PICK j \in C : \A i \in C : j <= i
    BY <2>1, <2>2, HasLeast
  <2>4. j \in 0 .. N /\ ~(reach[N - j] \subseteq reach[N])
    BY <2>3
  <2>5. j # 0
    BY <1>2, <2>4
  <2>6. j - 1 \in 0 .. N /\ j - 1 \notin C
    <3>1. j - 1 \in 0 .. N /\ ~(j <= j - 1)
      BY <1>2, <2>4, <2>5
    <3>2. QED
      BY <2>3, <3>1
  <2>7. reach[N - (j - 1)] \subseteq reach[N]
    BY <2>6
  <2>8. N - (j - 1) \in 0 .. N /\ N - (j - 1) # 0 /\ (N - (j - 1)) - 1 = N - j
    BY <1>2, <2>4, <2>5
  <2>9. reach[N - (j - 1)] = next(reach[N - j])
    BY <1>6, <2>8
  <2>10. QED
    BY <1>3, <2>4, <2>7, <2>9
<1>8. ASSUME NEW n \in 0 .. N
      PROVE  /\ reach[n] \subseteq Paths
             /\ \A q \in reach[n] : q = p \/ Home[q] \in reach[N]
  <2> DEFINE Good(k) == /\ reach[k] \subseteq Paths
                        /\ \A q \in reach[k] : q = p \/ Home[q] \in reach[N]
             C == {k \in 0 .. N : ~Good(k)}
  <2>1. SUFFICES ASSUME C # {} PROVE FALSE
    OBVIOUS
  <2>2. C \in SUBSET Nat
    BY <1>2
  <2>3. PICK k \in C : \A i \in C : k <= i
    BY <2>1, <2>2, HasLeast
  <2>4. k \in 0 .. N /\ ~Good(k)
    BY <2>3
  <2>5. k # 0
    BY <1>6, <2>4
  <2>6. k - 1 \in 0 .. N /\ k - 1 \notin C /\ reach[k] = next(reach[k - 1])
    <3>1. k - 1 \in 0 .. N /\ ~(k <= k - 1)
      BY <1>2, <2>4, <2>5
    <3>2. QED
      BY <1>6, <2>3, <2>4, <2>5, <3>1
  <2>7. Good(k - 1)
    BY <2>6
  <2>8. reach[k - 1] \subseteq reach[N]
    BY <1>7, <2>6
  <2>9. Good(k)
    BY <1>3, <2>6, <2>7, <2>8
  <2>10. QED
    BY <2>4, <2>9
<1>9. ASSUME NEW n \in 0 .. N, NEW r \in Dirs, r \in reach[n]
      PROVE  \E k \in 0 .. N : k <= Depth[r] /\ r \in reach[k]
  <2> DEFINE Good(k, q) == \E j \in 0 .. N : j <= Depth[q] /\ q \in reach[j]
             C == {k \in 0 .. N : \E q \in Dirs : q \in reach[k] /\ ~Good(k, q)}
  <2>1. SUFFICES ASSUME C # {} PROVE FALSE
    BY <1>9
  <2>2. C \in SUBSET Nat
    BY <1>2
  <2>3. PICK k \in C : \A i \in C : k <= i
    BY <2>1, <2>2, HasLeast
  <2>4. PICK q \in Dirs : q \in reach[k] /\ ~Good(k, q)
    BY <2>3
  <2>5. k \in 0 .. N /\ Depth[q] \in Nat
    BY <2>3, DepthGrows
  <2>6. k # 0
    BY <1>2, <2>4, <2>5
  <2>7. k - 1 \in 0 .. N /\ k - 1 \notin C /\ reach[k] = next(reach[k - 1])
    <3>1. k - 1 \in 0 .. N /\ ~(k <= k - 1)
      BY <1>2, <2>5, <2>6
    <3>2. QED
      BY <1>6, <2>3, <2>5, <2>6, <3>1
  <2>8. q \notin reach[k - 1]
    BY <2>4, <2>7
  <2>9. Home[q] \in reach[k - 1] /\ Home[q] \in Dirs /\ q \in Paths
    BY <1>3, <2>4, <2>7, <2>8, TreeFacts
  <2>10. q # Root
    BY <2>8, <2>9, TreeFacts
  <2>11. PICK j \in 0 .. N : j <= Depth[Home[q]] /\ Home[q] \in reach[j]
    BY <2>7, <2>9
  <2>12. Depth[q] = Depth[Home[q]] + 1 /\ Depth[Home[q]] \in Nat /\ Depth[q] \in 0 .. N - 1
    BY <1>0, <2>4, <2>9, <2>10, DepthGrows
  <2>13. j + 1 <= Depth[q] /\ j + 1 \in 0 .. N /\ j + 1 # 0 /\ (j + 1) - 1 = j
    <3> DEFINE a == Depth[q]
               b == Depth[Home[q]]
    <3>1. a = b + 1 /\ b \in Nat /\ a \in 0 .. N - 1 /\ j \in 0 .. N /\ j <= b
      BY <2>11, <2>12
    <3> HIDE DEF a, b
    <3>2. j + 1 <= a /\ j + 1 \in 0 .. N /\ j + 1 # 0 /\ (j + 1) - 1 = j
      BY <1>2, <3>1
    <3>3. QED
      BY <3>2 DEF a
  <2>14. reach[j + 1] = next(reach[j])
    BY <1>6, <2>13
  <2>15. q \in reach[j + 1]
    BY <1>3, <2>9, <2>11, <2>14
  <2>16. QED
    BY <2>4, <2>13, <2>15
<1>10. ASSUME NEW q \in Paths, Home[q] \in reach[N] PROVE q \in reach[N]
  <2>1. Home[q] \in Dirs /\ N \in 0 .. N
    BY <1>2, TreeFacts
  <2>2. PICK k \in 0 .. N : k <= Depth[Home[q]] /\ Home[q] \in reach[k]
    BY <1>9, <1>10, <2>1
  <2>3. Depth[Home[q]] \in 0 .. N - 1
    BY <1>0, <2>1
  <2>4. k + 1 \in 0 .. N /\ k + 1 # 0 /\ (k + 1) - 1 = k
    BY <1>2, <2>2, <2>3
  <2>5. q \in reach[k + 1]
    BY <1>3, <1>6, <2>2, <2>4
  <2>6. QED
    BY <1>7, <2>4, <2>5
<1>11. N \in 0 .. N /\ 0 \in 0 .. N
  BY <1>2
<1>12. p \in reach[N]
  BY <1>6, <1>7, <1>11
<1>13. ASSUME NEW S, p \in S, \A q \in Paths : Home[q] \in S => q \in S
       PROVE  reach[N] \subseteq S
  <2> DEFINE C == {k \in 0 .. N : ~(reach[k] \subseteq S)}
  <2>1. SUFFICES ASSUME C # {} PROVE FALSE
    BY <1>11
  <2>2. C \in SUBSET Nat
    BY <1>2
  <2>3. PICK k \in C : \A i \in C : k <= i
    BY <2>1, <2>2, HasLeast
  <2>4. k \in 0 .. N /\ ~(reach[k] \subseteq S)
    BY <2>3
  <2>5. k # 0
    BY <1>6, <1>13, <2>4
  <2>6. k - 1 \in 0 .. N /\ k - 1 \notin C /\ reach[k] = next(reach[k - 1])
    <3>1. k - 1 \in 0 .. N /\ ~(k <= k - 1)
      BY <1>2, <2>4, <2>5
    <3>2. QED
      BY <1>6, <2>3, <2>4, <2>5, <3>1
  <2>7. reach[k - 1] \subseteq S
    BY <2>6
  <2>8. QED
    BY <1>3, <1>13, <2>4, <2>6, <2>7
<1>14. QED
  BY <1>1, <1>8, <1>10, <1>11, <1>12, <1>13

(* All directories are under the music directory.                          *)
LEMMA AllUnderRoot == \A p \in Dirs : p \in Under(Root)
<1> DEFINE C == {n \in Nat : \E p \in Dirs : Depth[p] = n /\ p \notin Under(Root)}
<1>1. \A p \in Dirs : Depth[p] \in Nat
  BY DepthGrows
<1>2. SUFFICES ASSUME C # {} PROVE FALSE
  BY <1>1
<1>3. PICK n \in C : \A k \in C : n <= k
  BY <1>2, HasLeast
<1>4. PICK p \in Dirs : Depth[p] = n /\ p \notin Under(Root)
  BY <1>3
<1>5. p # Root /\ p \in Paths
  BY <1>4, UnderIs, TreeFacts
<1>6. Home[p] \in Dirs /\ Depth[p] = Depth[Home[p]] + 1 /\ Depth[Home[p]] \in Nat
  BY <1>1, <1>4, <1>5, DepthGrows
<1>7. ~(n <= Depth[Home[p]])
  BY <1>4, <1>6
<1>8. Home[p] \in Under(Root)
  BY <1>3, <1>6, <1>7
<1>9. QED
  BY <1>4, <1>5, <1>8, UnderIs, TreeFacts

(* The music directory is under no other one.                              *)
LEMMA RootAlone ==
  ASSUME NEW p \in Paths, Root \in Under(p)
  PROVE  p = Root
<1> DEFINE S == Paths \ {Root}
<1>1. \A q \in Paths : Home[q] \in S => q \in S
  BY TreeFacts
<1>2. p \in S => Under(p) \subseteq S
  <2> HIDE DEF S
  <2>1. QED
    BY <1>1, UnderIs
<1>3. QED
  BY <1>2

-----------------------------------------------------------------------------
(* What the library owes to the file system, in the midst of scans.        *)

(* No change has the time of another one; no file is there without its     *)
(* directory.                                                              *)
FilesTrue ==
  /\ \A p \in Paths : fs.mtime[p] \in 1 .. changes + 1
  /\ \A p \in fs.present : Home[p] \in fs.present
  /\ NoCircle /\ Misdated \subseteq rewritten
  /\ Straying = {}

(* Sheets name files beside them; what is said of this holds until one does*)
(* not.                                                                    *)
Orderly == SystemType /\ Straying = {}
USE DEF Orderly

(* A sheet that ends at one of which tracks are read.                      *)
Leads(s) == Found(s) /\ Found(Preferred(s))

(* The tracks of the row y are those of its file, or of a sheet.           *)
OwnTracks(d, y) ==
  LET tag == fs.tag[d.files[y].path]
  IN OwnTrack(d, y, TracksOf(d, {y})) /\ (tag \in Names => AlbumId(d, tag) # 0)
SheetsTracks(d, y, cues) ==
  FromSheet(d, TracksOf(d, {y}), cues) /\ AlbumId(d, SheetAlbum) # 0
PastCues(d, y) == {d.tracks[t].cue : t \in TracksOf(d, {y})} \ {0}
Cues(d, p) == {FileId(d, s) : s \in {c \in Counting : fs.tag[c] = p}}

(* A row with the time of its file has what comes of the file, or of a     *)
(* sheet of that time.                                                     *)
Contained(d, y) ==
  LET p == d.files[y].path IN
  /\ p \in Audio => OwnTracks(d, y) \/ SheetsTracks(d, y, PastCues(d, y))
  /\ p \in Images => Cardinality(ImagesOf(d, {y})) = 1
FileTrue(d, y) ==
  LET p == d.files[y].path IN
  /\ d.files[y].mtime <= changes + 1
  /\ p \in Sheets => d.files[y].mtime = 0
  /\ p \in Audio => TracksOf(d, {y}) # {}
  /\ p \in Images => ImagesOf(d, {y}) # {}
  /\ p \in fs.present /\ d.files[y].mtime = fs.mtime[p] =>
       fs.tag[p] # Broken /\ (p \notin rewritten => Contained(d, y))

(* The row of a file is in that of the directory the file is in.           *)
Housed(d) == \A y \in DOMAIN d.files : d.directories[d.files[y].directory].path = Home[d.files[y].path]

(* What is owed once a directory is read: of a row of a file, and of an    *)
(* entry that is there.                                                    *)
InTime(d, y) ==
  LET p == d.files[y].path
  IN p \in fs.present \ (rewritten \cup Sheets) => d.files[y].mtime = fs.mtime[p]
There(p) == p \in fs.present /\ IF p \in Sheets THEN p \in Counting ELSE fs.tag[p] # Broken
DirectoryKnown(d, p) == \E x \in DOMAIN d.directories : d.directories[x].path = p
SheetRead(d, s) ==
  Leads(s) => LET a == fs.tag[Preferred(s)]
              IN a \notin rewritten /\ fs.tag[a] # Broken =>
                   Known(d, a) /\ SheetsTracks(d, FileId(d, a), Cues(d, a))
Read(d, p) == /\ p \in Dirs => DirectoryKnown(d, p)
              /\ p \in Audio \cup Images /\ fs.tag[p] # Broken => Known(d, p)
              /\ p \in Sheets => SheetRead(d, p)

(* A directory that is passed over by the next scan is one that is read.   *)
Fresh(d, x) == LET p == d.directories[x].path
               IN p \in fs.present /\ d.directories[x].mtime = fs.mtime[p]
DirectoryTrue(d, x) ==
  LET p == d.directories[x].path IN
  /\ d.directories[x].mtime <= fs.mtime[p]
  /\ Fresh(d, x) => /\ \A q \in Entries(p) \cap fs.present : Read(d, q)
                    /\ \A y \in FilesIn(d, x) : InTime(d, y) /\ There(d.files[y].path)
LibraryTrue(d) == /\ Housed(d)
                  /\ \A x \in DOMAIN d.directories : DirectoryTrue(d, x)
                  /\ \A y \in DOMAIN d.files : FileTrue(d, y)

(* The calls: what they have read so far, if the directory has not changed *)
(* since.                                                                  *)
Steady(f) == f.path \in fs.present /\ f.mtime = fs.mtime[f.path]
Seen(d, f) == IF f.phase = "files" THEN FilesIn(d, f.id) \ f.todo ELSE FilesIn(d, f.id)
FrameTrue(d, f) ==
  /\ f.mtime \in 1 .. fs.mtime[f.path]
  /\ d.directories[f.id].mtime <= f.mtime
  /\ f.phase # "subs" =>
       /\ d.directories[f.id].mtime # f.mtime
       /\ \A y \in Seen(d, f) : InTime(d, y) /\ (Steady(f) => There(d.files[y].path))
  /\ f.phase = "files" => \A y \in Seen(d, f) : d.files[y].path \notin Sheets
  /\ f.phase = "read" /\ Steady(f) =>
       \A q \in (Entries(f.path) \cap fs.present) \ f.todo : Read(d, q)
FramesTrue(d, q) == \A i \in 1 .. Len(q) : FrameTrue(d, q[i])

(* Only the calls for known subdirectories go by the result of a call.     *)
CallbacksSound(q) == \A i \in 1 .. Len(q) : \A j \in 1 .. Len(q) :
                       j = i + 1 /\ q[j].cb => q[i].phase = "subs"

(* While nothing happens, a directory is read already or is still before   *)
(* the walk.                                                               *)
Before(d, f, x) == \/ f.id = x
                   \/ /\ f.phase = "subs"
                      /\ \E s \in f.todo : d.directories[x].path \in Under(d.directories[s].path)
Pending(d, q, x) == \E i \in 1 .. Len(q) : Before(d, q[i], x)
Undisturbed(d, q) ==
  /\ \A i \in 1 .. Len(q) : Steady(q[i])
  /\ \A x \in DOMAIN d.directories : Fresh(d, x) \/ Pending(d, q, x)
  /\ Root \in fs.present => DirectoryKnown(d, Root)

JInv == /\ FilesTrue
        /\ LibraryTrue(db) /\ LibraryTrue(saved)
        /\ FramesTrue(db, stack) /\ CallbacksSound(stack)
        /\ ~scanning => ~interrupted /\ stack = <<>>
        /\ quiet => ~interrupted /\ Undisturbed(db, stack)

-----------------------------------------------------------------------------
(* The tree of rows.                                                       *)

(* What is known of the row of a directory.                                *)
LEMMA RowFacts ==
  ASSUME NEW d, Sound(d), NEW x \in DOMAIN d.directories
  PROVE  /\ x \in Nat /\ x # 0
         /\ d.directories[x].path \in Dirs /\ d.directories[x].path \in Paths
         /\ d.directories[x].mtime \in Nat
         /\ d.directories[x].path # Root =>
              /\ d.directories[x].parent \in DOMAIN d.directories
              /\ d.directories[d.directories[x].parent].path = Home[d.directories[x].path]
              /\ x \in Subdirectories(d, d.directories[x].parent)
         /\ \A y \in DOMAIN d.directories : d.directories[y].path = d.directories[x].path => y = x
<1> DEFINE t == d.directories
<1>1. t \in Table(DirectoryType) /\ DirectoriesSound(t)
  BY DatabaseFields DEF Sound
<1>2. x \in Nat /\ x # 0 /\ t[x] \in DirectoryType
  BY <1>1, TableElim
<1>3. t[x].path \in Dirs /\ t[x].mtime \in Nat
  BY <1>2 DEF DirectoryType
<1>4. t[x].path # Root => /\ t[x].parent \in DOMAIN t
                          /\ t[t[x].parent].path = Home[t[x].path]
  BY <1>1 DEF DirectoriesSound, Rooted
<1>5. \A y \in DOMAIN t : t[y].path = t[x].path => y = x
  BY <1>1 DEF DirectoriesSound
<1>6. QED
  BY <1>2, <1>3, <1>4, <1>5, TreeFacts DEF Subdirectories

(* And of the row of a subdirectory of it.                                 *)
LEMMA ChildFacts ==
  ASSUME NEW d, Sound(d), NEW x \in DOMAIN d.directories, NEW s \in Subdirectories(d, x)
  PROVE  /\ s \in DOMAIN d.directories /\ d.directories[s].path # Root
         /\ Home[d.directories[s].path] = d.directories[x].path
<1> DEFINE t == d.directories
<1>1. s \in DOMAIN t /\ t[s].parent = x /\ x # 0
  BY RowFacts DEF Subdirectories
<1>2. DirectoriesSound(t)
  BY DEF Sound
<1>3. QED
  BY <1>1, <1>2 DEF DirectoriesSound, Rooted

(* What is under the path of a row is in its subtree of the table.         *)
LEMMA UnderRow ==
  ASSUME NEW d, Sound(d), NEW s \in DOMAIN d.directories, NEW x \in DOMAIN d.directories,
         d.directories[x].path \in Under(d.directories[s].path)
  PROVE  /\ x \in Below(d, s)
         /\ x = s \/ \E c \in Subdirectories(d, s) :
                       d.directories[x].path \in Under(d.directories[c].path)
<1> DEFINE t == d.directories
           p == t[s].path
           In(y) == /\ y \in Below(d, s)
                    /\ y = s \/ \E c \in Subdirectories(d, s) : t[y].path \in Under(t[c].path)
           C == {n \in Nat : \E y \in DOMAIN t : Depth[t[y].path] = n /\ t[y].path \in Under(p) /\ ~In(y)}
<1>1. \A y \in DOMAIN t : Depth[t[y].path] \in Nat /\ t[y].path \in Dirs /\ t[y].path \in Paths
  BY RowFacts, DepthGrows
<1>2. SUFFICES ASSUME C # {} PROVE FALSE
  <2>1. In(x)
    BY <1>1, <1>2
  <2>2. QED
    BY <2>1
<1>3. PICK n \in C : \A k \in C : n <= k
  BY <1>2, HasLeast
<1>4. PICK y \in DOMAIN t : Depth[t[y].path] = n /\ t[y].path \in Under(p) /\ ~In(y)
  BY <1>3
<1>5. s \in Below(d, s) /\ \A z \in Below(d, s) : Subdirectories(d, z) \subseteq Below(d, s)
  BY BelowIs DEF Below
<1>6. y # s
  BY <1>4, <1>5
<1>7. t[y].path # p
  BY <1>4, <1>6, RowFacts
<1>8. Home[t[y].path] \in Under(p)
  BY <1>1, <1>4, <1>7, UnderIs
<1>9. t[y].path # Root
  BY <1>1, <1>4, <1>7, RootAlone
<1> DEFINE z == t[y].parent
<1>10. z \in DOMAIN t /\ t[z].path = Home[t[y].path] /\ y \in Subdirectories(d, z)
  BY <1>4, <1>9, RowFacts
<1>11. Depth[t[y].path] = Depth[t[z].path] + 1
  BY <1>1, <1>4, <1>9, <1>10, DepthGrows
<1>12. ~(n <= Depth[t[z].path]) /\ Depth[t[z].path] \in Nat
  <2> DEFINE k == Depth[t[z].path]
  <2>1. k \in Nat /\ n = k + 1
    BY <1>1, <1>4, <1>10, <1>11
  <2> HIDE DEF k
  <2>2. k \in Nat /\ ~(n <= k)
    BY <2>1
  <2>3. QED
    BY <2>2 DEF k
<1>13. In(z)
  BY <1>3, <1>8, <1>10, <1>12
<1>14. y \in Below(d, s)
  BY <1>5, <1>10, <1>13
<1>15. \E c \in Subdirectories(d, s) : t[y].path \in Under(t[c].path)
  <2>1. CASE z = s
    BY <1>1, <1>10, <2>1, UnderIs
  <2>2. CASE z # s
    <3>1. PICK c \in Subdirectories(d, s) : t[z].path \in Under(t[c].path)
      BY <1>13, <2>2
    <3>2. c \in DOMAIN t
      BY DEF Subdirectories
    <3>3. t[y].path \in Under(t[c].path)
      BY <1>1, <1>4, <1>10, <3>1, <3>2, UnderIs
    <3>4. QED
      BY <3>1, <3>3
  <2>3. QED
    BY <2>1, <2>2
<1>16. QED
  BY <1>4, <1>14, <1>15

(* The rows below one of a directory that is gone are of directories that  *)
(* are gone.                                                               *)
LEMMA BelowGone ==
  ASSUME FilesTrue, NEW d, Sound(d), NEW s \in DOMAIN d.directories,
         d.directories[s].path \notin fs.present
  PROVE  \A x \in Below(d, s) : d.directories[x].path \notin fs.present
<1> DEFINE t == d.directories
           gone == {x \in DOMAIN t : t[x].path \notin fs.present}
<1>1. gone \in SUBSET DOMAIN t /\ s \in gone
  OBVIOUS
<1>2. ASSUME NEW x \in gone, NEW y \in Subdirectories(d, x) PROVE y \in gone
  <2>1. y \in DOMAIN t /\ Home[t[y].path] = t[x].path
    BY ChildFacts
  <2>2. t[y].path \notin fs.present
    BY <2>1 DEF FilesTrue
  <2>3. QED
    BY <2>1, <2>2
<1> HIDE DEF gone
<1>3. Below(d, s) \subseteq gone
  BY <1>1, <1>2 DEF Below
<1>4. QED
  BY <1>3 DEF gone

-----------------------------------------------------------------------------
(* Changes of the file system.                                             *)

(* Nothing has happened to the entries of the directory p.                 *)
SameIn(p) == \A q \in Entries(p) : /\ q \in fs'.present <=> q \in fs.present
                                   /\ q \in Files => fs'.tag[q] = fs.tag[q]

(* A file is an entry of its directory.                                    *)
LEMMA FilesAreEntries ==
  \A q \in Files : q \in Paths /\ q \in Entries(Home[q]) /\ q # Root /\ Home[q] \in Dirs
BY TreeFacts, LibraryScanAssumption DEF Entries

(* Then its sheets are read as before.                                     *)
LEMMA SameSheets ==
  ASSUME Orderly, Orderly', NEW p \in Dirs, SameIn(p), NEW s \in Sheets, Home[s] = p
  PROVE  /\ Found(s)' <=> Found(s)
         /\ Found(s) => Preferred(s)' = Preferred(s)
         /\ Leads(s)' <=> Leads(s)
<1>1. ASSUME NEW t \in Sheets, Home[t] = p
      PROVE  /\ fs'.tag[t] = fs.tag[t]
             /\ Found(t)' <=> Found(t)
             /\ Taken(t)' <=> Taken(t)
  <2>1. t \in Files /\ t \in Entries(p)
    BY <1>1, FilesAreEntries DEF Files
  <2>2. fs'.tag[t] = fs.tag[t] /\ (t \in fs'.present <=> t \in fs.present)
    BY <2>1 DEF SameIn
  <2>3. fs.tag[t] \in Contents(t) /\ fs.present \subseteq Paths /\ fs'.present \subseteq Paths
    BY <2>1 DEF SystemType
  <2>4. Contents(t) \subseteq Audio \cup {Broken, NoFile} /\ {Broken, NoFile} \cap Paths = {}
    BY LibraryScanAssumption DEF Contents
  <2>5. CASE fs.tag[t] \in {Broken, NoFile}
    BY <2>2, <2>3, <2>4, <2>5 DEF Found, Taken
  <2>6a. CASE t \notin fs.present
    BY <2>2, <2>6a DEF Found, Taken
  <2>6. CASE fs.tag[t] \notin {Broken, NoFile} /\ t \in fs.present
    <3>1. fs.tag[t] \in Audio /\ Home[fs.tag[t]] = p
      BY <1>1, <2>3, <2>4, <2>6 DEF Straying
    <3>2. fs.tag[t] \in Entries(p)
      BY <3>1, FilesAreEntries DEF Files
    <3>3. fs.tag[t] \in fs'.present <=> fs.tag[t] \in fs.present
      BY <3>2 DEF SameIn
    <3>4. QED
      BY <2>2, <3>3 DEF Found, Taken
  <2>7. QED
    BY <2>2, <2>5, <2>6, <2>6a
<1>2. ASSUME NEW t \in Sheets, Home[t] = p
      PROVE  Instead(t)' = Instead(t)
  <2> DEFINE base == Base[fs.tag[t]]
  <2>0. SUFFICES ASSUME Found(t) PROVE Instead(t)' = Instead(t)
    BY <1>1, <1>2 DEF Instead
  <2>1. /\ fs'.tag[t] = fs.tag[t] /\ fs.tag[t] \in Audio /\ Home[fs.tag[t]] = p
        /\ Found(t)' <=> Found(t)
    BY <1>1, <1>2, <2>0, FoundNames
  <2>2. CASE base \in Sheets
    <3>1. base # NoSheet
      BY <2>2, LibraryScanAssumption DEF Paths, Files
    <3>2. Home[base] = p
      BY <2>1, <3>1, LibraryScanAssumption
    <3>3. PICK b \in Sheets : b = base
      BY <2>2
    <3>4. Taken(b)' <=> Taken(b)
      BY <1>1, <3>2, <3>3
    <3>5. QED
      BY <2>1, <3>3, <3>4 DEF Instead
  <2>3. CASE base \notin Sheets
    BY <2>1, <2>3 DEF Instead
  <2>4. QED
    BY <2>2, <2>3
<1>3. SUFFICES ASSUME Found(s)
               PROVE  /\ Preferred(s)' = Preferred(s)
                      /\ Preferred(s) \in Sheets /\ Home[Preferred(s)] = p
  BY <1>1 DEF Leads
<1> DEFINE N == Cardinality(Sheets)
<1>4. PICK f : f = [n \in 0 .. N |-> IF n = 0 THEN s ELSE Instead(f[n - 1])] /\ Preferred(s) = f[N]
  BY PreferredTries DEF PreferredTried
<1>5. PICK g : g = [n \in 0 .. N |-> IF n = 0 THEN s ELSE Instead(g[n - 1])'] /\ Preferred(s)' = g[N]
  BY PreferredTriesNext DEF PreferredTried
<1>6. N \in Nat
  BY SheetsFinite
<1> DEFINE Good(t) == t \in Sheets /\ Taken(t) /\ Home[t] = p
           C == {n \in 0 .. N : ~(f[n] = g[n] /\ Good(f[n]))}
<1>7. SUFFICES ASSUME C # {} PROVE FALSE
  BY <1>4, <1>5, <1>6
<1>8. C \in SUBSET Nat
  BY <1>6
<1>9. PICK n \in C : \A k \in C : n <= k
  BY <1>7, <1>8, HasLeast
<1>10. n \in 0 .. N /\ ~(f[n] = g[n] /\ Good(f[n]))
  BY <1>9
<1>11. n # 0
  BY <1>3, <1>4, <1>5, <1>10 DEF Taken
<1>12. n - 1 \in 0 .. N /\ n - 1 \notin C
  <2>1. n - 1 \in 0 .. N /\ ~(n <= n - 1)
    BY <1>6, <1>10, <1>11
  <2>2. QED
    BY <1>9, <2>1
<1>13. f[n - 1] = g[n - 1] /\ Good(f[n - 1])
  BY <1>12
<1>14. f[n] = Instead(f[n - 1]) /\ g[n] = Instead(g[n - 1])'
  BY <1>4, <1>5, <1>10, <1>11
<1>15. Instead(f[n - 1])' = Instead(f[n - 1]) /\ Good(Instead(f[n - 1]))
  BY <1>2, <1>13, InsteadIs DEF SameHome
<1>16. QED
  BY <1>10, <1>13, <1>14, <1>15


(* What a change of the file system leaves alone, and what is marked by    *)
(* its time.                                                               *)
Changed ==
  /\ FilesTrue' /\ Orderly'
  /\ changes \in Nat /\ changes' = changes + 1
  /\ UNCHANGED <<db, saved, stack, scanning, interrupted>> /\ quiet' = FALSE
  /\ \A q \in Paths : fs'.mtime[q] = changes + 2 \/ fs'.mtime[q] = fs.mtime[q]
  /\ \A p \in Dirs : p \in fs'.present /\ fs'.mtime[p] # changes + 2 =>
       /\ p \in fs.present /\ SameIn(p)
       /\ \A q \in Entries(p) \cap Files : fs'.mtime[q] = fs.mtime[q]
  /\ \A q \in Files : q \in fs'.present /\ fs'.mtime[q] # changes + 2 =>
       q \in fs.present /\ fs'.tag[q] = fs.tag[q]
  /\ rewritten \subseteq rewritten'
  /\ \A q \in Files : fs'.mtime[q] = changes + 2 /\ scanning /\ Known(db, q) => q \in rewritten'

(* Putting and removing are changes: what they do not touch stays, and     *)
(* what they touch has a time no row has.                                  *)
LEMMA PutChanged ==
  ASSUME IInv, FilesTrue, NEW p \in Paths, Put(p), Straying' = {}
  PROVE  Changed
<1>1. PICK tag \in Contents(p) :
        fs' = [present |-> fs.present \cup {p},
               mtime |-> [q \in Paths |-> IF q \in {p, Home[p]} THEN Now ELSE fs.mtime[q]],
               tag |-> [q \in Files |-> IF q = p THEN tag ELSE fs.tag[q]]]
  BY DEF Put
<1>2. /\ fs'.present = fs.present \cup {p}
      /\ \A q \in Paths : fs'.mtime[q] = IF q \in {p, Home[p]} THEN Now ELSE fs.mtime[q]
      /\ \A q \in Files : fs'.tag[q] = IF q = p THEN tag ELSE fs.tag[q]
  BY <1>1
<1>3. /\ changes \in Nat /\ changes' = changes + 1 /\ Now = changes + 2
      /\ UNCHANGED <<db, saved, stack, scanning, interrupted>> /\ quiet' = FALSE
      /\ NoCircle'
  BY DEF IInv, SystemType, Put, Change, Now
<1>4. Orderly'
  BY PutStep
<1>5. /\ p # Root => Home[p] \in fs.present
      /\ p \in Dirs => p \notin fs.present
      /\ rewritten' = rewritten \cup Misdated' \cup (IF scanning /\ FileId(db, p) # 0 THEN {p} ELSE {})
  BY DEF Put
<1>6. FilesTrue'
  <2>1. \A q \in Paths : fs.mtime[q] \in 1 .. changes + 1
    BY DEF FilesTrue
  <2>2. ASSUME NEW q \in Paths PROVE fs'.mtime[q] \in 1 .. changes' + 1
    <3>1. fs'.mtime[q] = changes + 2 \/ fs'.mtime[q] = fs.mtime[q]
      BY <1>2, <1>3
    <3>2. fs.mtime[q] \in 1 .. changes + 1
      BY <2>1
    <3>3. QED
      BY <1>3, <3>1, <3>2
  <2>3. \A q \in fs'.present : Home[q] \in fs'.present
    <3>1. \A q \in fs.present : Home[q] \in fs.present
      BY DEF FilesTrue
    <3>2. Home[p] \in fs'.present
      BY <1>2, <1>5, TreeFacts
    <3>3. QED
      BY <1>2, <3>1, <3>2
  <2>4. QED
    BY <1>3, <1>5, <2>2, <2>3 DEF FilesTrue
<1>7. \A q \in Paths : fs'.mtime[q] = changes + 2 \/ fs'.mtime[q] = fs.mtime[q]
  BY <1>2, <1>3
<1>8. ASSUME NEW r \in Dirs, r \in fs'.present, fs'.mtime[r] # changes + 2
      PROVE  /\ r \in fs.present /\ SameIn(r)
             /\ \A q \in Entries(r) \cap Files : fs'.mtime[q] = fs.mtime[q]
  <2>1. r \in Paths /\ r # p /\ r # Home[p]
    BY <1>2, <1>3, <1>8, TreeFacts
  <2>2. p \notin Entries(r)
    BY <2>1 DEF Entries
  <2>3. SameIn(r)
    BY <1>2, <2>2 DEF SameIn
  <2>4. \A q \in Files : q # Home[p]
    BY TreeFacts, LibraryScanAssumption
  <2>5. \A q \in Entries(r) \cap Files : fs'.mtime[q] = fs.mtime[q]
    BY <1>2, <2>2, <2>4, FilesAreEntries
  <2>6. QED
    BY <1>2, <1>8, <2>1, <2>3, <2>5
<1>9. \A q \in Files : q \in fs'.present /\ fs'.mtime[q] # changes + 2 =>
        q \in fs.present /\ fs'.tag[q] = fs.tag[q]
  BY <1>2, <1>3, FilesAreEntries
<1>10. ASSUME NEW q \in Files, fs'.mtime[q] = changes + 2, scanning, Known(db, q)
       PROVE  q \in rewritten'
  <2>1. q # Home[p] /\ q \in Paths
    BY FilesAreEntries, TreeFacts, LibraryScanAssumption
  <2>2. fs.mtime[q] \in 1 .. changes + 1
    BY <2>1 DEF FilesTrue
  <2>3. fs.mtime[q] # changes + 2
    BY <1>3, <2>2
  <2>4. q = p
    BY <1>2, <1>10, <2>1, <2>3
  <2>5. FileId(db, q) # 0
    BY <1>10, IdOfFile DEF IInv, Sound
  <2>6. QED
    BY <1>5, <1>10, <2>4, <2>5
<1>11. rewritten \subseteq rewritten'
  BY <1>5
<1>12. QED
  BY <1>3, <1>4, <1>6, <1>7, <1>8, <1>9, <1>10, <1>11 DEF Changed

LEMMA DropChanged ==
  ASSUME IInv, FilesTrue, NEW p \in Paths, Drop(p), Straying' = {}
  PROVE  Changed
<1> DEFINE there == fs.present \ Under(p)
           times == [fs.mtime EXCEPT ![Home[p]] = Now]
<1>1. /\ fs = [present |-> fs.present, mtime |-> fs.mtime, tag |-> fs.tag]
      /\ fs.mtime \in [Paths -> Nat]
      /\ changes \in Nat /\ changes' = changes + 1 /\ Now = changes + 2
      /\ UNCHANGED <<db, saved, stack, scanning, interrupted>> /\ quiet' = FALSE
      /\ NoCircle' /\ rewritten' = rewritten \cup Misdated'
  BY DEF IInv, SystemType, Drop, Change, Now
<1>2. /\ fs'.present = fs.present \ Under(p) /\ fs'.tag = fs.tag
      /\ \A q \in Paths : fs'.mtime[q] = IF q = Home[p] THEN Now ELSE fs.mtime[q]
  <2>1. fs' = [fs EXCEPT !.present = there, !.mtime[Home[p]] = Now]
    BY DEF Drop
  <2> HIDE DEF there
  <2>2. fs' = [present |-> there, mtime |-> times, tag |-> fs.tag]
    BY <1>1, <2>1
  <2>3. \A q \in Paths : times[q] = IF q = Home[p] THEN Now ELSE fs.mtime[q]
    BY <1>1
  <2> HIDE DEF times
  <2>4. QED
    BY <2>2, <2>3 DEF there
<1>3. Orderly'
  BY DropStep
<1>4. /\ \A q \in Paths : Home[q] \in Under(p) => q \in Under(p)
      /\ \A q \in Under(p) : q = p \/ Home[q] \in Under(p)
      /\ fs.present \subseteq Paths
  BY UnderIs DEF IInv, SystemType
<1>6. FilesTrue'
  <2>1. ASSUME NEW q \in Paths PROVE fs'.mtime[q] \in 1 .. changes' + 1
    <3>1. fs'.mtime[q] = changes + 2 \/ fs'.mtime[q] = fs.mtime[q]
      BY <1>1, <1>2
    <3>2. fs.mtime[q] \in 1 .. changes + 1
      BY DEF FilesTrue
    <3>3. QED
      BY <1>1, <3>1, <3>2
  <2>2. \A q \in fs'.present : Home[q] \in fs'.present
    BY <1>2, <1>4 DEF FilesTrue
  <2>3. QED
    BY <1>1, <2>1, <2>2 DEF FilesTrue
<1>7. \A q \in Paths : fs'.mtime[q] = changes + 2 \/ fs'.mtime[q] = fs.mtime[q]
  BY <1>1, <1>2
<1>8. ASSUME NEW r \in Dirs, r \in fs'.present, fs'.mtime[r] # changes + 2
      PROVE  /\ r \in fs.present /\ SameIn(r)
             /\ \A q \in Entries(r) \cap Files : fs'.mtime[q] = fs.mtime[q]
  <2>1. r \in fs.present /\ r \notin Under(p) /\ r # Home[p]
    BY <1>1, <1>2, <1>8, TreeFacts
  <2>2. \A q \in Entries(r) : q \notin Under(p)
    BY <1>4, <2>1 DEF Entries
  <2>3. SameIn(r)
    BY <1>2, <2>2 DEF SameIn
  <2>4. \A q \in Files : q # Home[p]
    BY TreeFacts, LibraryScanAssumption
  <2>5. \A q \in Entries(r) \cap Files : fs'.mtime[q] = fs.mtime[q]
    BY <1>2, <2>4, FilesAreEntries
  <2>6. QED
    BY <2>1, <2>3, <2>5
<1>9. \A q \in Files : q \in fs'.present => q \in fs.present /\ fs'.tag[q] = fs.tag[q]
  BY <1>2
<1>10. ASSUME NEW q \in Files PROVE fs'.mtime[q] # changes + 2
  <2>1. q # Home[p] /\ q \in Paths
    BY FilesAreEntries, TreeFacts, LibraryScanAssumption
  <2>2. fs.mtime[q] \in 1 .. changes + 1
    BY <2>1 DEF FilesTrue
  <2>3. QED
    BY <1>1, <1>2, <2>1, <2>2
<1>11. rewritten \subseteq rewritten'
  BY <1>1
<1>12. QED
  BY <1>1, <1>3, <1>6, <1>7, <1>8, <1>9, <1>10, <1>11 DEF Changed


-----------------------------------------------------------------------------
(* What a change leaves true.                                              *)

PreferredGood ==
  Orderly => \A s \in Sheets : Leads(s) =>
    /\ Preferred(s) \in Sheets /\ Found(Preferred(s)) /\ Home[Preferred(s)] = Home[s]
    /\ fs.tag[Preferred(s)] \in Audio /\ Home[fs.tag[Preferred(s)]] = Home[s]
LEMMA PreferredIsGood == PreferredGood
BY PreferredIs, FoundNames DEF PreferredGood, Leads, SameHome
LEMMA PreferredIsGoodNext == PreferredGood'
BY PreferredIsGood, PTL

(* The sheets that count are those that others lead to.                    *)
CountingLed == \A s : s \in Counting <=> \E t \in Sheets : Leads(t) /\ s = Preferred(t)
LEMMA CountingIsLed == CountingLed
BY DEF CountingLed, Counting, Leads
LEMMA CountingIsLedNext == CountingLed'
BY CountingIsLed, PTL

(* The same sheets count for the files of the directory.                   *)
LEMMA SameCounting ==
  ASSUME Orderly, Orderly', NEW p \in Dirs, SameIn(p), NEW s \in Sheets, Home[s] = p
  PROVE  s \in Counting' <=> s \in Counting
<1>1. ASSUME NEW t \in Sheets, Home[t] = p
      PROVE  /\ Leads(t)' <=> Leads(t)
             /\ Leads(t) => Preferred(t)' = Preferred(t)
  BY <1>1, SameSheets DEF Leads
<1>2. \A t \in Sheets : Leads(t) => Home[Preferred(t)] = Home[t]
  BY PreferredIsGood DEF PreferredGood
<1>3. \A t \in Sheets : Leads(t)' => Home[Preferred(t)'] = Home[t]
  BY PreferredIsGoodNext DEF PreferredGood
<1>4. s \in Counting <=> \E t \in Sheets : Leads(t) /\ s = Preferred(t)
  BY CountingIsLed DEF CountingLed
<1>5. s \in Counting' <=> \E t \in Sheets : Leads(t)' /\ s = Preferred(t)'
  BY CountingIsLedNext DEF CountingLed
<1>6. QED
  BY <1>1, <1>2, <1>3, <1>4, <1>5

(* A sheet that counts is there, with its file, in one directory.          *)
LEMMA CountingIs ==
  ASSUME Orderly, NEW s \in Counting
  PROVE  s \in Sheets /\ Found(s) /\ fs.tag[s] \in Audio /\ Home[fs.tag[s]] = Home[s]
BY PreferredIs, FoundNames DEF Counting

(* The rows of the sheets that count for a file are the same.              *)
LEMMA SameCues ==
  ASSUME Orderly, Orderly', NEW p \in Dirs, SameIn(p), NEW a \in Audio, Home[a] = p, NEW d
  PROVE  Cues(d, a)' = Cues(d, a)
<1> DEFINE S == {c \in Counting : fs.tag[c] = a}
<1>1. ASSUME NEW c \in Sheets, Home[c] = p
      PROVE  /\ fs'.tag[c] = fs.tag[c]
             /\ c \in Counting' <=> c \in Counting
  <2>1. c \in Entries(p) /\ c \in Files
    BY <1>1, FilesAreEntries DEF Files
  <2>2. QED
    BY <1>1, <2>1, SameCounting DEF SameIn
<1>2. \A c \in Counting : fs.tag[c] = a => c \in Sheets /\ Home[c] = p
  BY CountingIs
<1>3. \A c \in Counting' : fs'.tag[c] = a => c \in Sheets /\ Home[c] = p
  <2>1. \A t \in Sheets : Leads(t)' => /\ Preferred(t)' \in Sheets
                                       /\ Home[fs'.tag[Preferred(t)']] = Home[t]
                                       /\ Home[Preferred(t)'] = Home[t]
    BY PreferredIsGoodNext DEF PreferredGood
  <2>2. \A c : c \in Counting' <=> \E t \in Sheets : Leads(t)' /\ c = Preferred(t)'
    BY CountingIsLedNext DEF CountingLed
  <2>3. QED
    BY <2>1, <2>2
<1>4. S' = S
  BY <1>1, <1>2, <1>3
<1> HIDE DEF S
<1>5. Cues(d, a) = {FileId(d, s) : s \in S} /\ Cues(d, a)' = {FileId(d, s) : s \in S'}
  BY DEF Cues, S
<1>6. QED
  BY <1>4, <1>5

(* An entry that was read stays one that was read.                         *)
LEMMA SameEntry ==
  ASSUME Orderly, Orderly', NEW p \in Dirs, SameIn(p), rewritten \subseteq rewritten',
         NEW q \in Entries(p), NEW d, Read(d, q)
  PROVE  Read(d, q)'
<1>1. q \in Files => fs'.tag[q] = fs.tag[q]
  BY DEF SameIn
<1>2. (q \in Dirs => DirectoryKnown(d, q)) /\ (q \in Audio \cup Images /\ fs.tag[q] # Broken => Known(d, q))
  BY DEF Read
<1>3. ASSUME q \in Sheets PROVE SheetRead(d, q)'
  <2>1. SheetRead(d, q)
    BY <1>3 DEF Read
  <2>2. SUFFICES ASSUME Leads(q)' PROVE SheetRead(d, q)'
    BY DEF SheetRead
  <2>3. Home[q] = p
    BY DEF Entries
  <2>4. Leads(q) /\ Preferred(q)' = Preferred(q)
    BY <1>3, <2>2, <2>3, SameSheets DEF Leads
  <2>5. PICK s \in Sheets : s = Preferred(q)
    BY <1>3, <2>4, PreferredIsGood DEF PreferredGood
  <2>6. PICK a \in Audio : a = fs.tag[s]
    BY <1>3, <2>4, <2>5, PreferredIsGood DEF PreferredGood
  <2>7. Home[s] = p /\ Home[a] = p
    BY <1>3, <2>3, <2>4, <2>5, <2>6, PreferredIsGood DEF PreferredGood
  <2>8. s \in Entries(p) /\ s \in Files /\ a \in Entries(p) /\ a \in Files
    BY <2>7, FilesAreEntries DEF Files
  <2>9. fs'.tag[s] = a /\ fs'.tag[a] = fs.tag[a]
    BY <2>6, <2>8 DEF SameIn
  <2>10. Cues(d, a)' = Cues(d, a)
    BY <2>7, SameCues
  <2>11. a \notin rewritten /\ fs.tag[a] # Broken => Known(d, a) /\ SheetsTracks(d, FileId(d, a), Cues(d, a))
    BY <2>1, <2>4, <2>5, <2>6 DEF SheetRead
  <2>12. fs'.tag[Preferred(q)'] = a
    BY <2>4, <2>5, <2>9
  <2>13. a \notin rewritten' /\ fs'.tag[a] # Broken => Known(d, a) /\ SheetsTracks(d, FileId(d, a), Cues(d, a)')
    BY <2>9, <2>10, <2>11
  <2>14. QED
    BY <2>12, <2>13 DEF SheetRead
<1>4. q \in Audio \cup Images => q \in Files
  BY DEF Files
<1>5. QED
  BY <1>1, <1>2, <1>3, <1>4 DEF Read

(* An entry that is there stays there.                                     *)
LEMMA SameThere ==
  ASSUME Orderly, Orderly', NEW p \in Dirs, SameIn(p), NEW q \in Entries(p) \cap Files
  PROVE  There(q)' <=> There(q)
<1>1. fs'.tag[q] = fs.tag[q] /\ (q \in fs'.present <=> q \in fs.present) /\ Home[q] = p
  BY DEF SameIn, Entries
<1>2. q \in Sheets => (q \in Counting' <=> q \in Counting)
  BY <1>1, SameCounting
<1>3. QED
  BY <1>1, <1>2 DEF There


(* A row and the path of a file.                                           *)
LEMMA FileFacts ==
  ASSUME NEW d, Sound(d), NEW y \in DOMAIN d.files
  PROVE  /\ y \in Nat /\ y # 0
         /\ d.files[y].path \in Files /\ d.files[y].path \in Paths
         /\ d.files[y].mtime \in Nat
         /\ d.files[y].directory \in DOMAIN d.directories
         /\ FileId(d, d.files[y].path) = y /\ Known(d, d.files[y].path)
         /\ \A z \in DOMAIN d.files : d.files[z].path = d.files[y].path => z = y
<1> DEFINE t == d.files
           p == t[y].path
<1>1. t \in Table(FileType) /\ FilesSound(d.directories, t)
  BY DatabaseFields DEF Sound
<1>2. y \in Nat /\ y # 0 /\ t[y] \in FileType
  BY <1>1, TableElim
<1>3. p \in Files /\ t[y].mtime \in Nat
  BY <1>2 DEF FileType
<1>4. Known(d, p)
  BY DEF Known
<1>5. FileId(d, p) \in DOMAIN t /\ t[FileId(d, p)].path = p
  BY <1>4, IdOfFile DEF Sound
<1>6. QED
  BY <1>1, <1>2, <1>3, <1>4, <1>5, TreeFacts DEF FilesSound

(* A file of a directory that has rows in the right directories.           *)
LEMMA HousedFacts ==
  ASSUME NEW d, Sound(d), Housed(d), NEW x \in DOMAIN d.directories, NEW y \in FilesIn(d, x)
  PROVE  /\ y \in DOMAIN d.files /\ d.files[y].directory = x
         /\ Home[d.files[y].path] = d.directories[x].path
         /\ d.files[y].path \in Entries(d.directories[x].path) \cap Files
<1>1. y \in DOMAIN d.files /\ d.files[y].directory = x
  BY DEF FilesIn
<1>2. QED
  BY <1>1, FileFacts, FilesAreEntries DEF Housed

(* What is said of a row of a file holds after a change.                   *)
LEMMA FileChanged ==
  ASSUME IInv, FilesTrue, Changed, NEW d, Sound(d), NEW y \in DOMAIN d.files, FileTrue(d, y)
  PROVE  FileTrue(d, y)'
<1> DEFINE p == d.files[y].path
<1>1. p \in Files /\ p \in Paths /\ d.files[y].mtime \in Nat
  BY FileFacts
<1>2. changes \in Nat /\ changes' = changes + 1 /\ d.files[y].mtime <= changes + 1
  BY DEF Changed, FileTrue
<1>3. d.files[y].mtime <= changes' + 1 /\ d.files[y].mtime # changes + 2
  <2> DEFINE m == d.files[y].mtime
  <2>1. m \in Nat /\ m <= changes + 1
    BY <1>1, <1>2
  <2> HIDE DEF m
  <2>2. m <= changes' + 1 /\ m # changes + 2
    BY <1>2, <2>1
  <2>3. QED
    BY <2>2 DEF m
<1>4. ASSUME p \in fs'.present, d.files[y].mtime = fs'.mtime[p]
      PROVE  fs'.tag[p] # Broken /\ (p \notin rewritten' => Contained(d, y)')
  <2>1. fs'.mtime[p] = fs.mtime[p] /\ p \in fs.present /\ fs'.tag[p] = fs.tag[p]
    BY <1>1, <1>3, <1>4 DEF Changed
  <2>2. fs.tag[p] # Broken /\ (p \notin rewritten => Contained(d, y))
    BY <1>4, <2>1 DEF FileTrue
  <2>3. Contained(d, y) => Contained(d, y)'
    BY <2>1 DEF Contained, OwnTracks, OwnTrack, SheetsTracks, FromSheet, PastCues
  <2>4. QED
    BY <2>1, <2>2, <2>3 DEF Changed
<1>5. QED
  BY <1>3, <1>4 DEF FileTrue

(* And what is said of the tables.                                         *)
LEMMA LibraryChanged ==
  ASSUME IInv, FilesTrue, Changed, NEW d, Sound(d), LibraryTrue(d)
  PROVE  LibraryTrue(d)'
<1>1. \A y \in DOMAIN d.files : FileTrue(d, y)'
  BY FileChanged DEF LibraryTrue
<1>2. ASSUME NEW x \in DOMAIN d.directories
      PROVE  DirectoryTrue(d, x)'
  <2> DEFINE p == d.directories[x].path
             m == d.directories[x].mtime
  <2>1. p \in Dirs /\ p \in Paths /\ m \in Nat
    BY RowFacts
  <2>2. m <= fs.mtime[p] /\ DirectoryTrue(d, x)
    BY DEF LibraryTrue, DirectoryTrue
  <2>3. fs.mtime[p] \in 1 .. changes + 1 /\ changes \in Nat
        /\ (fs'.mtime[p] = changes + 2 \/ fs'.mtime[p] = fs.mtime[p])
    BY <2>1 DEF FilesTrue, Changed
  <2>4. m <= fs'.mtime[p] /\ m # changes + 2
    <3> DEFINE t == fs.mtime[p]
               u == fs'.mtime[p]
    <3>1. t \in 1 .. changes + 1 /\ changes \in Nat /\ (u = changes + 2 \/ u = t) /\ m <= t /\ m \in Nat
      BY <2>1, <2>2, <2>3
    <3> HIDE DEF t, u, m
    <3>2. m <= u /\ m # changes + 2
      BY <3>1
    <3>3. QED
      BY <3>2 DEF u
  <2>5. ASSUME p \in fs'.present, m = fs'.mtime[p]
        PROVE  /\ \A q \in Entries(p) \cap fs'.present : Read(d, q)'
               /\ \A y \in FilesIn(d, x) : InTime(d, y)' /\ There(d.files[y].path)'
    <3>1. /\ p \in fs.present /\ SameIn(p) /\ fs.mtime[p] = fs'.mtime[p]
          /\ \A q \in Entries(p) \cap Files : fs'.mtime[q] = fs.mtime[q]
      BY <2>1, <2>3, <2>4, <2>5 DEF Changed
    <3>2. /\ \A q \in Entries(p) \cap fs.present : Read(d, q)
          /\ \A y \in FilesIn(d, x) : InTime(d, y) /\ There(d.files[y].path)
      BY <2>2, <2>5, <3>1 DEF DirectoryTrue, Fresh
    <3>3. Orderly /\ Orderly' /\ rewritten \subseteq rewritten'
      BY DEF IInv, Changed, FilesTrue
    <3>4. ASSUME NEW q \in Entries(p) \cap fs'.present PROVE Read(d, q)'
      <4>1. Read(d, q)
        BY <3>1, <3>2 DEF SameIn
      <4>2. QED
        BY <2>1, <3>1, <3>3, <4>1, SameEntry
    <3>5. ASSUME NEW y \in FilesIn(d, x) PROVE InTime(d, y)' /\ There(d.files[y].path)'
      <4> DEFINE q == d.files[y].path
      <4>1. q \in Entries(p) \cap Files
        BY HousedFacts DEF LibraryTrue
      <4>2. InTime(d, y) /\ There(q)
        BY <3>2
      <4>3. q \in fs'.present <=> q \in fs.present
        BY <3>1, <4>1 DEF SameIn
      <4>4. fs'.mtime[q] = fs.mtime[q]
        BY <3>1, <4>1
      <4>5. InTime(d, y)'
        BY <3>3, <4>2, <4>3, <4>4 DEF InTime
      <4> HIDE DEF q, p
      <4>6. There(q)'
        BY <2>1, <3>1, <3>3, <4>1, <4>2, SameThere DEF p
      <4>7. QED
        BY <4>5, <4>6 DEF q
    <3>6. QED
      BY <3>4, <3>5
  <2>6. QED
    BY <2>4, <2>5 DEF DirectoryTrue, Fresh
<1>3. Housed(d)
  BY DEF LibraryTrue
<1>4. QED
  BY <1>1, <1>2, <1>3 DEF LibraryTrue, Housed

(* And what is said of a call.                                             *)
LEMMA FrameChanged ==
  ASSUME IInv, FilesTrue, Changed, scanning, LibraryTrue(db),
         NEW d, d = db, NEW f \in FrameType, FrameSound(d, f), FrameTrue(d, f)
  PROVE  FrameTrue(d, f)'
<1> DEFINE p == f.path
           m == f.mtime
           x == f.id
<1>1. p \in Dirs /\ p \in Paths /\ m \in Nat
  BY FrameFields, TreeFacts
<1>2. x \in DOMAIN d.directories /\ d.directories[x].path = p /\ Sound(d) /\ Housed(d)
  BY DEF FrameSound, IInv, LibraryTrue
<1>3. m \in 1 .. fs.mtime[p] /\ d.directories[x].mtime <= m
  BY DEF FrameTrue
<1>4. fs.mtime[p] \in 1 .. changes + 1 /\ changes \in Nat
      /\ (fs'.mtime[p] = changes + 2 \/ fs'.mtime[p] = fs.mtime[p])
  BY <1>1 DEF FilesTrue, Changed
<1>5. m \in 1 .. fs'.mtime[p] /\ m # changes + 2
  <2> DEFINE t == fs.mtime[p]
             u == fs'.mtime[p]
  <2>1. t \in 1 .. changes + 1 /\ changes \in Nat /\ (u = changes + 2 \/ u = t) /\ m \in 1 .. t
    BY <1>3, <1>4
  <2> HIDE DEF t, u, m
  <2>2. m \in 1 .. u /\ m # changes + 2
    BY <2>1
  <2>3. QED
    BY <2>2 DEF u
<1>6. Orderly /\ Orderly' /\ rewritten \subseteq rewritten'
  BY DEF IInv, Changed, FilesTrue
<1>7. Steady(f)' => /\ Steady(f) /\ SameIn(p)
  BY <1>1, <1>4, <1>5 DEF Steady, Changed
<1>8. \A y \in Seen(d, f) : y \in FilesIn(d, x)
  BY DEF Seen
<1>9. Seen(d, f)' = Seen(d, f)
  BY DEF Seen
<1>10. ASSUME f.phase # "subs", NEW y \in Seen(d, f)
       PROVE  InTime(d, y)' /\ (Steady(f)' => There(d.files[y].path)')
  <2> DEFINE q == d.files[y].path
  <2>1. q \in Entries(p) \cap Files /\ Known(d, q) /\ q \in Paths
    BY <1>2, <1>8, <1>10, HousedFacts, FileFacts, TreeFacts
  <2>2. InTime(d, y) /\ (Steady(f) => There(q))
    BY <1>10 DEF FrameTrue
  <2>3. InTime(d, y)'
    <3>1. CASE fs'.mtime[q] = changes + 2
      <4>1. q \in rewritten'
        BY <2>1, <3>1 DEF Changed
      <4>2. QED
        BY <4>1 DEF InTime
    <3>2. CASE fs'.mtime[q] # changes + 2
      <4>1. fs'.mtime[q] = fs.mtime[q] /\ (q \in fs'.present => q \in fs.present)
        BY <2>1, <3>2 DEF Changed
      <4>2. QED
        BY <1>6, <2>2, <4>1 DEF InTime
    <3>3. QED
      BY <3>1, <3>2
  <2>4. ASSUME Steady(f)' PROVE There(q)'
    <3>1. There(q) /\ SameIn(p)
      BY <1>7, <2>2, <2>4
    <3> HIDE DEF q, p
    <3>2. QED
      BY <1>1, <1>6, <2>1, <3>1, SameThere
  <2>5. QED
    BY <2>3, <2>4
<1>11. ASSUME f.phase = "read", Steady(f)', NEW q \in (Entries(p) \cap fs'.present) \ f.todo
       PROVE  Read(d, q)'
  <2>1. SameIn(p) /\ Steady(f)
    BY <1>7, <1>11
  <2>2. Read(d, q)
    BY <1>11, <2>1 DEF FrameTrue, SameIn
  <2>3. QED
    BY <1>1, <1>6, <1>11, <2>1, <2>2, SameEntry
<1>12. /\ f.phase # "subs" => d.directories[x].mtime # m
       /\ f.phase = "files" => \A y \in Seen(d, f) : d.files[y].path \notin Sheets
  BY DEF FrameTrue
<1>13. QED
  BY <1>3, <1>5, <1>9, <1>10, <1>11, <1>12 DEF FrameTrue

-----------------------------------------------------------------------------
(* What the operations leave alone.                                        *)

(* The row of a file, its tracks and its images.                           *)
SameFile(d, e, y) ==
  /\ y \in DOMAIN d.files /\ y \in DOMAIN e.files /\ e.files[y] = d.files[y]
  /\ TracksOf(e, {y}) = TracksOf(d, {y}) /\ ImagesOf(e, {y}) = ImagesOf(d, {y})
  /\ \A t \in TracksOf(d, {y}) : e.tracks[t] = d.tracks[t]

(* Only files of T are touched, and only those of N are new.               *)
Touches(d, e, T, N) ==
  /\ Sound(e) /\ Housed(e) /\ AlbumNames(d, e)
  /\ \A y \in DOMAIN d.files : d.files[y].path \notin T => SameFile(d, e, y)
  /\ \A y \in DOMAIN e.files : \/ y \in DOMAIN d.files /\ e.files[y].path = d.files[y].path
                               \/ e.files[y].path \in N

(* No row of files goes, and new ones come behind them.                    *)
Grown(d, e) ==
  /\ e.directories = d.directories
  /\ \A x \in DOMAIN d.files :
       /\ x \in DOMAIN e.files /\ e.files[x].path = d.files[x].path
       /\ e.files[x].directory = d.files[x].directory
       /\ d.files[x].path \in Sheets => e.files[x].mtime = d.files[x].mtime
  /\ \A x \in DOMAIN e.files \ DOMAIN d.files :
       /\ \A y \in DOMAIN d.files : y < x
       /\ e.files[x].path \in Sheets => e.files[x].mtime = 0

(* These relations between tables hold over two operations if they hold    *)
(* over each.                                                              *)
LEMMA TouchesAgain ==
  ASSUME NEW d, NEW e, NEW g, NEW S, NEW M, NEW T, NEW N, NEW U, NEW O,
         Touches(d, e, S, M), Touches(e, g, T, N), S \cup T \subseteq U, M \cup N \subseteq O
  PROVE  Touches(d, g, U, O)
<1>1. AlbumNames(d, g)
  BY DEF Touches, AlbumNames
<1>2. ASSUME NEW y \in DOMAIN d.files, d.files[y].path \notin U PROVE SameFile(d, g, y)
  <2>1. SameFile(d, e, y)
    BY <1>2 DEF Touches
  <2>2. y \in DOMAIN e.files /\ e.files[y].path \notin T
    BY <1>2, <2>1 DEF SameFile
  <2>3. SameFile(e, g, y)
    BY <2>2 DEF Touches
  <2>4. QED
    BY <2>1, <2>3 DEF SameFile
<1>3. ASSUME NEW y \in DOMAIN g.files
      PROVE  \/ y \in DOMAIN d.files /\ g.files[y].path = d.files[y].path
             \/ g.files[y].path \in O
  BY DEF Touches
<1>4. QED
  BY <1>1, <1>2, <1>3 DEF Touches

LEMMA GrownAgain ==
  ASSUME NEW d, NEW e, NEW g, Sound(d), Sound(e), Sound(g), Grown(d, e), Grown(e, g)
  PROVE  Grown(d, g)
BY DEF Grown

LEMMA NamesAgain ==
  ASSUME NEW d, NEW e, NEW g, AlbumNames(d, e), AlbumNames(e, g)
  PROVE  AlbumNames(d, g)
BY DEF AlbumNames

(* Then albums and files keep their rowids.                                *)
LEMMA AlbumStays ==
  ASSUME NEW d, NEW e, Sound(d), Sound(e), AlbumNames(d, e), NEW n, AlbumId(d, n) # 0
  PROVE  AlbumId(e, n) = AlbumId(d, n) /\ AlbumId(e, n) # 0
<1> DEFINE a == AlbumId(d, n)
           b == AlbumId(e, n)
<1>1. d \in Database /\ e \in Database /\ AlbumsSound(e.albums)
  BY DEF Sound
<1>2. a \in DOMAIN d.albums /\ d.albums[a].name = n
  BY <1>1, IdOfAlbum
<1> HIDE DEF a
<1>3. a \in DOMAIN e.albums /\ e.albums[a].name = n
  BY <1>2 DEF AlbumNames
<1>4. b # 0
  BY <1>1, <1>3, IdOfAlbum
<1>5. b \in DOMAIN e.albums /\ e.albums[b].name = n
  BY <1>1, <1>4, IdOfAlbum
<1> HIDE DEF b
<1>6. b = a
  BY <1>1, <1>3, <1>5 DEF AlbumsSound
<1>7. QED
  BY <1>4, <1>6 DEF a, b

(* A row of an album has a name.                                           *)
LEMMA NoAlbum ==
  ASSUME NEW d, Sound(d), NEW n, n \notin Names
  PROVE  AlbumId(d, n) = 0
<1>1. d \in Database
  BY DEF Sound
<1>2. \A a \in DOMAIN d.albums : d.albums[a] \in AlbumType
  BY <1>1, DatabaseFields, TableElim
<1>3. \A a \in DOMAIN d.albums : d.albums[a].name # n
  BY <1>2 DEF AlbumType
<1>4. QED
  BY <1>1, <1>3, IdOfAlbum

(* The row found by its path.                                              *)
LEMMA IdIs ==
  ASSUME NEW d, Sound(d), NEW y \in DOMAIN d.files, NEW p, d.files[y].path = p
  PROVE  FileId(d, p) = y /\ Known(d, p)
BY FileFacts

(* A file that is not touched keeps its row, its tracks and its images.    *)
LEMMA FileStays ==
  ASSUME NEW d, NEW e, Sound(d), NEW T, NEW N, Touches(d, e, T, N), NEW p
  PROVE  /\ p \notin T /\ Known(d, p) =>
              /\ Known(e, p) /\ FileId(e, p) = FileId(d, p)
              /\ SameFile(d, e, FileId(d, p))
         /\ p \notin T \cup N => FileId(e, p) = FileId(d, p)
<1> DEFINE y == FileId(d, p)
<1>1. d \in Database /\ e \in Database /\ Sound(e)
  BY DEF Sound, Touches
<1>2. ASSUME p \notin T, Known(d, p)
      PROVE  Known(e, p) /\ FileId(e, p) = y /\ SameFile(d, e, y)
  <2>1. y \in DOMAIN d.files /\ d.files[y].path = p
    BY <1>1, <1>2, IdOfFile
  <2> HIDE DEF y
  <2>2. SameFile(d, e, y)
    BY <1>2, <2>1 DEF Touches
  <2>3. y \in DOMAIN e.files /\ e.files[y].path = p
    BY <2>1, <2>2 DEF SameFile
  <2>4. FileId(e, p) = y /\ Known(e, p)
    BY <1>1, <2>3, IdIs
  <2>5. QED
    BY <2>2, <2>4
<1>3. ASSUME p \notin T \cup N, ~Known(d, p)
      PROVE  FileId(e, p) = y
  <2>1. ~Known(e, p)
    BY <1>3 DEF Touches, Known
  <2>2. FileId(e, p) = 0 /\ FileId(d, p) = 0
    BY <1>1, <1>3, <2>1, IdOfFile
  <2>3. QED
    BY <2>2
<1>4. QED
  BY <1>2, <1>3

(* No track or image is one of a row that is not there.                    *)
LEMMA NoRow ==
  ASSUME NEW d, Sound(d), NEW y, y \notin DOMAIN d.files
  PROVE  TracksOf(d, {y}) = {} /\ ImagesOf(d, {y}) = {}
BY DEF TracksOf, ImagesOf, Sound, TracksSound, ImagesSound

-----------------------------------------------------------------------------
(* What the operations touch.                                              *)

(* What each operation of the library touches.                             *)
LEMMA FileTouches ==
  ASSUME NEW d, Sound(d), Housed(d), NEW p \in Files, NEW dir \in DOMAIN d.directories,
         d.directories[dir].path = Home[p], NEW e, e = File(d, p, dir)
  PROVE  /\ Touches(d, e, {}, {p}) /\ Grown(d, e) /\ Known(e, p)
         /\ e.tracks = d.tracks /\ e.images = d.images
         /\ TracksOf(e, {FileId(e, p)}) = TracksOf(d, {FileId(d, p)})
         /\ ImagesOf(e, {FileId(e, p)}) = ImagesOf(d, {FileId(d, p)})
<1>1. /\ Sound(e) /\ e.directories = d.directories /\ Known(e, p)
      /\ FileAdded(d, e, p, dir)
  BY FileKeeps DEF Kept
<1>2. Housed(e)
  BY <1>1 DEF Housed, FileAdded, Sound, FilesSound
<1>3. \A y \in DOMAIN d.files : SameFile(d, e, y)
  BY <1>1 DEF FileAdded, SameFile, TracksOf, ImagesOf
<1>4. \A y \in DOMAIN e.files : \/ y \in DOMAIN d.files /\ e.files[y].path = d.files[y].path
                                \/ e.files[y].path \in {p}
  BY <1>1 DEF FileAdded
<1>5. Touches(d, e, {}, {p})
  BY <1>1, <1>2, <1>3, <1>4 DEF Touches, FileAdded, AlbumNames
<1>6. Grown(d, e)
  BY <1>1 DEF Grown, FileAdded
<1>7. /\ TracksOf(e, {FileId(e, p)}) = TracksOf(d, {FileId(d, p)})
      /\ ImagesOf(e, {FileId(e, p)}) = ImagesOf(d, {FileId(d, p)})
  <2> DEFINE y == FileId(d, p)
             z == FileId(e, p)
  <2>1. CASE Known(d, p)
    <3>1. z = y /\ SameFile(d, e, y)
      BY <1>5, <2>1, FileStays
    <3> HIDE DEF y, z
    <3>2. QED
      BY <3>1 DEF SameFile, y, z
  <2>2. CASE ~Known(d, p)
    <3>1. y = 0 /\ 0 \notin DOMAIN d.files
      BY <2>2, IdOfFile, DatabaseFields, TableElim DEF Sound
    <3>2. z \in DOMAIN e.files /\ e.files[z].path = p
      BY <1>1, IdOfFile DEF Sound
    <3> HIDE DEF y, z
    <3>3. z \notin DOMAIN d.files
      BY <1>1, <2>2, <3>2 DEF FileAdded, Known
    <3>4. TracksOf(d, {y}) = {} /\ ImagesOf(d, {y}) = {} /\ TracksOf(d, {z}) = {} /\ ImagesOf(d, {z}) = {}
      BY <3>1, <3>3, NoRow
    <3>5. TracksOf(e, {z}) = TracksOf(d, {z}) /\ ImagesOf(e, {z}) = ImagesOf(d, {z})
      BY <1>1 DEF FileAdded, TracksOf, ImagesOf
    <3>6. QED
      BY <3>4, <3>5 DEF y, z
  <2>3. QED
    BY <2>1, <2>2
<1>8. QED
  BY <1>1, <1>5, <1>6, <1>7 DEF FileAdded

(* The rows of files are left alone.                                       *)
LEMMA SameRows ==
  ASSUME NEW d, Housed(d), NEW e, Sound(e), e.directories = d.directories, e.files = d.files
  PROVE  /\ Housed(e) /\ Grown(d, e)
         /\ \A y \in DOMAIN e.files : y \in DOMAIN d.files /\ e.files[y].path = d.files[y].path
         /\ \A p : FileId(e, p) = FileId(d, p) /\ (Known(e, p) <=> Known(d, p))
BY DEF Housed, Grown, FileId, Known

LEMMA AlbumTouches ==
  ASSUME NEW d, Sound(d), Housed(d), NEW n \in Names, NEW e, e = Album(d, n)
  PROVE  /\ Touches(d, e, {}, {}) /\ Grown(d, e) /\ AlbumId(e, n) # 0
         /\ e.files = d.files /\ e.tracks = d.tracks /\ e.images = d.images
<1>1. /\ Sound(e) /\ e.files = d.files /\ e.directories = d.directories
      /\ AlbumId(e, n) \in DOMAIN e.albums
      /\ e.tracks = d.tracks /\ e.images = d.images /\ AlbumNames(d, e)
  BY AlbumKeeps
<1>2. AlbumId(e, n) # 0
  BY <1>1, DatabaseFields, TableElim DEF Sound
<1>3. \A y \in DOMAIN d.files : SameFile(d, e, y)
  BY <1>1 DEF SameFile, TracksOf, ImagesOf
<1>4. QED
  BY <1>1, <1>2, <1>3, SameRows DEF Touches

(* The file of the row has one more track.                                 *)
TrackAdded(d, e, row) ==
  /\ \E t : /\ t \notin TracksOf(d, {row.file}) /\ e.tracks[t] = row
            /\ TracksOf(e, {row.file}) = TracksOf(d, {row.file}) \cup {t}
  /\ \A t \in TracksOf(d, {row.file}) : e.tracks[t] = d.tracks[t]

LEMMA TrackTouches ==
  ASSUME NEW d, Sound(d), Housed(d), NEW row \in TrackType,
         row.file \in DOMAIN d.files, row.album \in DOMAIN d.albums \cup {0},
         NEW e, e = WithTrack(d, row)
  PROVE  /\ Touches(d, e, {d.files[row.file].path}, {}) /\ Grown(d, e)
         /\ e.files = d.files /\ e.images = d.images /\ TrackAdded(d, e, row)
<1>1. /\ Sound(e) /\ e.files = d.files /\ e.directories = d.directories
      /\ e.images = d.images /\ AlbumNames(d, e) /\ RowAdded(d.tracks, e.tracks, row)
  BY TrackInserted
<1>2. PICK t : /\ t \notin DOMAIN d.tracks /\ DOMAIN e.tracks = DOMAIN d.tracks \cup {t}
               /\ e.tracks[t] = row /\ \A x \in DOMAIN d.tracks : e.tracks[x] = d.tracks[x]
  BY <1>1 DEF RowAdded
<1>3. ASSUME NEW y \in DOMAIN d.files, y # row.file PROVE SameFile(d, e, y)
  BY <1>1, <1>2, <1>3 DEF SameFile, TracksOf, ImagesOf
<1>4. Touches(d, e, {d.files[row.file].path}, {}) /\ Grown(d, e)
  BY <1>1, <1>3, SameRows DEF Touches
<1>5. /\ t \notin TracksOf(d, {row.file})
      /\ TracksOf(e, {row.file}) = TracksOf(d, {row.file}) \cup {t}
      /\ \A x \in TracksOf(d, {row.file}) : e.tracks[x] = d.tracks[x]
  BY <1>2 DEF TracksOf
<1>6. TrackAdded(d, e, row)
  BY <1>2, <1>5 DEF TrackAdded
<1>7. QED
  BY <1>1, <1>4, <1>6

SameIds(d, e) == \A p : FileId(e, p) = FileId(d, p) /\ (Known(e, p) <=> Known(d, p))
LEMMA MtimeTouches ==
  ASSUME NEW d, Sound(d), Housed(d), NEW f \in DOMAIN d.files, d.files[f].path \notin Sheets,
         NEW m \in Nat, NEW e, e = FileMtimeSet(d, f, m)
  PROVE  /\ Touches(d, e, {d.files[f].path}, {}) /\ Grown(d, e)
         /\ SameIds(d, e)
         /\ f \in DOMAIN e.files /\ e.files[f].path = d.files[f].path /\ e.files[f].mtime = m
         /\ e.albums = d.albums /\ e.tracks = d.tracks /\ e.images = d.images
<1>1. Sound(e) /\ e.directories = d.directories /\ MtimeSet(d, e, f, m)
  BY FileMtimeSetKeeps DEF Kept
<1>2. \A y \in DOMAIN d.files : /\ y \in DOMAIN e.files /\ e.files[y].path = d.files[y].path
                                /\ e.files[y].directory = d.files[y].directory
  BY <1>1 DEF MtimeSet
<1>3. DOMAIN e.files = DOMAIN d.files
  BY <1>1 DEF MtimeSet
<1>4. ASSUME NEW y \in DOMAIN d.files, d.files[y].path # d.files[f].path
      PROVE  SameFile(d, e, y)
  BY <1>1, <1>4 DEF MtimeSet, SameFile, TracksOf, ImagesOf
<1>5. Housed(e)
  BY <1>1, <1>2, <1>3 DEF Housed
<1>6. Grown(d, e)
  BY <1>1, <1>2, <1>3 DEF Grown, MtimeSet
<1>7. Touches(d, e, {d.files[f].path}, {})
  BY <1>1, <1>2, <1>3, <1>4, <1>5 DEF Touches, MtimeSet, AlbumNames
<1>8. ASSUME NEW p PROVE FileId(e, p) = FileId(d, p) /\ (Known(e, p) <=> Known(d, p))
  <2>1. {y \in DOMAIN e.files : e.files[y].path = p} = {y \in DOMAIN d.files : d.files[y].path = p}
    BY <1>2, <1>3
  <2>2. QED
    BY <1>2, <1>3, <2>1 DEF FileId, Known
<1>9. QED
  BY <1>1, <1>6, <1>7, <1>8 DEF MtimeSet, SameIds

LEMMA ClearTouches ==
  ASSUME NEW d, Sound(d), Housed(d), NEW x \in DOMAIN d.files, NEW e, e = FileClear(d, {x})
  PROVE  /\ Touches(d, e, {d.files[x].path}, {}) /\ Grown(d, e) /\ e.files = d.files
         /\ TracksOf(e, {x}) = {} /\ ImagesOf(e, {x}) = {}
<1>1. /\ Sound(e) /\ e.files = d.files /\ e.directories = d.directories
      /\ \A t \in DOMAIN e.tracks : e.tracks[t].file \notin {x}
      /\ \A i \in DOMAIN e.images : e.images[i].file \notin {x}
      /\ Cleared(d, e, {x})
  BY FileClearKeeps
<1>2. ASSUME NEW y \in DOMAIN d.files, d.files[y].path # d.files[x].path
      PROVE  SameFile(d, e, y)
  <2>1. y # x
    BY <1>2
  <2>2. /\ \A t \in DOMAIN d.tracks : d.tracks[t].file = y => t \in DOMAIN e.tracks
        /\ \A t \in DOMAIN e.tracks : t \in DOMAIN d.tracks /\ e.tracks[t] = d.tracks[t]
        /\ \A i \in DOMAIN d.images : d.images[i].file = y => i \in DOMAIN e.images
        /\ \A i \in DOMAIN e.images : i \in DOMAIN d.images /\ e.images[i] = d.images[i]
    BY <1>1, <2>1 DEF Cleared, TracksOf, ImagesOf
  <2>3. TracksOf(e, {y}) = TracksOf(d, {y}) /\ \A t \in TracksOf(d, {y}) : e.tracks[t] = d.tracks[t]
    BY <2>2 DEF TracksOf
  <2>4. ImagesOf(e, {y}) = ImagesOf(d, {y})
    BY <2>2 DEF ImagesOf
  <2>5. QED
    BY <1>1, <2>3, <2>4 DEF SameFile
<1>3. Housed(e) /\ Grown(d, e)
  BY <1>1, SameRows
<1>4. Touches(d, e, {d.files[x].path}, {})
  BY <1>1, <1>2, <1>3 DEF Touches, Cleared
<1>5. TracksOf(e, {x}) = {} /\ ImagesOf(e, {x}) = {}
  BY <1>1 DEF TracksOf, ImagesOf
<1>6. QED
  BY <1>1, <1>3, <1>4, <1>5

(* Rows of files go, and those of directories with them.                   *)
LEMMA LeftTouches ==
  ASSUME NEW d, Sound(d), Housed(d), NEW e, Sound(e), NEW S, FilesLeft(d, e, S),
         \A x \in DOMAIN e.directories : e.directories[x] = d.directories[x]
  PROVE  Touches(d, e, {d.files[x].path : x \in DOMAIN d.files \cap S}, {})
<1> DEFINE T == {d.files[x].path : x \in DOMAIN d.files \cap S}
<1>1. Housed(e)
  BY DEF Housed, FilesLeft, Sound, FilesSound
<1>2. ASSUME NEW y \in DOMAIN d.files, d.files[y].path \notin T
      PROVE  SameFile(d, e, y)
  <2>1. y \notin S
    BY <1>2
  <2>2. QED
    BY <2>1 DEF FilesLeft, Cleared, SameFile, TracksOf, ImagesOf
<1>3. QED
  BY <1>1, <1>2 DEF Touches, FilesLeft, Cleared

(* library_track_add gives its file one more track.                        *)
TrackDone(d, e, p, n, c) ==
  /\ \E t : /\ t \notin TracksOf(d, {FileId(d, p)})
            /\ TracksOf(e, {FileId(e, p)}) = TracksOf(d, {FileId(d, p)}) \cup {t}
            /\ e.tracks[t].album = IF n \in Names THEN AlbumId(e, n) ELSE 0
            /\ e.tracks[t].cue = IF c = NoSheet THEN 0 ELSE FileId(e, c)
  /\ \A t \in TracksOf(d, {FileId(d, p)}) : e.tracks[t] = d.tracks[t]
  /\ Known(d, p) => /\ FileId(e, p) = FileId(d, p)
                    /\ e.files[FileId(e, p)] = d.files[FileId(d, p)]

(* A track touches its file, and may make rows of it and of its sheet.     *)
LEMMA TrackAddTouches ==
  ASSUME NEW d, Sound(d), Housed(d), NEW p \in Files, NEW dir \in DOMAIN d.directories,
         d.directories[dir].path = Home[p], NEW n,
         NEW c \in Sheets \cup {NoSheet}, c # NoSheet => Home[c] = Home[p],
         NEW e, e = TrackAdd(d, p, dir, n, c)
  PROVE  /\ Touches(d, e, {p}, {p, c}) /\ Grown(d, e) /\ Known(e, p)
         /\ c # NoSheet => Known(e, c)
         /\ n \in Names => AlbumId(e, n) # 0
         /\ TrackDone(d, e, p, n, c)
<1> DEFINE d0 == File(d, p, dir)
           d1 == IF c = NoSheet THEN d0 ELSE File(d0, c, dir)
           d2 == IF n \in Names THEN Album(d1, n) ELSE d1
           row == TrackRow(d2, p, n, c)
<1>0. d2 = TrackRows(d, p, dir, n, c)
  BY DEF TrackRows
<1>1. /\ Touches(d, d0, {}, {p}) /\ Grown(d, d0) /\ Known(d0, p) /\ d0.tracks = d.tracks
      /\ TracksOf(d0, {FileId(d0, p)}) = TracksOf(d, {FileId(d, p)})
  BY FileTouches
<1>2. /\ dir \in DOMAIN d0.directories /\ d0.directories[dir].path = Home[p]
      /\ Sound(d0) /\ Housed(d0)
  BY <1>1 DEF Grown, Touches
<1> HIDE DEF d0
<1>3. /\ Touches(d0, d1, {}, {p, c}) /\ Grown(d0, d1) /\ (c # NoSheet => Known(d1, c))
      /\ d1.tracks = d0.tracks
  <2>1. CASE c = NoSheet
    <3>1. d1 = d0
      BY <2>1
    <3>2. \A y \in DOMAIN d0.files : SameFile(d0, d0, y)
      BY DEF SameFile
    <3>3. Touches(d0, d0, {}, {p, c})
      BY <1>2, <3>2 DEF Touches, AlbumNames
    <3>4. Grown(d0, d0)
      BY DEF Grown
    <3>5. QED
      BY <2>1, <3>1, <3>3, <3>4
  <2>2. CASE c # NoSheet
    <3>1. c \in Files /\ Home[c] = Home[p] /\ d1 = File(d0, c, dir)
      BY <2>2 DEF Files
    <3> HIDE DEF d1
    <3>2. Touches(d0, d1, {}, {c}) /\ Grown(d0, d1) /\ Known(d1, c) /\ d1.tracks = d0.tracks
      BY <1>2, <3>1, FileTouches
    <3>3. Touches(d0, d1, {}, {p, c})
      BY <3>2 DEF Touches
    <3>4. QED
      BY <3>2, <3>3
  <2>3. QED
    BY <2>1, <2>2
<1>4. Sound(d1) /\ Housed(d1)
  BY <1>3 DEF Touches
<1> HIDE DEF d1
<1>5. /\ Touches(d1, d2, {}, {}) /\ Grown(d1, d2) /\ d2.files = d1.files /\ d2.tracks = d1.tracks
      /\ n \in Names => AlbumId(d2, n) # 0
  <2>1. CASE n \in Names
    <3>1. d2 = Album(d1, n)
      BY <2>1
    <3> HIDE DEF d2
    <3>2. QED
      BY <1>4, <2>1, <3>1, AlbumTouches
  <2>2. CASE n \notin Names
    <3>1. d2 = d1
      BY <2>2
    <3>2. \A y \in DOMAIN d1.files : SameFile(d1, d1, y)
      BY DEF SameFile
    <3>3. Touches(d1, d1, {}, {})
      BY <1>4, <3>2 DEF Touches, AlbumNames
    <3>4. Grown(d1, d1)
      BY DEF Grown
    <3>5. QED
      BY <2>2, <3>1, <3>3, <3>4
  <2>3. QED
    BY <2>1, <2>2
<1> HIDE DEF d2
<1>6. /\ Touches(d, d2, {}, {p, c}) /\ Grown(d, d2) /\ Touches(d0, d2, {}, {p, c})
      /\ Sound(d2) /\ Housed(d2)
  <2>1. Sound(d2) /\ Housed(d2)
    BY <1>5 DEF Touches
  <2>2. Touches(d0, d2, {}, {p, c})
    BY <1>3, <1>5, TouchesAgain
  <2>3. Touches(d, d2, {}, {p, c})
    BY <1>1, <2>2, TouchesAgain
  <2>4. Grown(d, d1)
    BY <1>1, <1>2, <1>3, <1>4, GrownAgain
  <2>5. Grown(d, d2)
    BY <1>4, <1>5, <2>1, <2>4, GrownAgain
  <2>6. QED
    BY <2>1, <2>2, <2>3, <2>5
<1>7. /\ Known(d2, p) /\ FileId(d2, p) = FileId(d0, p)
      /\ SameFile(d0, d2, FileId(d0, p))
  BY <1>1, <1>2, <1>6, FileStays
<1>8. TracksOf(d2, {FileId(d2, p)}) = TracksOf(d, {FileId(d, p)}) /\ d2.tracks = d.tracks
  BY <1>1, <1>3, <1>5, <1>7 DEF SameFile
<1>9. c # NoSheet => Known(d2, c)
  BY <1>3, <1>5 DEF Known
<1>10. Known(d, p) => FileId(d2, p) = FileId(d, p) /\ d2.files[FileId(d2, p)] = d.files[FileId(d, p)]
  <2>1. Known(d, p) => FileId(d2, p) = FileId(d, p) /\ SameFile(d, d2, FileId(d, p))
    BY <1>6, FileStays
  <2>2. QED
    BY <2>1 DEF SameFile
<1> DEFINE f == FileId(d2, p)
           a == IF n \in Names THEN AlbumId(d2, n) ELSE 0
           u == IF c = NoSheet THEN 0 ELSE FileId(d2, c)
<1>11. row = [file |-> f, album |-> a, cue |-> u]
  BY DEF TrackRow
<1>12. /\ f \in DOMAIN d2.files /\ d2.files[f].path = p /\ f \in Nat \ {0}
       /\ a \in DOMAIN d2.albums \cup {0} /\ a \in Nat /\ u \in Nat
  <2>1. d2 \in Database
    BY <1>6 DEF Sound
  <2>2. DOMAIN d2.files \subseteq Nat \ {0} /\ DOMAIN d2.albums \subseteq Nat
    BY <2>1, DatabaseFields, TableElim
  <2>3. f \in DOMAIN d2.files /\ d2.files[f].path = p
    BY <1>7, <2>1, IdOfFile
  <2>4. u \in Nat
    BY <1>9, <2>1, <2>2, IdOfFile
  <2>5. a \in DOMAIN d2.albums \cup {0}
    BY <1>5, <2>1, IdOfAlbum
  <2>6. QED
    BY <2>2, <2>3, <2>4, <2>5
<1>13. e = WithTrack(d2, row)
  BY <1>0 DEF TrackAdd, WithTrack
<1> HIDE DEF row
<1>14. f = FileId(d2, p) /\ a = (IF n \in Names THEN AlbumId(d2, n) ELSE 0)
       /\ u = (IF c = NoSheet THEN 0 ELSE FileId(d2, c))
  OBVIOUS
<1> HIDE DEF f, a, u
<1>15. row \in TrackType /\ row.file = f /\ row.album = a /\ row.cue = u
  BY <1>11, <1>12 DEF TrackType
<1>16. /\ Touches(d2, e, {p}, {}) /\ Grown(d2, e) /\ e.files = d2.files
       /\ \E t : /\ t \notin TracksOf(d2, {f}) /\ e.tracks[t] = row
                 /\ TracksOf(e, {f}) = TracksOf(d2, {f}) \cup {t}
       /\ \A t \in TracksOf(d2, {f}) : e.tracks[t] = d2.tracks[t]
  <2>1. /\ row.file \in DOMAIN d2.files /\ row.album \in DOMAIN d2.albums \cup {0}
        /\ d2.files[row.file].path = p /\ row \in TrackType /\ Sound(d2) /\ Housed(d2)
    BY <1>6, <1>12, <1>15
  <2>2. /\ Touches(d2, e, {d2.files[row.file].path}, {}) /\ Grown(d2, e) /\ e.files = d2.files
        /\ TrackAdded(d2, e, row)
    BY <1>13, <2>1, TrackTouches
  <2>3. QED
    BY <1>15, <2>1, <2>2 DEF TrackAdded
<1>17. Sound(e) /\ AlbumNames(d2, e)
  BY <1>16 DEF Touches
<1>18. Touches(d, e, {p}, {p, c})
  BY <1>6, <1>16, TouchesAgain
<1>19. Grown(d, e)
  BY <1>6, <1>16, <1>17, GrownAgain
<1>20. n \in Names => AlbumId(e, n) = AlbumId(d2, n) /\ AlbumId(e, n) # 0
  BY <1>5, <1>6, <1>17, AlbumStays
<1>21. /\ \A q : FileId(e, q) = FileId(d2, q)
       /\ Known(e, p) /\ (c # NoSheet => Known(e, c))
  BY <1>7, <1>9, <1>16 DEF FileId, Known
<1>22. a = (IF n \in Names THEN AlbumId(e, n) ELSE 0) /\ u = (IF c = NoSheet THEN 0 ELSE FileId(e, c))
  BY <1>14, <1>20, <1>21
<1>23. TracksOf(e, {FileId(e, p)}) = TracksOf(e, {f}) /\ TracksOf(d2, {f}) = TracksOf(d, {FileId(d, p)})
  BY <1>8, <1>14, <1>21
<1>24. \A t \in TracksOf(d, {FileId(d, p)}) : e.tracks[t] = d.tracks[t]
  BY <1>8, <1>16, <1>23
<1>25. \E t : /\ t \notin TracksOf(d, {FileId(d, p)})
              /\ TracksOf(e, {FileId(e, p)}) = TracksOf(d, {FileId(d, p)}) \cup {t}
              /\ e.tracks[t].album = a /\ e.tracks[t].cue = u
  BY <1>15, <1>16, <1>23
<1>26. Known(d, p) => /\ FileId(e, p) = FileId(d, p)
                      /\ e.files[FileId(e, p)] = d.files[FileId(d, p)]
  BY <1>10, <1>16, <1>21
<1>27. TrackDone(d, e, p, n, c)
  BY <1>22, <1>24, <1>25, <1>26 DEF TrackDone
<1>28. QED
  BY <1>18, <1>19, <1>20, <1>21, <1>27

-----------------------------------------------------------------------------
(* What reading a sheet touches.                                           *)

(* The file is cleared or added.                                           *)
LEMMA RowCleared ==
  ASSUME NEW d, Sound(d), Housed(d), NEW a \in Files, NEW dir \in DOMAIN d.directories,
         d.directories[dir].path = Home[a],
         NEW e, e = IF FileId(d, a) # 0 THEN FileClear(d, {FileId(d, a)}) ELSE File(d, a, dir)
  PROVE  /\ Touches(d, e, {a}, {a}) /\ Grown(d, e) /\ Known(e, a)
         /\ TracksOf(e, {FileId(e, a)}) = {}
<1> DEFINE known == FileId(d, a)
<1>1. d \in Database
  BY DEF Sound
<1>2. CASE known # 0
  <2>1. known \in DOMAIN d.files /\ d.files[known].path = a
    BY <1>1, <1>2, IdOfFile
  <2>2. e = FileClear(d, {known})
    BY <1>2
  <2> HIDE DEF known
  <2>3. /\ Touches(d, e, {a}, {}) /\ Grown(d, e) /\ e.files = d.files
        /\ TracksOf(e, {known}) = {}
    BY <2>1, <2>2, ClearTouches
  <2>4. Sound(e) /\ e.files[known].path = a /\ known \in DOMAIN e.files
    BY <2>1, <2>3 DEF Touches
  <2>5. FileId(e, a) = known /\ Known(e, a)
    BY <2>4, IdIs
  <2>6. Touches(d, e, {a}, {a})
    BY <2>3 DEF Touches
  <2>7. QED
    BY <2>3, <2>5, <2>6
<1>3. CASE known = 0
  <2>1. e = File(d, a, dir) /\ 0 \notin DOMAIN d.files
    BY <1>1, <1>3, DatabaseFields, TableElim
  <2>2. /\ Touches(d, e, {}, {a}) /\ Grown(d, e) /\ Known(e, a)
        /\ TracksOf(e, {FileId(e, a)}) = TracksOf(d, {FileId(d, a)})
    BY <2>1, FileTouches
  <2>3. TracksOf(d, {0}) = {}
    BY <2>1, NoRow
  <2>4. Touches(d, e, {a}, {a})
    BY <2>2 DEF Touches
  <2>5. QED
    BY <1>3, <2>2, <2>3, <2>4
<1>4. QED
  BY <1>2, <1>3

(* The file it names is given a time then.                                 *)
LEMMA CueFileTouches ==
  ASSUME Orderly, NEW d, Sound(d), Housed(d), NEW s \in Sheets, Found(s),
         NEW a, a = fs.tag[s], NEW dir \in DOMAIN d.directories,
         d.directories[dir].path = Home[a], NEW e, e = CueFile(d, s, dir)
  PROVE  /\ Touches(d, e, {a}, {a}) /\ Grown(d, e) /\ Known(e, a)
         /\ TracksOf(e, {FileId(e, a)}) = {}
         /\ e.files[FileId(e, a)].mtime = Dated(s)
<1> DEFINE known == FileId(d, a)
           d1 == IF known # 0 THEN FileClear(d, {known}) ELSE File(d, a, dir)
           x == FileId(d1, a)
           m == Dated(s)
<1>1. e = FileMtimeSet(d1, x, m)
  BY DEF CueFile
<1>2. a \in Files /\ a \notin Sheets
  BY FoundNames, LibraryScanAssumption
<1>3. m \in Nat
  <2>1. (m = fs.mtime[Base[a]] /\ Base[a] \in fs.present) \/ m = fs.mtime[a]
    BY DEF Dated
  <2>2. fs.present \subseteq Paths /\ a \in Paths
    BY <1>2 DEF SystemType, Paths
  <2>3. QED
    BY <2>1, <2>2, PathTimes
<1> HIDE DEF m
<1>4. d \in Database
  BY DEF Sound
<1>5. /\ Touches(d, d1, {a}, {a}) /\ Grown(d, d1) /\ Known(d1, a)
      /\ TracksOf(d1, {x}) = {}
  <2>1. d1 = IF FileId(d, a) # 0 THEN FileClear(d, {FileId(d, a)}) ELSE File(d, a, dir)
    OBVIOUS
  <2> HIDE DEF d1
  <2>2. QED
    BY <1>2, <2>1, RowCleared
<1> HIDE DEF d1
<1>6. Sound(d1) /\ Housed(d1)
  BY <1>5 DEF Touches
<1>7. x \in DOMAIN d1.files /\ d1.files[x].path = a
  BY <1>5, <1>6, IdOfFile DEF Sound
<1>8. x = FileId(d1, a)
  OBVIOUS
<1> HIDE DEF x
<1>9. /\ Touches(d1, e, {a}, {}) /\ Grown(d1, e)
      /\ FileId(e, a) = FileId(d1, a) /\ (Known(e, a) <=> Known(d1, a))
      /\ e.files[x].mtime = m /\ e.tracks = d1.tracks
  <2>1. d1.files[x].path \notin Sheets
    BY <1>2, <1>7
  <2>2. /\ Touches(d1, e, {d1.files[x].path}, {}) /\ Grown(d1, e)
        /\ SameIds(d1, e)
        /\ e.files[x].mtime = m /\ e.tracks = d1.tracks
    <3>1. Sound(d1) /\ Housed(d1) /\ x \in DOMAIN d1.files /\ m \in Nat /\ e = FileMtimeSet(d1, x, m)
      BY <1>1, <1>3, <1>6, <1>7
    <3>2. QED
      BY <2>1, <3>1, MtimeTouches, SMTT(60)
  <2>3. QED
    BY <1>7, <2>2 DEF SameIds
<1>10. Sound(e)
  BY <1>9 DEF Touches
<1>11. Touches(d, e, {a}, {a})
  BY <1>5, <1>9, TouchesAgain
<1>12. Grown(d, e)
  BY <1>5, <1>6, <1>9, <1>10, GrownAgain
<1>13. TracksOf(e, {FileId(e, a)}) = {}
  BY <1>5, <1>8, <1>9 DEF TracksOf
<1>14. e.files[FileId(e, a)].mtime = Dated(s)
  BY <1>8, <1>9 DEF m
<1>15. QED
  BY <1>5, <1>9, <1>11, <1>12, <1>13, <1>14

(* After k tracks of the sheet s.                                          *)
CuesAdded(d, g, s, k) ==
  LET a == fs.tag[s]
      tracks == TracksOf(g, {FileId(g, a)})
  IN /\ Touches(d, g, {a}, {a, s}) /\ Grown(d, g) /\ Known(g, a)
     /\ g.files[FileId(g, a)].mtime = Dated(s)
     /\ IsFiniteSet(tracks) /\ Cardinality(tracks) = k
     /\ \A t \in tracks : /\ g.tracks[t].cue = FileId(g, s)
                          /\ g.tracks[t].album = AlbumId(g, SheetAlbum)
     /\ k # 0 => Known(g, s) /\ AlbumId(g, SheetAlbum) # 0

(* One more track of the sheet.                                            *)
LEMMA CueTrackAdded ==
  ASSUME Orderly, NEW d, Sound(d), NEW s \in Sheets, Found(s), NEW k \in Nat,
         NEW dir \in DOMAIN d.directories, d.directories[dir].path = Home[s],
         NEW g, CuesAdded(d, g, s, k)
  PROVE  CuesAdded(d, TrackAdd(g, fs.tag[s], dir, SheetAlbum, s), s, k + 1)
<1> DEFINE a == fs.tag[s]
           h == TrackAdd(g, a, dir, SheetAlbum, s)
           y == FileId(g, a)
           z == FileId(h, a)
           b == AlbumId(h, SheetAlbum)
           c == FileId(h, s)
<1>1. a \in Files /\ a \notin Sheets /\ s \in Files /\ s # a /\ Home[s] = Home[a]
  BY FoundNames, LibraryScanAssumption DEF Files
<1>2. SheetAlbum \in Names /\ NoSheet \notin Paths /\ s \in Paths
  BY <1>1, LibraryScanAssumption DEF Paths
<1>3. /\ Touches(d, g, {a}, {a, s}) /\ Grown(d, g) /\ Known(g, a)
      /\ g.files[y].mtime = Dated(s)
      /\ IsFiniteSet(TracksOf(g, {y})) /\ Cardinality(TracksOf(g, {y})) = k
      /\ \A t \in TracksOf(g, {y}) : /\ g.tracks[t].cue = FileId(g, s)
                                     /\ g.tracks[t].album = AlbumId(g, SheetAlbum)
      /\ k # 0 => Known(g, s) /\ AlbumId(g, SheetAlbum) # 0
  BY DEF CuesAdded
<1>4. /\ Sound(g) /\ Housed(g) /\ g.directories = d.directories
  BY <1>3 DEF Touches, Grown
<1> HIDE DEF a
<1>5. h = TrackAdd(g, a, dir, SheetAlbum, s)
  OBVIOUS
<1> HIDE DEF h
<1>6. /\ Touches(g, h, {a}, {a, s}) /\ Grown(g, h) /\ Known(h, a)
      /\ s # NoSheet => Known(h, s)
      /\ SheetAlbum \in Names => AlbumId(h, SheetAlbum) # 0
      /\ TrackDone(g, h, a, SheetAlbum, s)
  <2>1. s # NoSheet => Home[s] = Home[a]
    BY <1>1
  <2>2. s \in Sheets \cup {NoSheet} /\ dir \in DOMAIN g.directories /\ g.directories[dir].path = Home[a]
    BY <1>1, <1>4
  <2>3. QED
    BY <1>1, <1>4, <1>5, <2>1, <2>2, TrackAddTouches
<1>7. Sound(h) /\ AlbumNames(g, h)
  BY <1>6 DEF Touches
<1>8. /\ Known(h, s) /\ b # 0 /\ z = y /\ h.files[z].mtime = Dated(s)
      /\ \A t \in TracksOf(g, {y}) : h.tracks[t] = g.tracks[t]
  BY <1>2, <1>3, <1>6 DEF TrackDone
<1>9. PICK t : /\ t \notin TracksOf(g, {y}) /\ TracksOf(h, {z}) = TracksOf(g, {y}) \cup {t}
               /\ h.tracks[t].album = b /\ h.tracks[t].cue = c
  BY <1>2, <1>6 DEF TrackDone
<1>10. Touches(d, h, {a}, {a, s})
  BY <1>3, <1>6, TouchesAgain
<1>11. Grown(d, h)
  BY <1>3, <1>4, <1>6, <1>7, GrownAgain
<1>12. k # 0 => FileId(h, s) = FileId(g, s) /\ AlbumId(h, SheetAlbum) = AlbumId(g, SheetAlbum)
  BY <1>1, <1>3, <1>4, <1>6, <1>7, FileStays, AlbumStays, SMTT(30)
<1>13. k = 0 => TracksOf(g, {y}) = {}
  BY <1>3, FS_EmptySet
<1> DEFINE ts == TracksOf(g, {y})
           us == TracksOf(h, {z})
<1>14. us = ts \cup {t} /\ t \notin ts /\ IsFiniteSet(ts) /\ Cardinality(ts) = k
  BY <1>3, <1>9
<1>15. \A v \in us : /\ h.tracks[v].cue = c /\ h.tracks[v].album = b
  <2>1. \A v \in ts : /\ h.tracks[v] = g.tracks[v]
                      /\ g.tracks[v].cue = FileId(g, s)
                      /\ g.tracks[v].album = AlbumId(g, SheetAlbum)
    BY <1>3, <1>8
  <2>2. ts # {} => k # 0
    BY <1>13
  <2> HIDE DEF ts, us
  <2>3. QED
    BY <1>9, <1>12, <1>14, <2>1, <2>2
<1> HIDE DEF ts, us
<1>16. IsFiniteSet(us) /\ Cardinality(us) = k + 1
  BY <1>14, FS_AddElement
<1>17. QED
  BY <1>6, <1>8, <1>10, <1>11, <1>15, <1>16 DEF CuesAdded, us, a, h

(* Reading a sheet gives its file the tracks of the sheet, and no others.  *)
LEMMA CueReadTouches ==
  ASSUME Orderly, NEW d, Sound(d), Housed(d), NEW given \in Sheets, Leads(given),
         NEW s, s = Preferred(given), fs.tag[fs.tag[s]] # Broken,
         NEW dir \in DOMAIN d.directories, d.directories[dir].path = Home[given]
  PROVE  CuesAdded(d, CueRead(d, given, dir), s, SheetTracks)
<1> DEFINE a == fs.tag[s]
           e == CueRead(d, given, dir)
<1>1. s \in Sheets /\ Found(s) /\ Home[s] = Home[given]
  BY PreferredIsGood DEF PreferredGood
<1>2. PICK added : CueSteps(d, s, dir, added) /\ e = added[SheetTracks]
  <2>1. s = IF Found(given) THEN Preferred(given) ELSE given
    BY DEF Leads
  <2>2. QED
    BY <1>1, <2>1, CueReadSteps
<1>3. Home[a] = Home[s]
  BY <1>1, FoundNames
<1>4. SheetTracks \in Nat
  BY LibraryScanAssumption
<1> HIDE DEF a, e
<1>5. a = fs.tag[s]
  BY DEF a
<1> DEFINE Good(k) == CuesAdded(d, added[k], s, k)
<1>6. Good(0)
  <2> DEFINE b == CueFile(d, s, dir)
  <2>1. added[0] = b
    BY <1>2, <1>4 DEF CueSteps
  <2>2. b = CueFile(d, s, dir)
    OBVIOUS
  <2> HIDE DEF b
  <2>3. /\ Touches(d, b, {a}, {a}) /\ Grown(d, b) /\ Known(b, a)
        /\ TracksOf(b, {FileId(b, a)}) = {}
        /\ b.files[FileId(b, a)].mtime = Dated(s)
    BY <1>1, <1>3, <1>5, <2>2, CueFileTouches
  <2>4. Touches(d, b, {a}, {a, s})
    BY <2>3 DEF Touches
  <2>5. CuesAdded(d, b, s, 0)
    BY <1>5, <2>3, <2>4, FS_EmptySet DEF CuesAdded
  <2>6. QED
    BY <2>1, <2>5
<1>7. ASSUME NEW k \in 0 .. SheetTracks, k # 0, Good(k - 1)
      PROVE  Good(k)
  <2> DEFINE j == k - 1
             g == added[j]
  <2>1. j \in Nat /\ j \in 0 .. SheetTracks /\ k = j + 1
    BY <1>4, <1>7
  <2>2. added[k] = TrackAdd(g, fs.tag[s], dir, SheetAlbum, s)
    BY <1>2, <1>7 DEF CueSteps
  <2>3. CuesAdded(d, g, s, j)
    BY <1>7
  <2> HIDE DEF j, g
  <2>4. CuesAdded(d, TrackAdd(g, fs.tag[s], dir, SheetAlbum, s), s, j + 1)
    BY <1>1, <2>1, <2>3, CueTrackAdded
  <2>5. QED
    BY <2>1, <2>2, <2>4
<1> HIDE DEF Good
<1>8. ASSUME NEW n \in 0 .. SheetTracks, ~Good(n)
      PROVE  FALSE
  <2> DEFINE C == {k \in 0 .. SheetTracks : ~Good(k)}
  <2>1. C \in SUBSET Nat /\ C # {}
    BY <1>4, <1>8
  <2>2. PICK k \in C : \A j \in C : k <= j
    BY <2>1, HasLeast
  <2>3. k # 0
    BY <1>6, <2>2
  <2>4. k \in 0 .. SheetTracks /\ k - 1 \in 0 .. SheetTracks /\ k - 1 \notin C
    BY <1>4, <2>2, <2>3
  <2>5. QED
    BY <1>7, <2>2, <2>3, <2>4
<1>9. Good(SheetTracks)
  BY <1>4, <1>8
<1>10. QED
  BY <1>2, <1>9 DEF Good, e

-----------------------------------------------------------------------------
(* What reading a file touches.                                            *)

ImageDone(d, e, p) ==
  /\ TracksOf(e, {FileId(e, p)}) = TracksOf(d, {FileId(d, p)})
  /\ \E i : /\ i \notin ImagesOf(d, {FileId(d, p)})
            /\ ImagesOf(e, {FileId(e, p)}) = ImagesOf(d, {FileId(d, p)}) \cup {i}

(* An image touches its file.                                              *)
LEMMA ImageAddTouches ==
  ASSUME NEW d, Sound(d), Housed(d), NEW p \in Images, NEW dir \in DOMAIN d.directories,
         d.directories[dir].path = Home[p], NEW e, e = ImageAdd(d, p, dir)
  PROVE  /\ Touches(d, e, {p}, {p}) /\ Grown(d, e) /\ Known(e, p) /\ ImageDone(d, e, p)
<1> DEFINE d1 == File(d, p, dir)
           f == FileId(d1, p)
           row == [file |-> f, album |-> 0]
           im == Insert(d1.images, row)
           n == NewId(d1.images)
<1>1. p \in Files /\ e = [d1 EXCEPT !.images = im] /\ Sound(e)
  BY ImageAddKeeps DEF ImageAdd, Files
<1>2. d1 = File(d, p, dir)
  OBVIOUS
<1> HIDE DEF d1
<1>3. /\ Touches(d, d1, {}, {p}) /\ Grown(d, d1) /\ Known(d1, p)
      /\ TracksOf(d1, {FileId(d1, p)}) = TracksOf(d, {FileId(d, p)})
      /\ ImagesOf(d1, {FileId(d1, p)}) = ImagesOf(d, {FileId(d, p)})
  BY <1>1, <1>2, FileTouches
<1>4. Sound(d1) /\ Housed(d1)
  BY <1>3 DEF Touches
<1>5. f \in DOMAIN d1.files /\ d1.files[f].path = p /\ f \in Nat \ {0}
  BY <1>3, <1>4, IdOfFile, DatabaseFields, TableElim DEF Sound
<1>6. f = FileId(d1, p)
  OBVIOUS
<1> HIDE DEF f
<1>7. /\ DOMAIN im = DOMAIN d1.images \cup {n} /\ n \notin DOMAIN d1.images
      /\ \A i \in DOMAIN d1.images : im[i] = d1.images[i]
      /\ im[n] = row
  <2> DEFINE t == d1.images
  <2>1. t \in Table(ImageType) /\ row \in ImageType
    BY <1>4, <1>5, DatabaseFields DEF Sound, ImageType
  <2> HIDE DEF t, row
  <2>2. /\ Insert(t, row) \in Table(ImageType)
        /\ DOMAIN Insert(t, row) = DOMAIN t \cup {NewId(t)}
        /\ \A id \in DOMAIN t : Insert(t, row)[id] = t[id]
        /\ Insert(t, row)[NewId(t)] = row
        /\ NewId(t) \notin DOMAIN t /\ NewId(t) # 0
    BY <2>1, Inserted
  <2>3. QED
    BY <2>2 DEF t
<1>8. row.file = f
  OBVIOUS
<1> HIDE DEF im, n, row
<1>9. /\ e.files = d1.files /\ e.directories = d1.directories
      /\ e.albums = d1.albums /\ e.tracks = d1.tracks /\ e.images = im
  BY <1>1, <1>4 DEF Sound, Database
<1>10. ASSUME NEW y \in DOMAIN d1.files, d1.files[y].path # p PROVE SameFile(d1, e, y)
  <2>1. y # f
    BY <1>5, <1>10
  <2>2. ImagesOf(e, {y}) = ImagesOf(d1, {y})
    BY <1>7, <1>8, <1>9, <2>1 DEF ImagesOf
  <2>3. TracksOf(e, {y}) = TracksOf(d1, {y})
    BY <1>9 DEF TracksOf
  <2>4. QED
    BY <1>9, <2>2, <2>3 DEF SameFile
<1>11. Touches(d1, e, {p}, {}) /\ Grown(d1, e)
  BY <1>1, <1>4, <1>9, <1>10, SameRows DEF Touches, AlbumNames
<1>12. Touches(d, e, {p}, {p})
  BY <1>3, <1>11, TouchesAgain
<1>13. Grown(d, e)
  BY <1>1, <1>3, <1>4, <1>11, GrownAgain
<1>14. FileId(e, p) = f /\ Known(e, p)
  BY <1>3, <1>6, <1>9 DEF FileId, Known
<1>15. n \notin ImagesOf(d1, {f}) /\ ImagesOf(e, {f}) = ImagesOf(d1, {f}) \cup {n}
  BY <1>7, <1>8, <1>9 DEF ImagesOf
<1>16. ImageDone(d, e, p)
  BY <1>3, <1>6, <1>9, <1>14, <1>15 DEF ImageDone, TracksOf
<1>17. QED
  BY <1>12, <1>13, <1>14, <1>16

(* The time a sheet gives its file is that of the file, unless the file is *)
(* among those that are given another one.                                 *)
LEMMA DatedIs ==
  ASSUME Orderly, FilesTrue, NEW given \in Sheets, Leads(given),
         NEW s, s = Preferred(given), NEW a, a = fs.tag[s]
  PROVE  /\ Dated(s) \in Nat /\ Dated(s) <= changes + 1
         /\ a \notin rewritten => Dated(s) = fs.mtime[a]
<1> DEFINE base == Base[a]
<1>1. s \in Sheets /\ Found(s) /\ a \in Audio /\ base \in Sheets \cup {NoSheet}
  BY PreferredIsGood, FoundNames DEF PreferredGood
<1>2. NoSheet \notin fs.present /\ fs.present \subseteq Paths /\ a \in fs.present /\ changes \in Nat
  BY <1>1, LibraryScanAssumption DEF SystemType, Found
<1>3. Dated(s) = IF base # s /\ base \in fs.present THEN fs.mtime[base] ELSE fs.mtime[a]
  BY DEF Dated
<1>4. Instead(s) = s
  BY DEF FilesTrue, NoCircle, Leads
<1>5. base \in Sheets /\ Taken(base) => base = s
  BY <1>1, <1>4 DEF Instead
<1>6. \A p \in Paths : fs.mtime[p] \in Nat /\ fs.mtime[p] <= changes + 1
  BY <1>2 DEF FilesTrue
<1> HIDE DEF base
<1>7. Dated(s) \in Nat /\ Dated(s) <= changes + 1
  BY <1>2, <1>3, <1>6
<1>8. ASSUME Dated(s) # fs.mtime[a] PROVE a \in rewritten
  <2>1. base # s /\ base \in fs.present /\ base \in Sheets
    BY <1>1, <1>2, <1>3, <1>8
  <2>2. ~Taken(base)
    BY <1>5, <2>1
  <2>3. a \in Misdated
    BY <1>1, <2>1, <2>2 DEF Misdated, base
  <2>4. QED
    BY <2>3 DEF FilesTrue
<1>9. QED
  BY <1>7, <1>8

(* A file without anything to read in it.                                  *)
Nothing(p) == IF p \in Sheets THEN ~Leads(p) \/ fs.tag[fs.tag[Preferred(p)]] = Broken
              ELSE fs.tag[p] = Broken

(* The row of a is what reading p gives, that of the sheet s comes with it.*)
Scanned(d, e, p, a, s) ==
  /\ a \in fs.present \cap (Audio \cup Images) /\ Home[a] = Home[p] /\ fs.tag[a] # Broken
  /\ s \in Files /\ Home[s] = Home[p]
  /\ Touches(d, e, {a}, {a, s}) /\ Grown(d, e) /\ Known(e, a)
  /\ FileTrue(e, FileId(e, a)) /\ InTime(e, FileId(e, a))
  /\ IF p \in Sheets
     THEN /\ Leads(p) /\ s = Preferred(p) /\ a = fs.tag[s] /\ Known(e, s)
          /\ SheetsTracks(e, FileId(e, a), {FileId(e, s)})
     ELSE a = p /\ s = p
ScanDone(d, e, p) == (Nothing(p) /\ e = d) \/ (\E a, s : Scanned(d, e, p, a, s))

(* What scan_file does to a file: a cue sheet.                             *)
LEMMA SheetScanned ==
  ASSUME Orderly, FilesTrue, NEW d, Sound(d), Housed(d), NEW p \in Sheets, p \in fs.present,
         NEW dir \in DOMAIN d.directories, d.directories[dir].path = Home[p],
         NEW e, e = ScanFile(d, p, dir)
  PROVE  ScanDone(d, e, p)
<1> DEFINE s == Preferred(p)
           a == fs.tag[s]
<1>1. e = CueRead(d, p, dir)
  BY DEF ScanFile
<1>2. CASE Nothing(p)
  <2>1. ~Leads(p) \/ fs.tag[fs.tag[s]] = Broken
    BY <1>2 DEF Nothing
  <2>2. e = d
    BY <1>1, <2>1 DEF CueRead, Leads
  <2>3. QED
    BY <1>2, <2>2 DEF ScanDone
<1>3. CASE ~Nothing(p)
  <2>1. Leads(p) /\ fs.tag[fs.tag[s]] # Broken
    BY <1>3 DEF Nothing
  <2>2. s \in Sheets /\ Found(s) /\ Home[s] = Home[p] /\ a \in Audio /\ Home[a] = Home[s]
    BY <2>1, PreferredIsGood DEF PreferredGood
  <2>3. CuesAdded(d, CueRead(d, p, dir), s, SheetTracks)
    BY <2>1, CueReadTouches
  <2>4. /\ Dated(s) \in Nat /\ Dated(s) <= changes + 1
        /\ a \notin rewritten => Dated(s) = fs.mtime[a]
    BY <2>1, DatedIs
  <2>5. s = Preferred(p) /\ a = fs.tag[s]
    OBVIOUS
  <2> HIDE DEF s, a
  <2> DEFINE y == FileId(e, a)
             c == FileId(e, s)
             ts == TracksOf(e, {y})
  <2>6. /\ Touches(d, e, {a}, {a, s}) /\ Grown(d, e) /\ Known(e, a)
        /\ e.files[y].mtime = Dated(s)
        /\ IsFiniteSet(ts) /\ Cardinality(ts) = SheetTracks
        /\ \A t \in ts : e.tracks[t].cue = c /\ e.tracks[t].album = AlbumId(e, SheetAlbum)
        /\ SheetTracks # 0 => Known(e, s) /\ AlbumId(e, SheetAlbum) # 0
    BY <1>1, <2>3, <2>5 DEF CuesAdded
  <2>7. SheetTracks # 0
    BY LibraryScanAssumption
  <2>8. Sound(e) /\ e \in Database
    BY <2>6 DEF Touches, Sound
  <2>9. /\ y \in DOMAIN e.files /\ e.files[y].path = a
        /\ c \in DOMAIN e.files /\ c # 0
    BY <2>6, <2>7, <2>8, IdOfFile
  <2>10. ts # {}
    BY <2>6, <2>7, FS_EmptySet
  <2>11. SheetsTracks(e, y, {c})
    BY <2>6, <2>7 DEF SheetsTracks, FromSheet
  <2>12. c \in PastCues(e, y)
    BY <2>6, <2>9, <2>10 DEF PastCues
  <2>13. SheetsTracks(e, y, PastCues(e, y))
    BY <2>11, <2>12 DEF SheetsTracks, FromSheet
  <2>14. a \in fs.present /\ a \notin Sheets /\ a \notin Images /\ fs.tag[a] # Broken
    BY <2>1, <2>2, <2>5, LibraryScanAssumption DEF Found
  <2>15. Contained(e, y)
    BY <2>9, <2>13, <2>14 DEF Contained
  <2>16. FileTrue(e, y)
    BY <2>4, <2>6, <2>9, <2>10, <2>14, <2>15 DEF FileTrue
  <2>17. InTime(e, y)
    BY <2>4, <2>6, <2>9 DEF InTime
  <2>18. s \in Files
    BY <2>2 DEF Files
  <2>19. Scanned(d, e, p, a, s)
    BY <2>1, <2>2, <2>5, <2>6, <2>7, <2>11, <2>14, <2>16, <2>17, <2>18 DEF Scanned
  <2>20. QED
    BY <2>19 DEF ScanDone
<1>4. QED
  BY <1>2, <1>3

(* A file of music or an image with something to read in it.               *)
Blank(d, y) == TracksOf(d, {y}) = {} /\ ImagesOf(d, {y}) = {}

(* A file of music, if its row has no tracks or is one that is excepted.   *)
LEMMA TrackScanned ==
  ASSUME Orderly, FilesTrue, NEW d, Sound(d), Housed(d), NEW p \in Audio,
         fs.tag[p] # Broken, p \in rewritten \/ Blank(d, FileId(d, p)),
         NEW dir \in DOMAIN d.directories, d.directories[dir].path = Home[p],
         NEW e, e = TrackAdd(d, p, dir, fs.tag[p], NoSheet)
  PROVE  /\ Touches(d, e, {p}, {p}) /\ Grown(d, e) /\ Known(e, p)
         /\ TracksOf(e, {FileId(e, p)}) # {}
         /\ p \notin rewritten => OwnTracks(e, FileId(e, p))
<1> DEFINE n == fs.tag[p]
           y == FileId(e, p)
<1>1. p \in Files /\ NoSheet \notin Files
  BY LibraryScanAssumption DEF Files, Paths
<1>2. n = fs.tag[p]
  OBVIOUS
<1> HIDE DEF n
<1>3. /\ Touches(d, e, {p}, {p, NoSheet}) /\ Grown(d, e) /\ Known(e, p)
      /\ n \in Names => AlbumId(e, n) # 0
      /\ TrackDone(d, e, p, n, NoSheet)
  <2>1. NoSheet \in Sheets \cup {NoSheet} /\ (NoSheet # NoSheet => Home[NoSheet] = Home[p])
    OBVIOUS
  <2>2. e = TrackAdd(d, p, dir, n, NoSheet)
    BY <1>2
  <2> DEFINE c == NoSheet
  <2>3. c \in Sheets \cup {NoSheet} /\ (c # NoSheet => Home[c] = Home[p]) /\ e = TrackAdd(d, p, dir, n, c)
    BY <2>1, <2>2
  <2> HIDE DEF c
  <2>4. /\ Touches(d, e, {p}, {p, c}) /\ Grown(d, e) /\ Known(e, p)
        /\ n \in Names => AlbumId(e, n) # 0
        /\ TrackDone(d, e, p, n, c)
    BY <1>1, <2>3, TrackAddTouches
  <2>5. QED
    BY <2>4 DEF c
<1>4. Sound(e) /\ e \in Database
  BY <1>3 DEF Touches, Sound
<1>5. Touches(d, e, {p}, {p})
  <2>1. \A x \in DOMAIN e.files : e.files[x].path # NoSheet
    BY <1>1, <1>4, FileFacts
  <2>2. QED
    BY <1>3, <2>1 DEF Touches
<1>6. PICK t : /\ t \notin TracksOf(d, {FileId(d, p)})
               /\ TracksOf(e, {y}) = TracksOf(d, {FileId(d, p)}) \cup {t}
               /\ e.tracks[t].album = IF n \in Names THEN AlbumId(e, n) ELSE 0
               /\ e.tracks[t].cue = 0
  BY <1>3 DEF TrackDone
<1>7. y \in DOMAIN e.files /\ e.files[y].path = p
  BY <1>3, <1>4, IdOfFile
<1>8. TracksOf(e, {y}) # {}
  BY <1>6
<1> HIDE DEF y
<1>9. ASSUME p \notin rewritten PROVE OwnTracks(e, y)
  <2>1. TracksOf(e, {y}) = {t}
    BY <1>6, <1>9 DEF Blank
  <2>2. e.tracks[t].album = AlbumId(e, n)
    BY <1>4, <1>6, NoAlbum
  <2>3. Cardinality({t}) = 1
    BY FS_Singleton
  <2>4. OwnTrack(e, y, {t})
    BY <1>2, <1>6, <1>7, <2>2, <2>3 DEF OwnTrack
  <2>5. QED
    BY <1>2, <1>3, <1>7, <2>1, <2>4 DEF OwnTracks
<1>10. QED
  BY <1>3, <1>5, <1>8, <1>9 DEF y

(* A file of music or an image.                                            *)
LEMMA PlainScanned ==
  ASSUME Orderly, FilesTrue, NEW d, Sound(d), Housed(d), NEW p \in Audio \cup Images,
         p \in fs.present, p \in rewritten \/ Blank(d, FileId(d, p)),
         NEW dir \in DOMAIN d.directories, d.directories[dir].path = Home[p],
         NEW e, e = ScanFile(d, p, dir)
  PROVE  ScanDone(d, e, p)
<1> DEFINE d1 == IF p \in Images THEN ImageAdd(d, p, dir)
                 ELSE TrackAdd(d, p, dir, fs.tag[p], NoSheet)
           x == FileId(d1, p)
           m == fs.mtime[p]
<1>1. /\ p \notin Sheets /\ p \in Files /\ p \in Paths
      /\ p \in Audio <=> p \notin Images
  BY LibraryScanAssumption DEF Files, Paths
<1>2. e = IF fs.tag[p] = Broken THEN d ELSE FileMtimeSet(d1, x, m)
  BY <1>1 DEF ScanFile
<1>3. m \in Nat /\ m <= changes + 1 /\ changes \in Nat
  BY <1>1, PathTimes DEF FilesTrue, SystemType
<1>4. CASE fs.tag[p] = Broken
  BY <1>1, <1>2, <1>4 DEF ScanDone, Nothing
<1>5. CASE fs.tag[p] # Broken
  <2>1. /\ Touches(d, d1, {p}, {p}) /\ Grown(d, d1) /\ Known(d1, p)
        /\ p \in Audio => /\ TracksOf(d1, {x}) # {}
                          /\ p \notin rewritten => OwnTracks(d1, x)
        /\ p \in Images => /\ ImagesOf(d1, {x}) # {}
                           /\ p \notin rewritten => Cardinality(ImagesOf(d1, {x})) = 1
    <3>1. CASE p \in Images
      <4>1. d1 = ImageAdd(d, p, dir)
        BY <3>1
      <4> HIDE DEF d1
      <4>2. Touches(d, d1, {p}, {p}) /\ Grown(d, d1) /\ Known(d1, p) /\ ImageDone(d, d1, p)
        BY <3>1, <4>1, ImageAddTouches
      <4>3. PICK i : ImagesOf(d1, {x}) = ImagesOf(d, {FileId(d, p)}) \cup {i}
        BY <4>2 DEF ImageDone
      <4>4. p \notin rewritten => ImagesOf(d1, {x}) = {i}
        BY <4>3 DEF Blank
      <4>5. Cardinality({i}) = 1
        BY FS_Singleton
      <4>6. QED
        BY <1>1, <3>1, <4>2, <4>3, <4>4, <4>5
    <3>2. CASE p \notin Images
      <4>1. d1 = TrackAdd(d, p, dir, fs.tag[p], NoSheet) /\ p \in Audio
        BY <1>1, <3>2
      <4> HIDE DEF d1
      <4>2. QED
        BY <1>5, <3>2, <4>1, TrackScanned
    <3>3. QED
      BY <3>1, <3>2
  <2> HIDE DEF d1
  <2>2. Sound(d1) /\ Housed(d1)
    BY <2>1 DEF Touches
  <2>3. x \in DOMAIN d1.files /\ d1.files[x].path = p
    BY <2>1, <2>2, IdOfFile DEF Sound
  <2>4. x = FileId(d1, p)
    OBVIOUS
  <2> HIDE DEF x, m
  <2>5. e = FileMtimeSet(d1, x, m)
    BY <1>2, <1>5
  <2>6. /\ Touches(d1, e, {p}, {}) /\ Grown(d1, e)
        /\ FileId(e, p) = x /\ Known(e, p)
        /\ x \in DOMAIN e.files /\ e.files[x].path = p /\ e.files[x].mtime = m
        /\ e.albums = d1.albums /\ e.tracks = d1.tracks /\ e.images = d1.images
    <3>1. d1.files[x].path \notin Sheets /\ m \in Nat /\ x \in DOMAIN d1.files
      BY <1>1, <1>3, <2>3
    <3>2. /\ Touches(d1, e, {d1.files[x].path}, {}) /\ Grown(d1, e) /\ SameIds(d1, e)
          /\ x \in DOMAIN e.files /\ e.files[x].path = d1.files[x].path /\ e.files[x].mtime = m
          /\ e.albums = d1.albums /\ e.tracks = d1.tracks /\ e.images = d1.images
      BY <2>2, <2>5, <3>1, MtimeTouches
    <3>3. QED
      BY <2>1, <2>3, <2>4, <3>2 DEF SameIds
  <2>7. Sound(e)
    BY <2>6 DEF Touches
  <2>8. Touches(d, e, {p}, {p})
    BY <2>1, <2>6, TouchesAgain
  <2>9. Grown(d, e)
    BY <2>1, <2>2, <2>6, <2>7, GrownAgain
  <2>10. TracksOf(e, {x}) = TracksOf(d1, {x}) /\ ImagesOf(e, {x}) = ImagesOf(d1, {x})
    BY <2>6 DEF TracksOf, ImagesOf
  <2>11. p \in Audio /\ p \notin rewritten => OwnTracks(e, x)
    <3>1. p \in Audio /\ p \notin rewritten => OwnTracks(d1, x)
      BY <2>1
    <3>2. \A n : AlbumId(e, n) = AlbumId(d1, n)
      BY <2>6 DEF AlbumId
    <3>3. QED
      BY <2>3, <2>6, <2>10, <3>1, <3>2 DEF OwnTracks, OwnTrack
  <2>12. p \notin rewritten => Contained(e, x)
    BY <1>1, <2>1, <2>6, <2>10, <2>11 DEF Contained
  <2>13. FileTrue(e, x)
    BY <1>1, <1>3, <1>5, <2>1, <2>6, <2>10, <2>12 DEF FileTrue
  <2>14. InTime(e, x)
    BY <2>6 DEF InTime, m
  <2>15. Touches(d, e, {p}, {p, p})
    BY <2>8
  <2>16. Scanned(d, e, p, p, p)
    BY <1>1, <1>5, <2>6, <2>9, <2>13, <2>14, <2>15 DEF Scanned
  <2>17. QED
    BY <2>16 DEF ScanDone
<1>6. QED
  BY <1>4, <1>5

(* Any file.                                                               *)
LEMMA FileScanned ==
  ASSUME Orderly, FilesTrue, NEW d, Sound(d), Housed(d), NEW p \in Files,
         p \in fs.present, p \in rewritten \cup Sheets \/ Blank(d, FileId(d, p)),
         NEW dir \in DOMAIN d.directories, d.directories[dir].path = Home[p],
         NEW e, e = ScanFile(d, p, dir)
  PROVE  ScanDone(d, e, p)
<1>1. CASE p \in Sheets
  BY <1>1, SheetScanned
<1>2. CASE p \notin Sheets
  <2>1. p \in Audio \cup Images /\ (p \in rewritten \/ Blank(d, FileId(d, p)))
    BY <1>2 DEF Files
  <2>2. QED
    BY <2>1, PlainScanned
<1>3. QED
  BY <1>1, <1>2

-----------------------------------------------------------------------------
(* What stays true.                                                        *)

(* What is said of a row that is not touched stays true: of its tracks.    *)
LEMMA OwnStays ==
  ASSUME Orderly, NEW d, NEW e, Sound(d), Sound(e), AlbumNames(d, e), NEW y, SameFile(d, e, y),
         OwnTracks(d, y)
  PROVE  OwnTracks(e, y)
<1> DEFINE n == fs.tag[d.files[y].path]
<1>1. /\ e.files[y] = d.files[y] /\ TracksOf(e, {y}) = TracksOf(d, {y})
      /\ \A t \in TracksOf(d, {y}) : e.tracks[t] = d.tracks[t]
  BY DEF SameFile
<1>2. OwnTrack(d, y, TracksOf(d, {y})) /\ (n \in Names => AlbumId(d, n) # 0)
  BY DEF OwnTracks
<1>3. n = fs.tag[d.files[y].path] /\ n = fs.tag[e.files[y].path]
  BY <1>1
<1> HIDE DEF n
<1>4. AlbumId(e, n) = AlbumId(d, n)
  <2>1. CASE n \in Names
    BY <1>2, <2>1, AlbumStays
  <2>2. CASE n \notin Names
    BY <2>2, NoAlbum
  <2>3. QED
    BY <2>1, <2>2
<1>5. OwnTrack(e, y, TracksOf(e, {y}))
  BY <1>1, <1>2, <1>3, <1>4 DEF OwnTrack
<1>6. QED
  BY <1>2, <1>3, <1>4, <1>5 DEF OwnTracks

LEMMA SheetsStay ==
  ASSUME NEW d, NEW e, Sound(d), Sound(e), AlbumNames(d, e), NEW y, SameFile(d, e, y),
         NEW cues, SheetsTracks(d, y, cues)
  PROVE  SheetsTracks(e, y, cues)
<1>1. /\ TracksOf(e, {y}) = TracksOf(d, {y})
      /\ \A t \in TracksOf(d, {y}) : e.tracks[t] = d.tracks[t]
  BY DEF SameFile
<1>2. FromSheet(d, TracksOf(d, {y}), cues) /\ AlbumId(d, SheetAlbum) # 0
  BY DEF SheetsTracks
<1>3. AlbumId(e, SheetAlbum) = AlbumId(d, SheetAlbum)
  BY <1>2, AlbumStays
<1>4. FromSheet(e, TracksOf(e, {y}), cues)
  BY <1>1, <1>2, <1>3 DEF FromSheet
<1>5. QED
  BY <1>2, <1>3, <1>4 DEF SheetsTracks

(* And all that is said of the row.                                        *)
LEMMA FileTrueStays ==
  ASSUME Orderly, NEW d, NEW e, Sound(d), Sound(e), AlbumNames(d, e), NEW y, SameFile(d, e, y),
         FileTrue(d, y)
  PROVE  FileTrue(e, y)
<1>1. /\ e.files[y] = d.files[y] /\ TracksOf(e, {y}) = TracksOf(d, {y})
      /\ ImagesOf(e, {y}) = ImagesOf(d, {y})
      /\ \A t \in TracksOf(d, {y}) : e.tracks[t] = d.tracks[t]
  BY DEF SameFile
<1>2. PastCues(e, y) = PastCues(d, y)
  BY <1>1 DEF PastCues
<1>3. OwnTracks(d, y) => OwnTracks(e, y)
  BY OwnStays
<1>4. SheetsTracks(d, y, PastCues(d, y)) => SheetsTracks(e, y, PastCues(d, y))
  BY SheetsStay
<1>5. Contained(d, y) => Contained(e, y)
  BY <1>1, <1>2, <1>3, <1>4 DEF Contained
<1>6. QED
  BY <1>1, <1>5 DEF FileTrue

(* Nothing in the directory p is touched.                                  *)
Apart(d, e, p) ==
  /\ Sound(d) /\ Sound(e) /\ Housed(d) /\ Housed(e) /\ AlbumNames(d, e)
  /\ \A y \in DOMAIN d.files : d.files[y].path \in Entries(p) => SameFile(d, e, y)
  /\ \A y \in DOMAIN e.files : e.files[y].path \in Entries(p) => SameFile(d, e, y)
  /\ \A q \in Entries(p) \cap fs.present : q \in Dirs /\ DirectoryKnown(d, q) => DirectoryKnown(e, q)

(* Two libraries are the same apart from the directory p if what was       *)
(* touched is no entry of p.                                               *)
LEMMA TouchesApart ==
  ASSUME NEW d, NEW e, Sound(d), Housed(d), NEW T, NEW N, Touches(d, e, T, N),
         NEW p, Entries(p) \cap (T \cup N) = {},
         \A q \in Entries(p) \cap fs.present : q \in Dirs /\ DirectoryKnown(d, q) => DirectoryKnown(e, q)
  PROVE  Apart(d, e, p)
<1>1. ASSUME NEW y \in DOMAIN d.files, d.files[y].path \in Entries(p) PROVE SameFile(d, e, y)
  BY <1>1 DEF Touches
<1>2. ASSUME NEW y \in DOMAIN e.files, e.files[y].path \in Entries(p) PROVE SameFile(d, e, y)
  BY <1>2 DEF Touches
<1>3. QED
  BY <1>1, <1>2 DEF Apart, Touches

(* Then the entries of p keep their rows.                                  *)
LEMMA ApartIds ==
  ASSUME NEW d, NEW e, NEW p, Apart(d, e, p), NEW q \in Entries(p)
  PROVE  /\ FileId(e, q) = FileId(d, q) /\ (Known(e, q) <=> Known(d, q))
         /\ Known(d, q) => SameFile(d, e, FileId(d, q))
<1> DEFINE y == FileId(d, q)
           z == FileId(e, q)
<1>1. d \in Database /\ e \in Database /\ Sound(d) /\ Sound(e)
  BY DEF Apart, Sound
<1>2. CASE Known(d, q)
  <2>1. y \in DOMAIN d.files /\ d.files[y].path = q
    BY <1>1, <1>2, IdOfFile
  <2> HIDE DEF y
  <2>2. SameFile(d, e, y)
    BY <2>1 DEF Apart
  <2>3. y \in DOMAIN e.files /\ e.files[y].path = q
    BY <2>1, <2>2 DEF SameFile
  <2>4. FileId(e, q) = y /\ Known(e, q)
    BY <1>1, <2>3, IdIs
  <2>5. QED
    BY <1>2, <2>2, <2>4 DEF y
<1>3. CASE ~Known(d, q)
  <2>1. ~Known(e, q)
    <3>1. SUFFICES ASSUME Known(e, q) PROVE FALSE
      OBVIOUS
    <3>2. z \in DOMAIN e.files /\ e.files[z].path = q
      BY <1>1, <3>1, IdOfFile
    <3> HIDE DEF z
    <3>3. SameFile(d, e, z)
      BY <3>2 DEF Apart
    <3>4. QED
      BY <1>3, <3>2, <3>3 DEF SameFile, Known
  <2>2. z = 0 /\ y = 0
    BY <1>1, <1>3, <2>1, IdOfFile
  <2>3. QED
    BY <1>3, <2>1, <2>2
<1>4. QED
  BY <1>2, <1>3

LEMMA CuesApart ==
  ASSUME Orderly, NEW d, NEW e, NEW p, Apart(d, e, p), NEW a, Home[a] = p
  PROVE  Cues(e, a) = Cues(d, a)
<1>1. ASSUME NEW c \in Counting, fs.tag[c] = a PROVE FileId(e, c) = FileId(d, c)
  <2>1. c \in Sheets /\ Home[c] = p
    BY <1>1, CountingIs, FoundNames
  <2>2. c \in Entries(p)
    BY <2>1, FilesAreEntries DEF Files
  <2>3. QED
    BY <2>2, ApartIds
<1>2. QED
  BY <1>1 DEF Cues

(* An entry that was read stays one that was read.                         *)
LEMMA ReadApart ==
  ASSUME Orderly, NEW d, NEW e, NEW p, Apart(d, e, p),
         NEW q \in Entries(p) \cap fs.present, Read(d, q)
  PROVE  Read(e, q)
<1>1. q \in Dirs => DirectoryKnown(e, q)
  BY DEF Read, Apart
<1>2. q \in Audio \cup Images /\ fs.tag[q] # Broken => Known(e, q)
  BY ApartIds DEF Read
<1>3. ASSUME q \in Sheets PROVE SheetRead(e, q)
  <2> DEFINE a == fs.tag[Preferred(q)]
  <2>1. SUFFICES ASSUME Leads(q), a \notin rewritten, fs.tag[a] # Broken
                 PROVE  Known(e, a) /\ SheetsTracks(e, FileId(e, a), Cues(e, a))
    BY DEF SheetRead
  <2>2. Home[q] = p /\ Home[a] = Home[q] /\ a \in Audio
    BY <1>3, <2>1, PreferredIsGood DEF PreferredGood, Entries
  <2>3. Known(d, a) /\ SheetsTracks(d, FileId(d, a), Cues(d, a))
    BY <1>3, <2>1 DEF Read, SheetRead
  <2> HIDE DEF a
  <2>4. a \in Entries(p)
    BY <2>2, FilesAreEntries DEF Files
  <2>5. /\ FileId(e, a) = FileId(d, a) /\ Known(e, a)
        /\ SameFile(d, e, FileId(d, a))
    BY <2>3, <2>4, ApartIds
  <2>6. Cues(e, a) = Cues(d, a)
    BY <2>2, CuesApart
  <2> DEFINE y == FileId(d, a)
             cues == Cues(d, a)
  <2>7. SheetsTracks(d, y, cues) /\ SameFile(d, e, y)
    BY <2>3, <2>5
  <2> HIDE DEF y, cues
  <2>8. SheetsTracks(e, y, cues)
    BY <2>7, SheetsStay DEF Apart
  <2>9. QED
    BY <2>5, <2>6, <2>8 DEF y, cues
<1>4. QED
  BY <1>1, <1>2, <1>3 DEF Read

(* The directory keeps its files.                                          *)
LEMMA FilesApart ==
  ASSUME NEW d, NEW e, NEW p, Apart(d, e, p), NEW x \in DOMAIN d.directories, x \in DOMAIN e.directories,
         d.directories[x].path = p, e.directories[x].path = p
  PROVE  FilesIn(e, x) = FilesIn(d, x) /\ \A y \in FilesIn(d, x) : e.files[y] = d.files[y]
<1>1. Sound(d) /\ Sound(e) /\ Housed(d) /\ Housed(e)
  BY DEF Apart
<1>2. ASSUME NEW y \in FilesIn(d, x) PROVE y \in FilesIn(e, x) /\ e.files[y] = d.files[y]
  <2>1. y \in DOMAIN d.files /\ d.files[y].directory = x /\ d.files[y].path \in Entries(p)
    BY <1>1, HousedFacts
  <2>2. SameFile(d, e, y)
    BY <2>1 DEF Apart
  <2>3. QED
    BY <2>1, <2>2 DEF SameFile, FilesIn
<1>3. ASSUME NEW y \in FilesIn(e, x) PROVE y \in FilesIn(d, x)
  <2>1. y \in DOMAIN e.files /\ e.files[y].directory = x /\ e.files[y].path \in Entries(p)
    BY <1>1, HousedFacts
  <2>2. SameFile(d, e, y)
    BY <2>1 DEF Apart
  <2>3. QED
    BY <2>1, <2>2 DEF SameFile, FilesIn
<1>4. QED
  BY <1>2, <1>3

(* And what is said of it stays true.                                      *)
LEMMA DirectoryApart ==
  ASSUME Orderly, NEW d, NEW e, NEW x \in DOMAIN d.directories, x \in DOMAIN e.directories,
         Apart(d, e, d.directories[x].path), e.directories[x].path = d.directories[x].path,
         e.directories[x].mtime = d.directories[x].mtime, DirectoryTrue(d, x)
  PROVE  DirectoryTrue(e, x)
<1> DEFINE p == d.directories[x].path
<1>1. FilesIn(e, x) = FilesIn(d, x) /\ \A y \in FilesIn(d, x) : e.files[y] = d.files[y]
  BY FilesApart
<1>2. \A q \in Entries(p) \cap fs.present : Read(d, q) => Read(e, q)
  BY ReadApart
<1>3. Fresh(e, x) <=> Fresh(d, x)
  BY DEF Fresh
<1>4. QED
  BY <1>1, <1>2, <1>3 DEF DirectoryTrue, InTime

(* And what is said of a call on it.                                       *)
LEMMA FrameApart ==
  ASSUME Orderly, NEW d, NEW e, NEW f, FrameSound(d, f), f.id \in DOMAIN e.directories,
         Apart(d, e, f.path), e.directories[f.id] = d.directories[f.id], FrameTrue(d, f)
  PROVE  FrameTrue(e, f)
<1> DEFINE x == f.id
           p == f.path
<1>1. x \in DOMAIN d.directories /\ d.directories[x].path = p
  BY DEF FrameSound
<1>2. FilesIn(e, x) = FilesIn(d, x) /\ \A y \in FilesIn(d, x) : e.files[y] = d.files[y]
  BY <1>1, FilesApart
<1>3. \A q \in Entries(p) \cap fs.present : Read(d, q) => Read(e, q)
  BY ReadApart
<1>4. Seen(e, f) = Seen(d, f) /\ Seen(d, f) \subseteq FilesIn(d, x)
  BY <1>2 DEF Seen
<1>5. QED
  BY <1>2, <1>3, <1>4 DEF FrameTrue, InTime

-----------------------------------------------------------------------------
(* What a file that is read leaves true.                                   *)

LEMMA SameAll ==
  ASSUME NEW d, Sound(d), Housed(d)
  PROVE  Touches(d, d, {}, {}) /\ Grown(d, d)
<1>1. \A y \in DOMAIN d.files : SameFile(d, d, y)
  BY DEF SameFile
<1>2. QED
  BY <1>1 DEF Touches, Grown, AlbumNames

(* Only files of the directory h are touched.                              *)
TouchesIn(d, e, h) ==
  /\ e.directories = d.directories
  /\ \E T, N : Touches(d, e, T, N) /\ \A q \in T \cup N : Home[q] = h

(* What touches one directory only is apart from every other.              *)
LEMMA TouchesInApart ==
  ASSUME NEW d, Sound(d), Housed(d), NEW e, NEW h, TouchesIn(d, e, h)
  PROVE  /\ Sound(e) /\ Housed(e) /\ AlbumNames(d, e) /\ e.directories = d.directories
         /\ \A r \in Dirs : r # h => Apart(d, e, r)
<1>1. PICK T, N : Touches(d, e, T, N) /\ \A q \in T \cup N : Home[q] = h
  BY DEF TouchesIn
<1>2. Sound(e) /\ Housed(e) /\ AlbumNames(d, e) /\ e.directories = d.directories
  BY <1>1 DEF Touches, TouchesIn
<1>3. ASSUME NEW r \in Dirs, r # h PROVE Apart(d, e, r)
  <2>1. Entries(r) \cap (T \cup N) = {}
    BY <1>1, <1>3 DEF Entries
  <2>2. \A q : DirectoryKnown(d, q) => DirectoryKnown(e, q)
    BY <1>2 DEF DirectoryKnown
  <2>3. QED
    BY <1>1, <2>1, <2>2, TouchesApart
<1>4. QED
  BY <1>1, <1>2, <1>3

LEMMA TouchesInAgain ==
  ASSUME NEW d, NEW e, NEW g, NEW h, TouchesIn(d, e, h), TouchesIn(e, g, h)
  PROVE  TouchesIn(d, g, h)
<1>1. PICK S, M : Touches(d, e, S, M) /\ \A q \in S \cup M : Home[q] = h
  BY DEF TouchesIn
<1>2. PICK T, N : Touches(e, g, T, N) /\ \A q \in T \cup N : Home[q] = h
  BY DEF TouchesIn
<1> DEFINE U == S \cup T
           O == M \cup N
<1>3. Touches(d, g, U, O) /\ \A q \in U \cup O : Home[q] = h
  BY <1>1, <1>2, TouchesAgain
<1> HIDE DEF U, O
<1>4. QED
  BY <1>3 DEF TouchesIn

(* scan_file touches the directory of the file only.                       *)
LEMMA ScanSound ==
  ASSUME NEW d, Sound(d), Housed(d), NEW p \in Files, NEW e, ScanDone(d, e, p)
  PROVE  /\ Sound(e) /\ Housed(e) /\ AlbumNames(d, e) /\ Grown(d, e)
         /\ e.directories = d.directories
         /\ TouchesIn(d, e, Home[p])
<1>1. PICK T, N : /\ Touches(d, e, T, N) /\ Grown(d, e)
                  /\ \A q \in T \cup N : Home[q] = Home[p]
  <2>1. CASE e = d
    <3> DEFINE T == {}
    <3>1. Touches(d, e, T, T) /\ Grown(d, e) /\ \A q \in T \cup T : Home[q] = Home[p]
      BY <2>1, SameAll
    <3> HIDE DEF T
    <3>2. QED
      BY <3>1
  <2>2. CASE \E a, s : Scanned(d, e, p, a, s)
    BY <2>2 DEF Scanned
  <2>3. QED
    BY <2>1, <2>2 DEF ScanDone
<1>2. Sound(e) /\ Housed(e) /\ AlbumNames(d, e) /\ e.directories = d.directories
  BY <1>1 DEF Touches, Grown
<1>3. TouchesIn(d, e, Home[p])
  BY <1>1, <1>2 DEF TouchesIn
<1>4. QED
  BY <1>1, <1>2, <1>3

(* A row is as it was, or what was read has just come into it.             *)
LEMMA ScanSeen ==
  ASSUME Orderly, NEW d, Sound(d), NEW p \in Files, NEW e, ScanDone(d, e, p),
         NEW y \in DOMAIN e.files
  PROVE  \/ SameFile(d, e, y)
         \/ InTime(e, y) /\ There(e.files[y].path) /\ FileTrue(e, y)
         \/ InTime(e, y) /\ There(e.files[y].path) /\ y \notin DOMAIN d.files
            /\ e.files[y].path \in Sheets /\ e.files[y].mtime = 0
<1>1. CASE e = d
  BY <1>1 DEF SameFile
<1>2. CASE e # d
  <2>1. PICK a, s : Scanned(d, e, p, a, s)
    BY <1>2 DEF ScanDone
  <2>2. /\ Touches(d, e, {a}, {a, s}) /\ Grown(d, e) /\ Known(e, a)
        /\ FileTrue(e, FileId(e, a)) /\ InTime(e, FileId(e, a))
        /\ a \in fs.present /\ a \in Audio \cup Images /\ fs.tag[a] # Broken
    BY <2>1 DEF Scanned
  <2>3. Sound(e) /\ a \notin Sheets
    BY <2>2, LibraryScanAssumption DEF Touches
  <2>4. CASE e.files[y].path = a
    <3>1. y = FileId(e, a)
      BY <2>3, <2>4, IdIs
    <3>2. There(a)
      BY <2>2, <2>3 DEF There
    <3>3. QED
      BY <2>2, <2>4, <3>1, <3>2
  <2>5. CASE e.files[y].path # a
    <3>1. CASE y \in DOMAIN d.files /\ e.files[y].path = d.files[y].path
      BY <2>2, <2>5, <3>1 DEF Touches
    <3>2. CASE ~(y \in DOMAIN d.files /\ e.files[y].path = d.files[y].path)
      <4>1. e.files[y].path = s /\ y \notin DOMAIN d.files
        BY <2>2, <2>5, <3>2 DEF Touches, Grown
      <4>2. p \in Sheets /\ Leads(p) /\ s = Preferred(p)
        BY <2>1, <2>5, <4>1 DEF Scanned
      <4>3. s \in Sheets /\ Found(s) /\ s \in Counting
        BY <4>2, PreferredIsGood, CountingIsLed DEF PreferredGood, CountingLed
      <4>4. e.files[y].mtime = 0
        BY <2>2, <4>1, <4>3 DEF Grown
      <4>5. InTime(e, y)
        BY <4>1, <4>3 DEF InTime
      <4>6. There(s)
        BY <4>3 DEF There, Found
      <4>7. QED
        BY <4>1, <4>3, <4>4, <4>5, <4>6
    <3>3. QED
      BY <3>1, <3>2
  <2>6. QED
    BY <2>4, <2>5
<1>3. QED
  BY <1>1, <1>2

(* scan_file keeps what is said of the rows of files true, but for those   *)
(* excepted, and makes it true of the file it has scanned.                 *)
LEMMA ScanFilesTrue ==
  ASSUME Orderly, FilesTrue, NEW d, Sound(d), Housed(d), NEW p \in Files, NEW e, ScanDone(d, e, p),
         NEW S, \A y \in DOMAIN d.files : d.files[y].path \notin S => FileTrue(d, y)
  PROVE  /\ \A y \in DOMAIN e.files : e.files[y].path \notin S => FileTrue(e, y)
         /\ p \notin Sheets /\ ~Nothing(p) => Known(e, p) /\ FileTrue(e, FileId(e, p))
<1>1. Sound(e) /\ AlbumNames(d, e)
  BY ScanSound
<1>2. ASSUME NEW y \in DOMAIN e.files, e.files[y].path \notin S PROVE FileTrue(e, y)
  <2>1. CASE SameFile(d, e, y)
    <3>1. y \in DOMAIN d.files /\ d.files[y].path \notin S
      BY <1>2, <2>1 DEF SameFile
    <3>2. FileTrue(d, y)
      BY <3>1
    <3>3. QED
      BY <1>1, <2>1, <3>2, FileTrueStays
  <2>2. CASE e.files[y].path \in Sheets /\ e.files[y].mtime = 0
    <3> DEFINE q == e.files[y].path
    <3>1. q \in Sheets /\ q \notin Audio /\ q \notin Images /\ q \in Paths
      BY <2>2, LibraryScanAssumption DEF Files, Paths
    <3>2. changes \in Nat /\ fs.mtime[q] \in 1 .. changes + 1
      BY <3>1 DEF SystemType, FilesTrue
    <3>3. 0 <= changes + 1 /\ fs.mtime[q] # 0
      <4> DEFINE m == fs.mtime[q]
      <4>1. m \in 1 .. changes + 1
        BY <3>2
      <4> HIDE DEF m
      <4>2. 0 <= changes + 1 /\ m # 0
        BY <3>2, <4>1
      <4>3. QED
        BY <4>2 DEF m
    <3>4. QED
      BY <2>2, <3>1, <3>3 DEF FileTrue
  <2>3. CASE FileTrue(e, y)
    BY <2>3
  <2>4. QED
    BY <2>1, <2>2, <2>3, ScanSeen
<1>3. ASSUME p \notin Sheets, ~Nothing(p) PROVE Known(e, p) /\ FileTrue(e, FileId(e, p))
  BY <1>3 DEF ScanDone, Scanned
<1>4. QED
  BY <1>2, <1>3

(* The tracks of one sheet are those of one of several.                    *)
LEMMA CuesMore ==
  ASSUME NEW d, NEW y, NEW c, NEW cues, c \in cues, SheetsTracks(d, y, {c})
  PROVE  SheetsTracks(d, y, cues)
BY DEF SheetsTracks, FromSheet

LEMMA SheetsCues ==
  ASSUME Orderly, NEW d, NEW e, NEW p \in Sheets, NEW a, NEW s, Scanned(d, e, p, a, s)
  PROVE  SheetsTracks(e, FileId(e, a), Cues(e, a))
<1>1. /\ Leads(p) /\ s = Preferred(p) /\ a = fs.tag[s]
      /\ SheetsTracks(e, FileId(e, a), {FileId(e, s)})
  BY DEF Scanned
<1>2. s \in Counting
  BY <1>1, CountingIsLed DEF CountingLed
<1>3. FileId(e, s) \in Cues(e, a)
  BY <1>1, <1>2 DEF Cues
<1>4. QED
  BY <1>1, <1>3, CuesMore

(* After scan_file the file is read.                                       *)
LEMMA ScanReads ==
  ASSUME Orderly, NEW d, NEW p \in Files, NEW e, ScanDone(d, e, p)
  PROVE  Read(e, p)
<1>1. p \notin Dirs /\ (p \in Sheets => p \notin Audio \cup Images)
  BY LibraryScanAssumption
<1>2. CASE p \in Sheets
  <2> DEFINE b == fs.tag[Preferred(p)]
  <2>1. SUFFICES ASSUME Leads(p), fs.tag[b] # Broken
                 PROVE  Known(e, b) /\ SheetsTracks(e, FileId(e, b), Cues(e, b))
    BY <1>1, <1>2 DEF Read, SheetRead
  <2>2. ~Nothing(p)
    BY <1>2, <2>1 DEF Nothing
  <2>3. PICK a, s : Scanned(d, e, p, a, s)
    BY <2>2 DEF ScanDone
  <2>4. a = b /\ Known(e, a)
    BY <1>2, <2>3 DEF Scanned
  <2>5. QED
    BY <1>2, <2>3, <2>4, SheetsCues
<1>3. CASE p \notin Sheets
  <2>1. fs.tag[p] # Broken => Known(e, p)
    BY <1>3 DEF ScanDone, Nothing, Scanned
  <2>2. QED
    BY <1>1, <1>3, <2>1 DEF Read
<1>4. QED
  BY <1>2, <1>3

(* What was read of the directory before is still read.                    *)
LEMMA ScanKeepsRead ==
  ASSUME Orderly, NEW d, Sound(d), Housed(d), NEW p \in Files, NEW e, ScanDone(d, e, p),
         p \in rewritten \cup Sheets \/ ~Known(d, p),
         NEW q \in Entries(Home[p]) \cap fs.present, Read(d, q)
  PROVE  Read(e, q)
<1>1. Sound(e) /\ Grown(d, e) /\ e.directories = d.directories /\ AlbumNames(d, e)
  BY ScanSound
<1>2. q \in Dirs => DirectoryKnown(e, q)
  BY <1>1 DEF Read, DirectoryKnown
<1>3. q \in Audio \cup Images /\ fs.tag[q] # Broken => Known(e, q)
  BY <1>1 DEF Read, Known, Grown
<1>4. ASSUME q \in Sheets PROVE SheetRead(e, q)
  <2> DEFINE b == fs.tag[Preferred(q)]
  <2>1. SUFFICES ASSUME Leads(q), b \notin rewritten, fs.tag[b] # Broken
                 PROVE  Known(e, b) /\ SheetsTracks(e, FileId(e, b), Cues(e, b))
    BY DEF SheetRead
  <2>2. Known(d, b) /\ SheetsTracks(d, FileId(d, b), Cues(d, b))
    BY <1>4, <2>1 DEF Read, SheetRead
  <2>3. b \in Audio
    BY <1>4, <2>1, PreferredIsGood DEF PreferredGood
  <2>4. CASE e = d
    BY <2>2, <2>4
  <2>5. CASE e # d
    <3>1. PICK a, s : Scanned(d, e, p, a, s)
      BY <2>5 DEF ScanDone
    <3>2. Touches(d, e, {a}, {a, s}) /\ Known(e, a)
      BY <3>1 DEF Scanned
    <3>3. CASE b = a
      <4>1. p \in Sheets
        <5>1. SUFFICES ASSUME p \notin Sheets PROVE FALSE
          OBVIOUS
        <5>2. a = p
          BY <3>1, <5>1 DEF Scanned
        <5>3. QED
          BY <2>1, <2>2, <3>3, <5>1, <5>2
      <4>2. QED
        BY <3>1, <3>2, <3>3, <4>1, SheetsCues
    <3>4. CASE b # a
      <4> HIDE DEF b
      <4>1. Known(e, b) /\ FileId(e, b) = FileId(d, b) /\ SameFile(d, e, FileId(d, b))
        BY <2>2, <3>2, <3>4, FileStays
      <4>2. ASSUME NEW c \in Counting, fs.tag[c] = b PROVE FileId(e, c) = FileId(d, c)
        <5>1. c \in Sheets
          BY <4>2, CountingIs
        <5>2. a \notin Sheets
          BY <3>1, LibraryScanAssumption DEF Scanned
        <5>3. c # s
          <6>1. CASE p \in Sheets
            BY <3>1, <3>4, <4>2, <6>1 DEF Scanned
          <6>2. CASE p \notin Sheets
            BY <3>1, <5>1, <6>2 DEF Scanned
          <6>3. QED
            BY <6>1, <6>2
        <5>4. c \notin {a} \cup {a, s}
          BY <5>1, <5>2, <5>3
        <5>5. QED
          BY <3>2, <5>4, FileStays
      <4>3. Cues(e, b) = Cues(d, b)
        BY <4>2 DEF Cues
      <4> DEFINE y == FileId(d, b)
                 cues == Cues(d, b)
      <4>4. SheetsTracks(d, y, cues) /\ SameFile(d, e, y)
        BY <2>2, <4>1
      <4> HIDE DEF y, cues
      <4>5. SheetsTracks(e, y, cues)
        BY <1>1, <4>4, SheetsStay
      <4>6. QED
        BY <4>1, <4>3, <4>5 DEF y, cues
    <3>5. QED
      BY <3>3, <3>4
  <2>6. QED
    BY <2>4, <2>5
<1>5. QED
  BY <1>2, <1>3, <1>4 DEF Read

-----------------------------------------------------------------------------
(* What a known file that has changed leaves true.                         *)

(* Clearing and deleting the row of a file touches its directory only.     *)
LEMMA ClearIn ==
  ASSUME NEW d, Sound(d), Housed(d), NEW x \in DOMAIN d.files, NEW e, e = FileClear(d, {x})
  PROVE  /\ TouchesIn(d, e, Home[d.files[x].path]) /\ e.files = d.files /\ Blank(e, x)
         /\ \A y \in DOMAIN d.files : y # x => SameFile(d, e, y)
<1> DEFINE p == d.files[x].path
           T == {p}
           N == {}
<1>1. /\ Touches(d, e, {d.files[x].path}, {}) /\ Grown(d, e) /\ e.files = d.files
      /\ TracksOf(e, {x}) = {} /\ ImagesOf(e, {x}) = {}
  BY ClearTouches
<1>2. \A q \in T \cup N : Home[q] = Home[p]
  OBVIOUS
<1>3. Touches(d, e, T, N)
  BY <1>1
<1> HIDE DEF T, N
<1>4. TouchesIn(d, e, Home[p])
  BY <1>1, <1>2, <1>3 DEF TouchesIn, Grown
<1>5. ASSUME NEW y \in DOMAIN d.files, y # x PROVE SameFile(d, e, y)
  <2>1. d.files[y].path # p
    BY <1>5, FileFacts
  <2>2. QED
    BY <1>1, <2>1 DEF Touches
<1>6. QED
  BY <1>1, <1>4, <1>5 DEF Blank

LEMMA DeleteIn ==
  ASSUME NEW d, Sound(d), Housed(d), NEW x \in DOMAIN d.files, NEW e, e = FileDelete(d, {x})
  PROVE  /\ TouchesIn(d, e, Home[d.files[x].path])
         /\ DOMAIN e.files = DOMAIN d.files \ {x}
         /\ \A y \in DOMAIN e.files : SameFile(d, e, y)
<1> DEFINE p == d.files[x].path
           S == {x}
           T == {d.files[z].path : z \in DOMAIN d.files \cap S}
           N == {}
<1>1. Sound(e) /\ e.directories = d.directories /\ FilesLeft(d, e, S)
  BY FileDeleteKeeps
<1>2. T = {p}
  OBVIOUS
<1>3. DOMAIN e.files = DOMAIN d.files \ {x}
  BY <1>1 DEF FilesLeft
<1>4. Touches(d, e, T, N)
  <2> HIDE DEF S
  <2>1. QED
    BY <1>1, LeftTouches
<1>5. ASSUME NEW y \in DOMAIN e.files PROVE SameFile(d, e, y)
  <2>1. y \in DOMAIN d.files /\ d.files[y].path # p
    BY <1>3, FileFacts
  <2>2. QED
    BY <1>2, <1>4, <2>1 DEF Touches
<1>6. \A q \in T \cup N : Home[q] = Home[p]
  BY <1>2
<1> HIDE DEF T, N, S
<1>7. TouchesIn(d, e, Home[p])
  BY <1>1, <1>4, <1>6 DEF TouchesIn
<1>8. QED
  BY <1>3, <1>5, <1>7

(* After the file of row x is read anew, the rows up to x are in time.     *)
RescanDone(d, e, x) ==
  /\ TouchesIn(d, e, Home[d.files[x].path])
  /\ \A y \in DOMAIN e.files : FileTrue(e, y)
  /\ \A y \in DOMAIN e.files : y <= x =>
       /\ y \in DOMAIN d.files /\ e.files[y].path = d.files[y].path
       /\ \/ y # x /\ e.files[y] = d.files[y]
          \/ InTime(e, y) /\ There(e.files[y].path)
  /\ d.files[x].path \in Sheets => x \notin DOMAIN e.files

(* The rescan of a known file leaves the tables true.                      *)
LEMMA RescanTrue ==
  ASSUME Orderly, FilesTrue, NEW d, Sound(d), Housed(d), \A y \in DOMAIN d.files : FileTrue(d, y),
         NEW x \in DOMAIN d.files, d.files[x].path \in fs.present,
         NEW e, e = Rescan(FileClear(d, {x}), x)
  PROVE  RescanDone(d, e, x)
<1> DEFINE p == d.files[x].path
           dir == d.files[x].directory
           d1 == FileClear(d, {x})
           d2 == ScanFile(d1, p, dir)
<1>1. /\ TouchesIn(d, d1, Home[p]) /\ d1.files = d.files /\ Blank(d1, x)
      /\ \A y \in DOMAIN d.files : y # x => SameFile(d, d1, y)
  BY ClearIn
<1>2. e = IF p \in Sheets \/ fs.tag[p] = Broken THEN FileDelete(d2, {x}) ELSE d2
  BY <1>1 DEF Rescan
<1>3. p \in Files /\ dir \in DOMAIN d.directories /\ d.directories[dir].path = Home[p]
      /\ x \in Nat
  BY FileFacts DEF Housed
<1> HIDE DEF d1
<1>4. Sound(d1) /\ Housed(d1) /\ AlbumNames(d, d1) /\ d1.directories = d.directories
  BY <1>1, TouchesInApart
<1>5. d1.files[x].path = p /\ x \in DOMAIN d1.files /\ FileId(d1, p) = x
  BY <1>1, <1>4, IdIs
<1>6. d2 = ScanFile(d1, p, dir)
  OBVIOUS
<1> HIDE DEF d2
<1>7. ScanDone(d1, d2, p)
  <2>1. Blank(d1, FileId(d1, p))
    BY <1>1, <1>5
  <2>2. p \in fs.present /\ dir \in DOMAIN d1.directories /\ d1.directories[dir].path = Home[p]
    BY <1>3, <1>4
  <2>3. QED
    BY <1>3, <1>4, <1>6, <2>1, <2>2, FileScanned
<1>8. /\ Sound(d2) /\ Housed(d2) /\ AlbumNames(d1, d2) /\ Grown(d1, d2) /\ TouchesIn(d1, d2, Home[p])
  BY <1>3, <1>4, <1>7, ScanSound
<1>9. TouchesIn(d, d2, Home[p])
  BY <1>1, <1>8, TouchesInAgain
<1>10. x \in DOMAIN d2.files /\ d2.files[x].path = p /\ FileId(d2, p) = x
  BY <1>5, <1>8, IdIs DEF Grown
<1>11. /\ \A y \in DOMAIN d2.files : d2.files[y].path \notin {p} => FileTrue(d2, y)
       /\ p \notin Sheets /\ ~Nothing(p) => FileTrue(d2, x)
  <2>1. ASSUME NEW y \in DOMAIN d1.files, d1.files[y].path \notin {p} PROVE FileTrue(d1, y)
    <3>1. y # x /\ y \in DOMAIN d.files
      BY <1>1, <2>1
    <3>2. QED
      BY <1>1, <1>4, <3>1, FileTrueStays
  <2> DEFINE S == {p}
  <2>2. \A y \in DOMAIN d1.files : d1.files[y].path \notin S => FileTrue(d1, y)
    BY <2>1
  <2> HIDE DEF S
  <2>3. /\ \A y \in DOMAIN d2.files : d2.files[y].path \notin S => FileTrue(d2, y)
        /\ p \notin Sheets /\ ~Nothing(p) => Known(d2, p) /\ FileTrue(d2, FileId(d2, p))
    BY <1>3, <1>4, <1>7, <2>2, ScanFilesTrue
  <2>4. QED
    BY <1>10, <2>3 DEF S
<1>12. ASSUME NEW y \in DOMAIN d2.files, y # x PROVE FileTrue(d2, y)
  BY <1>8, <1>10, <1>11, <1>12, FileFacts
<1>13. ASSUME NEW y \in DOMAIN d2.files, y <= x, y # x
       PROVE  /\ y \in DOMAIN d.files /\ d2.files[y].path = d.files[y].path
              /\ d2.files[y] = d.files[y] \/ (InTime(d2, y) /\ There(d2.files[y].path))
  <2>1. y \in DOMAIN d1.files
    <3>1. SUFFICES ASSUME y \notin DOMAIN d1.files PROVE FALSE
      OBVIOUS
    <3>2. x < y
      BY <1>5, <1>8, <3>1 DEF Grown
    <3>3. y \in Nat
      BY <1>8, FileFacts
    <3>4. QED
      BY <1>3, <1>13, <3>2, <3>3
  <2>2. y \in DOMAIN d.files /\ d2.files[y].path = d.files[y].path
    BY <1>1, <1>8, <2>1 DEF Grown
  <2>3. SameFile(d1, d2, y) \/ (InTime(d2, y) /\ There(d2.files[y].path))
    BY <1>3, <1>4, <1>7, ScanSeen
  <2>4. SameFile(d1, d2, y) => d2.files[y] = d.files[y]
    BY <1>1 DEF SameFile
  <2>5. QED
    BY <2>2, <2>3, <2>4
<1>14. CASE p \in Sheets \/ fs.tag[p] = Broken
  <2>1. e = FileDelete(d2, {x})
    BY <1>2, <1>14
  <2>2. /\ TouchesIn(d2, e, Home[d2.files[x].path]) /\ DOMAIN e.files = DOMAIN d2.files \ {x}
        /\ \A y \in DOMAIN e.files : SameFile(d2, e, y)
    BY <1>8, <1>10, <2>1, DeleteIn
  <2>3. TouchesIn(d, e, Home[p])
    BY <1>9, <1>10, <2>2, TouchesInAgain
  <2>4. Sound(e) /\ AlbumNames(d2, e)
    BY <1>8, <2>2, TouchesInApart
  <2>5. ASSUME NEW y \in DOMAIN e.files PROVE FileTrue(e, y)
    <3>1. y \in DOMAIN d2.files /\ y # x /\ SameFile(d2, e, y)
      BY <2>2
    <3>2. QED
      BY <1>8, <1>12, <2>4, <3>1, FileTrueStays
  <2>6. ASSUME NEW y \in DOMAIN e.files, y <= x
        PROVE  /\ y \in DOMAIN d.files /\ e.files[y].path = d.files[y].path
               /\ (y # x /\ e.files[y] = d.files[y]) \/ (InTime(e, y) /\ There(e.files[y].path))
    <3>1. y \in DOMAIN d2.files /\ y # x /\ e.files[y] = d2.files[y]
      BY <2>2 DEF SameFile
    <3>2. QED
      BY <1>13, <2>6, <3>1 DEF InTime
  <2>7. QED
    BY <2>2, <2>3, <2>5, <2>6 DEF RescanDone
<1>15. CASE ~(p \in Sheets \/ fs.tag[p] = Broken)
  <2>1. e = d2 /\ p \notin Sheets /\ ~Nothing(p)
    BY <1>2, <1>15 DEF Nothing
  <2>2. \A y \in DOMAIN e.files : FileTrue(e, y)
    BY <1>11, <1>12, <2>1
  <2>3. InTime(e, x) /\ There(e.files[x].path)
    <3>1. PICK a, s : Scanned(d1, d2, p, a, s)
      BY <1>7, <2>1 DEF ScanDone
    <3>2. InTime(d2, FileId(d2, p)) /\ p \in fs.present /\ fs.tag[p] # Broken
      BY <2>1, <3>1 DEF Scanned
    <3>3. QED
      BY <1>10, <2>1, <3>2 DEF There
  <2>4. ASSUME NEW y \in DOMAIN e.files, y <= x
        PROVE  /\ y \in DOMAIN d.files /\ e.files[y].path = d.files[y].path
               /\ (y # x /\ e.files[y] = d.files[y]) \/ (InTime(e, y) /\ There(e.files[y].path))
    BY <1>10, <1>13, <2>1, <2>3, <2>4
  <2>5. QED
    BY <1>9, <2>1, <2>2, <2>4 DEF RescanDone
<1>16. QED
  BY <1>14, <1>15

-----------------------------------------------------------------------------
(* The walk, step by step.                                                 *)

(* What is owed between the steps; and of the last call, while nothing     *)
(* happens.                                                                *)
Walked(d, q) == /\ LibraryTrue(d) /\ FramesTrue(d, q) /\ CallbacksSound(q)
                /\ quiet => Undisturbed(d, q)
Heeded(q, g) == g.cb /\ q # <<>> => q[Len(q)].phase = "subs"
Calm(d, q, g) ==
  /\ Steady(g) /\ \A i \in 1 .. Len(q) : Steady(q[i])
  /\ \A x \in DOMAIN d.directories : Fresh(d, x) \/ Pending(d, q, x) \/ Before(d, g, x)
  /\ Root \in fs.present => DirectoryKnown(d, Root)

(* What is said of a stack is said of the calls one by one.                *)
LEMMA FramesAppend ==
  ASSUME NEW d, NEW q \in Seq(FrameType), NEW g \in FrameType
  PROVE  /\ FramesTrue(d, Append(q, g)) <=> FramesTrue(d, q) /\ FrameTrue(d, g)
         /\ CallbacksSound(Append(q, g)) <=> CallbacksSound(q) /\ Heeded(q, g)
         /\ Undisturbed(d, Append(q, g)) <=> Calm(d, q, g)
         /\ \A x : Pending(d, Append(q, g), x) <=> Pending(d, q, x) \/ Before(d, g, x)
<1> DEFINE r == Append(q, g)
           n == Len(q)
<1>1. /\ n \in Nat /\ Len(r) = n + 1 /\ r[n + 1] = g
      /\ \A i \in 1 .. n : r[i] = q[i]
      /\ q = <<>> <=> n = 0
  OBVIOUS
<1> HIDE DEF r, n
<1>2. /\ \A i \in 1 .. Len(r) : i \in 1 .. n \/ i = n + 1
      /\ n + 1 \in 1 .. Len(r) /\ \A i \in 1 .. n : i \in 1 .. Len(r)
  BY <1>1
<1>3. FramesTrue(d, r) <=> FramesTrue(d, q) /\ FrameTrue(d, g)
  BY <1>1, <1>2 DEF FramesTrue, n
<1>4. ASSUME NEW x PROVE Pending(d, r, x) <=> Pending(d, q, x) \/ Before(d, g, x)
  BY <1>1, <1>2 DEF Pending, n
<1>5. Undisturbed(d, r) <=> Calm(d, q, g)
  <2>1. (\A i \in 1 .. Len(r) : Steady(r[i])) <=> Steady(g) /\ \A i \in 1 .. n : Steady(q[i])
    BY <1>1, <1>2
  <2>2. QED
    BY <1>4, <2>1 DEF Undisturbed, Calm, n
<1>6. CallbacksSound(r) <=> CallbacksSound(q) /\ Heeded(q, g)
  <2>1. ASSUME CallbacksSound(r) PROVE CallbacksSound(q) /\ Heeded(q, g)
    <3>1. CallbacksSound(q)
      BY <1>1, <1>2, <2>1 DEF CallbacksSound, n
    <3>2. ASSUME g.cb, q # <<>> PROVE q[n].phase = "subs"
      <4>1. n \in 1 .. n /\ n \in 1 .. Len(r) /\ n + 1 \in 1 .. Len(r)
        BY <1>1, <3>2
      <4>2. r[n + 1].cb /\ r[n] = q[n]
        BY <1>1, <3>2, <4>1
      <4>3. r[n].phase = "subs"
        BY <2>1, <4>1, <4>2 DEF CallbacksSound
      <4>4. QED
        BY <4>2, <4>3
    <3>3. QED
      BY <3>1, <3>2 DEF Heeded, n
  <2>2. ASSUME CallbacksSound(q), Heeded(q, g) PROVE CallbacksSound(r)
    <3>1. SUFFICES ASSUME NEW i \in 1 .. Len(r), NEW j \in 1 .. Len(r), j = i + 1, r[j].cb
                   PROVE  r[i].phase = "subs"
      BY DEF CallbacksSound
    <3>2. CASE j = n + 1
      <4>1. i = n /\ n \in 1 .. n /\ q # <<>> /\ g.cb
        BY <1>1, <3>1, <3>2
      <4>2. QED
        BY <1>1, <2>2, <4>1 DEF Heeded, n
    <3>3. CASE j # n + 1
      <4>1. i \in 1 .. n /\ j \in 1 .. n
        BY <1>1, <3>1, <3>3
      <4>2. q[j].cb /\ i \in 1 .. Len(q) /\ j \in 1 .. Len(q)
        BY <1>1, <3>1, <4>1 DEF n
      <4>3. q[i].phase = "subs"
        BY <2>2, <3>1, <4>2 DEF CallbacksSound
      <4>4. QED
        BY <1>1, <4>1, <4>3
    <3>4. QED
      BY <3>2, <3>3
  <2>3. QED
    BY <2>1, <2>2
<1>7. QED
  BY <1>3, <1>4, <1>5, <1>6 DEF r

LEMMA WalkedAppend ==
  ASSUME NEW d, NEW q \in Seq(FrameType), NEW g \in FrameType
  PROVE  Walked(d, Append(q, g)) <=>
           /\ LibraryTrue(d) /\ FramesTrue(d, q) /\ FrameTrue(d, g)
           /\ CallbacksSound(q) /\ Heeded(q, g) /\ (quiet => Calm(d, q, g))
BY FramesAppend DEF Walked

(* The innermost call and its callers.                                     *)
LEMMA TopTrue ==
  ASSUME IInv, stack # <<>>, Walked(db, stack)
  PROVE  /\ LibraryTrue(db) /\ FramesTrue(db, Caller) /\ FrameTrue(db, Top)
         /\ CallbacksSound(Caller) /\ Heeded(Caller, Top)
         /\ quiet => Calm(db, Caller, Top)
<1> DEFINE n == Len(stack)
           q == Caller
           f == Top
<1>1. stack \in Seq(FrameType) /\ n \in Nat \ {0}
  BY DEF IInv
<1>2. q \in Seq(FrameType) /\ f \in FrameType
  BY TopIs
<1>3. stack = Append(q, f)
  <2>1. CASE n > 1
    <3>1. q = SubSeq(stack, 1, n - 1)
      BY <2>1 DEF Caller
    <3>2. QED
      BY <1>1, <2>1, <3>1 DEF Top
  <2>2. CASE n = 1
    <3>1. q = <<>>
      BY <2>2 DEF Caller
    <3>2. QED
      BY <1>1, <2>2, <3>1 DEF Top
  <2>3. n > 1 \/ n = 1
    <3>1. n \in Nat /\ n # 0
      BY <1>1
    <3> HIDE DEF n
    <3>2. QED
      BY <3>1
  <2>4. QED
    BY <2>1, <2>2, <2>3
<1> HIDE DEF q, f
<1>4. Walked(db, Append(q, f))
  BY <1>3
<1>5. QED
  BY <1>2, <1>4, WalkedAppend DEF q, f

(* What stays true of the library and of the calls.                        *)
LEMMA LibraryStays ==
  ASSUME Orderly, NEW d, LibraryTrue(d), NEW e, Housed(e), \A y \in DOMAIN e.files : FileTrue(e, y),
         \A x \in DOMAIN e.directories :
           \/ DirectoryTrue(e, x)
           \/ /\ x \in DOMAIN d.directories /\ e.directories[x] = d.directories[x]
              /\ Apart(d, e, d.directories[x].path)
  PROVE  LibraryTrue(e)
<1>1. ASSUME NEW x \in DOMAIN e.directories PROVE DirectoryTrue(e, x)
  <2>1. CASE DirectoryTrue(e, x)
    BY <2>1
  <2>2. CASE /\ x \in DOMAIN d.directories /\ e.directories[x] = d.directories[x]
             /\ Apart(d, e, d.directories[x].path)
    BY <2>2, DirectoryApart DEF LibraryTrue
  <2>3. QED
    BY <2>1, <2>2
<1>2. QED
  BY <1>1 DEF LibraryTrue

(* What is said of the callers stays true if their directories are apart.  *)
LEMMA FramesStay ==
  ASSUME Orderly, NEW d, NEW q, NEW p, CallersSound(d, q, p), FramesTrue(d, q),
         NEW e, \A i \in 1 .. Len(q) : /\ q[i].id \in DOMAIN e.directories
                                       /\ e.directories[q[i].id] = d.directories[q[i].id]
                                       /\ Apart(d, e, q[i].path)
  PROVE  FramesTrue(e, q)
<1>1. ASSUME NEW i \in 1 .. Len(q) PROVE FrameTrue(e, q[i])
  <2> DEFINE f == q[i]
  <2>1. /\ FrameSound(d, f) /\ f.id \in DOMAIN e.directories /\ Apart(d, e, f.path)
        /\ e.directories[f.id] = d.directories[f.id] /\ FrameTrue(d, f)
    BY DEF CallersSound, FramesTrue
  <2> HIDE DEF f
  <2>2. FrameTrue(e, f)
    BY <2>1, FrameApart
  <2>3. QED
    BY <2>2 DEF f
<1>2. QED
  BY <1>1 DEF FramesTrue

(* Directories that keep their paths are still before the same calls.      *)
SamePaths(d, e) ==
  \A x \in DOMAIN d.directories : x \in DOMAIN e.directories => e.directories[x].path = d.directories[x].path

(* A directory still before the walk stays so, if the paths of rows stay.  *)
LEMMA BeforeStays ==
  ASSUME NEW d, NEW e, SamePaths(d, e), NEW f, FrameSound(d, f), FrameSound(e, f),
         NEW x \in DOMAIN d.directories, x \in DOMAIN e.directories, Before(d, f, x)
  PROVE  Before(e, f, x)
<1>1. CASE f.id = x
  BY <1>1 DEF Before
<1>2. CASE f.phase = "subs" /\ \E s \in f.todo : d.directories[x].path \in Under(d.directories[s].path)
  <2>1. PICK s \in f.todo : d.directories[x].path \in Under(d.directories[s].path)
    BY <1>2
  <2>2. s \in DOMAIN d.directories /\ s \in DOMAIN e.directories
    BY <1>2, <2>1 DEF FrameSound, Subdirectories
  <2>3. QED
    BY <1>2, <2>1, <2>2 DEF Before, SamePaths
<1>3. QED
  BY <1>1, <1>2 DEF Before

LEMMA PendingStays ==
  ASSUME NEW d, NEW e, SamePaths(d, e), NEW q, NEW p, CallersSound(d, q, p), CallersSound(e, q, p),
         NEW x \in DOMAIN d.directories, x \in DOMAIN e.directories, Pending(d, q, x)
  PROVE  Pending(e, q, x)
<1>1. PICK i \in 1 .. Len(q) : Before(d, q[i], x)
  BY DEF Pending
<1>2. FrameSound(d, q[i]) /\ FrameSound(e, q[i])
  BY DEF CallersSound
<1>3. Before(e, q[i], x)
  BY <1>1, <1>2, BeforeStays
<1>4. QED
  BY <1>3 DEF Pending

(* A row of a directory that is being read is not yet passed over.         *)
LEMMA NotFresh ==
  ASSUME Orderly, NEW d, Sound(d), NEW g \in FrameType, FrameTrue(d, g), g.phase # "subs",
         g.id \in DOMAIN d.directories, d.directories[g.id].path = g.path
  PROVE  DirectoryTrue(d, g.id)
<1> DEFINE m == d.directories[g.id].mtime
           u == g.mtime
           v == fs.mtime[g.path]
<1>1. m \in Nat /\ u \in Nat /\ v \in Nat
  BY RowFacts, FrameFields, TreeFacts, PathTimes
<1>2. u \in 1 .. v /\ m <= u /\ m # u
  BY DEF FrameTrue
<1> HIDE DEF m, u, v
<1>3. m <= v /\ m # v
  BY <1>1, <1>2
<1>4. QED
  BY <1>3 DEF DirectoryTrue, Fresh, m, v

(* A step that goes on in the directory of the last call.                  *)
LEMMA TopReplaced ==
  ASSUME IInv, FilesTrue, stack # <<>>, Walked(db, stack), NEW e, TouchesIn(db, e, Top.path),
         \A y \in DOMAIN e.files : FileTrue(e, y), NEW g \in FrameType,
         g.id = Top.id, g.path = Top.path, g.mtime = Top.mtime, g.cb = Top.cb,
         FrameTrue(e, g), g.phase # "subs", Top.phase # "subs" \/ Top.todo = {}
  PROVE  Walked(e, Append(Caller, g))
<1> DEFINE q == Caller
           f == Top
           d == db
           x == f.id
<1>1. /\ q \in Seq(FrameType) /\ f \in FrameType
      /\ FrameSound(d, f) /\ CallersSound(d, q, f.path) /\ Sound(d) /\ Orderly
  BY TopIs DEF IInv, FilesTrue
<1>2. /\ LibraryTrue(d) /\ FramesTrue(d, q) /\ FrameTrue(d, f)
      /\ CallbacksSound(q) /\ Heeded(q, f)
      /\ quiet => Calm(d, q, f)
  BY TopTrue
<1>3. /\ TouchesIn(d, e, f.path) /\ g.id = x /\ g.path = f.path /\ g.mtime = f.mtime /\ g.cb = f.cb
      /\ f.phase # "subs" \/ f.todo = {}
  OBVIOUS
<1> HIDE DEF q, f, d
<1>4. Housed(d)
  BY <1>2 DEF LibraryTrue
<1>5. /\ Sound(e) /\ Housed(e) /\ AlbumNames(d, e) /\ e.directories = d.directories
      /\ \A r \in Dirs : r # f.path => Apart(d, e, r)
  BY <1>1, <1>3, <1>4, TouchesInApart
<1>6. /\ x \in DOMAIN d.directories /\ d.directories[x].path = f.path
  BY <1>1 DEF FrameSound
<1>7. LibraryTrue(e)
  <2>1. DirectoryTrue(e, x)
    BY <1>1, <1>3, <1>5, <1>6, NotFresh
  <2>2. ASSUME NEW z \in DOMAIN e.directories, z # x
        PROVE  Apart(d, e, d.directories[z].path)
    <3>1. z \in DOMAIN d.directories
      BY <1>5
    <3>2. d.directories[z].path # f.path /\ d.directories[z].path \in Dirs
      BY <1>1, <1>6, <2>2, <3>1, RowFacts
    <3>3. QED
      BY <1>5, <3>2
  <2>3. \A z \in DOMAIN e.directories :
          \/ DirectoryTrue(e, z)
          \/ /\ z \in DOMAIN d.directories /\ e.directories[z] = d.directories[z]
             /\ Apart(d, e, d.directories[z].path)
    BY <1>5, <2>1, <2>2
  <2>4. QED
    BY <1>1, <1>2, <1>5, <2>3, LibraryStays
<1>8. FramesTrue(e, q)
  <2>1. ASSUME NEW i \in 1 .. Len(q)
        PROVE  /\ q[i].id \in DOMAIN e.directories
               /\ e.directories[q[i].id] = d.directories[q[i].id]
               /\ Apart(d, e, q[i].path)
    <3>1. /\ FrameSound(d, q[i]) /\ Depth[q[i].path] < Depth[f.path] /\ q[i] \in FrameType
      BY <1>1 DEF CallersSound
    <3>2. Depth[f.path] \in Nat /\ q[i].path \in Dirs
      BY <1>1, <3>1, FrameFields, DepthGrows
    <3>3. q[i].path # f.path
      BY <3>1, <3>2
    <3>4. QED
      BY <1>5, <3>1, <3>2, <3>3 DEF FrameSound
  <2>2. QED
    BY <1>1, <1>2, <2>1, FramesStay
<1>9. Heeded(q, g)
  BY <1>2, <1>3 DEF Heeded
<1>10. ASSUME quiet PROVE Calm(e, q, g)
  <2>1. Calm(d, q, f)
    BY <1>2, <1>10
  <2>2. Steady(g) /\ \A i \in 1 .. Len(q) : Steady(q[i])
    BY <1>3, <2>1 DEF Calm, Steady
  <2>3. Root \in fs.present => DirectoryKnown(e, Root)
    BY <1>5, <2>1 DEF Calm, DirectoryKnown
  <2>4. ASSUME NEW z \in DOMAIN e.directories
        PROVE  Fresh(e, z) \/ Pending(e, q, z) \/ Before(e, g, z)
    <3>1. Fresh(d, z) \/ Pending(d, q, z) \/ Before(d, f, z)
      BY <1>5, <2>1, <2>4 DEF Calm
    <3>2. Fresh(d, z) => Fresh(e, z)
      BY <1>5 DEF Fresh
    <3>3. Pending(d, q, z) => Pending(e, q, z)
      BY <1>5 DEF Pending, Before
    <3>4. Before(d, f, z) => Before(e, g, z)
      BY <1>3 DEF Before
    <3>5. QED
      BY <3>1, <3>2, <3>3, <3>4
  <2>5. QED
    BY <2>2, <2>3, <2>4 DEF Calm
<1>11. QED
  BY <1>1, <1>2, <1>7, <1>8, <1>9, <1>10, WalkedAppend DEF q

(* The least row of a call that has some.                                  *)
LEMMA LeastOf ==
  ASSUME NEW S \in SUBSET Nat, S # {}
  PROVE  Min(S) \in S /\ \A y \in S : Min(S) <= y
<1>1. \E k \in S : \A j \in S : k <= j
  BY HasLeast
<1>2. QED
  BY <1>1 DEF Min

(* scan_files_cb: the rows up to this one are in time.                     *)
LEMMA KnownFileTrue ==
  ASSUME IInv, FilesTrue, stack # <<>>, Walked(db, stack), KnownFile(Top),
         NEW e, e = db', NEW r, r = stack'
  PROVE  Walked(e, r)
<1> DEFINE f == Top
           d == db
           x == Min(f.todo)
           p == d.files[x].path
           todo == {y \in FilesIn(e, f.id) : y > x}
           g == [f EXCEPT !.todo = todo]
<1>1. f \in FrameType /\ FrameSound(d, f) /\ Orderly /\ Sound(d)
  BY TopIs DEF IInv, FilesTrue
<1>2. LibraryTrue(d) /\ FrameTrue(d, f) /\ Housed(d)
  BY TopTrue DEF LibraryTrue
<1>3. /\ f.phase = "files" /\ f.todo # {} /\ r = Append(Caller, g)
      /\ e = IF p \notin fs.present THEN FileDelete(d, {x})
             ELSE IF d.files[x].mtime = fs.mtime[p] THEN d
             ELSE Rescan(FileClear(d, {x}), x)
  BY DEF KnownFile, Replace
<1>4. /\ f.id \in DOMAIN d.directories /\ d.directories[f.id].path = f.path
      /\ f.todo \subseteq FilesIn(d, f.id)
  BY <1>1, <1>3 DEF FrameSound
<1>5. x \in f.todo /\ \A y \in f.todo : x <= y
  <2>1. f.todo \in SUBSET Nat
    BY <1>1, <1>4, Todos
  <2>2. QED
    BY <1>3, <2>1, LeastOf
<1> HIDE DEF f, d, x
<1>6. /\ x \in DOMAIN d.files /\ p \in Files /\ Home[p] = f.path /\ x \in Nat
      /\ d.files[x].mtime \in Nat
  BY <1>1, <1>2, <1>4, <1>5, HousedFacts, FileFacts
<1>7. \A y \in DOMAIN d.files : FileTrue(d, y)
  BY <1>2 DEF LibraryTrue
<1>8. RescanDone(d, e, x)
  <2>1. CASE p \notin fs.present
    <3>1. e = FileDelete(d, {x})
      BY <1>3, <2>1
    <3>2. /\ TouchesIn(d, e, Home[p])
          /\ DOMAIN e.files = DOMAIN d.files \ {x}
          /\ \A y \in DOMAIN e.files : SameFile(d, e, y)
      BY <1>1, <1>2, <1>6, <3>1, DeleteIn
    <3>3. Sound(e) /\ AlbumNames(d, e)
      BY <1>1, <1>2, <3>2, TouchesInApart
    <3>4. ASSUME NEW y \in DOMAIN e.files PROVE FileTrue(e, y)
      BY <1>1, <1>7, <3>2, <3>3, FileTrueStays
    <3>5. \A y \in DOMAIN e.files : y \in DOMAIN d.files /\ e.files[y] = d.files[y] /\ y # x
      BY <3>2 DEF SameFile
    <3>6. QED
      BY <3>2, <3>4, <3>5 DEF RescanDone
  <2>2. CASE p \in fs.present /\ d.files[x].mtime = fs.mtime[p]
    <3>1. e = d
      BY <1>3, <2>2
    <3>2. TouchesIn(d, d, Home[p])
      <4>1. Touches(d, d, {}, {})
        BY <1>1, <1>2, SameAll
      <4>2. QED
        BY <4>1 DEF TouchesIn
    <3>3. FileTrue(d, x) /\ fs.mtime[p] \in 1 .. changes + 1 /\ changes \in Nat
      BY <1>1, <1>6, <1>7, FileFacts DEF FilesTrue, SystemType
    <3>4. p \notin Sheets /\ fs.tag[p] # Broken
      BY <2>2, <3>3 DEF FileTrue
    <3>5. InTime(d, x) /\ There(p)
      BY <2>2, <3>4 DEF InTime, There
    <3>6. QED
      BY <1>7, <3>1, <3>2, <3>4, <3>5 DEF RescanDone
  <2>3. CASE p \in fs.present /\ d.files[x].mtime # fs.mtime[p]
    <3>1. e = Rescan(FileClear(d, {x}), x)
      BY <1>3, <2>3
    <3>2. QED
      BY <1>1, <1>2, <1>6, <1>7, <2>3, <3>1, RescanTrue
  <2>4. QED
    BY <2>1, <2>2, <2>3
<1>9. TouchesIn(d, e, f.path) /\ \A y \in DOMAIN e.files : FileTrue(e, y)
  BY <1>6, <1>8 DEF RescanDone
<1>10. Sound(e) /\ Housed(e) /\ e.directories = d.directories
  BY <1>1, <1>2, <1>9, TouchesInApart
<1>11. /\ g \in FrameType /\ g.path = f.path /\ g.id = f.id /\ g.mtime = f.mtime /\ g.cb = f.cb
       /\ g.phase = "files" /\ g.todo = todo
  <2>1. todo \in SUBSET (Nat \cup Paths)
    BY <1>10, Todos
  <2> HIDE DEF todo
  <2>2. QED
    BY <1>1, <1>3, <2>1 DEF FrameType
<1>12. ASSUME NEW y \in Seen(e, g)
       PROVE  /\ InTime(e, y) /\ (Steady(g) => There(e.files[y].path))
              /\ e.files[y].path \notin Sheets
  <2>1. y \in FilesIn(e, f.id) /\ ~(y > x) /\ y \in DOMAIN e.files
    BY <1>11 DEF Seen, FilesIn
  <2>2. y \in Nat /\ y <= x
    BY <1>6, <1>10, <2>1, FileFacts
  <2>3. /\ y \in DOMAIN d.files /\ e.files[y].path = d.files[y].path
        /\ \/ y # x /\ e.files[y] = d.files[y]
           \/ InTime(e, y) /\ There(e.files[y].path)
        /\ y = x => p \notin Sheets
    BY <1>8, <2>1, <2>2 DEF RescanDone
  <2>4. CASE y = x
    BY <2>3, <2>4
  <2>5. CASE y # x
    <3>1. y \in FilesIn(d, f.id)
      <4>1. Home[e.files[y].path] = f.path
        BY <1>4, <1>10, <2>1, HousedFacts
      <4>2. /\ d.files[y].directory \in DOMAIN d.directories
            /\ d.directories[d.files[y].directory].path = f.path
        BY <1>1, <1>2, <2>3, <4>1, FileFacts DEF Housed
      <4>3. d.files[y].directory = f.id
        BY <1>1, <1>4, <4>2, RowFacts
      <4>4. QED
        BY <2>3, <4>3 DEF FilesIn
    <3>2. y \notin f.todo
      BY <1>5, <1>6, <2>2, <2>5
    <3>3. y \in Seen(d, f)
      BY <1>3, <3>1, <3>2 DEF Seen
    <3>4. InTime(d, y) /\ (Steady(f) => There(d.files[y].path)) /\ d.files[y].path \notin Sheets
      BY <1>2, <1>3, <3>3 DEF FrameTrue
    <3>5. Steady(g) <=> Steady(f)
      BY <1>11 DEF Steady
    <3>6. QED
      BY <2>3, <2>5, <3>4, <3>5 DEF InTime
  <2>6. QED
    BY <2>4, <2>5
<1>13. FrameTrue(e, g)
  <2>1. /\ f.mtime \in 1 .. fs.mtime[f.path] /\ d.directories[f.id].mtime <= f.mtime
        /\ d.directories[f.id].mtime # f.mtime
    BY <1>2, <1>3 DEF FrameTrue
  <2>2. QED
    BY <1>10, <1>11, <1>12, <2>1 DEF FrameTrue
<1> HIDE DEF g
<1>14. Walked(e, Append(Caller, g))
  BY <1>3, <1>9, <1>11, <1>13, TopReplaced DEF f, d
<1>15. QED
  BY <1>3, <1>14

(* A call that is done with a directory leaves nothing to do in it.        *)
LEMMA DoneTrue ==
  ASSUME NEW d, NEW q, NEW f, LibraryTrue(d), FramesTrue(d, q), CallbacksSound(q),
         f.phase # "subs" \/ f.todo = {},
         quiet => Calm(d, q, f) /\ Fresh(d, f.id)
  PROVE  Walked(d, q)
<1>1. ASSUME quiet PROVE Undisturbed(d, q)
  <2>1. Calm(d, q, f) /\ Fresh(d, f.id)
    BY <1>1
  <2>2. \A x : Before(d, f, x) => x = f.id
    BY DEF Before
  <2>3. \A x \in DOMAIN d.directories : Fresh(d, x) \/ Pending(d, q, x)
    BY <2>1, <2>2 DEF Calm
  <2>4. QED
    BY <2>1, <2>3 DEF Calm, Undisturbed
<1>2. QED
  BY <1>1 DEF Walked

(* On to the known files of a directory that has changed, of which none is *)
(* done.                                                                   *)
LEMMA CompareTrue ==
  ASSUME IInv, FilesTrue, stack # <<>>, Walked(db, stack), Compare(Top),
         NEW e, e = db', NEW r, r = stack'
  PROVE  Walked(e, r)
<1> DEFINE f == Top
           d == db
           todo == FilesIn(d, f.id)
           g == [f EXCEPT !.phase = "files", !.todo = todo]
<1>1. f \in FrameType /\ FrameSound(d, f) /\ Orderly /\ Sound(d)
  BY TopIs DEF IInv, FilesTrue
<1>2. /\ LibraryTrue(d) /\ FrameTrue(d, f) /\ FramesTrue(d, Caller) /\ CallbacksSound(Caller)
      /\ quiet => Calm(d, Caller, f)
  BY TopTrue
<1>3. /\ f.phase = "subs" /\ f.todo = {} /\ e = d
      /\ d.directories[f.id].mtime = f.mtime => r = Caller
      /\ d.directories[f.id].mtime # f.mtime => r = Append(Caller, g)
  BY DEF Compare, Return, Replace, ToFiles
<1>4. /\ f.id \in DOMAIN d.directories /\ d.directories[f.id].path = f.path
  BY <1>1 DEF FrameSound
<1>5. TouchesIn(d, d, f.path) /\ \A y \in DOMAIN d.files : FileTrue(d, y)
  <2>1. Touches(d, d, {}, {})
    BY <1>1, <1>2, SameAll DEF LibraryTrue
  <2>2. QED
    BY <1>2, <2>1 DEF TouchesIn, LibraryTrue
<1>6. todo \in SUBSET (Nat \cup Paths)
  BY <1>1, Todos
<1> HIDE DEF f, d
<1>7. CASE d.directories[f.id].mtime = f.mtime
  <2>1. quiet => Calm(d, Caller, f) /\ Fresh(d, f.id)
    BY <1>2, <1>4, <1>7 DEF Calm, Steady, Fresh
  <2>2. Walked(d, Caller)
    BY <1>2, <1>3, <2>1, DoneTrue
  <2>3. QED
    BY <1>3, <1>7, <2>2
<1>8. CASE d.directories[f.id].mtime # f.mtime
  <2> HIDE DEF todo
  <2>1. /\ g \in FrameType /\ g.path = f.path /\ g.id = f.id /\ g.mtime = f.mtime /\ g.cb = f.cb
        /\ g.phase = "files" /\ g.todo = todo
    BY <1>1, <1>6 DEF FrameType
  <2> HIDE DEF g
  <2>2. Seen(d, g) = {}
    BY <2>1 DEF Seen, todo
  <2>3. FrameTrue(d, g)
    BY <1>2, <1>8, <2>1, <2>2 DEF FrameTrue
  <2>4. Walked(d, Append(Caller, g))
    BY <1>3, <1>5, <2>1, <2>3, TopReplaced DEF f, d
  <2>5. QED
    BY <1>3, <1>8, <2>4
<1>9. QED
  BY <1>7, <1>8

(* opendir: all files that are known are done, and what is not there to be *)
(* read is not there.                                                      *)
LEMMA OpenDirectoryTrue ==
  ASSUME IInv, FilesTrue, stack # <<>>, Walked(db, stack), OpenDirectory(Top),
         NEW e, e = db', NEW r, r = stack'
  PROVE  Walked(e, r)
<1> DEFINE f == Top
           d == db
           todo == {p \in fs.present \ {Root} : Home[p] = f.path}
           g == [f EXCEPT !.phase = "read", !.todo = todo]
<1>1. f \in FrameType /\ FrameSound(d, f) /\ Orderly /\ Sound(d)
  BY TopIs DEF IInv, FilesTrue
<1>2. LibraryTrue(d) /\ FrameTrue(d, f)
  BY TopTrue
<1>3. f.phase = "files" /\ f.todo = {} /\ e = d /\ r = Append(Caller, g)
  BY DEF OpenDirectory, Replace
<1>4. TouchesIn(d, d, f.path) /\ \A y \in DOMAIN d.files : FileTrue(d, y)
  <2>1. Touches(d, d, {}, {})
    BY <1>1, <1>2, SameAll DEF LibraryTrue
  <2>2. QED
    BY <1>2, <2>1 DEF TouchesIn, LibraryTrue
<1>5. todo \in SUBSET (Nat \cup Paths) /\ (Entries(f.path) \cap fs.present) \ todo = {}
  BY <1>1 DEF SystemType, Entries
<1> HIDE DEF f, d, todo
<1>6. /\ g \in FrameType /\ g.path = f.path /\ g.id = f.id /\ g.mtime = f.mtime /\ g.cb = f.cb
      /\ g.phase = "read" /\ g.todo = todo
  BY <1>1, <1>5 DEF FrameType
<1> HIDE DEF g
<1>7. Seen(d, g) = Seen(d, f)
  BY <1>3, <1>6 DEF Seen
<1>8. Steady(g) <=> Steady(f)
  BY <1>6 DEF Steady
<1>9. FrameTrue(d, g)
  BY <1>2, <1>3, <1>5, <1>6, <1>7, <1>8 DEF FrameTrue
<1>10. Walked(d, Append(Caller, g))
  BY <1>3, <1>4, <1>6, <1>9, TopReplaced DEF f, d
<1>11. QED
  BY <1>3, <1>10

(* The albums of images and the times of directories are all that changes. *)
Untouched(d, e) ==
  /\ Touches(d, e, {}, {})
  /\ \A x \in DOMAIN d.directories :
       x \in DOMAIN e.directories /\ e.directories[x].path = d.directories[x].path

(* The images of albums and the time of a directory touch no file.         *)
LEMMA ImagesUntouched ==
  ASSUME NEW d, Sound(d), Housed(d), NEW e, Sound(e), e.directories = d.directories, ImagesAssigned(d, e)
  PROVE  Untouched(d, e)
<1>1. /\ e.files = d.files /\ e.tracks = d.tracks /\ AlbumNames(d, e)
      /\ DOMAIN e.images = DOMAIN d.images
      /\ \A i \in DOMAIN d.images : e.images[i].file = d.images[i].file
  BY DEF ImagesAssigned
<1>2. Housed(e)
  BY <1>1 DEF Housed
<1>3. ASSUME NEW y \in DOMAIN d.files PROVE SameFile(d, e, y)
  <2>1. TracksOf(e, {y}) = TracksOf(d, {y})
    BY <1>1 DEF TracksOf
  <2>2. ImagesOf(e, {y}) = ImagesOf(d, {y})
    BY <1>1 DEF ImagesOf
  <2>3. QED
    BY <1>1, <2>1, <2>2 DEF SameFile
<1>4. QED
  BY <1>1, <1>2, <1>3 DEF Touches, Untouched

LEMMA TimeUntouched ==
  ASSUME NEW d, Sound(d), Housed(d), NEW e, Sound(e), NEW x \in DOMAIN d.directories, NEW m,
         DirectorySet(d, e, x, m)
  PROVE  Untouched(d, e)
<1>1. /\ e.files = d.files /\ e.albums = d.albums /\ e.tracks = d.tracks /\ e.images = d.images
      /\ DOMAIN e.directories = DOMAIN d.directories
      /\ \A y \in DOMAIN d.directories : e.directories[y].path = d.directories[y].path
  BY DEF DirectorySet, OthersKept
<1>2. Housed(e)
  <2>1. \A y \in DOMAIN d.files : d.files[y].directory \in DOMAIN d.directories
    BY FileFacts
  <2>2. QED
    BY <1>1, <2>1 DEF Housed
<1>3. \A y \in DOMAIN d.files : SameFile(d, e, y)
  BY <1>1 DEF SameFile, TracksOf, ImagesOf
<1>4. AlbumNames(d, e)
  BY <1>1 DEF AlbumNames
<1>5. QED
  BY <1>1, <1>2, <1>3, <1>4 DEF Touches, Untouched

(* Neither do two such operations.                                         *)
LEMMA UntouchedAgain ==
  ASSUME NEW d, NEW e, NEW g, Untouched(d, e), Untouched(e, g)
  PROVE  Untouched(d, g)
<1>1. Touches(d, g, {}, {})
  BY TouchesAgain DEF Untouched
<1>2. QED
  BY <1>1 DEF Untouched

(* Then everything is apart.                                               *)
LEMMA UntouchedApart ==
  ASSUME Orderly, NEW d, Sound(d), Housed(d), NEW e, Untouched(d, e)
  PROVE  /\ Sound(e) /\ Housed(e)
         /\ \A p : Apart(d, e, p)
         /\ \A y \in DOMAIN e.files : y \in DOMAIN d.files /\ SameFile(d, e, y)
         /\ \A p : DirectoryKnown(d, p) => DirectoryKnown(e, p)
<1>1. /\ Sound(e) /\ Housed(e) /\ AlbumNames(d, e) /\ Touches(d, e, {}, {})
      /\ \A y \in DOMAIN e.files : y \in DOMAIN d.files /\ SameFile(d, e, y)
  BY DEF Untouched, Touches
<1>2. \A p : DirectoryKnown(d, p) => DirectoryKnown(e, p)
  BY DEF Untouched, DirectoryKnown
<1>3. ASSUME NEW p PROVE Apart(d, e, p)
  BY <1>1, <1>2, TouchesApart
<1>4. QED
  BY <1>1, <1>2, <1>3

(* The caller goes no further with its subdirectories.                     *)
LEMMA ToldTrue ==
  ASSUME NEW d, NEW q \in Seq(FrameType), q # <<>>, q[Len(q)].phase = "subs",
         FramesTrue(d, q), CallbacksSound(q),
         NEW r, r = [q EXCEPT ![Len(q)].todo = {}]
  PROVE  FramesTrue(d, r) /\ CallbacksSound(r)
<1> DEFINE n == Len(q)
           f == q[n]
           g == [f EXCEPT !.todo = {}]
<1>1. n \in Nat /\ n \in 1 .. n /\ f \in FrameType /\ f.phase = "subs" /\ {} \in SUBSET (Nat \cup Paths)
  OBVIOUS
<1>2. r = [q EXCEPT ![n] = g]
  OBVIOUS
<1>3. FrameTrue(d, f)
  BY <1>1 DEF FramesTrue
<1> HIDE DEF f
<1>4. /\ g.path = f.path /\ g.id = f.id /\ g.mtime = f.mtime /\ g.phase = f.phase /\ g.cb = f.cb
      /\ g \in FrameType
  BY <1>1 DEF FrameType
<1> HIDE DEF g
<1>5. /\ r \in Seq(FrameType) /\ Len(r) = n
      /\ \A i \in 1 .. n : r[i] = IF i = n THEN g ELSE q[i]
  <2> DEFINE u == [q EXCEPT ![n] = g]
  <2>1. u \in Seq(FrameType) /\ Len(u) = n /\ \A i \in 1 .. n : u[i] = IF i = n THEN g ELSE q[i]
    BY <1>1, <1>4
  <2>2. QED
    BY <1>2, <2>1
<1> HIDE DEF n
<1>6. FrameTrue(d, g)
  BY <1>1, <1>3, <1>4 DEF FrameTrue
<1>7. FramesTrue(d, r)
  BY <1>5, <1>6 DEF FramesTrue, n
<1>8. \A i \in 1 .. n : r[i].cb = q[i].cb /\ r[i].phase = q[i].phase
  BY <1>4, <1>5 DEF f
<1>9. CallbacksSound(r)
  BY <1>5, <1>8 DEF CallbacksSound, n
<1>10. QED
  BY <1>7, <1>9

(* The last call is on none of the directories of the calls before it.     *)
LEMMA CallersElsewhere ==
  ASSUME NEW d, NEW q \in Seq(FrameType), NEW f \in FrameType, FrameSound(d, f),
         CallersSound(d, q, f.path), NEW i \in 1 .. Len(q)
  PROVE  /\ q[i] \in FrameType /\ FrameSound(d, q[i]) /\ q[i].path # f.path /\ q[i].id # f.id
         /\ q[i].id \in DOMAIN d.directories
<1>1. q[i] \in FrameType /\ FrameSound(d, q[i]) /\ Depth[q[i].path] < Depth[f.path]
  BY DEF CallersSound
<1>2. Depth[f.path] \in Nat
  BY FrameFields, DepthGrows
<1>3. q[i].path # f.path
  BY <1>1, <1>2
<1>4. QED
  BY <1>1, <1>3 DEF FrameSound

(* The end of a call: its directory has been read.                         *)
LEMMA EndTrue ==
  ASSUME IInv, FilesTrue, stack # <<>>, Walked(db, stack), quiet => ~interrupted, End(Top),
         NEW e, e = db', NEW r, r = stack'
  PROVE  Walked(e, r)
<1> DEFINE f == Top
           q == Caller
           d == db
           x == f.id
<1>1. /\ q \in Seq(FrameType) /\ f \in FrameType /\ FrameSound(d, f) /\ CallersSound(d, q, f.path)
      /\ Orderly /\ Sound(d)
  BY TopIs DEF IInv, FilesTrue
<1>2. /\ LibraryTrue(d) /\ FrameTrue(d, f) /\ FramesTrue(d, q) /\ CallbacksSound(q) /\ Heeded(q, f)
      /\ quiet => Calm(d, q, f)
  BY TopTrue
<1>3. PICK a \in MainAlbums(d, x) :
        LET d1 == IF a = 0 THEN d ELSE AssignImages(d, x, a)
        IN e = IF interrupted THEN d1 ELSE DirectoryMtimeSet(d1, x, f.mtime)
  BY DEF End
<1>4. /\ f.phase = "read" /\ (f.todo = {} \/ interrupted)
      /\ r = IF f.cb /\ interrupted THEN [q EXCEPT ![Len(q)].todo = {}] ELSE q
  BY DEF End, Return
<1> HIDE DEF f, q, d
<1> DEFINE d1 == IF a = 0 THEN d ELSE AssignImages(d, x, a)
<1>5. /\ x \in DOMAIN d.directories /\ d.directories[x].path = f.path /\ f.mtime \in Nat
      /\ f.path \in Dirs
  BY <1>1, FrameFields DEF FrameSound
<1>6. a = 0 \/ a \in DOMAIN d.albums
  BY <1>1, <1>3 DEF MainAlbums, TracksIn, TracksOf, Sound, TracksSound
<1>7. Housed(d)
  BY <1>2 DEF LibraryTrue
<1>8. Sound(d1) /\ d1.directories = d.directories /\ Untouched(d, d1)
  <2>1. CASE a = 0
    <3>1. Touches(d, d, {}, {})
      BY <1>1, <1>7, SameAll
    <3>2. QED
      BY <1>1, <2>1, <3>1 DEF Untouched
  <2>2. CASE a # 0
    <3>1. a \in DOMAIN d.albums
      BY <1>6, <2>2
    <3> DEFINE d2 == AssignImages(d, x, a)
    <3>2. Sound(d2) /\ d2.directories = d.directories /\ ImagesAssigned(d, d2)
      BY <1>1, <3>1, AssignImagesKeeps
    <3>3. d1 = d2
      BY <2>2
    <3> HIDE DEF d1, d2
    <3>4. QED
      BY <1>1, <1>7, <3>2, <3>3, ImagesUntouched
  <2>3. QED
    BY <2>1, <2>2
<1>9. e = IF interrupted THEN d1 ELSE DirectoryMtimeSet(d1, x, f.mtime)
  BY <1>3
<1> HIDE DEF d1
<1>10. Housed(d1)
  BY <1>8 DEF Untouched, Touches
<1>11. ~interrupted => DirectorySet(d1, e, x, f.mtime) /\ Sound(e)
  BY <1>5, <1>8, <1>9, DirectoryMtimeSetKeeps
<1>12. Untouched(d, e)
  <2>1. CASE interrupted
    BY <1>8, <1>9, <2>1
  <2>2. CASE ~interrupted
    <3>1. Untouched(d1, e)
      BY <1>5, <1>8, <1>10, <1>11, <2>2, TimeUntouched
    <3>2. QED
      BY <1>8, <3>1, UntouchedAgain
  <2>3. QED
    BY <2>1, <2>2
<1>13. /\ Sound(e) /\ Housed(e) /\ (\A p : Apart(d, e, p)) /\ AlbumNames(d, e)
       /\ \A y \in DOMAIN e.files : y \in DOMAIN d.files /\ SameFile(d, e, y)
       /\ \A p : DirectoryKnown(d, p) => DirectoryKnown(e, p)
  BY <1>1, <1>7, <1>12, UntouchedApart DEF Apart
<1>14. /\ DOMAIN e.directories = DOMAIN d.directories
       /\ \A z \in DOMAIN d.directories : e.directories[z].path = d.directories[z].path
       /\ \A z \in DOMAIN d.directories \ {x} : e.directories[z] = d.directories[z]
       /\ interrupted => e.directories = d.directories
       /\ ~interrupted => e.directories[x].mtime = f.mtime
  BY <1>5, <1>8, <1>9, <1>11 DEF DirectorySet
<1>15. \A y \in DOMAIN e.files : FileTrue(e, y)
  BY <1>1, <1>2, <1>13, FileTrueStays DEF LibraryTrue
<1>16. ~interrupted => DirectoryTrue(e, x)
  <2> SUFFICES ASSUME ~interrupted PROVE DirectoryTrue(e, x)
    OBVIOUS
  <2>1. e.directories[x].path = f.path /\ e.directories[x].mtime = f.mtime
    BY <1>5, <1>14
  <2>2. f.mtime <= fs.mtime[f.path]
    BY <1>1, <1>2, PathTimes DEF FrameTrue, Paths
  <2>3. ASSUME Fresh(e, x)
        PROVE  /\ \A k \in Entries(f.path) \cap fs.present : Read(e, k)
               /\ \A y \in FilesIn(e, x) : InTime(e, y) /\ There(e.files[y].path)
    <3>1. Steady(f)
      BY <2>1, <2>3 DEF Fresh, Steady
    <3>2. ASSUME NEW k \in Entries(f.path) \cap fs.present PROVE Read(e, k)
      <4>1. Read(d, k)
        BY <1>2, <1>4, <3>1 DEF FrameTrue
      <4>2. Apart(d, e, f.path)
        BY <1>13
      <4>3. QED
        BY <1>1, <4>1, <4>2, ReadApart
    <3>3. FilesIn(e, x) = FilesIn(d, x) /\ \A y \in FilesIn(d, x) : e.files[y] = d.files[y]
      <4>1. Apart(d, e, f.path)
        BY <1>13
      <4>2. QED
        BY <1>5, <1>14, <4>1, FilesApart
    <3>4. \A y \in FilesIn(d, x) : InTime(d, y) /\ There(d.files[y].path)
      BY <1>2, <1>4, <3>1 DEF FrameTrue, Seen
    <3>5. QED
      BY <3>2, <3>3, <3>4 DEF InTime
  <2>4. QED
    BY <2>1, <2>2, <2>3 DEF DirectoryTrue
<1>17. LibraryTrue(e)
  <2>1. ASSUME NEW z \in DOMAIN e.directories
        PROVE  \/ DirectoryTrue(e, z)
               \/ /\ z \in DOMAIN d.directories /\ e.directories[z] = d.directories[z]
                  /\ Apart(d, e, d.directories[z].path)
    BY <1>13, <1>14, <1>16
  <2>2. QED
    BY <1>1, <1>2, <1>13, <1>15, <2>1, LibraryStays
<1>18. FramesTrue(e, q)
  <2>1. ASSUME NEW i \in 1 .. Len(q)
        PROVE  /\ q[i].id \in DOMAIN e.directories
               /\ e.directories[q[i].id] = d.directories[q[i].id]
               /\ Apart(d, e, q[i].path)
    <3>1. q[i].id # x /\ q[i].id \in DOMAIN d.directories
      BY <1>1, CallersElsewhere
    <3>2. QED
      BY <1>13, <1>14, <3>1
  <2>2. QED
    BY <1>1, <1>2, <2>1, FramesStay
<1>19. CASE interrupted
  <2>1. FramesTrue(e, r) /\ CallbacksSound(r)
    <3>1. CASE ~f.cb \/ q = <<>>
      <4>1. r = q
        BY <1>1, <1>4, <3>1
      <4>2. QED
        BY <1>2, <1>18, <4>1
    <3>2. CASE f.cb /\ q # <<>>
      <4>1. q[Len(q)].phase = "subs" /\ r = [q EXCEPT ![Len(q)].todo = {}]
        BY <1>2, <1>4, <1>19, <3>2 DEF Heeded
      <4>2. QED
        BY <1>1, <1>2, <1>18, <3>2, <4>1, ToldTrue
    <3>3. QED
      BY <3>1, <3>2
  <2>2. QED
    BY <1>17, <1>19, <2>1 DEF Walked
<1>20. CASE ~interrupted
  <2>1. r = q
    BY <1>4, <1>20
  <2>2. ASSUME quiet PROVE Calm(e, q, f) /\ Fresh(e, x)
    <3>1. Calm(d, q, f)
      BY <1>2, <2>2
    <3>2. Fresh(e, x)
      BY <1>5, <1>14, <1>20, <3>1 DEF Calm, Steady, Fresh
    <3>3. CallersSound(e, q, f.path)
      <4>1. \A i \in 1 .. Len(q) : FrameSound(e, q[i])
        <5>1. Keeps(d, d1, {}) /\ Keeps(d1, e, {})
          BY <1>5, <1>8, <1>9, <1>20, Unmoved, DirectoryMtimeSetKeeps
        <5>2. CallersSound(d1, q, f.path)
          BY <1>1, <5>1, CallersKept
        <5>3. CallersSound(e, q, f.path)
          BY <5>1, <5>2, CallersKept
        <5>4. QED
          BY <5>3 DEF CallersSound
      <4>2. QED
        BY <1>1, <4>1 DEF CallersSound
    <3>4. SamePaths(d, e)
      BY <1>14 DEF SamePaths
    <3>5. ASSUME NEW z \in DOMAIN e.directories
          PROVE  Fresh(e, z) \/ Pending(e, q, z) \/ Before(e, f, z)
      <4>1. CASE z = x
        BY <3>2, <4>1
      <4>2. CASE z # x
        <5>1. z \in DOMAIN d.directories /\ e.directories[z] = d.directories[z]
          BY <1>14, <4>2
        <5>2. Fresh(d, z) \/ Pending(d, q, z)
          <6>1. ~Before(d, f, z)
            BY <1>4, <4>2 DEF Before
          <6>2. QED
            BY <3>1, <5>1, <6>1 DEF Calm
        <5>3. Fresh(d, z) => Fresh(e, z)
          BY <5>1 DEF Fresh
        <5>4. Pending(d, q, z) => Pending(e, q, z)
          BY <1>1, <3>3, <3>4, <5>1, PendingStays
        <5>5. QED
          BY <5>2, <5>3, <5>4
      <4>3. QED
        BY <4>1, <4>2
    <3>6. Root \in fs.present => DirectoryKnown(e, Root)
      BY <1>13, <3>1 DEF Calm
    <3>7. QED
      BY <3>1, <3>2, <3>5, <3>6 DEF Calm
  <2>3. Walked(e, q)
    BY <1>2, <1>4, <1>17, <1>18, <2>2, DoneTrue
  <2>4. QED
    BY <2>1, <2>3
<1>21. QED
  BY <1>19, <1>20

(* A call that makes another one.                                          *)
LEMMA CalledTrue ==
  ASSUME NEW d, NEW q \in Seq(FrameType), NEW g \in FrameType, NEW h \in FrameType,
         LibraryTrue(d), FramesTrue(d, q), CallbacksSound(q), Heeded(q, g),
         FrameTrue(d, g), FrameTrue(d, h), h.cb => g.phase = "subs",
         quiet => /\ Steady(g) /\ Steady(h) /\ \A i \in 1 .. Len(q) : Steady(q[i])
                  /\ \A x \in DOMAIN d.directories :
                       Fresh(d, x) \/ Pending(d, q, x) \/ Before(d, g, x) \/ Before(d, h, x)
                  /\ Root \in fs.present => DirectoryKnown(d, Root)
  PROVE  Walked(d, Append(Append(q, g), h))
<1> DEFINE r == Append(q, g)
           n == Len(q)
<1>1. /\ r \in Seq(FrameType) /\ n \in Nat /\ Len(r) = n + 1 /\ r[n + 1] = g
      /\ \A i \in 1 .. n : r[i] = q[i]
  OBVIOUS
<1>2. /\ FramesTrue(d, r) /\ CallbacksSound(r)
      /\ \A x : Pending(d, r, x) <=> Pending(d, q, x) \/ Before(d, g, x)
  BY FramesAppend
<1> HIDE DEF r, n
<1>3. Heeded(r, h)
  BY <1>1 DEF Heeded
<1>4. ASSUME quiet PROVE Calm(d, r, h)
  <2>1. ASSUME NEW i \in 1 .. Len(r) PROVE Steady(r[i])
    <3>1. i \in 1 .. n \/ i = n + 1
      BY <1>1, <2>1
    <3>2. QED
      BY <1>1, <1>4, <3>1 DEF n
  <2>2. QED
    BY <1>2, <1>4, <2>1 DEF Calm
<1>5. QED
  BY <1>1, <1>2, <1>3, <1>4, WalkedAppend DEF r

(* A directory that has gone is deleted, and all that is below it: the     *)
(* directories that are left are not touched.                              *)
LEMMA DeletedApart ==
  ASSUME Orderly, FilesTrue, NEW d, Sound(d), LibraryTrue(d), NEW s \in DOMAIN d.directories,
         d.directories[s].path \notin fs.present, NEW e, e = DirectoryDelete(d, s)
  PROVE  /\ LibraryTrue(e) /\ Sound(e) /\ SamePaths(d, e)
         /\ \A z \in DOMAIN e.directories :
              /\ z \in DOMAIN d.directories \ Below(d, s) /\ e.directories[z] = d.directories[z]
              /\ Apart(d, e, d.directories[z].path)
         /\ \A p \in fs.present : DirectoryKnown(d, p) => DirectoryKnown(e, p)
<1> DEFINE B == Below(d, s)
           S == {y \in DOMAIN d.files : d.files[y].directory \in B}
           T == {d.files[y].path : y \in DOMAIN d.files \cap S}
<1>1. Sound(e) /\ DirectoriesLeft(d, e, B) /\ FilesLeft(d, e, S)
  BY DirectoryDeleteKeeps
<1> HIDE DEF B, S
<1>2. /\ DOMAIN e.directories = DOMAIN d.directories \ B
      /\ \A z \in DOMAIN e.directories : e.directories[z] = d.directories[z]
  BY <1>1 DEF DirectoriesLeft
<1>3. Housed(d)
  BY DEF LibraryTrue
<1>4. Touches(d, e, T, {})
  BY <1>1, <1>2, <1>3, LeftTouches
<1>5. \A w \in B : d.directories[w].path \notin fs.present
  BY BelowGone DEF B
<1>6. \A p \in fs.present : DirectoryKnown(d, p) => DirectoryKnown(e, p)
  BY <1>2, <1>5 DEF DirectoryKnown
<1>7. ASSUME NEW z \in DOMAIN e.directories
      PROVE  Apart(d, e, d.directories[z].path)
  <2> DEFINE p == d.directories[z].path
  <2>1. Entries(p) \cap (T \cup {}) = {}
    <3> SUFFICES ASSUME NEW y \in DOMAIN d.files \cap S, d.files[y].path \in Entries(p) PROVE FALSE
      OBVIOUS
    <3>1. /\ d.files[y].directory \in DOMAIN d.directories
          /\ d.directories[d.files[y].directory].path = p
      BY <1>3, FileFacts DEF Entries, Housed
    <3>2. z \in DOMAIN d.directories /\ z \notin B
      BY <1>2
    <3>3. d.files[y].directory = z
      BY <3>1, <3>2, RowFacts
    <3>4. QED
      BY <3>2, <3>3 DEF S
  <2>2. \A k \in Entries(p) \cap fs.present : k \in Dirs /\ DirectoryKnown(d, k) => DirectoryKnown(e, k)
    BY <1>6
  <2> HIDE DEF T, p
  <2>3. Apart(d, e, p)
    BY <1>3, <1>4, <2>1, <2>2, TouchesApart
  <2>4. QED
    BY <2>3 DEF p
<1>8. ASSUME NEW y \in DOMAIN e.files PROVE FileTrue(e, y)
  <2>1. y \in DOMAIN d.files /\ y \notin S /\ d.files[y].path \notin T
    <3>1. y \in DOMAIN d.files /\ y \notin S
      BY <1>1 DEF FilesLeft
    <3>2. \A x \in DOMAIN d.files : d.files[x].path = d.files[y].path => x = y
      BY <3>1, FileFacts
    <3>3. QED
      BY <3>1, <3>2
  <2> HIDE DEF T
  <2>2. SameFile(d, e, y) /\ AlbumNames(d, e) /\ FileTrue(d, y)
    BY <1>4, <2>1 DEF Touches, LibraryTrue
  <2>3. QED
    BY <1>1, <2>2, FileTrueStays
<1>9. LibraryTrue(e)
  <2>1. Housed(e)
    BY <1>4 DEF Touches
  <2>2. QED
    BY <1>2, <1>7, <1>8, <2>1, LibraryStays
<1>10. QED
  BY <1>1, <1>2, <1>6, <1>7, <1>9 DEF SamePaths, B

(* scan_directory_cb for a directory that has gone.                        *)
LEMMA GoneTrue ==
  ASSUME IInv, FilesTrue, stack # <<>>, Walked(db, stack), Subdirectory(Top),
         NEW s, s = Min(Top.todo), db.directories[s].path \notin fs.present,
         NEW e, e = db', NEW r, r = stack'
  PROVE  Walked(e, r)
<1> DEFINE f == Top
           q == Caller
           d == db
           rest == f.todo \ {s}
           g == [f EXCEPT !.todo = rest]
<1>1. /\ q \in Seq(FrameType) /\ f \in FrameType /\ FrameSound(d, f) /\ CallersSound(d, q, f.path)
      /\ Orderly /\ Sound(d)
  BY TopIs DEF IInv, FilesTrue
<1>2. /\ LibraryTrue(d) /\ FrameTrue(d, f) /\ FramesTrue(d, q) /\ CallbacksSound(q) /\ Heeded(q, f)
      /\ quiet => Calm(d, q, f)
  BY TopTrue
<1>3. /\ f.phase = "subs" /\ f.todo # {} /\ s = Min(f.todo) /\ d.directories[s].path \notin fs.present
      /\ e = DirectoryDelete(d, s) /\ r = Append(q, g)
  BY DEF Subdirectory, Replace, Done
<1>4. StackSound(e, r)
  BY SubdirectoryStep DEF WalkInv
<1> HIDE DEF f, q, d
<1>5. /\ f.id \in DOMAIN d.directories /\ d.directories[f.id].path = f.path
      /\ f.todo \subseteq Subdirectories(d, f.id)
  BY <1>1, <1>3 DEF FrameSound
<1>6. s \in f.todo
  <2>1. f.todo \in SUBSET Nat
    BY <1>1, <1>5, Todos
  <2>2. QED
    BY <1>3, <2>1, LeastOf
<1>7. s \in DOMAIN d.directories
  BY <1>5, <1>6 DEF Subdirectories
<1>8. /\ g \in FrameType /\ g.path = f.path /\ g.id = f.id /\ g.mtime = f.mtime
      /\ g.phase = "subs" /\ g.cb = f.cb /\ g.todo = rest
  <2>1. rest \in SUBSET (Nat \cup Paths) /\ g = [f EXCEPT !.todo = rest]
    BY <1>1, FrameFields
  <2> HIDE DEF rest, g
  <2>2. /\ g \in FrameType /\ g.path = f.path /\ g.id = f.id /\ g.mtime = f.mtime
        /\ g.phase = f.phase /\ g.cb = f.cb /\ g.todo = rest
    BY <1>1, <2>1 DEF FrameType
  <2>3. QED
    BY <1>3, <2>2
<1> HIDE DEF g
<1>9. /\ LibraryTrue(e) /\ Sound(e) /\ SamePaths(d, e)
      /\ \A z \in DOMAIN e.directories :
           /\ z \in DOMAIN d.directories \ Below(d, s) /\ e.directories[z] = d.directories[z]
           /\ Apart(d, e, d.directories[z].path)
      /\ \A p \in fs.present : DirectoryKnown(d, p) => DirectoryKnown(e, p)
  BY <1>1, <1>2, <1>3, <1>7, DeletedApart
<1>10. FrameSound(e, g) /\ CallersSound(e, q, f.path)
  <2> DEFINE n == Len(q)
  <2>1. /\ n \in Nat /\ Len(r) = n + 1 /\ r[n + 1] = g /\ \A i \in 1 .. n : r[i] = q[i]
    BY <1>1, <1>3, <1>8
  <2> HIDE DEF n
  <2>2. \A i \in 1 .. n + 1 : FrameSound(e, r[i])
    BY <1>4, <2>1 DEF StackSound
  <2>3. n + 1 \in 1 .. n + 1 /\ \A i \in 1 .. n : i \in 1 .. n + 1
    BY <2>1
  <2>4. FrameSound(e, g) /\ \A i \in 1 .. n : FrameSound(e, q[i])
    BY <2>1, <2>2, <2>3
  <2>5. QED
    BY <1>1, <2>4 DEF CallersSound, n
<1>11. FramesTrue(e, q)
  <2>1. ASSUME NEW i \in 1 .. Len(q)
        PROVE  /\ q[i].id \in DOMAIN e.directories
               /\ e.directories[q[i].id] = d.directories[q[i].id]
               /\ Apart(d, e, q[i].path)
    <3>1. FrameSound(e, q[i]) /\ FrameSound(d, q[i])
      BY <1>1, <1>10 DEF CallersSound
    <3>2. q[i].id \in DOMAIN e.directories /\ d.directories[q[i].id].path = q[i].path
      BY <3>1 DEF FrameSound
    <3>3. /\ e.directories[q[i].id] = d.directories[q[i].id]
          /\ Apart(d, e, d.directories[q[i].id].path)
      BY <1>9, <3>2
    <3>4. QED
      BY <3>2, <3>3
  <2>2. QED
    BY <1>1, <1>2, <2>1, FramesStay
<1>12. FrameTrue(e, g)
  <2>1. FrameSound(d, g)
    BY <1>3, <1>5, <1>8 DEF FrameSound
  <2>2. FrameTrue(d, g)
    BY <1>2, <1>8 DEF FrameTrue
  <2>3. g.id \in DOMAIN e.directories /\ d.directories[g.id].path = g.path
    BY <1>5, <1>8, <1>10 DEF FrameSound
  <2>4. e.directories[g.id] = d.directories[g.id] /\ Apart(d, e, d.directories[g.id].path)
    BY <1>9, <2>3
  <2>5. Apart(d, e, g.path)
    BY <2>3, <2>4
  <2>6. QED
    BY <1>1, <2>1, <2>2, <2>3, <2>4, <2>5, FrameApart
<1>13. Heeded(q, g)
  BY <1>2, <1>8 DEF Heeded
<1>14. ASSUME quiet PROVE Calm(e, q, g)
  <2>1. Calm(d, q, f)
    BY <1>2, <1>14
  <2>2. Steady(g) /\ \A i \in 1 .. Len(q) : Steady(q[i])
    BY <1>8, <2>1 DEF Calm, Steady
  <2>3. Root \in fs.present => DirectoryKnown(e, Root)
    BY <1>9, <2>1 DEF Calm
  <2>4. ASSUME NEW z \in DOMAIN e.directories
        PROVE  Fresh(e, z) \/ Pending(e, q, z) \/ Before(e, g, z)
    <3>1. z \in DOMAIN d.directories \ Below(d, s) /\ e.directories[z] = d.directories[z]
      BY <1>9
    <3>2. Fresh(d, z) \/ Pending(d, q, z) \/ Before(d, f, z)
      BY <2>1, <3>1 DEF Calm
    <3>3. Fresh(d, z) => Fresh(e, z)
      BY <3>1 DEF Fresh
    <3>4. Pending(d, q, z) => Pending(e, q, z)
      BY <1>1, <1>9, <1>10, <3>1, PendingStays
    <3>5. ASSUME Before(d, f, z) PROVE Before(e, g, z)
      <4>1. CASE f.id = z
        BY <1>8, <4>1 DEF Before
      <4>2. CASE f.id # z
        <5>1. PICK c \in f.todo : d.directories[z].path \in Under(d.directories[c].path)
          BY <3>5, <4>2 DEF Before
        <5>2. c # s
          BY <1>1, <1>7, <3>1, <5>1, UnderRow
        <5>3. c \in g.todo /\ c \in DOMAIN d.directories /\ c \in DOMAIN e.directories
          BY <1>5, <1>8, <1>10, <5>1, <5>2 DEF FrameSound, Subdirectories
        <5>4. e.directories[c].path = d.directories[c].path
          BY <1>9, <5>3 DEF SamePaths
        <5>5. QED
          BY <1>8, <3>1, <5>1, <5>3, <5>4 DEF Before
      <4>3. QED
        BY <4>1, <4>2
    <3>6. QED
      BY <3>2, <3>3, <3>4, <3>5
  <2>5. QED
    BY <2>2, <2>3, <2>4 DEF Calm
<1>15. Walked(e, Append(q, g))
  BY <1>1, <1>2, <1>8, <1>9, <1>11, <1>12, <1>13, <1>14, WalkedAppend
<1>16. QED
  BY <1>3, <1>15

(* scan_directory_cb for a directory that is there.                        *)
LEMMA ThereTrue ==
  ASSUME IInv, FilesTrue, stack # <<>>, Walked(db, stack), quiet => ~interrupted, Subdirectory(Top),
         NEW s, s = Min(Top.todo), db.directories[s].path \in fs.present,
         NEW e, e = db', NEW r, r = stack'
  PROVE  Walked(e, r)
<1> DEFINE f == Top
           q == Caller
           d == db
           p == d.directories[s].path
           rest == IF interrupted THEN {} ELSE f.todo \ {s}
           subs == Subdirectories(d, s)
           g == [f EXCEPT !.todo = rest]
           h == Frame(p, s, "subs", subs, TRUE)
<1>1. /\ q \in Seq(FrameType) /\ f \in FrameType /\ FrameSound(d, f) /\ CallersSound(d, q, f.path)
      /\ Orderly /\ Sound(d)
  BY TopIs DEF IInv, FilesTrue
<1>2. /\ LibraryTrue(d) /\ FrameTrue(d, f) /\ FramesTrue(d, q) /\ CallbacksSound(q) /\ Heeded(q, f)
      /\ quiet => Calm(d, q, f)
  BY TopTrue
<1>3. /\ f.phase = "subs" /\ f.todo # {} /\ s = Min(f.todo) /\ p \in fs.present /\ e = d
      /\ interrupted => r = Append(q, g)
      /\ ~interrupted => r = Append(Append(q, g), h)
  BY DEF Subdirectory, Replace, Done
<1> HIDE DEF f, q, d
<1>4. /\ f.id \in DOMAIN d.directories /\ d.directories[f.id].path = f.path
      /\ f.todo \subseteq Subdirectories(d, f.id)
  BY <1>1, <1>3 DEF FrameSound
<1>5. s \in f.todo
  <2>1. f.todo \in SUBSET Nat
    BY <1>1, <1>4, Todos
  <2>2. QED
    BY <1>3, <2>1, LeastOf
<1>6. s \in DOMAIN d.directories
  BY <1>4, <1>5 DEF Subdirectories
<1>7. s \in Nat /\ p \in Dirs /\ p \in Paths
  BY <1>1, <1>6, RowFacts
<1>8. /\ g \in FrameType /\ g.path = f.path /\ g.id = f.id /\ g.mtime = f.mtime
      /\ g.phase = "subs" /\ g.cb = f.cb /\ g.todo = rest
  <2>1. rest \in SUBSET (Nat \cup Paths) /\ g = [f EXCEPT !.todo = rest]
    BY <1>1, FrameFields
  <2> HIDE DEF rest, g
  <2>2. QED
    BY <1>1, <1>3, <2>1 DEF FrameType
<1> HIDE DEF g
<1>9. FrameTrue(d, g) /\ Heeded(q, g)
  BY <1>2, <1>3, <1>8 DEF FrameTrue, Heeded
<1>10. CASE interrupted
  <2>1. Walked(d, Append(q, g))
    BY <1>1, <1>2, <1>8, <1>9, <1>10, WalkedAppend
  <2>2. QED
    BY <1>3, <1>10, <2>1
<1>11. CASE ~interrupted
  <2>1. /\ h \in FrameType /\ h.path = p /\ h.id = s /\ h.mtime = fs.mtime[p]
        /\ h.phase = "subs" /\ h.todo = subs
    <3>1. subs \in SUBSET (Nat \cup Paths) /\ fs.mtime[p] \in Nat
      BY <1>1, <1>7, Todos, PathTimes
    <3> HIDE DEF subs, p
    <3>2. QED
      BY <1>7, <3>1 DEF Frame, FrameType
  <2> HIDE DEF h
  <2>2. FrameTrue(d, h)
    <3>1. fs.mtime[p] \in Nat /\ fs.mtime[p] \in 1 .. changes + 1
      BY <1>1, <1>7, PathTimes DEF FilesTrue
    <3>2. fs.mtime[p] \in 1 .. fs.mtime[p]
      BY <3>1
    <3>3. d.directories[s].mtime <= fs.mtime[p]
      BY <1>2, <1>6 DEF LibraryTrue, DirectoryTrue
    <3>4. QED
      BY <2>1, <3>2, <3>3 DEF FrameTrue
  <2>3. ASSUME quiet
        PROVE  /\ Steady(g) /\ Steady(h) /\ \A i \in 1 .. Len(q) : Steady(q[i])
               /\ \A x \in DOMAIN d.directories :
                    Fresh(d, x) \/ Pending(d, q, x) \/ Before(d, g, x) \/ Before(d, h, x)
               /\ Root \in fs.present => DirectoryKnown(d, Root)
    <3>1. Calm(d, q, f)
      BY <1>2, <2>3
    <3>2. Steady(g) /\ Steady(h)
      BY <1>3, <1>8, <2>1, <3>1 DEF Calm, Steady
    <3>3. ASSUME NEW x \in DOMAIN d.directories, Before(d, f, x)
          PROVE  Before(d, g, x) \/ Before(d, h, x)
      <4>1. CASE f.id = x
        BY <1>8, <4>1 DEF Before
      <4>2. CASE f.id # x
        <5>1. PICK c \in f.todo : d.directories[x].path \in Under(d.directories[c].path)
          BY <3>3, <4>2 DEF Before
        <5>2. CASE c # s
          BY <1>8, <1>11, <5>1, <5>2 DEF Before
        <5>3. CASE c = s
          <6>1. x = s \/ \E k \in Subdirectories(d, s) : d.directories[x].path \in Under(d.directories[k].path)
            BY <1>1, <1>6, <3>3, <5>1, <5>3, UnderRow
          <6>2. QED
            BY <2>1, <6>1 DEF Before
        <5>4. QED
          BY <5>2, <5>3
      <4>3. QED
        BY <4>1, <4>2
    <3>4. QED
      BY <3>1, <3>2, <3>3 DEF Calm
  <2>4. Walked(d, Append(Append(q, g), h))
    BY <1>1, <1>2, <1>8, <1>9, <2>1, <2>2, <2>3, CalledTrue
  <2>5. QED
    BY <1>3, <1>11, <2>4
<1>12. QED
  BY <1>10, <1>11

(* One entry less to read.                                                 *)
LEMMA EntryDone ==
  ASSUME NEW d, NEW f, FrameTrue(d, f), f.phase = "read", NEW p,
         p \in fs.present => Read(d, p),
         NEW g, g.path = f.path, g.id = f.id, g.mtime = f.mtime, g.phase = "read",
         g.todo = f.todo \ {p}
  PROVE  FrameTrue(d, g)
<1>1. Seen(d, g) = Seen(d, f) /\ (Steady(g) <=> Steady(f))
  BY DEF Seen, Steady
<1>2. ASSUME Steady(g), NEW k \in (Entries(g.path) \cap fs.present) \ g.todo
      PROVE  Read(d, k)
  <2>1. k = p \/ k \in (Entries(f.path) \cap fs.present) \ f.todo
    BY <1>2
  <2>2. k # p => Read(d, k)
    BY <1>1, <1>2, <2>1 DEF FrameTrue
  <2>3. QED
    BY <1>2, <2>2
<1>3. QED
  BY <1>1, <1>2 DEF FrameTrue

(* The file that is read at last is in time with its row.                  *)
LEMMA FileEntryTrue ==
  ASSUME Orderly, FilesTrue, NEW d, Sound(d), LibraryTrue(d), NEW f \in FrameType,
         FrameSound(d, f), FrameTrue(d, f), f.phase = "read",
         NEW p \in Files, p \in fs.present, Home[p] = f.path,
         ~(FileId(d, p) > 0 /\ d.files[FileId(d, p)].mtime = fs.mtime[p]),
         NEW e, e = ScanFile(d, p, f.id),
         NEW g, g.path = f.path, g.id = f.id, g.mtime = f.mtime, g.phase = "read",
         g.todo = f.todo \ {p}
  PROVE  /\ TouchesIn(d, e, f.path) /\ FrameTrue(e, g)
         /\ \A y \in DOMAIN e.files : FileTrue(e, y)
<1>1. Housed(d) /\ \A y \in DOMAIN d.files : FileTrue(d, y)
  BY DEF LibraryTrue
<1>2. /\ f.id \in DOMAIN d.directories /\ d.directories[f.id].path = f.path
  BY DEF FrameSound
<1>3. ASSUME Known(d, p)
      PROVE  p \in rewritten \cup Sheets
  <2> DEFINE y == FileId(d, p)
  <2>1. y \in DOMAIN d.files /\ d.files[y].path = p /\ y > 0
    BY <1>3, IdOfFile DEF Sound
  <2>2. d.files[y].mtime # fs.mtime[p]
    BY <2>1
  <2> HIDE DEF y
  <2>3. y \in FilesIn(d, f.id)
    <3>1. /\ d.files[y].directory \in DOMAIN d.directories
          /\ d.directories[d.files[y].directory].path = f.path
      BY <1>1, <2>1, FileFacts DEF Housed
    <3>2. d.files[y].directory = f.id
      BY <1>2, <3>1, RowFacts
    <3>3. QED
      BY <2>1, <3>2 DEF FilesIn
  <2>4. InTime(d, y)
    BY <2>3 DEF FrameTrue, Seen
  <2>5. QED
    BY <2>1, <2>2, <2>4 DEF InTime
<1>4. p \in rewritten \cup Sheets \/ Blank(d, FileId(d, p))
  <2>1. CASE Known(d, p)
    BY <1>3, <2>1
  <2>2. CASE ~Known(d, p)
    <3> DEFINE y == FileId(d, p)
    <3>1. y \notin DOMAIN d.files
      <4>1. y = 0
        BY <2>2, IdOfFile DEF Sound
      <4>2. QED
        BY <4>1, FileFacts
    <3> HIDE DEF y
    <3>2. TracksOf(d, {y}) = {} /\ ImagesOf(d, {y}) = {}
      BY <3>1, NoRow
    <3>3. QED
      BY <3>2 DEF Blank, y
  <2>3. QED
    BY <2>1, <2>2
<1>5. ScanDone(d, e, p)
  BY <1>1, <1>2, <1>4, FileScanned
<1>6. /\ Sound(e) /\ Housed(e) /\ e.directories = d.directories /\ TouchesIn(d, e, f.path)
  BY <1>1, <1>5, ScanSound
<1>7. \A y \in DOMAIN e.files : FileTrue(e, y)
  <2> DEFINE none == {}
  <2>1. \A y \in DOMAIN d.files : d.files[y].path \notin none => FileTrue(d, y)
    BY <1>1
  <2> HIDE DEF none
  <2>2. \A y \in DOMAIN e.files : e.files[y].path \notin none => FileTrue(e, y)
    BY <1>1, <1>5, <2>1, ScanFilesTrue
  <2>3. QED
    BY <2>2 DEF none
<1>8. ASSUME NEW y \in Seen(e, g)
      PROVE  InTime(e, y) /\ (Steady(g) => There(e.files[y].path))
  <2>1. y \in FilesIn(e, f.id) /\ y \in DOMAIN e.files
    BY <1>8 DEF Seen, FilesIn
  <2>2. SameFile(d, e, y) \/ (InTime(e, y) /\ There(e.files[y].path))
    BY <1>5, <2>1, ScanSeen
  <2>3. CASE SameFile(d, e, y)
    <3>1. y \in DOMAIN d.files /\ e.files[y] = d.files[y]
      BY <2>3 DEF SameFile
    <3>2. y \in Seen(d, f)
      BY <2>1, <3>1 DEF Seen, FilesIn
    <3>3. InTime(d, y) /\ (Steady(f) => There(d.files[y].path))
      BY <3>2 DEF FrameTrue
    <3>4. QED
      BY <3>1, <3>3 DEF InTime, Steady
  <2>4. QED
    BY <2>2, <2>3
<1>9. ASSUME Steady(g), NEW k \in (Entries(g.path) \cap fs.present) \ g.todo
      PROVE  Read(e, k)
  <2>1. CASE k = p
    BY <1>5, <2>1, ScanReads
  <2>2. CASE k # p
    <3>1. k \in (Entries(f.path) \cap fs.present) \ f.todo /\ Steady(f)
      BY <1>9, <2>2 DEF Steady
    <3>2. Read(d, k)
      BY <3>1 DEF FrameTrue
    <3>3. p \in rewritten \cup Sheets \/ ~Known(d, p)
      BY <1>3
    <3>4. k \in Entries(Home[p]) \cap fs.present
      BY <3>1
    <3>5. QED
      BY <1>1, <1>5, <3>2, <3>3, <3>4, ScanKeepsRead
  <2>3. QED
    BY <2>1, <2>2
<1>10. /\ f.mtime \in 1 .. fs.mtime[f.path] /\ d.directories[f.id].mtime <= f.mtime
       /\ d.directories[f.id].mtime # f.mtime
  BY DEF FrameTrue
<1>11. FrameTrue(e, g)
  BY <1>6, <1>8, <1>9, <1>10 DEF FrameTrue
<1>12. QED
  BY <1>6, <1>7, <1>11

(* An entry that is a file, or is not there any more.                      *)
LEMMA FileStepTrue ==
  ASSUME IInv, FilesTrue, stack # <<>>, Walked(db, stack), Top.phase = "read",
         NEW p \in Top.todo, ~(p \in Dirs /\ p \in fs.present),
         NEW e, e = IF p \notin fs.present THEN db
                    ELSE IF FileId(db, p) > 0 /\ db.files[FileId(db, p)].mtime = fs.mtime[p] THEN db
                    ELSE ScanFile(db, p, Top.id),
         NEW r, r = Done(Top, p)
  PROVE  Walked(e, r)
<1> DEFINE f == Top
           d == db
           rest == f.todo \ {p}
           g == [f EXCEPT !.todo = rest]
<1>1. f \in FrameType /\ FrameSound(d, f) /\ Orderly /\ Sound(d)
  BY TopIs DEF IInv, FilesTrue
<1>2. LibraryTrue(d) /\ FrameTrue(d, f)
  BY TopTrue
<1>3. /\ r = Append(Caller, g) /\ f.phase = "read" /\ p \in f.todo
      /\ e = IF p \notin fs.present THEN d
             ELSE IF FileId(d, p) > 0 /\ d.files[FileId(d, p)].mtime = fs.mtime[p] THEN d
             ELSE ScanFile(d, p, f.id)
  BY DEF Done, Replace
<1> HIDE DEF f, d
<1>4. p \in Paths /\ Home[p] = f.path
  BY <1>1, <1>3 DEF FrameSound, Entries
<1>5. /\ g \in FrameType /\ g.path = f.path /\ g.id = f.id /\ g.mtime = f.mtime
      /\ g.phase = "read" /\ g.cb = f.cb /\ g.todo = rest
  <2>1. rest \in SUBSET (Nat \cup Paths) /\ g = [f EXCEPT !.todo = rest]
    BY <1>1, FrameFields
  <2> HIDE DEF rest, g
  <2>2. QED
    BY <1>1, <1>3, <2>1 DEF FrameType
<1> HIDE DEF g
<1>6. p \in fs.present => p \in Files
  BY <1>4 DEF Paths
<1>7. TouchesIn(d, e, f.path) /\ FrameTrue(e, g) /\ \A y \in DOMAIN e.files : FileTrue(e, y)
  <2> DEFINE same == FileId(d, p) > 0 /\ d.files[FileId(d, p)].mtime = fs.mtime[p]
  <2>1. CASE p \notin fs.present \/ same
    <3>1. e = d
      BY <1>3, <2>1
    <3>2. TouchesIn(d, d, f.path)
      <4>1. Touches(d, d, {}, {})
        BY <1>1, <1>2, SameAll DEF LibraryTrue
      <4>2. QED
        BY <4>1 DEF TouchesIn
    <3>3. p \in fs.present => Read(d, p)
      <4> SUFFICES ASSUME p \in fs.present, same PROVE Read(d, p)
        BY <2>1
      <4> DEFINE y == FileId(d, p)
      <4>1. Known(d, p) /\ y \in DOMAIN d.files /\ d.files[y].path = p
        BY <1>1, IdOfFile DEF Sound
      <4>2. d.files[y].mtime = fs.mtime[p]
        OBVIOUS
      <4> HIDE DEF y, same
      <4>3. FileTrue(d, y) /\ fs.mtime[p] \in 1 .. changes + 1
        BY <1>2, <1>4, <4>1 DEF LibraryTrue, FilesTrue
      <4>4. p \notin Sheets
        BY <4>1, <4>2, <4>3 DEF FileTrue
      <4>5. p \notin Dirs
        OBVIOUS
      <4>6. QED
        BY <4>1, <4>4, <4>5 DEF Read
    <3>4. FrameTrue(d, g)
      BY <1>2, <1>3, <1>5, <3>3, EntryDone
    <3>5. QED
      BY <1>2, <3>1, <3>2, <3>4 DEF LibraryTrue
  <2>2. CASE p \in fs.present /\ ~same
    <3>1. e = ScanFile(d, p, f.id) /\ p \in Files
      BY <1>3, <1>6, <2>2
    <3>2. QED
      BY <1>1, <1>2, <1>3, <1>4, <1>5, <2>2, <3>1, FileEntryTrue
  <2>3. QED
    BY <2>1, <2>2
<1>8. Walked(e, Append(Caller, g))
  BY <1>3, <1>5, <1>7, TopReplaced DEF f, d
<1>9. QED
  BY <1>3, <1>8

(* A call on a directory that has a row, with all that is known in it      *)
(* before it.                                                              *)
KnownCall(d, p, x, h) ==
  /\ h \in FrameType /\ h.path = p /\ h.id = x /\ h.phase = "subs"
  /\ FrameTrue(d, h) /\ Steady(h) /\ FrameSound(d, h)
  /\ \A z \in DOMAIN d.directories : d.directories[z].path \in Under(p) => Before(d, h, z)
NewCall(d, e, p, h) ==
  /\ LibraryTrue(e) /\ Sound(e) /\ Keeps(d, e, {}) /\ Untouched(d, e)
  /\ \A z \in DOMAIN d.directories : z \in DOMAIN e.directories /\ e.directories[z] = d.directories[z]
  /\ \A z \in DOMAIN e.directories : z \in DOMAIN d.directories \/ z = h.id
  /\ h \in FrameType /\ h.path = p /\ DirectoryKnown(e, p) /\ FrameTrue(e, h) /\ Steady(h)

(* A call on a directory that is known.                                    *)
LEMMA CallKnown ==
  ASSUME Orderly, FilesTrue, NEW d, Sound(d), LibraryTrue(d), NEW x \in DOMAIN d.directories,
         NEW p, p = d.directories[x].path, p \in fs.present,
         NEW h, h = Frame(p, x, "subs", Subdirectories(d, x), FALSE)
  PROVE  KnownCall(d, p, x, h)
<1> DEFINE subs == Subdirectories(d, x)
<1>1. /\ subs \in SUBSET (Nat \cup Paths) /\ fs.mtime[p] \in Nat /\ p \in Dirs /\ p \in Paths /\ x \in Nat
      /\ fs.mtime[p] \in 1 .. changes + 1
  BY RowFacts, Todos, PathTimes DEF FilesTrue
<1> HIDE DEF subs
<1>2. /\ h \in FrameType /\ h.path = p /\ h.id = x /\ h.mtime = fs.mtime[p]
      /\ h.phase = "subs" /\ h.todo = subs
  BY <1>1 DEF Frame, FrameType, subs
<1>3. d.directories[x].mtime <= fs.mtime[p] /\ fs.mtime[p] \in 1 .. fs.mtime[p]
  BY <1>1 DEF LibraryTrue, DirectoryTrue
<1>4. FrameTrue(d, h) /\ Steady(h) /\ FrameSound(d, h)
  BY <1>2, <1>3 DEF FrameTrue, Steady, FrameSound, subs
<1>5. ASSUME NEW z \in DOMAIN d.directories, d.directories[z].path \in Under(p)
      PROVE  Before(d, h, z)
  <2>1. z = x \/ \E c \in Subdirectories(d, x) : d.directories[z].path \in Under(d.directories[c].path)
    BY <1>5, UnderRow
  <2>2. QED
    BY <1>2, <2>1 DEF Before, subs
<1>6. QED
  BY <1>2, <1>4, <1>5 DEF KnownCall

(* A call on a directory that is new.                                      *)
LEMMA CallNew ==
  ASSUME Orderly, FilesTrue, NEW d, Sound(d), LibraryTrue(d), NEW p \in Dirs, p \in fs.present,
         DirectoryId(d, p) = 0, NEW parent,
         IF p = Root THEN parent = 0
         ELSE parent \in DOMAIN d.directories /\ d.directories[parent].path = Home[p],
         NEW e, e = Directory(d, p, parent),
         NEW h, h = ToFiles(Frame(p, DirectoryId(e, p), "subs", {}, FALSE), e)
  PROVE  NewCall(d, e, p, h)
<1> DEFINE n == DirectoryId(e, p)
           todo == FilesIn(e, n)
<1>1. /\ Sound(e) /\ Keeps(d, e, {}) /\ DirectoryAdded(d, e, p)
      /\ n \in DOMAIN e.directories /\ e.directories[n].path = p
  BY DirectoryKeeps
<1>2. h = [Frame(p, n, "subs", {}, FALSE) EXCEPT !.phase = "files", !.todo = todo]
  BY DEF ToFiles, Frame
<1> HIDE DEF n
<1>3. /\ todo \in SUBSET (Nat \cup Paths) /\ fs.mtime[p] \in Nat /\ n \in Nat
      /\ fs.mtime[p] \in 1 .. changes + 1
  BY <1>1, RowFacts, Todos, PathTimes DEF FilesTrue, Paths
<1> HIDE DEF todo
<1>4. /\ h \in FrameType /\ h.path = p /\ h.id = n /\ h.mtime = fs.mtime[p]
      /\ h.phase = "files" /\ h.todo = todo
  BY <1>2, <1>3 DEF Frame, FrameType
<1>5. /\ e.files = d.files /\ e.albums = d.albums /\ e.tracks = d.tracks /\ e.images = d.images
      /\ \A x \in DOMAIN d.directories : x \in DOMAIN e.directories /\ e.directories[x] = d.directories[x]
      /\ \A x \in DOMAIN e.directories \ DOMAIN d.directories :
           e.directories[x].path = p /\ e.directories[x].mtime = 0
  BY <1>1 DEF DirectoryAdded, OthersKept
<1>6. \A z \in DOMAIN e.directories : z \in DOMAIN d.directories \/ z = n
  BY <1>1, <1>5, RowFacts
<1>7. Housed(d)
  BY DEF LibraryTrue
<1>8. Untouched(d, e)
  <2>1. Housed(e)
    <3>1. \A y \in DOMAIN d.files : d.files[y].directory \in DOMAIN d.directories
      BY FileFacts
    <3>2. QED
      BY <1>5, <1>7, <3>1 DEF Housed
  <2>2. \A y \in DOMAIN d.files : SameFile(d, e, y)
    BY <1>5 DEF SameFile, TracksOf, ImagesOf
  <2>3. AlbumNames(d, e)
    BY <1>5 DEF AlbumNames
  <2>4. QED
    BY <1>1, <1>5, <2>1, <2>2, <2>3 DEF Touches, Untouched
<1>9. /\ Housed(e) /\ (\A k : Apart(d, e, k)) /\ AlbumNames(d, e)
      /\ \A y \in DOMAIN e.files : y \in DOMAIN d.files /\ SameFile(d, e, y)
  BY <1>7, <1>8, UntouchedApart DEF Apart
<1>10. n \notin DOMAIN d.directories
  <2>1. \A x \in DOMAIN d.directories : d.directories[x].path # p
    BY IdOfDirectory DEF Sound
  <2>2. QED
    BY <1>1, <1>5, <2>1
<1>11. e.directories[n].mtime = 0
  BY <1>1, <1>5, <1>10
<1>12. DirectoryTrue(e, n)
  BY <1>1, <1>3, <1>11 DEF DirectoryTrue, Fresh
<1>13. \A y \in DOMAIN e.files : FileTrue(e, y)
  BY <1>1, <1>9, FileTrueStays DEF LibraryTrue
<1>14. LibraryTrue(e)
  <2>1. ASSUME NEW z \in DOMAIN e.directories
        PROVE  \/ DirectoryTrue(e, z)
               \/ /\ z \in DOMAIN d.directories /\ e.directories[z] = d.directories[z]
                  /\ Apart(d, e, d.directories[z].path)
    BY <1>5, <1>6, <1>9, <1>12
  <2>2. QED
    BY <1>9, <1>13, <2>1, LibraryStays
<1>15. FrameTrue(e, h)
  <2>1. Seen(e, h) = {}
    BY <1>4 DEF Seen, todo
  <2>2. h.mtime \in 1 .. fs.mtime[h.path] /\ 0 <= h.mtime /\ 0 # h.mtime
    <3> DEFINE v == fs.mtime[p]
    <3>1. v \in Nat /\ v \in 1 .. changes + 1 /\ h.mtime = v /\ fs.mtime[h.path] = v
      BY <1>3, <1>4
    <3> HIDE DEF v
    <3>2. v \in 1 .. v /\ 0 <= v /\ 0 # v
      BY <3>1 DEF SystemType
    <3>3. QED
      BY <3>1, <3>2
  <2>3. e.directories[h.id].mtime = 0 /\ h.phase = "files"
    BY <1>4, <1>11
  <2>4. QED
    BY <2>1, <2>2, <2>3 DEF FrameTrue
<1>16. Steady(h) /\ DirectoryKnown(e, p)
  BY <1>1, <1>4 DEF Steady, DirectoryKnown
<1>17. QED
  BY <1>1, <1>4, <1>5, <1>6, <1>8, <1>14, <1>15, <1>16 DEF NewCall

(* Neither is one for which a row was the cause.                           *)
LEMMA NoCallback ==
  ASSUME NEW p, NEW x, NEW todo, NEW d
  PROVE  ~Frame(p, x, "subs", todo, FALSE).cb /\ ~ToFiles(Frame(p, x, "subs", todo, FALSE), d).cb
BY DEF Frame, ToFiles

(* iterate_directory comes to a directory.                                 *)
LEMMA DirectoryStepTrue ==
  ASSUME IInv, FilesTrue, stack # <<>>, Walked(db, stack), Top.phase = "read",
         NEW p \in Top.todo, p \in Dirs, p \in fs.present, ScanDirectory(p, Top.id, Done(Top, p)),
         NEW e, e = db', NEW r, r = stack'
  PROVE  Walked(e, r)
<1> DEFINE f == Top
           q == Caller
           d == db
           x == DirectoryId(d, p)
           rest == f.todo \ {p}
           g == [f EXCEPT !.todo = rest]
           h == Frame(p, x, "subs", Subdirectories(d, x), FALSE)
           new == Directory(d, p, f.id)
           k == ToFiles(Frame(p, DirectoryId(new, p), "subs", {}, FALSE), new)
<1>1. /\ q \in Seq(FrameType) /\ f \in FrameType /\ FrameSound(d, f) /\ CallersSound(d, q, f.path)
      /\ Orderly /\ Sound(d)
  BY TopIs DEF IInv, FilesTrue
<1>2. /\ LibraryTrue(d) /\ FrameTrue(d, f) /\ FramesTrue(d, q) /\ CallbacksSound(q) /\ Heeded(q, f)
      /\ quiet => Calm(d, q, f)
  BY TopTrue
<1>3. /\ f.phase = "read" /\ p \in f.todo
      /\ x > 0 => e = d /\ r = Append(Append(q, g), h)
      /\ ~(x > 0) => e = new /\ r = Append(Append(q, g), k)
  BY DEF ScanDirectory, Done, Replace
<1> HIDE DEF f, q, d
<1>4. /\ f.id \in DOMAIN d.directories /\ d.directories[f.id].path = f.path
      /\ p \in Paths \ {Root} /\ Home[p] = f.path
  BY <1>1, <1>3 DEF FrameSound, Entries
<1>5. /\ g \in FrameType /\ g.path = f.path /\ g.id = f.id /\ g.mtime = f.mtime
      /\ g.phase = "read" /\ g.cb = f.cb /\ g.todo = rest
  <2>1. rest \in SUBSET (Nat \cup Paths) /\ g = [f EXCEPT !.todo = rest]
    BY <1>1, FrameFields
  <2> HIDE DEF rest, g
  <2>2. QED
    BY <1>1, <1>3, <2>1 DEF FrameType
<1> HIDE DEF g
<1>6. Heeded(q, g)
  BY <1>2, <1>5 DEF Heeded
<1>7. ASSUME quiet
      PROVE  /\ Steady(g) /\ (\A i \in 1 .. Len(q) : Steady(q[i]))
             /\ \A z \in DOMAIN d.directories : Fresh(d, z) \/ Pending(d, q, z) \/ g.id = z
             /\ Root \in fs.present => DirectoryKnown(d, Root)
  <2>1. Calm(d, q, f)
    BY <1>2, <1>7
  <2>2. \A z : Before(d, f, z) => g.id = z
    BY <1>3, <1>5 DEF Before
  <2>3. QED
    BY <1>5, <2>1, <2>2 DEF Calm, Steady
<1>8. ASSUME NEW b, DirectoryKnown(b, p) PROVE Read(b, p)
  BY <1>8, LibraryScanAssumption DEF Read, Files
<1>9. x \in Nat /\ (x # 0 => x \in DOMAIN d.directories /\ d.directories[x].path = p)
  BY <1>1, IdOfDirectory DEF Sound
<1>10. /\ h = Frame(p, x, "subs", Subdirectories(d, x), FALSE) /\ ~h.cb /\ ~k.cb
       /\ k = ToFiles(Frame(p, DirectoryId(new, p), "subs", {}, FALSE), new)
       /\ new = Directory(d, p, f.id) /\ x = DirectoryId(d, p)
  BY NoCallback
<1> HIDE DEF h, k, new, x
<1>11. CASE x > 0
  <2>1. e = d /\ r = Append(Append(q, g), h) /\ x \in DOMAIN d.directories /\ d.directories[x].path = p
    BY <1>3, <1>9, <1>11
  <2>2. /\ h \in FrameType /\ h.path = p /\ h.id = x /\ h.phase = "subs"
        /\ FrameTrue(d, h) /\ Steady(h)
    <3>1. /\ Orderly /\ FilesTrue /\ Sound(d) /\ LibraryTrue(d)
          /\ p \in fs.present /\ x \in DOMAIN d.directories /\ p = d.directories[x].path
          /\ h = Frame(p, x, "subs", Subdirectories(d, x), FALSE)
      BY <1>1, <1>2, <1>10, <2>1
    <3>2. KnownCall(d, p, x, h)
      BY <3>1, CallKnown
    <3>3. QED
      BY <3>2 DEF KnownCall
  <2>3. FrameTrue(d, g)
    <3>1. Read(d, p)
      BY <1>8, <2>1 DEF DirectoryKnown
    <3>2. QED
      BY <1>2, <1>3, <1>5, <3>1, EntryDone
  <2>4. ASSUME quiet
        PROVE  /\ Steady(g) /\ Steady(h) /\ (\A i \in 1 .. Len(q) : Steady(q[i]))
               /\ \A z \in DOMAIN d.directories :
                    Fresh(d, z) \/ Pending(d, q, z) \/ Before(d, g, z) \/ Before(d, h, z)
               /\ Root \in fs.present => DirectoryKnown(d, Root)
    BY <1>7, <2>2, <2>4 DEF Before
  <2>5. Walked(d, Append(Append(q, g), h))
    BY <1>1, <1>2, <1>5, <1>6, <2>2, <2>3, <2>4, <1>10, CalledTrue
  <2>6. QED
    BY <2>1, <2>5
<1>12. CASE ~(x > 0)
  <2>1. x = 0 /\ e = new /\ r = Append(Append(q, g), k)
    BY <1>3, <1>9, <1>12
  <2>2. /\ k = ToFiles(Frame(p, DirectoryId(e, p), "subs", {}, FALSE), e)
        /\ e = Directory(d, p, f.id) /\ DirectoryId(d, p) = 0
    BY <1>10, <2>1
  <2>3. /\ LibraryTrue(e) /\ Sound(e) /\ Keeps(d, e, {}) /\ Untouched(d, e)
        /\ \A z \in DOMAIN d.directories : z \in DOMAIN e.directories /\ e.directories[z] = d.directories[z]
        /\ \A z \in DOMAIN e.directories : z \in DOMAIN d.directories \/ z = k.id
        /\ k \in FrameType /\ k.path = p /\ DirectoryKnown(e, p)
        /\ FrameTrue(e, k) /\ Steady(k)
    <3>1. /\ Orderly /\ FilesTrue /\ Sound(d) /\ LibraryTrue(d) /\ p \in fs.present
          /\ IF p = Root THEN f.id = 0 ELSE f.id \in DOMAIN d.directories /\ d.directories[f.id].path = Home[p]
      BY <1>1, <1>2, <1>4
    <3>2. NewCall(d, e, p, k)
      BY <2>2, <3>1, CallNew
    <3>3. QED
      BY <3>2 DEF NewCall
  <2>4. (\A b : Apart(d, e, b)) /\ \A b : DirectoryKnown(d, b) => DirectoryKnown(e, b)
    BY <1>1, <1>2, <2>3, UntouchedApart DEF LibraryTrue
  <2>5. FramesTrue(e, q)
    <3>1. ASSUME NEW i \in 1 .. Len(q)
          PROVE  /\ q[i].id \in DOMAIN e.directories
                 /\ e.directories[q[i].id] = d.directories[q[i].id]
                 /\ Apart(d, e, q[i].path)
      <4>1. q[i].id \in DOMAIN d.directories
        BY <1>1, CallersElsewhere
      <4>2. QED
        BY <2>3, <2>4, <4>1
    <3>2. QED
      BY <1>1, <1>2, <3>1, FramesStay
  <2>6. FrameTrue(e, g)
    <3>1. FrameTrue(e, f)
      <4>1. f.id \in DOMAIN e.directories /\ e.directories[f.id] = d.directories[f.id]
        BY <1>4, <2>3
      <4>2. Apart(d, e, f.path)
        BY <2>4
      <4>3. QED
        BY <1>1, <1>2, <4>1, <4>2, FrameApart
    <3>2. Read(e, p)
      BY <1>8, <2>3
    <3>3. QED
      BY <1>3, <1>5, <3>1, <3>2, EntryDone
  <2>7. CallersSound(e, q, f.path) /\ SamePaths(d, e)
    BY <1>1, <2>3, CallersKept DEF SamePaths
  <2>8. ASSUME quiet
        PROVE  /\ Steady(g) /\ Steady(k) /\ (\A i \in 1 .. Len(q) : Steady(q[i]))
               /\ \A z \in DOMAIN e.directories :
                    Fresh(e, z) \/ Pending(e, q, z) \/ Before(e, g, z) \/ Before(e, k, z)
               /\ Root \in fs.present => DirectoryKnown(e, Root)
    <3>1. ASSUME NEW z \in DOMAIN e.directories
          PROVE  Fresh(e, z) \/ Pending(e, q, z) \/ Before(e, g, z) \/ Before(e, k, z)
      <4>1. CASE z = k.id
        BY <4>1 DEF Before
      <4>2. CASE z \in DOMAIN d.directories
        <5>1. Fresh(d, z) \/ Pending(d, q, z) \/ g.id = z
          BY <1>7, <2>8, <4>2
        <5>2. Fresh(d, z) => Fresh(e, z)
          BY <2>3, <4>2 DEF Fresh
        <5>3. Pending(d, q, z) => Pending(e, q, z)
          BY <1>1, <2>7, <4>2, PendingStays
        <5>4. QED
          BY <5>1, <5>2, <5>3 DEF Before
      <4>3. QED
        BY <2>3, <4>1, <4>2
    <3>2. QED
      BY <1>7, <2>3, <2>4, <2>8, <3>1
  <2>9. k.cb => g.phase = "subs"
    BY <1>10
  <2>10. Walked(e, Append(Append(q, g), k))
    BY <1>1, <1>2, <1>5, <1>6, <2>3, <2>5, <2>6, <2>8, <2>9, CalledTrue
  <2>11. QED
    BY <2>1, <2>10
<1>13. QED
  BY <1>11, <1>12

(* All the steps of the walk.                                              *)
LEMMA WalkTrue ==
  ASSUME IInv, FilesTrue, Walked(db, stack), quiet => ~interrupted, Walk,
         NEW e, e = db', NEW r, r = stack'
  PROVE  Walked(e, r)
<1>1. stack # <<>> /\ (\/ Subdirectory(Top) \/ Compare(Top) \/ KnownFile(Top)
                       \/ OpenDirectory(Top) \/ Entry(Top) \/ End(Top))
  BY DEF Walk
<1>2. CASE Subdirectory(Top)
  <2> DEFINE s == Min(Top.todo)
  <2>1. CASE db.directories[s].path \in fs.present
    <3> HIDE DEF s
    <3>1. s = Min(Top.todo)
      BY DEF s
    <3>2. QED
      BY <1>1, <1>2, <2>1, <3>1, ThereTrue
  <2>2. CASE db.directories[s].path \notin fs.present
    <3> HIDE DEF s
    <3>1. s = Min(Top.todo)
      BY DEF s
    <3>2. QED
      BY <1>1, <1>2, <2>2, <3>1, GoneTrue
  <2>3. QED
    BY <2>1, <2>2
<1>3. CASE Entry(Top)
  <2>1. Top.phase = "read"
    BY <1>3 DEF Entry
  <2>2. PICK p \in Top.todo :
          IF p \in Dirs /\ p \in fs.present
          THEN ScanDirectory(p, Top.id, Done(Top, p))
          ELSE /\ stack' = Done(Top, p)
               /\ db' = IF p \notin fs.present THEN db
                        ELSE IF FileId(db, p) > 0 /\ db.files[FileId(db, p)].mtime = fs.mtime[p] THEN db
                        ELSE ScanFile(db, p, Top.id)
    BY <1>3 DEF Entry
  <2>3. CASE p \in Dirs /\ p \in fs.present
    BY <1>1, <2>1, <2>2, <2>3, DirectoryStepTrue
  <2>4. CASE ~(p \in Dirs /\ p \in fs.present)
    BY <1>1, <2>1, <2>2, <2>4, FileStepTrue
  <2>5. QED
    BY <2>3, <2>4
<1>4. QED
  BY <1>1, <1>2, <1>3, CompareTrue, KnownFileTrue, OpenDirectoryTrue, EndTrue

(* Without the music directory there is no other.                          *)
LEMMA RootFirst ==
  ASSUME NEW d, Sound(d), DOMAIN d.directories # {}
  PROVE  DirectoryKnown(d, Root)
<1> DEFINE D == {Depth[d.directories[x].path] : x \in DOMAIN d.directories}
<1>1. D \in SUBSET Nat /\ D # {}
  BY RowFacts, DepthGrows
<1> HIDE DEF D
<1>2. PICK m \in D : \A k \in D : m <= k
  BY <1>1, HasLeast
<1>3. PICK x \in DOMAIN d.directories : m = Depth[d.directories[x].path]
  BY <1>2 DEF D
<1>4. CASE d.directories[x].path = Root
  BY <1>4 DEF DirectoryKnown
<1>5. CASE d.directories[x].path # Root
  <2> DEFINE y == d.directories[x].parent
             p == d.directories[x].path
  <2>1. y \in DOMAIN d.directories /\ d.directories[y].path = Home[p] /\ p \in Dirs \ {Root}
    BY <1>5, RowFacts
  <2>2. Depth[p] = Depth[Home[p]] + 1 /\ Depth[Home[p]] \in Nat
    BY <2>1, DepthGrows
  <2>3. Depth[Home[p]] \in D
    BY <2>1 DEF D
  <2> HIDE DEF p, y
  <2>4. m <= Depth[Home[p]] /\ m = Depth[p]
    BY <1>2, <1>3, <2>3 DEF p
  <2>5. QED
    BY <2>2, <2>4
<1>6. QED
  BY <1>4, <1>5

(* A scan that starts has everything before it.                            *)
LEMMA StartTrue ==
  ASSUME IInv, FilesTrue, LibraryTrue(db), ScanDirectory(Root, 0, <<>>),
         NEW e, e = db', NEW r, r = stack'
  PROVE  LibraryTrue(e) /\ FramesTrue(e, r) /\ CallbacksSound(r) /\ Undisturbed(e, r)
<1> DEFINE d == db
           x == DirectoryId(d, Root)
           h == Frame(Root, x, "subs", Subdirectories(d, x), FALSE)
           new == Directory(d, Root, 0)
           k == ToFiles(Frame(Root, DirectoryId(new, Root), "subs", {}, FALSE), new)
           q == <<>>
<1>1. Orderly /\ Sound(d) /\ LibraryTrue(d) /\ Root \in Dirs
  BY TreeFacts DEF IInv, FilesTrue
<1>2. /\ Root \notin fs.present => r = q /\ e = IF x > 0 THEN DirectoryDelete(d, x) ELSE d
      /\ Root \in fs.present =>
           /\ x > 0 => e = d /\ r = Append(q, h)
           /\ ~(x > 0) => e = new /\ r = Append(q, k)
  BY DEF ScanDirectory
<1> HIDE DEF d
<1>3. /\ x \in Nat /\ (x # 0 => x \in DOMAIN d.directories /\ d.directories[x].path = Root)
      /\ x = 0 => DOMAIN d.directories = {}
  BY <1>1, IdOfDirectory, RootFirst DEF Sound, DirectoryKnown
<1>4. \A b : FramesTrue(b, q) /\ CallbacksSound(q)
  BY DEF FramesTrue, CallbacksSound
<1>5. q \in Seq(FrameType) /\ Len(q) = 0 /\ 1 .. Len(q) = {}
  OBVIOUS
<1>6. \A z \in DOMAIN d.directories : d.directories[z].path \in Under(Root)
  BY <1>1, RowFacts, AllUnderRoot
<1> DEFINE none == 0
<1>7. /\ h = Frame(Root, x, "subs", Subdirectories(d, x), FALSE) /\ ~h.cb /\ ~k.cb
      /\ k = ToFiles(Frame(Root, DirectoryId(new, Root), "subs", {}, FALSE), new)
      /\ new = Directory(d, Root, none) /\ x = DirectoryId(d, Root)
  BY NoCallback
<1>8. none = 0
  OBVIOUS
<1> HIDE DEF q, x, h, k, new, none
<1>9. CASE Root \notin fs.present
  <2>1. r = q /\ e = IF x > 0 THEN DirectoryDelete(d, x) ELSE d
    BY <1>2, <1>9
  <2>2. LibraryTrue(e) /\ DOMAIN e.directories = {}
    <3>1. CASE x = 0
      BY <1>1, <1>3, <2>1, <3>1
    <3>2. CASE x # 0
      <4>1. e = DirectoryDelete(d, x) /\ x \in DOMAIN d.directories /\ d.directories[x].path = Root
        BY <1>3, <2>1, <3>2
      <4>2. LibraryTrue(e) /\ \A z \in DOMAIN e.directories : z \in DOMAIN d.directories \ Below(d, x)
        BY <1>1, <1>9, <4>1, DeletedApart
      <4>3. \A z \in DOMAIN d.directories : z \in Below(d, x)
        BY <1>1, <1>6, <4>1, UnderRow
      <4>4. QED
        BY <4>2, <4>3
    <3>3. QED
      BY <3>1, <3>2
  <2>3. Undisturbed(e, q)
    BY <1>5, <1>9, <2>2 DEF Undisturbed
  <2>4. QED
    BY <1>4, <2>1, <2>2, <2>3
<1>10. CASE Root \in fs.present /\ x # 0
  <2>1. e = d /\ r = Append(q, h) /\ x \in DOMAIN d.directories /\ d.directories[x].path = Root
    BY <1>2, <1>3, <1>10
  <2>2. /\ h \in FrameType /\ FrameTrue(d, h) /\ Steady(h)
        /\ \A z \in DOMAIN d.directories : d.directories[z].path \in Under(Root) => Before(d, h, z)
    <3>1. Root = d.directories[x].path
      BY <2>1
    <3>2. KnownCall(d, Root, x, h)
      BY <1>1, <1>7, <1>10, <2>1, <3>1, CallKnown
    <3>3. QED
      BY <3>2 DEF KnownCall
  <2>3. Heeded(q, h)
    BY <1>7 DEF Heeded
  <2>4. Calm(d, q, h)
    BY <1>5, <1>6, <2>1, <2>2 DEF Calm, DirectoryKnown
  <2>5. FramesTrue(d, Append(q, h)) /\ CallbacksSound(Append(q, h)) /\ Undisturbed(d, Append(q, h))
    BY <1>4, <1>5, <2>2, <2>3, <2>4, FramesAppend
  <2>6. QED
    BY <1>1, <2>1, <2>5
<1>11. CASE Root \in fs.present /\ x = 0
  <2>1. e = new /\ r = Append(q, k) /\ DOMAIN d.directories = {} /\ DirectoryId(d, Root) = 0
    <3>1. ~(x > 0) /\ DOMAIN d.directories = {}
      BY <1>3, <1>11
    <3>2. e = new /\ r = Append(q, k)
      BY <1>2, <1>11, <3>1
    <3>3. DirectoryId(d, Root) = 0
      BY <1>7, <1>11
    <3>4. QED
      BY <3>1, <3>2, <3>3
  <2>2. /\ k = ToFiles(Frame(Root, DirectoryId(e, Root), "subs", {}, FALSE), e)
        /\ e = Directory(d, Root, none)
    BY <1>7, <2>1
  <2>3. /\ LibraryTrue(e)
        /\ \A z \in DOMAIN e.directories : z \in DOMAIN d.directories \/ z = k.id
        /\ k \in FrameType /\ DirectoryKnown(e, Root)
        /\ FrameTrue(e, k) /\ Steady(k)
    <3>1. /\ Orderly /\ FilesTrue /\ Sound(d) /\ LibraryTrue(d) /\ Root \in fs.present
          /\ DirectoryId(d, Root) = 0 /\ Root \in Dirs
          /\ IF Root = Root THEN none = 0 ELSE none \in DOMAIN d.directories /\ d.directories[none].path = Home[Root]
      BY <1>1, <1>8, <1>11, <2>1
    <3>2. NewCall(d, e, Root, k)
      BY <2>2, <3>1, CallNew
    <3>3. QED
      BY <3>2 DEF NewCall
  <2>4. Heeded(q, k)
    BY <1>7 DEF Heeded
  <2>5. Calm(e, q, k)
    BY <1>5, <2>1, <2>3 DEF Calm, Before
  <2>6. FramesTrue(e, Append(q, k)) /\ CallbacksSound(Append(q, k)) /\ Undisturbed(e, Append(q, k))
    BY <1>4, <1>5, <2>3, <2>4, <2>5, FramesAppend
  <2>7. QED
    BY <2>1, <2>3, <2>6
<1>12. QED
  BY <1>9, <1>10, <1>11

-----------------------------------------------------------------------------
(* What is owed depends on the file system alone, and on the files that    *)
(* are written anew.                                                       *)
Still == fs' = fs /\ changes' = changes /\ rewritten' = rewritten

(* While the file system stays as it is: the sheets.                       *)
LEMMA StillSheets ==
  ASSUME Still
  PROVE  /\ \A s : Found(s)' <=> Found(s)
         /\ \A s : Taken(s)' <=> Taken(s)
         /\ \A s : Leads(s)' <=> Leads(s)
         /\ \A s : Preferred(s)' = Preferred(s)
         /\ \A s : Instead(s)' = Instead(s)
         /\ Counting' = Counting
<1>1. \A s : (Found(s)' <=> Found(s)) /\ (Taken(s)' <=> Taken(s))
  BY DEF Still, Found, Taken
<1>2. \A s : Instead(s)' = Instead(s)
  BY <1>1 DEF Still, Instead
<1>3. \A s : Preferred(s)' = Preferred(s)
  BY <1>2 DEF Preferred
<1>4. Counting' = Counting
  BY <1>1, <1>3 DEF Counting
<1>5. \A s : Leads(s)' <=> Leads(s)
  BY <1>1, <1>3 DEF Leads, Still, Found
<1>6. QED
  BY <1>1, <1>2, <1>3, <1>4, <1>5

(* The times.                                                              *)
LEMMA StillTrue ==
  ASSUME Still, FilesTrue
  PROVE  FilesTrue'
<1>1. \A s : (Found(s)' <=> Found(s)) /\ Preferred(s)' = Preferred(s)
  BY StillSheets
<1>2. NoCircle'
  BY <1>1 DEF Still, FilesTrue, NoCircle, Instead, Found, Taken
<1>3. Misdated' = Misdated
  BY DEF Still, Misdated, Found, Taken
<1>4. Straying' = Straying
  BY DEF Still, Straying
<1>5. QED
  BY <1>2, <1>3, <1>4 DEF Still, FilesTrue

(* What is owed.                                                           *)
LEMMA StillRead ==
  ASSUME Still, NEW d
  PROVE  /\ \A p : Read(d, p)' <=> Read(d, p)
         /\ \A p : There(p)' <=> There(p)
         /\ \A y : InTime(d, y)' <=> InTime(d, y)
         /\ \A y : FileTrue(d, y)' <=> FileTrue(d, y)
         /\ \A f : Steady(f)' <=> Steady(f)
         /\ \A x : Fresh(d, x)' <=> Fresh(d, x)
<1>1. /\ \A s : Leads(s)' <=> Leads(s)
      /\ \A s : Preferred(s)' = Preferred(s)
      /\ Counting' = Counting
  BY StillSheets
<1>2. \A p : Read(d, p)' <=> Read(d, p)
  <2>1. ASSUME NEW s PROVE SheetRead(d, s)' <=> SheetRead(d, s)
    <3> DEFINE a == fs.tag[Preferred(s)]
    <3>1. a' = a /\ (Leads(s)' <=> Leads(s))
      BY <1>1 DEF Still
    <3>2. Cues(d, a)' = Cues(d, a)
      BY <1>1, <3>1 DEF Still, Cues
    <3>3. QED
      BY <3>1, <3>2 DEF Still, SheetRead, SheetsTracks
  <2>2. QED
    BY <2>1 DEF Still, Read
<1>3. \A p : There(p)' <=> There(p)
  BY <1>1 DEF Still, There
<1>4. \A y : InTime(d, y)' <=> InTime(d, y)
  BY DEF Still, InTime
<1>5. \A y : FileTrue(d, y)' <=> FileTrue(d, y)
  BY DEF Still, FileTrue, Contained, OwnTracks, OwnTrack, SheetsTracks, FromSheet, PastCues
<1>6. \A f : Steady(f)' <=> Steady(f)
  BY DEF Still, Steady
<1>7. \A x : Fresh(d, x)' <=> Fresh(d, x)
  BY DEF Still, Fresh
<1>8. QED
  BY <1>2, <1>3, <1>4, <1>5, <1>6, <1>7

(* And the tables and the stack.                                           *)
LEMMA StillWalked ==
  ASSUME Still, NEW d, NEW q
  PROVE  /\ LibraryTrue(d)' <=> LibraryTrue(d)
         /\ FramesTrue(d, q)' <=> FramesTrue(d, q)
         /\ Undisturbed(d, q)' <=> Undisturbed(d, q)
<1>1. /\ \A p : Read(d, p)' <=> Read(d, p)
      /\ \A p : There(p)' <=> There(p)
      /\ \A y : InTime(d, y)' <=> InTime(d, y)
      /\ \A y : FileTrue(d, y)' <=> FileTrue(d, y)
      /\ \A f : Steady(f)' <=> Steady(f)
      /\ \A x : Fresh(d, x)' <=> Fresh(d, x)
  BY StillRead
<1>2. \A x : DirectoryTrue(d, x)' <=> DirectoryTrue(d, x)
  BY <1>1 DEF Still, DirectoryTrue
<1>3. LibraryTrue(d)' <=> LibraryTrue(d)
  BY <1>1, <1>2 DEF LibraryTrue
<1>4. \A f : FrameTrue(d, f)' <=> FrameTrue(d, f)
  BY <1>1 DEF Still, FrameTrue
<1>5. FramesTrue(d, q)' <=> FramesTrue(d, q)
  BY <1>4 DEF FramesTrue
<1>6. Undisturbed(d, q)' <=> Undisturbed(d, q)
  BY <1>1 DEF Still, Undisturbed
<1>7. QED
  BY <1>3, <1>5, <1>6

-----------------------------------------------------------------------------
(* The inductive invariant.                                                *)

(* The invariant after a step: its parts, of names for the next state.     *)
LEMMA TrueNext ==
  ASSUME FilesTrue', NEW d, NEW q, NEW b, d = db', q = stack', b = saved',
         LibraryTrue(d)', LibraryTrue(b)', FramesTrue(d, q)', CallbacksSound(q),
         ~scanning' => ~interrupted' /\ q = <<>>,
         quiet' => ~interrupted' /\ Undisturbed(d, q)'
  PROVE  JInv'
BY DEF JInv

(* And after a step that leaves the file system as it is.                  *)
LEMMA TrueStill ==
  ASSUME FilesTrue, Still, NEW d, NEW q, NEW b, d = db', q = stack', b = saved',
         LibraryTrue(d), LibraryTrue(b), FramesTrue(d, q), CallbacksSound(q),
         ~scanning' => ~interrupted' /\ q = <<>>,
         quiet' => ~interrupted' /\ Undisturbed(d, q)
  PROVE  JInv'
<1>1. /\ LibraryTrue(d)' <=> LibraryTrue(d)
      /\ FramesTrue(d, q)' <=> FramesTrue(d, q)
      /\ Undisturbed(d, q)' <=> Undisturbed(d, q)
      /\ LibraryTrue(b)' <=> LibraryTrue(b)
  BY StillWalked
<1>2. FilesTrue'
  BY StillTrue
<1>3. QED
  BY <1>1, <1>2, TrueNext

(* It holds at the start: the tables are empty and nothing is owed yet.    *)
LEMMA InitTrue == Init /\ astray = {} => JInv
<1> SUFFICES ASSUME Init, astray = {} PROVE JInv
  OBVIOUS
<1>1. /\ fs.present = Given /\ fs.mtime = [p \in Paths |-> 1] /\ changes = 0
      /\ db = Empty /\ saved = Empty /\ stack = <<>> /\ ~scanning /\ ~interrupted /\ ~quiet
      /\ NoCircle /\ rewritten = Misdated /\ Straying = {}
  BY DEF Init
<1>2. FilesTrue
  <2>1. \A p \in Paths : fs.mtime[p] \in 1 .. changes + 1
    BY <1>1
  <2>2. \A p \in fs.present : Home[p] \in fs.present
    BY <1>1, LibraryScanAssumption
  <2>3. QED
    BY <1>1, <2>1, <2>2 DEF FilesTrue
<1>3. DOMAIN Empty.directories = {} /\ DOMAIN Empty.files = {}
  BY EmptyTable DEF Empty
<1>4. LibraryTrue(Empty)
  BY <1>3 DEF LibraryTrue, Housed
<1>5. FramesTrue(db, stack) /\ CallbacksSound(stack)
  BY <1>1 DEF FramesTrue, CallbacksSound
<1>6. QED
  BY <1>1, <1>2, <1>4, <1>5 DEF JInv

(* A change of the file system keeps it.                                   *)
LEMMA ChangeTrue ==
  ASSUME IInv, JInv, Changed
  PROVE  JInv'
<1> DEFINE d == db
           b == saved
           q == stack
<1>1. d = db' /\ b = saved' /\ q = stack' /\ d = db
  BY DEF Changed
<1>2. /\ Sound(d) /\ Sound(b) /\ LibraryTrue(d) /\ LibraryTrue(b) /\ FilesTrue
      /\ FramesTrue(d, q) /\ CallbacksSound(q) /\ (~scanning => ~interrupted /\ q = <<>>)
      /\ q \in Seq(FrameType) /\ StackSound(d, q) /\ (q # <<>> => scanning)
  BY DEF IInv, JInv
<1>3. LibraryTrue(db)
  BY <1>2
<1> HIDE DEF d, b, q
<1>4. PICK dd : dd = d
  OBVIOUS
<1>5. PICK bb : bb = b
  OBVIOUS
<1>6. PICK qq : qq = q
  OBVIOUS
<1>7. LibraryTrue(dd)' /\ LibraryTrue(bb)'
  BY <1>2, <1>4, <1>5, LibraryChanged
<1>8. FramesTrue(dd, qq)'
  <2>1. ASSUME NEW i \in 1 .. Len(qq) PROVE FrameTrue(dd, qq[i])'
    <3> DEFINE f == qq[i]
    <3>1. f \in FrameType /\ FrameSound(dd, f) /\ FrameTrue(dd, f) /\ scanning
      BY <1>2, <1>4, <1>6 DEF StackSound, FramesTrue
    <3> HIDE DEF f
    <3>2. dd = db
      BY <1>1, <1>4
    <3>3. FrameTrue(dd, f)'
      BY <1>2, <1>3, <3>1, <3>2, FrameChanged
    <3>4. QED
      BY <3>3 DEF f
  <2>2. QED
    BY <2>1 DEF FramesTrue
<1>9. FilesTrue' /\ ~quiet' /\ scanning' = scanning /\ interrupted' = interrupted
  BY DEF Changed
<1>10. dd = db' /\ qq = stack' /\ bb = saved' /\ CallbacksSound(qq) /\ (~scanning' => ~interrupted' /\ qq = <<>>)
  BY <1>1, <1>2, <1>4, <1>5, <1>6, <1>9
<1>11. QED
  BY <1>7, <1>8, <1>9, <1>10, TrueNext

(* And so does every step, unless a sheet then names a file of another     *)
(* directory.                                                              *)
LEMMA NextTrue == IInv /\ JInv /\ [Next]_vars /\ astray' = {} => JInv'
<1> SUFFICES ASSUME IInv, JInv, [Next]_vars, astray' = {} PROVE JInv'
  OBVIOUS
<1>1. ASSUME NEW p \in Paths, Put(p) \/ Drop(p) PROVE JInv'
  <2>1. FilesTrue
    BY DEF JInv
  <2>2. Changed
    <3>1. Straying' = {}
      BY <1>1 DEF Put, Drop, Change
    <3>2. QED
      BY <1>1, <2>1, <3>1, PutChanged, DropChanged
  <2>3. QED
    BY <2>2, ChangeTrue
<1>2. PICK d, q, b : d = db' /\ q = stack' /\ b = saved'
  OBVIOUS
<1>3. /\ FilesTrue /\ LibraryTrue(db) /\ LibraryTrue(saved) /\ FramesTrue(db, stack) /\ CallbacksSound(stack)
      /\ (~scanning => ~interrupted /\ stack = <<>>) /\ (quiet => ~interrupted /\ Undisturbed(db, stack))
  BY DEF JInv
<1>4. CASE Start
  <2>1. /\ Still /\ ScanDirectory(Root, 0, <<>>) /\ scanning' = TRUE /\ quiet' = TRUE /\ ~scanning
        /\ saved' = saved /\ interrupted' = interrupted
    BY <1>4 DEF Start, Still
  <2>2. LibraryTrue(d) /\ FramesTrue(d, q) /\ CallbacksSound(q) /\ Undisturbed(d, q)
    BY <1>2, <1>3, <2>1, StartTrue
  <2>3. LibraryTrue(b)
    BY <1>2, <1>3, <2>1
  <2>4. QED
    BY <1>2, <1>3, <2>1, <2>2, <2>3, TrueStill
<1>5. CASE Walk
  <2>1. /\ Still /\ scanning' = scanning /\ quiet' = quiet /\ interrupted' = interrupted
        /\ saved' = saved /\ stack # <<>>
    BY <1>5 DEF Walk, Still, bounds
  <2>2. scanning
    BY <2>1 DEF IInv
  <2>3. Walked(db, stack)
    BY <1>3 DEF Walked
  <2>4. Walked(d, q)
    BY <1>2, <1>3, <1>5, <2>3, WalkTrue
  <2>5. LibraryTrue(b)
    BY <1>2, <1>3, <2>1
  <2>6. /\ LibraryTrue(d) /\ FramesTrue(d, q) /\ CallbacksSound(q) /\ (quiet => Undisturbed(d, q))
    BY <2>4 DEF Walked
  <2>7. QED
    BY <1>2, <1>3, <2>1, <2>2, <2>5, <2>6, TrueStill
<1>6. CASE Commit
  <2>1. /\ Still /\ stack' = stack /\ stack = <<>> /\ scanning' = FALSE /\ interrupted' = FALSE
        /\ quiet' = quiet /\ saved' = db /\ db' = db
    BY <1>6 DEF Commit, Still, bounds
  <2>2. /\ LibraryTrue(d) /\ LibraryTrue(b) /\ FramesTrue(d, q) /\ CallbacksSound(q) /\ q = <<>>
        /\ quiet => Undisturbed(d, q)
    BY <1>2, <1>3, <2>1
  <2>3. QED
    BY <1>2, <1>3, <2>1, <2>2, TrueStill
<1>7. CASE Interrupt
  <2>1. /\ Still /\ stack' = stack /\ scanning' = scanning /\ scanning
        /\ quiet' = FALSE /\ saved' = saved /\ db' = db
    BY <1>7 DEF Interrupt, Still
  <2>2. LibraryTrue(d) /\ LibraryTrue(b) /\ FramesTrue(d, q) /\ CallbacksSound(q)
    BY <1>2, <1>3, <2>1
  <2>3. QED
    BY <1>2, <1>3, <2>1, <2>2, TrueStill
<1>8. CASE Crash
  <2>1. /\ Still /\ stack' = <<>> /\ scanning' = FALSE /\ interrupted' = FALSE
        /\ quiet' = FALSE /\ saved' = saved /\ db' = saved
    BY <1>8 DEF Crash, Still
  <2>2. FramesTrue(d, <<>>) /\ CallbacksSound(<<>>)
    BY DEF FramesTrue, CallbacksSound
  <2>3. /\ LibraryTrue(d) /\ LibraryTrue(b) /\ FramesTrue(d, q) /\ CallbacksSound(q) /\ q = <<>>
    BY <1>2, <1>3, <2>1, <2>2
  <2>4. QED
    BY <1>2, <1>3, <2>1, <2>3, TrueStill
<1>9. CASE Idle \/ UNCHANGED vars
  <2>1. /\ Still /\ stack' = stack /\ scanning' = scanning /\ interrupted' = interrupted
        /\ quiet' = quiet /\ saved' = saved /\ db' = db
    BY <1>9 DEF Idle, vars, Still, bounds
  <2>2. /\ LibraryTrue(d) /\ LibraryTrue(b) /\ FramesTrue(d, q) /\ CallbacksSound(q)
        /\ (quiet => Undisturbed(d, q))
    BY <1>2, <1>3, <2>1
  <2>3. ~scanning => q = <<>>
    BY <1>2, <1>3, <2>1
  <2>4. QED
    BY <1>2, <1>3, <2>1, <2>2, <2>3, TrueStill
<1>10. QED
  BY <1>1, <1>4, <1>5, <1>6, <1>7, <1>8, <1>9 DEF Next

(* It holds until a sheet has named a file of another directory.           *)
KInv == Straying \subseteq astray /\ (astray = {} => JInv)
LEMMA KInvHolds == (Init => KInv) /\ (IInv /\ KInv /\ [Next]_vars => KInv')
<1>1. Init => KInv
  BY InitTrue DEF KInv, Init
<1>2. ASSUME IInv, KInv, [Next]_vars PROVE KInv'
  <2>1. astray \subseteq astray' /\ Straying' \subseteq astray'
    <3>1. CASE \E p \in Paths : Put(p) \/ Drop(p)
      BY <3>1 DEF Put, Drop, Change
    <3>2. CASE fs' = fs /\ astray' = astray
      BY <1>2, <3>2 DEF KInv, Straying
    <3>3. QED
      BY <1>2, <3>1, <3>2 DEF Next, Start, Walk, Commit, Interrupt, Crash, Idle, vars
  <2>2. astray' = {} => JInv'
    BY <1>2, <2>1, NextTrue DEF KInv
  <2>3. QED
    BY <2>1, <2>2 DEF KInv
<1>3. QED
  BY <1>1, <1>2

-----------------------------------------------------------------------------
(* The end of a scan during which nothing happened.                        *)

(* Every directory of the library is as it was read.                       *)
AllFresh(d) == /\ \A x \in DOMAIN d.directories : Fresh(d, x)
               /\ Root \in fs.present => DirectoryKnown(d, Root)

(* Then every directory that is there is known: else one nearest to the    *)
(* music directory would not be, though the one it is in was read.         *)
LEMMA DirectoriesKnown ==
  ASSUME Orderly, FilesTrue, NEW d, Sound(d), LibraryTrue(d), AllFresh(d)
  PROVE  \A p \in fs.present \cap Dirs : DirectoryKnown(d, p)
<1> DEFINE C == {n \in Nat : \E p \in fs.present \cap Dirs : Depth[p] = n /\ ~DirectoryKnown(d, p)}
<1>1. SUFFICES ASSUME C # {} PROVE FALSE
  BY DepthGrows
<1>2. PICK n \in C : \A k \in C : n <= k
  BY <1>1, HasLeast
<1>3. PICK p \in fs.present \cap Dirs : Depth[p] = n /\ ~DirectoryKnown(d, p)
  BY <1>2
<1>4. p # Root
  BY <1>3 DEF AllFresh
<1>5. Home[p] \in fs.present \cap Dirs /\ Depth[p] = Depth[Home[p]] + 1 /\ Depth[Home[p]] \in Nat
  BY <1>4, DepthGrows DEF FilesTrue
<1>6. DirectoryKnown(d, Home[p])
  <2> DEFINE k == Depth[Home[p]]
  <2>1. k \in Nat /\ n = k + 1
    BY <1>3, <1>5
  <2>2. ~(n <= k)
    <3> HIDE DEF k
    <3>1. QED
      BY <2>1
  <2>3. k \notin C
    <3> HIDE DEF k, C
    <3>1. QED
      BY <1>2, <2>2
  <2>4. QED
    BY <1>5, <2>1, <2>3
<1>7. PICK x \in DOMAIN d.directories : d.directories[x].path = Home[p]
  BY <1>6 DEF DirectoryKnown
<1>8. DirectoryTrue(d, x) /\ Fresh(d, x)
  BY <1>7 DEF LibraryTrue, AllFresh
<1>9. p \in Entries(Home[p]) \cap fs.present
  BY <1>4, TreeFacts DEF Entries
<1>10. Read(d, p)
  BY <1>7, <1>8, <1>9 DEF DirectoryTrue
<1>11. QED
  BY <1>3, <1>10 DEF Read

(* So every directory that is there has been read.                         *)
LEMMA EntriesRead ==
  ASSUME Orderly, FilesTrue, NEW d, Sound(d), LibraryTrue(d), AllFresh(d),
         NEW p \in Files, p \in fs.present
  PROVE  Read(d, p)
<1>1. Home[p] \in fs.present \cap Dirs /\ p \in Entries(Home[p])
  BY FilesAreEntries DEF FilesTrue
<1>2. PICK x \in DOMAIN d.directories : d.directories[x].path = Home[p]
  BY <1>1, DirectoriesKnown DEF DirectoryKnown
<1>3. DirectoryTrue(d, x) /\ Fresh(d, x)
  BY <1>2 DEF LibraryTrue, AllFresh
<1>4. QED
  BY <1>1, <1>2, <1>3 DEF DirectoryTrue

(* And every row of a file is that of one that is there, and in time.      *)
LEMMA RowsRead ==
  ASSUME Orderly, FilesTrue, NEW d, Sound(d), LibraryTrue(d), AllFresh(d),
         NEW y \in DOMAIN d.files
  PROVE  InTime(d, y) /\ There(d.files[y].path) /\ FileTrue(d, y)
<1> DEFINE x == d.files[y].directory
<1>1. x \in DOMAIN d.directories /\ y \in FilesIn(d, x)
  BY FileFacts DEF FilesIn
<1>2. DirectoryTrue(d, x) /\ Fresh(d, x) /\ FileTrue(d, y)
  BY <1>1 DEF LibraryTrue, AllFresh
<1>3. QED
  BY <1>1, <1>2 DEF DirectoryTrue

(* The tracks of a file of music.                                          *)
Told(d, y, p) ==
  LET sheets == {s \in Counting : fs.tag[s] = p} IN
  IF sheets = {} THEN OwnTracks(d, y) \/ SheetsTracks(d, y, PastCues(d, y))
  ELSE SheetsTracks(d, y, {FileId(d, s) : s \in sheets})
LEMMA MusicTold ==
  ASSUME Orderly, FilesTrue, NEW d, Sound(d), LibraryTrue(d), AllFresh(d),
         NEW y \in DOMAIN d.files, NEW p \in Audio \ rewritten, d.files[y].path = p
  PROVE  Told(d, y, p)
<1> DEFINE sheets == {s \in Counting : fs.tag[s] = p}
<1>1. p \in Files /\ p \notin Sheets
  BY LibraryScanAssumption DEF Files
<1>2. InTime(d, y) /\ There(p) /\ FileTrue(d, y)
  BY RowsRead
<1>3. p \in fs.present /\ fs.tag[p] # Broken /\ d.files[y].mtime = fs.mtime[p]
  BY <1>1, <1>2 DEF InTime, There
<1>4. CASE sheets = {}
  <2>1. Contained(d, y)
    BY <1>2, <1>3 DEF FileTrue
  <2>2. QED
    BY <1>4, <2>1 DEF Contained, Told
<1>5. CASE sheets # {}
  <2>1. PICK s \in Counting : fs.tag[s] = p
    BY <1>5
  <2>2. PICK t \in Sheets : Leads(t) /\ s = Preferred(t)
    BY <2>1, CountingIsLed DEF CountingLed
  <2>3. t \in Files /\ t \in fs.present
    BY <2>2 DEF Leads, Found, Files
  <2>4. Read(d, t)
    BY <2>3, EntriesRead
  <2>5. SheetRead(d, t)
    BY <2>2, <2>4 DEF Read
  <2>6. SheetsTracks(d, FileId(d, p), Cues(d, p))
    BY <1>3, <2>1, <2>2, <2>5 DEF SheetRead
  <2>7. FileId(d, p) = y
    BY IdIs
  <2>8. QED
    BY <1>5, <2>6, <2>7 DEF Told, Cues
<1>6. QED
  BY <1>4, <1>5

(* So the tables agree with the file system.                               *)
LEMMA Agreed ==
  ASSUME Orderly, FilesTrue, Sound(db), LibraryTrue(db), AllFresh(db)
  PROVE  Agrees
<1>1. {db.directories[x].path : x \in DOMAIN db.directories} = fs.present \cap Dirs
  <2>1. \A x \in DOMAIN db.directories : db.directories[x].path \in fs.present \cap Dirs
    BY RowFacts DEF AllFresh, Fresh
  <2>2. \A p \in fs.present \cap Dirs : \E x \in DOMAIN db.directories : db.directories[x].path = p
    BY DirectoriesKnown DEF DirectoryKnown
  <2>3. QED
    BY <2>1, <2>2
<1>2. {db.files[y].path : y \in DOMAIN db.files} \ Sheets =
        {p \in fs.present \cap (Audio \cup Images) : fs.tag[p] # Broken}
  <2>1. ASSUME NEW y \in DOMAIN db.files, db.files[y].path \notin Sheets
        PROVE  db.files[y].path \in {p \in fs.present \cap (Audio \cup Images) : fs.tag[p] # Broken}
    <3>1. db.files[y].path \in Files /\ There(db.files[y].path)
      BY FileFacts, RowsRead
    <3>2. QED
      BY <2>1, <3>1 DEF There, Files
  <2>2. ASSUME NEW p \in fs.present \cap (Audio \cup Images), fs.tag[p] # Broken
        PROVE  p \notin Sheets /\ \E y \in DOMAIN db.files : db.files[y].path = p
    <3>1. p \in Files /\ p \notin Sheets
      BY LibraryScanAssumption DEF Files
    <3>2. Read(db, p)
      BY <3>1, EntriesRead
    <3>3. QED
      BY <2>2, <3>1, <3>2 DEF Read, Known
  <2>3. QED
    BY <2>1, <2>2
<1>3. ASSUME NEW f \in DOMAIN db.files, NEW p, p = db.files[f].path,
             NEW tracks, tracks = TracksOf(db, {f}),
             NEW sheets, sheets = {s \in Counting : fs.tag[s] = p}
      PROVE  /\ db.directories[db.files[f].directory].path = Home[p]
             /\ p \in Sheets => p \in Counting
             /\ p \in Audio => tracks # {}
             /\ p \in Audio \ rewritten =>
                  IF sheets = {}
                  THEN OwnTrack(db, f, tracks)
                       \/ FromSheet(db, tracks, {db.tracks[t].cue : t \in tracks} \ {0})
                  ELSE FromSheet(db, tracks, {FileId(db, s) : s \in sheets})
             /\ p \in Images => ImagesOf(db, {f}) # {}
             /\ p \in Images \ rewritten => Cardinality(ImagesOf(db, {f})) = 1
  <2>1. InTime(db, f) /\ There(p) /\ FileTrue(db, f)
    BY <1>3, RowsRead
  <2>2. db.directories[db.files[f].directory].path = Home[p]
    BY <1>3 DEF LibraryTrue, Housed
  <2>3. p \in Sheets => p \in Counting
    BY <2>1 DEF There
  <2>4. /\ p \in Audio => tracks # {}
        /\ p \in Images => ImagesOf(db, {f}) # {}
    BY <1>3, <2>1 DEF FileTrue
  <2>5. ASSUME p \in Audio \ rewritten
        PROVE  IF sheets = {}
               THEN OwnTrack(db, f, tracks)
                    \/ FromSheet(db, tracks, {db.tracks[t].cue : t \in tracks} \ {0})
               ELSE FromSheet(db, tracks, {FileId(db, s) : s \in sheets})
    <3>1. Told(db, f, p)
      BY <1>3, <2>5, MusicTold
    <3>2. CASE sheets = {}
      <4>1. OwnTracks(db, f) \/ SheetsTracks(db, f, PastCues(db, f))
        BY <1>3, <3>1, <3>2 DEF Told
      <4>2. QED
        BY <1>3, <3>2, <4>1 DEF OwnTracks, SheetsTracks, PastCues
    <3>3. CASE sheets # {}
      <4>1. SheetsTracks(db, f, {FileId(db, s) : s \in sheets})
        BY <1>3, <3>1, <3>3 DEF Told
      <4>2. QED
        BY <1>3, <3>3, <4>1 DEF SheetsTracks
    <3>4. QED
      BY <3>2, <3>3
  <2>6. ASSUME p \in Images \ rewritten PROVE Cardinality(ImagesOf(db, {f})) = 1
    <3>1. p \notin Sheets
      BY <2>6, LibraryScanAssumption
    <3>2. p \in fs.present /\ db.files[f].mtime = fs.mtime[p]
      BY <1>3, <2>1, <2>6, <3>1 DEF InTime, There
    <3>3. Contained(db, f)
      BY <1>3, <2>1, <2>6, <3>2 DEF FileTrue
    <3>4. QED
      BY <1>3, <2>6, <3>3 DEF Contained
  <2>7. QED
    BY <2>2, <2>3, <2>4, <2>5, <2>6
<1>4. QED
  BY <1>1, <1>2, <1>3 DEF Agrees

(* After a scan during which nothing happened the library agrees with the  *)
(* file system, whatever happened in and between the scans before it: the  *)
(* time of a directory is set only when the walk has read all that is in   *)
(* it, and a change gives it another one.  No sheet may have named a file  *)
(* of another directory.                                                   *)
THEOREM CompletesAlways == Spec => []ScanCompletes
<1>1. IInv /\ KInv => ScanCompletes
  <2> SUFFICES ASSUME IInv, JInv, ~scanning, quiet PROVE Agrees
    BY DEF ScanCompletes, KInv
  <2>1. stack = <<>> /\ Undisturbed(db, stack) /\ FilesTrue /\ LibraryTrue(db)
    BY DEF JInv
  <2>2. \A x : ~Pending(db, <<>>, x)
    BY DEF Pending
  <2>3. AllFresh(db)
    BY <2>1, <2>2 DEF Undisturbed, AllFresh
  <2>4. QED
    BY <2>1, <2>3, Agreed DEF IInv, FilesTrue
<1>2. QED
  BY <1>1, InitInv, NextInv, KInvHolds, PTL DEF Spec
=============================================================================
