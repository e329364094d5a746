\* A file, its sheet, another sheet, a sheet above them and an image.
SPECIFICATION Spec
CONSTANTS
  Dirs = {"music", "sub"}
  Root = "music"
  Audio = {"a"}
  Images = {"cover"}
  Sheets = {"a.cue", "s.cue", "up.cue"}
  Base <- MCBase
  NoSheet = "no sheet"
  SheetAlbum = "X"
  SheetTracks = 2
  Names = {"X"}
  NoName = "none"
  Broken = "broken"
  NoFile = "no file"
  Home <- MCHome
  Rank <- MCRank
  Given = {"music", "sub", "a", "s.cue"}
  GivenTag <- MCGivenTag
  MaxChanges = 2
  MaxScans = 3
  MaxBreaks = 1
INVARIANT TypeOK
INVARIANT AlbumCountsExact
INVARIANT TablesSound
INVARIANT WalkSound
INVARIANT ScanCompletes
