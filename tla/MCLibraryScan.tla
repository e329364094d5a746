--------------------------- MODULE MCLibraryScan ---------------------------
(* An instance of LibraryScan for TLC: a music directory with one          *)
(* subdirectory, in that a file of music, its sheet, another sheet and an  *)
(* image, and a sheet above them.                                          *)
EXTENDS LibraryScan

MCFiles == {"a", "a.cue", "s.cue", "up.cue", "cover"}
MCHome == [p \in {"music", "sub"} \cup MCFiles |->
             IF p \in MCFiles \ {"up.cue"} THEN "sub" ELSE "music"]
MCGivenTag == [p \in MCFiles |-> CASE p = "a" -> "X" [] p = "cover" -> "none"
                                   [] p = "s.cue" -> "a" [] OTHER -> "no file"]
MCRank == [p \in {"cover"} |-> 0]
MCBase == [p \in {"a"} |-> "a.cue"]

=============================================================================
