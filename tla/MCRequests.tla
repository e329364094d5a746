----------------------------- MODULE MCRequests -----------------------------
EXTENDS Requests

Text(k, words) == [key |-> k, words |-> words, path |-> <<>>]
Path(k, path) == [key |-> k, words |-> {}, path |-> path]

Word(letter, k) == letter \o ToString(k)

Track(id, title, artist, album, track, path) ==
  [id |-> id, cells |-> [
     trackid |-> Text(id, {}), artistid |-> Text(artist, {}), albumid |-> Text(album, {}),
     title |-> Text(title, {"t", Word("t", title)}), artist |-> Text(4 - artist, {Word("r", artist)}),
     album |-> Text(album, {"t", Word("l", album)}), track |-> Text(track, {ToString(track)}),
     duration |-> Text(1, {"1"}), file |-> path]]

One == Track(1, 1, 1, 2, 1, Path(1, <<"a", "/", "x">>))
Two == Track(2, 2, 2, 1, 1, Path(2, <<"a", "/", "b", "/", "x">>))
Three == Track(3, 1, 2, 1, 2, Path(3, <<"b", "/", "x">>))

(* The file of One is read anew, with a new artist and a new album.        *)
Anew == Track(4, 2, 3, 3, 1, Path(1, <<"a", "/", "x">>))

Artist(id) == [id |-> id, cells |-> [artistid |-> Text(id, {}),
                                     artist |-> Text(4 - id, {Word("r", id)})]]
Album(id, tracks) ==
  [id |-> id, cells |-> [albumid |-> Text(id, {}), album |-> Text(id, {"t", Word("l", id)}),
                         tracks |-> Text(tracks, {ToString(tracks)})]]

(* library_file_clear counts the tracks of the album anew and deletes; then*)
(* library_track_add inserts artist, album and track, and counts again.    *)
(* One version stands for a few statements of it.                          *)
MCTables ==
  LET artists == {Artist(1), Artist(2)}
      albums(a, b) == {Album(1, a), Album(2, b)}
  IN  <<[tracks |-> {One, Two, Three}, artists |-> artists, albums |-> albums(2, 1)],
        [tracks |-> {Two, Three}, artists |-> artists \cup {Artist(3)},
         albums |-> albums(2, 0) \cup {Album(3, 0)}],
        [tracks |-> {Two, Three, Anew}, artists |-> artists \cup {Artist(3)},
         albums |-> albums(2, 0) \cup {Album(3, 1)}]>>

Ids(ids) == [ids |-> ids, list |-> TRUE]
Filter(name, value) == [name |-> name, value |-> value, decodes |-> TRUE]
SomeFilters ==
  {Filter("title", "t1"), Filter("artist", "r2"), Filter("album", "l1"),
   Filter("search", "t"), Filter("track", "1"), Filter("tracks", "1"),
   Filter("artistid", Ids({2})), Filter("trackid", Ids({1, 3, 4})),
   [name |-> "albumid", value |-> [ids |-> {1}, list |-> FALSE], decodes |-> TRUE],
   Filter("directory", <<"a", "/">>), Filter("directoryprefix", <<"a", "/">>),
   [name |-> "artist", value |-> "r1", decodes |-> FALSE], Filter("id", Ids({2}))}

FewFilters == {<<>>, <<Filter("album", "l1")>>, <<Filter("directory", <<"a", "/">>), Filter("search", "t")>>}
Key(name, descending) == [name |-> name, descending |-> descending]
Sorts == {<<>>, <<Key("album", FALSE)>>, <<Key("album", TRUE), Key("track", TRUE)>>,
          <<Key("artist", FALSE), Key("title", TRUE)>>, <<Key("tracks", FALSE), Key("all", TRUE)>>,
          <<Key("title", FALSE), Key("other", FALSE), Key("trackid", TRUE)>>}

Listing ==
  {[Request EXCEPT !.name = n, !.filters = f, !.total = TRUE] :
     n \in Lists, f \in {<<a>> : a \in SomeFilters} \cup (SomeFilters \X SomeFilters)}
  \cup {[Request EXCEPT !.name = n, !.filters = f, !.sort = s, !.limit = b[1], !.offset = b[2]] :
     n \in Lists, f \in FewFilters, s \in Sorts, b \in {<<0, 0>>, <<1, 0>>, <<2, 1>>, <<0, 2>>}}
  \cup {[Request EXCEPT !.name = "/track/index", !.filters = f, !.sort = s, !.id = i] :
     f \in FewFilters, s \in Sorts, i \in 0 .. 4}

Paths == {[Request EXCEPT !.name = n, !.longer = l] :
            n \in {"/musicd", "/root", "/status", "/tracks", "/index.html", "/../"}, l \in BOOLEAN}
Logins == {[Request EXCEPT !.name = "/auth", !.login = l] : l \in {"right", "wrong", "missing"}}
WithIds(requests) == {[r EXCEPT !.share = s, !.cookie = c] :
                        r \in requests, s \in 0 .. MaxLogins, c \in 0 .. MaxLogins}

MCAsked(open) == IF open THEN Listing \cup Paths ELSE WithIds(Paths \cup Logins)

=============================================================================
