------------------------------- MODULE Query --------------------------------
(***************************************************************************)
(* Queries on tracks, artists and albums: how query.c makes an SQL         *)
(* statement of filters, sorting and bounds, and in which ways the database*)
(* may walk through the rows.  A row is [id, cells], a cell [words, path,  *)
(* key]: what is found in a text (or the one number), the path of a file as*)
(* a sequence of letters and slashes, and the place of the value among all *)
(* values of its column.                                                   *)
(***************************************************************************)
EXTENDS Integers, Sequences, SequencesExt, FiniteSets

(* field_names, in the order of query_field_t, and the one without a name. *)
Fields == <<"trackid", "artistid", "albumid", "title", "artist", "album",
            "track", "duration", "tracks", "directory", "directoryprefix", "all">>
IdFields == {"trackid", "artistid", "albumid"}
LikeFields == {"title", "artist", "album", "all"}

(* track_maps, artist_maps and album_maps.                                 *)
Maps(format) ==
  CASE format = "tracks" -> Range(Fields) \ {"tracks"}
    [] format = "artists" -> {"artistid", "artist", "all"}
    [] format = "albums" -> {"albumid", "album", "tracks", "all"}

(* query_field_from_string.                                                *)
FieldFromString(name) ==
  IF name = "search" THEN "all" ELSE IF name \in Range(Fields) THEN name ELSE "none"

Unset == [set |-> FALSE]

(* query_new.                                                              *)
QueryNew(format) == [format |-> format,
                     filters |-> [f \in Range(Fields) |-> Unset],
                     limit |-> -1, offset |-> 0, order |-> <<>>]

(***************************************************************************)
(* query_filter.  What is left of an id filter are digits and commas: the  *)
(* ids in it, and whether they make an SQL list.                           *)
(***************************************************************************)
QueryFilter(query, f, value) ==
  [query EXCEPT !.filters[f] = [set |-> TRUE, value |-> value]]

(* query_sort ignores a field this kind of query does not have.            *)
QuerySort(query, f, descending) ==
  IF f \in Maps(query.format)
  THEN [query EXCEPT !.order = Append(@, [field |-> f, descending |-> descending])]
  ELSE query

(* query_sort_from_string stops at a name that is no field.                *)
QuerySortFromString(query, sort) ==
  LET asked[n \in 0 .. Len(sort)] ==
        IF n = 0 THEN query
        ELSE IF \E i \in 1 .. n : FieldFromString(sort[i].name) = "none" THEN asked[n - 1]
        ELSE QuerySort(asked[n - 1], FieldFromString(sort[n].name), sort[n].descending)
  IN  asked[Len(sort)]

-----------------------------------------------------------------------------
(* build_filters, bind_filters.  The k-th question mark of the i-th field, *)
(* and the k-th value for it, are <<i, k>>.                                *)
Slots == (DOMAIN Fields) \X {1, 2}

(* The filter on a field in the statement, with its question marks.        *)
Marks(f) == IF f = "directory"
            THEN <<[negated |-> FALSE], [negated |-> TRUE]>>
            ELSE <<[negated |-> FALSE]>>

Placeholders(query) ==
  {x \in Slots : LET f == Fields[x[1]] IN
                   /\ query.filters[f].set
                   /\ f \in Maps(query.format) \ IdFields
                   /\ x[2] \in DOMAIN Marks(f)}

(* Seeded fault: the counter is not raised between the two patterns of the *)
(* filter directory.                                                       *)
PatternsOne(f, value) ==
  IF f = "directory" THEN <<[kind |-> "deeper", value |-> value]>>
  ELSE IF f = "directoryprefix" THEN <<[kind |-> "below", value |-> value]>>
  ELSE IF f \in LikeFields THEN <<[kind |-> "has", value |-> value]>>
  ELSE <<[kind |-> "is", value |-> value]>>

(* What is bound for a filter: "root/value%" and "root/value%/%", "%value%"*)
(* or "value".                                                             *)
Patterns(f, value) ==
  IF f = "directory"
  THEN <<[kind |-> "below", value |-> value], [kind |-> "deeper", value |-> value]>>
  ELSE IF f = "directoryprefix" THEN <<[kind |-> "below", value |-> value]>>
  ELSE IF f \in LikeFields THEN <<[kind |-> "has", value |-> value]>>
  ELSE <<[kind |-> "is", value |-> value]>>

(* Values are bound for every text filter, also for those the statement    *)
(* has no question mark for.                                               *)
Bindings(query) ==
  {x \in Slots : LET f == Fields[x[1]] IN
                   /\ query.filters[f].set
                   /\ f \notin IdFields
                   /\ x[2] \in DOMAIN Patterns(f, query.filters[f].value)}

(* The counter that numbers them: the place of x among those of xs.        *)
Earlier(x, xs) == {y \in xs : y[1] < x[1] \/ (y[1] = x[1] /\ y[2] < x[2])}
Number(x, xs) == Cardinality(Earlier(x, xs))

(* The concatenation of title, artist and album, those there are.          *)
AllCell(row) ==
  LET texts == {"title", "artist", "album"} \cap DOMAIN row.cells
      key(f) == IF f \in texts THEN row.cells[f].key ELSE 0
  IN  [words |-> UNION {row.cells[f].words : f \in texts}, path |-> <<>>,
       key |-> 100 * key("title") + 10 * key("artist") + key("album")]

Cell(row, f) ==
  CASE f = "all" -> AllCell(row)
    [] f \in {"directory", "directoryprefix"} -> row.cells["file"]
    [] OTHER -> row.cells[f]

(* LIKE with the kinds of patterns there are.                              *)
Like(cell, pattern) ==
  CASE pattern.kind = "has" -> pattern.value \in cell.words
    [] pattern.kind = "is" -> cell.words = {pattern.value}
    [] pattern.kind = "below" -> IsPrefix(pattern.value, cell.path)
    [] pattern.kind = "deeper" ->
         /\ IsPrefix(pattern.value, cell.path)
         /\ \E i \in DOMAIN cell.path : i > Len(pattern.value) /\ cell.path[i] = "/"

(* The rows of the statement; an unbound question mark is NULL, and then   *)
(* there are none.                                                         *)
Selected(query, row) ==
  LET marks == Placeholders(query)
      bound == Bindings(query)
  IN  /\ \A f \in IdFields \cap Maps(query.format) :
           query.filters[f].set => row.cells[f].key \in query.filters[f].value.ids
      /\ \A m \in marks : \E b \in bound :
           LET mark == Marks(Fields[m[1]])[m[2]]
               pattern == Patterns(Fields[b[1]], query.filters[Fields[b[1]]].value)[b[2]]
           IN  /\ Number(b, bound) = Number(m, marks)
               /\ Like(Cell(row, Fields[m[1]]), pattern) # mark.negated

(* sqlite3_prepare_v2 refuses a list like "1,,2".                          *)
Prepared(query) == \A f \in IdFields \cap Maps(query.format) :
                     query.filters[f].set => query.filters[f].value.list

-----------------------------------------------------------------------------
(* What the database does with a statement.                                *)

(* Does a come before b, by the first of these fields that tells them      *)
(* apart?                                                                  *)
Precedes(order, a, b) ==
  LET key(row, k) == Cell(row, order[k].field).key
  IN  \E k \in DOMAIN order :
        /\ \A j \in 1 .. k - 1 : key(a, j) = key(b, j)
        /\ IF order[k].descending THEN key(a, k) > key(b, k) ELSE key(a, k) < key(b, k)

By(fields, descending) ==
  [i \in DOMAIN fields |-> [field |-> fields[i], descending |-> descending]]

(* The columns of tracks_default_index.                                    *)
DefaultIndex == <<"album", "track", "title">>

(* Rows come in the order of the rowids or of the index; if that is not the*)
(* order wanted, they are collected and sorted when the first is asked for.*)
Plans(query) ==
  LET sort == query.order # <<>>
  IN  {[sorted |-> sort, scan |-> <<>>]}
        \cup (IF query.format = "tracks"
              THEN {[sorted |-> sort, scan |-> By(DefaultIndex, FALSE)]}
                     \cup {[sorted |-> FALSE, scan |-> By(DefaultIndex, d)] :
                             d \in {e \in BOOLEAN : sort /\ IsPrefix(query.order, By(DefaultIndex, e))}}
              ELSE {})

(* The order of the rows in a statement with this plan.                    *)
Before(query, plan, a, b) ==
  LET order == (IF plan.sorted THEN query.order ELSE <<>>) \o plan.scan
      backwards == plan.scan # <<>> /\ plan.scan[1].descending
  IN  \/ Precedes(order, a, b)
      \/ /\ ~Precedes(order, b, a)
         /\ IF backwards THEN a.id > b.id ELSE a.id < b.id

(* The rows that are to come after those already read, unless bounds say   *)
(* otherwise: those the sorter has left, or those further on in the table. *)
Coming(stmt, table) ==
  IF stmt.plan.sorted /\ stmt.read # <<>> THEN stmt.sorted
  ELSE {row \in table :
          /\ Selected(stmt.query, row)
          /\ stmt.read = <<>> \/ Before(stmt.query, stmt.plan, Last(stmt.read), row)}

-----------------------------------------------------------------------------
(* query_count; negative if the statement cannot be prepared.              *)
QueryCount(query, table) ==
  IF Prepared(query) THEN Cardinality({row \in table : Selected(query, row)})
  ELSE -1

(* A statement of query_start or query_index, before its first row.        *)
QueryStart(query, plan) ==
  [query |-> query, plan |-> plan, sorted |-> {}, read |-> <<>>]

(* The rows that are left: LIMIT -1 is none.                               *)
Left(stmt, table) ==
  LET rows == Coming(stmt, table)
      before(row) == {r \in rows : Before(stmt.query, stmt.plan, r, row)}
  IN  IF Len(stmt.read) = stmt.query.limit THEN {}
      ELSE IF stmt.read # <<>> THEN rows
      ELSE {row \in rows : Cardinality(before(row)) >= stmt.query.offset}

(* query_tracks_next and the others, when there is another row.            *)
QueryNext(stmt, table) ==
  LET left == Left(stmt, table)
      row == CHOOSE x \in left : \A r \in left \ {x} : Before(stmt.query, stmt.plan, x, r)
  IN  [stmt EXCEPT !.sorted = IF stmt.plan.sorted THEN left \ {row} ELSE {},
                   !.read = Append(@, row)]

=============================================================================
