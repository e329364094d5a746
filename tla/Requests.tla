------------------------------ MODULE Requests ------------------------------
(***************************************************************************)
(* A request on its way through the server thread: http_process finds its  *)
(* session, call_method its method, and the methods that log in or list    *)
(* tracks, artists and albums answer it.  Requests are handled one after   *)
(* another, but time passes and the scan thread changes the tables of      *)
(* tracks, artists and albums between any two statements.  Other methods   *)
(* are in Results and Stream.                                              *)
(***************************************************************************)
EXTENDS Query, Session

CONSTANTS
  Asked(_),  \* Asked(noauth): the requests that clients make
  Tables,    \* the tables after each statement of the scan
  Documents, \* the paths of files below the option http-root
  MaxLogins, \* bound: sessions that are made
  MaxTime    \* bound: the last value of time()

None == 0       \* no session, or the id of none
Nothing == "nothing"

VARIABLES
  noauth,   \* the option no-auth
  root,     \* whether the option http-root is set
  now,      \* time()
  sessions, \* the list of session.c
  logins,   \* history: the sessions made
  purged,   \* history: the sessions purged
  hurt,     \* history: the sessions whose refs was lowered in place of another's
  version,  \* how far the scan is
  pc,       \* where http_process is
  http,     \* the request, and the session attached to it
  stmt,     \* the statement whose rows are read
  seen,     \* history: versions at the count, the first step and the last row
  answer    \* what was sent

env == <<noauth, root>>
list == <<sessions, logins, purged, hurt>>
reading == <<stmt, seen>>
vars == <<env, now, list, version, pc, http, reading, answer>>

-----------------------------------------------------------------------------
(* methods: all but two need authorisation, and one is called for every    *)
(* path that its name begins.                                              *)
Lists == {"/tracks", "/artists", "/albums"}
Elsewhere == {"/status", "/rescan", "/image", "/album/image", "/album/images",
              "/track/lyrics", "/root", "/open"}
Methods ==
  [m \in {"/musicd", "/auth", "/track/index"} \cup Lists \cup Elsewhere |->
     [noAuth |-> m \in {"/musicd", "/auth"}, prefix |-> m = "/root"]]

(* A request: name is a method's or a document's, longer says that the path*)
(* goes on; a filter is [name, value, decodes], a sort [name, descending]. *)
Request == [name |-> "/musicd", longer |-> FALSE, share |-> None, cookie |-> None,
            login |-> "missing", filters |-> <<>>, sort |-> <<>>, total |-> FALSE,
            limit |-> 0, offset |-> 0, id |-> 0, session |-> None]

(* What http_parse and the decoding of arguments may leave in a request.   *)
IsRequest(r) ==
  /\ DOMAIN r = DOMAIN Request
  /\ r.total \in BOOLEAN /\ {r.limit, r.offset, r.id} \subseteq Int
  /\ {Len(r.filters), Len(r.sort)} \subseteq Nat
  /\ DOMAIN r.filters = 1 .. Len(r.filters) /\ DOMAIN r.sort = 1 .. Len(r.sort)
  /\ \A i \in DOMAIN r.filters :
       /\ r.filters[i].decodes \in BOOLEAN
       /\ FieldFromString(r.filters[i].name) \in {"directory", "directoryprefix"}
            => r.filters[i].value \in Seq(STRING)

(* A table has each rowid once, and values in the columns of its kind.     *)
IsTable(table, format) ==
  /\ IsFiniteSet(table)
  /\ \A a, b \in table : a.id = b.id => a = b
  /\ \A row \in table : /\ row.id \in Int
                        /\ \A f \in Maps(format) : Cell(row, f).key \in Int
                        /\ format = "tracks" => row.cells["file"].path \in Seq(STRING)

ASSUME RequestsAssumption ==
  /\ {Len(Tables), MaxLogins, MaxTime} \subseteq Nat \ {0}
  /\ DOMAIN Tables = 1 .. Len(Tables)
  /\ \A open \in BOOLEAN : \A r \in Asked(open) : IsRequest(r)
  /\ \A v \in DOMAIN Tables : /\ IsTable(Tables[v].tracks, "tracks")
                              /\ IsTable(Tables[v].artists, "artists")
                              /\ IsTable(Tables[v].albums, "albums")

Table(name, v) == CASE name = "/artists" -> Tables[v].artists
                    [] name = "/albums" -> Tables[v].albums
                    [] OTHER -> Tables[v].tracks

Reply(status) == [status |-> status, total |-> 0, index |-> 0, rows |-> <<>>]
Quiet == [query |-> QueryNew("tracks"), plan |-> [sorted |-> FALSE, scan |-> <<>>],
          sorted |-> {}, read |-> <<>>]
Unseen == [count |-> 1, start |-> 1, end |-> 1]

Init ==
  /\ noauth \in BOOLEAN /\ root \in BOOLEAN
  /\ now = 1 /\ version = 1
  /\ sessions = <<>> /\ logins = 0 /\ purged = {} /\ hurt = {}
  /\ pc = "idle" /\ http = Request /\ stmt = Quiet /\ seen = Unseen
  /\ answer = Reply(Nothing)

Sends(reply) == pc' = "answered" /\ answer' = reply

-----------------------------------------------------------------------------
(* Seeded fault: a share that is not known ends the search.                *)
AttachedShareOnly(request) ==
  IF noauth THEN None
  ELSE IF request.share # None
       THEN IF request.share \in Live(sessions) THEN request.share ELSE None
       ELSE IF request.cookie \in Live(sessions) THEN request.cookie ELSE None

(* attach_session.                                                         *)
Attached(request) ==
  IF noauth THEN None
  ELSE IF request.share \in Live(sessions) THEN request.share
  ELSE IF request.cookie \in Live(sessions) THEN request.cookie
  ELSE None

(* http_process up to process_request.                                     *)
Receive ==
  /\ pc = "idle"
  /\ \E request \in Asked(noauth) :
       LET id == Attached(request) IN
       /\ request.login = "right" => logins < MaxLogins
       /\ http' = [request EXCEPT !.session = id]
       /\ sessions' = SessionGet(sessions, id, now)
  /\ pc' = "attached"
  /\ UNCHANGED <<env, now, logins, purged, hurt, version, reading, answer>>

Found == {m \in DOMAIN Methods : /\ m = http.name
                                 /\ http.longer => Methods[m].prefix}

Authorised ==
  \E i \in DOMAIN sessions : sessions[i].id = http.session /\ sessions[i].user

(* call_method refuses.                                                    *)
Forbidden == \E m \in Found : ~noauth /\ ~Methods[m].noAuth /\ ~Authorised

Forbid ==
  /\ pc = "attached" /\ Forbidden
  /\ Sends(Reply("403"))
  /\ UNCHANGED <<env, now, list, version, http, reading>>

Calls(names) == pc = "attached" /\ ~Forbidden /\ Found \cap names # {}

(* No method: send_document, or 404.                                       *)
SendDocument ==
  /\ pc = "attached" /\ Found = {}
  /\ Sends(Reply(IF ~root THEN "404"
                 ELSE IF http.name = "/../" THEN "403"
                 ELSE IF http.name \in Documents /\ ~http.longer THEN "200"
                 ELSE "404"))
  /\ UNCHANGED <<env, now, list, version, http, reading>>

(* method_musicd: the status stands for the member authed.                 *)
MethodMusicd ==
  /\ Calls({"/musicd"})
  /\ Sends(Reply(IF Authorised \/ noauth THEN "authed" ELSE "not authed"))
  /\ UNCHANGED <<env, now, list, version, http, reading>>

(* method_auth without a user and password, or with wrong ones.            *)
AuthFails ==
  /\ Calls({"/auth"}) /\ http.login # "right"
  /\ Sends(Reply(IF http.login = "missing" THEN "400" ELSE "auth error"))
  /\ UNCHANGED <<env, now, list, version, http, reading>>

(* method_auth makes a session and gives its reference back.               *)
AuthSucceeds ==
  LET id == logins + 1
      made == [SessionNew(sessions, id) EXCEPT ![1].user = TRUE]
  IN  /\ Calls({"/auth"}) /\ http.login = "right"
      /\ logins' = id
      /\ sessions' = SessionDeref(made, id)
      /\ purged' = purged \cup (Live(sessions) \ Live(made))
      /\ Sends([Reply("auth ok") EXCEPT !.index = id])
      /\ UNCHANGED <<env, now, hurt, version, http, reading>>

(* The methods of other modules.                                           *)
MethodElsewhere ==
  /\ Calls(Elsewhere)
  /\ Sends(Reply("200"))
  /\ UNCHANGED <<env, now, list, version, http, reading>>

-----------------------------------------------------------------------------
(* parse_query_filters: a value that cannot be decoded is passed over, and *)
(* of two filters on a field the last one counts.                          *)
ParseQueryFilters(query) ==
  LET parsed[n \in 0 .. Len(http.filters)] ==
        IF n = 0 THEN query
        ELSE LET filter == http.filters[n]
                 f == FieldFromString(filter.name)
             IN  IF f = "none" \/ ~filter.decodes THEN parsed[n - 1]
                 ELSE QueryFilter(parsed[n - 1], f, filter.value)
  IN  parsed[Len(http.filters)]

(* parse_query_bounds.                                                     *)
ParseQueryBounds(query) ==
  [query EXCEPT !.limit = IF http.limit > 0 THEN http.limit ELSE @,
                !.offset = IF http.offset > 0 THEN http.offset ELSE @]

(* query_artists_new, query_albums_new or query_tracks_new.                *)
Kind == CASE http.name = "/artists" -> "artists"
          [] http.name = "/albums" -> "albums"
          [] OTHER -> "tracks"

Filtered == ParseQueryFilters(QueryNew(Kind))

(* parse_total; 0 stands for a total that is not sent.                     *)
ParseTotal ==
  IF http.total THEN QueryCount(Filtered, Table(http.name, version)) ELSE 0

(* method_tracks, method_artists and method_albums up to the count.        *)
MethodList ==
  LET total == ParseTotal
  IN  /\ Calls(Lists)
      /\ IF total < 0 THEN Sends(Reply("500"))
         ELSE pc' = "counted" /\ answer' = [answer EXCEPT !.total = total]
      /\ seen' = [seen EXCEPT !.count = version]
      /\ UNCHANGED <<env, now, list, version, http, stmt>>

(* They go on with bounds, sorting and query_start.                        *)
MethodListStart ==
  LET query == QuerySortFromString(ParseQueryBounds(Filtered), http.sort) IN
  /\ pc = "counted"
  /\ IF Prepared(query)
     THEN /\ \E plan \in Plans(query) : stmt' = QueryStart(query, plan)
          /\ pc' = "reading" /\ UNCHANGED answer
     ELSE Sends(Reply("500")) /\ UNCHANGED stmt
  /\ seen' = [seen EXCEPT !.start = version]
  /\ UNCHANGED <<env, now, list, version, http>>

(* method_track_index up to the loop of query_index.                       *)
MethodTrackIndex ==
  LET query == QuerySortFromString(Filtered, http.sort) IN
  /\ Calls({"/track/index"})
  /\ IF http.id <= 0 THEN Sends(Reply("400")) /\ UNCHANGED stmt
     ELSE IF Prepared(query)
     THEN /\ \E plan \in Plans(query) : stmt' = QueryStart(query, plan)
          /\ pc' = "reading" /\ UNCHANGED answer
     ELSE Sends(Reply("500")) /\ UNCHANGED stmt
  /\ seen' = [seen EXCEPT !.start = version]
  /\ UNCHANGED <<env, now, list, version, http>>

Rows == Left(stmt, Table(http.name, version))
Wanted == http.name = "/track/index" /\ Len(stmt.read) > 0 /\ Last(stmt.read).id = http.id

(* sqlite3_step finds a row.                                               *)
ReadRow ==
  /\ pc = "reading" /\ ~Wanted /\ Rows # {}
  /\ stmt' = QueryNext(stmt, Table(http.name, version))
  /\ UNCHANGED <<env, now, list, version, pc, http, seen, answer>>

(* The list is complete, or the index is known; it is sent less one.       *)
ReadAll ==
  /\ pc = "reading" /\ (Wanted \/ Rows = {})
  /\ seen' = [seen EXCEPT !.end = version]
  /\ Sends([answer EXCEPT
              !.status = "200",
              !.index = IF Wanted THEN Len(stmt.read) - 1
                        ELSE IF http.name = "/track/index" THEN -1 ELSE 0,
              !.rows = IF http.name = "/track/index" THEN <<>> ELSE stmt.read])
  /\ UNCHANGED <<env, now, list, version, http, stmt>>

-----------------------------------------------------------------------------
(***************************************************************************)
(* http_process gives the session back.  If it was purged meanwhile, its   *)
(* memory is freed: the write shows nowhere, or in the session that was    *)
(* made in its place.                                                      *)
(***************************************************************************)
Finish ==
  /\ pc = "answered"
  /\ LET lost == http.session \in purged IN
     \E victim \in IF lost THEN {None, sessions[1].id} ELSE {http.session} :
       /\ sessions' = SessionDeref(sessions, victim)
       /\ hurt' = IF lost THEN hurt \cup ({victim} \ {None}) ELSE hurt
  /\ pc' = "idle" /\ http' = Request /\ stmt' = Quiet /\ seen' = Unseen
  /\ answer' = Reply(Nothing)
  /\ UNCHANGED <<env, now, logins, purged, version>>

Tick ==
  /\ now < MaxTime
  /\ now' = now + 1
  /\ UNCHANGED <<env, list, version, pc, http, reading, answer>>

(* The scan thread executes a statement that inserts, updates or deletes   *)
(* rows.  It has the connection of the server thread, so that is seen at   *)
(* once, also within its transaction.                                      *)
Scan ==
  /\ version < Len(Tables)
  /\ version' = version + 1
  /\ UNCHANGED <<env, now, list, pc, http, reading, answer>>

Next ==
  \/ Receive \/ Forbid \/ SendDocument
  \/ MethodMusicd \/ AuthFails \/ AuthSucceeds \/ MethodElsewhere
  \/ MethodList \/ MethodListStart \/ MethodTrackIndex \/ ReadRow \/ ReadAll
  \/ Finish \/ Tick \/ Scan

Spec == Init /\ [][Next]_vars

-----------------------------------------------------------------------------
(***************************************************************************)
(* What the parameters of a request ask for, said of the rows themselves.  *)
(***************************************************************************)
(* The filters on f that were understood, and the one that counts.  Those  *)
(* with a name that query.c does not have, like the documented id, are     *)
(* passed over: the lists are as if they had not been given.               *)
On(f) == {i \in DOMAIN http.filters :
            FieldFromString(http.filters[i].name) = f /\ http.filters[i].decodes}
Given(f) == On(f) # {}
Value(f) == http.filters[Max(On(f))].value

Meets(row, f, value) ==
  LET path == row.cells["file"].path
      rest == SubSeq(path, Len(value) + 1, Len(path))
  IN  CASE f \in IdFields -> row.cells[f].key \in value.ids
        [] f = "directory" -> path = value \o rest /\ "/" \notin Range(rest)
        [] f = "directoryprefix" -> path = value \o rest
        [] f = "all" -> \E g \in {"title", "artist", "album"} \cap DOMAIN row.cells :
                          value \in row.cells[g].words
        [] f \in LikeFields \ {"all"} -> value \in row.cells[f].words
        [] OTHER -> {value} = row.cells[f].words

Fits(row) == \A f \in Maps(Kind) : Given(f) => Meets(row, f, Value(f))
Fitting(v) == {row \in Table(http.name, v) : Fits(row)}

Malformed == \E f \in IdFields \cap Maps(Kind) : Given(f) /\ ~Value(f).list

(* A text filter the kind does not have stands before one that it has: the *)
(* values are bound to the wrong question marks.                           *)
Misbound ==
  \E i, j \in DOMAIN Fields :
    /\ i < j /\ {Fields[i], Fields[j]} \cap IdFields = {}
    /\ Given(Fields[i]) /\ Fields[i] \notin Maps(Kind)
    /\ Given(Fields[j]) /\ Fields[j] \in Maps(Kind)

(* What the sorting string asks for, as far as it was understood.          *)
Sorting == QuerySortFromString(QueryNew(Kind), http.sort).order

(* The places, 0 for the first, that the row may have in the whole list.   *)
Places(row, rows) ==
  Cardinality({r \in rows : Precedes(Sorting, r, row)}) ..
  Cardinality({r \in rows : ~Precedes(Sorting, row, r)}) - 1

-----------------------------------------------------------------------------
(* Type invariant: in particular there are never more sessions than        *)
(* MAX_SESSIONS, whatever order the logins come in.                        *)
TypeOK ==
  /\ noauth \in BOOLEAN /\ root \in BOOLEAN
  /\ now \in 1 .. MaxTime /\ logins \in 0 .. MaxLogins
  /\ version \in DOMAIN Tables
  /\ Len(sessions) <= MaxSessions
  /\ \A i \in DOMAIN sessions :
       sessions[i] \in [id : 1 .. MaxLogins, last : 0 .. MaxTime,
                       refs : -1 .. 1, user : BOOLEAN]
  /\ purged \subseteq 1 .. logins /\ hurt \subseteq 1 .. logins
  /\ pc \in {"idle", "attached", "counted", "reading", "answered"}
  /\ http.session \in 0 .. logins

(* The sessions are those of logins that were not purged, each once, and   *)
(* refs counts the request at work and nothing else; only a session made   *)
(* while the one of its own request was purged is one short.  A reference  *)
(* not given back keeps a session in the list for ever.                    *)
SessionsSound ==
  /\ Live(sessions) = 1 .. logins \ purged
  /\ Cardinality(Live(sessions)) = Len(sessions)
  /\ \A i \in DOMAIN sessions :
       sessions[i].refs = (IF pc # "idle" /\ http.session = sessions[i].id THEN 1 ELSE 0)
                          - (IF sessions[i].id \in hurt THEN 1 ELSE 0)

(* purge_oldest_session takes a session that no session out of use was     *)
(* asked for before: so one in use goes only if all the others were asked  *)
(* for in the same second or later.                                        *)
PurgedLeastRecent ==
  [][\A i, j \in DOMAIN sessions :
       /\ sessions[i].id \notin Live(sessions')
       /\ sessions[j].refs = 0
       => sessions[i].last <= sessions[j].last]_vars

(* A method that needs authorisation is refused exactly if neither the     *)
(* share nor the cookie of the request is the id of a login that was not   *)
(* purged; no other request is refused for that, and one sees authed to be *)
(* what the next method will go by.                                        *)
MethodsGuarded ==
  pc = "answered" =>
    LET valid == noauth \/ {http.share, http.cookie} \cap (1 .. logins \ purged) # {}
    IN  /\ Found # {} /\ http.name \notin {"/musicd", "/auth"}
          => (answer.status = "403") = ~valid
        /\ http.name \in {"/musicd", "/auth"} => answer.status # "403"
        /\ answer.status \in {"authed", "not authed"}
          => (answer.status = "authed") = valid

(* The list has the rows that fit the filters understood, in the order and *)
(* between the bounds asked for, with the total of the table as it was     *)
(* counted; when the scan changed the table meanwhile, still nothing but   *)
(* rows that fitted, and, without bounds, each row that was there all the  *)
(* time once.                                                              *)
ListMatches(reply, at) ==
  LET rows == reply.rows
      all == Fitting(at.end)
      offset == IF http.offset > 0 THEN http.offset ELSE 0
      most == Cardinality(all) - (IF offset < Cardinality(all) THEN offset ELSE Cardinality(all))
  IN  /\ http.total => reply.total = Cardinality(Fitting(at.count))
      /\ \A k \in DOMAIN rows : \E v \in at.start .. at.end : rows[k] \in Fitting(v)
      /\ ~(http.limit > 0 \/ offset > 0) => \A row \in all :
           (\A v \in at.start .. at.end : row \in Fitting(v))
             => Cardinality({k \in DOMAIN rows : rows[k] = row}) = 1
      /\ at.start = at.end =>
           /\ Len(rows) = IF http.limit > 0 /\ http.limit < most THEN http.limit ELSE most
           /\ Cardinality(Range(rows)) = Len(rows)
           /\ \A k \in DOMAIN rows : offset + k - 1 \in Places(rows[k], all)

(* The index of a track is its place in the sorted list.                   *)
IndexMatches(reply, at) ==
  LET all == Fitting(at.end)
  IN  at.start = at.end =>
        IF \E row \in all : row.id = http.id
        THEN \E row \in all : row.id = http.id /\ reply.index \in Places(row, all)
        ELSE reply.index = -1

(* A list or an index is an error exactly if a list of ids was malformed;  *)
(* else it is what the filters, sorting and bounds understood ask for.  It *)
(* says nothing of the filter id, which doc/http-api.1.txt has and query.c *)
(* does not, and leaves out the filters whose values are bound wrongly.    *)
AnswersMatch ==
  pc = "answered" /\ Found \cap (Lists \cup {"/track/index"}) # {}
    /\ answer.status \notin {"400", "403"} /\ ~Misbound =>
  /\ (answer.status = "500") = Malformed
  /\ answer.status = "200" /\ http.name \in Lists => ListMatches(answer, seen)
  /\ answer.status = "200" /\ http.name = "/track/index" => IndexMatches(answer, seen)

=============================================================================
