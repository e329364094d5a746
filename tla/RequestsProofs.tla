--------------------------- MODULE RequestsProofs ---------------------------
(***************************************************************************)
(* Theorems about sessions, authorisation and answers, for every limit of  *)
(* sessions, every choice of requests and contents of the tables, and any  *)
(* times and numbers of logins and of statements of the scan.              *)
(***************************************************************************)
EXTENDS Requests, SequenceLemmas, FiniteSetTheorems, TLAPS

-----------------------------------------------------------------------------
(* The operations on the list.                                             *)

(* What a session_t is; refs may be given back once too often.             *)
SessionRecord == [id : Nat \ {0}, last : Nat, refs : Int, user : BOOLEAN]

(* A nonempty set of positions in a list has one whose session was asked   *)
(* for first, and the first of those.                                      *)
LEMMA FirstOldest ==
  ASSUME NEW q \in Seq(SessionRecord),
         NEW S \in SUBSET DOMAIN q, S # {}
  PROVE  \E i \in S : \A j \in S :
           \/ q[i].last < q[j].last
           \/ q[i].last = q[j].last /\ i <= j
<1> DEFINE Times == {q[i].last : i \in S}
<1>1. DOMAIN q \subseteq Nat /\ \A i \in DOMAIN q : q[i] \in SessionRecord
  OBVIOUS
<1>2. Times \subseteq Nat /\ Times # {}
  BY <1>1 DEF SessionRecord
<1>3. PICK t \in Times : \A u \in Times : t <= u
  BY <1>2, HasLeast
<1> DEFINE First == {i \in S : q[i].last = t}
<1>4. First \subseteq Nat /\ First # {}
  BY <1>1, <1>2
<1>5. PICK i \in First : \A j \in First : i <= j
  BY <1>4, HasLeast
<1>6. QED
  <2>1. ASSUME NEW j \in S
        PROVE  \/ q[i].last < q[j].last
               \/ q[i].last = q[j].last /\ i <= j
    <3>1. q[i].last = t /\ q[j].last \in Times /\ t \in Nat /\ q[j].last \in Nat
      BY <1>2
    <3>2. t <= q[j].last
      BY <1>3, <3>1
    <3>3. CASE q[j].last = t
      BY <3>1, <3>3, <1>5
    <3>4. CASE q[j].last # t
      BY <3>1, <3>2, <3>4
    <3>5. QED
      BY <3>3, <3>4
  <2>2. QED
    BY <2>1

(* purge_oldest_session takes a session of the list, and none that is out  *)
(* of use was asked for before it.                                         *)
LEMMA OldestIsLeastRecent ==
  ASSUME NEW q \in Seq(SessionRecord), q # <<>>
  PROVE  /\ Oldest(q) \in DOMAIN q
         /\ \A j \in DOMAIN q :
              q[j].refs = 0 => q[Oldest(q)].last <= q[j].last
<1>0. 1 \in DOMAIN q /\ \A i \in DOMAIN q : q[i].last \in Nat
  <2>1. Len(q) \in Nat /\ Len(q) # 0 /\ DOMAIN q = 1 .. Len(q)
    BY EmptySeq, LenProperties
  <2>2. \A i \in DOMAIN q : q[i] \in SessionRecord
    BY LenProperties
  <2>3. QED
    BY <2>1, <2>2 DEF SessionRecord
<1>1. CASE Older(q) = {}
  BY <1>0, <1>1 DEF Oldest, Older
<1>2. CASE Older(q) # {}
  <2> DEFINE o == Oldest(q)
  <2>1. Older(q) \in SUBSET DOMAIN q
    BY DEF Older
  <2>2. /\ o \in Older(q)
        /\ \A j \in Older(q) : \/ q[o].last < q[j].last
                               \/ q[o].last = q[j].last /\ o <= j
    BY <1>2, <2>1, FirstOldest DEF Oldest
  <2>3. o \in DOMAIN q /\ q[o].last < q[1].last
    BY <2>2 DEF Older
  <2>4. ASSUME NEW j \in DOMAIN q, q[j].refs = 0
        PROVE  q[o].last <= q[j].last
    <3>1. CASE j \in Older(q)
      BY <1>0, <2>2, <2>3, <3>1
    <3>2. CASE j \notin Older(q)
      <4>1. ~(q[j].last < q[1].last)
        BY <2>4, <3>2 DEF Older
      <4>2. QED
        BY <1>0, <2>3, <4>1
    <3>3. QED
      BY <3>1, <3>2
  <2>5. QED
    BY <2>3, <2>4
<1>3. QED
  BY <1>1, <1>2

-----------------------------------------------------------------------------
(* What the list has to be: ids names its sessions, each once and logged   *)
(* in; held is the one whose reference the request at work has; those in   *)
(* wronged have lost one too many; none was asked for after t.             *)
Sound(q, ids, held, wronged, t) ==
  /\ q \in Seq(SessionRecord)
  /\ Len(q) <= MaxSessions
  /\ \A i, j \in DOMAIN q : q[i].id = q[j].id => i = j
  /\ Live(q) = ids
  /\ \A i \in DOMAIN q :
       /\ q[i].user /\ q[i].last <= t
       /\ q[i].refs = (IF q[i].id = held THEN 1 ELSE 0)
                      - (IF q[i].id \in wronged THEN 1 ELSE 0)

(* A session stays one when it is used, and when it is given back.         *)
LEMMA SessionKept ==
  ASSUME NEW r \in SessionRecord, NEW t \in Nat
  PROVE  /\ [r EXCEPT !.last = t, !.refs = @ + 1] \in SessionRecord
         /\ [r EXCEPT !.refs = @ - 1] \in SessionRecord
<1>1. [r EXCEPT !.last = t] \in SessionRecord
  BY DEF SessionRecord
<1>2. ASSUME NEW x \in SessionRecord
      PROVE  /\ [x EXCEPT !.refs = @ + 1] \in SessionRecord
             /\ [x EXCEPT !.refs = @ - 1] \in SessionRecord
  BY DEF SessionRecord
<1>3. [r EXCEPT !.last = t, !.refs = @ + 1] = [[r EXCEPT !.last = t] EXCEPT !.refs = @ + 1]
  OBVIOUS
<1>4. QED
  BY <1>1, <1>2, <1>3

(* method_auth sets the user of the session it has made.                   *)
LEMMA UserSet ==
  ASSUME NEW r \in SessionRecord
  PROVE  LET s == [r EXCEPT !.user = TRUE]
         IN  /\ s \in SessionRecord /\ s.user
             /\ s.id = r.id /\ s.last = r.last /\ s.refs = r.refs
  BY DEF SessionRecord

(* session_get changes the session asked for, and nothing else.            *)
LEMMA GetElements ==
  ASSUME NEW q \in Seq(SessionRecord), NEW id, NEW t \in Nat
  PROVE  /\ SessionGet(q, id, t) \in Seq(SessionRecord)
         /\ DOMAIN SessionGet(q, id, t) = DOMAIN q /\ Len(SessionGet(q, id, t)) = Len(q)
         /\ \A i \in DOMAIN q :
              LET s == SessionGet(q, id, t)[i]
              IN  /\ s.id = q[i].id /\ s.user = q[i].user
                  /\ s.last = IF q[i].id = id THEN t ELSE q[i].last
                  /\ s.refs = IF q[i].id = id THEN q[i].refs + 1 ELSE q[i].refs
<1> DEFINE n == Len(q)
           s(i) == IF q[i].id = id THEN [q[i] EXCEPT !.last = t, !.refs = @ + 1] ELSE q[i]
           g == [i \in 1 .. n |-> s(i)]
<1>1. DOMAIN q = 1 .. n /\ n \in Nat /\ \A i \in 1 .. n : q[i] \in SessionRecord
  BY LenProperties
<1>2. SessionGet(q, id, t) = g
  BY <1>1 DEF SessionGet, Updated
<1>3. ASSUME NEW i \in 1 .. n
      PROVE  /\ s(i) \in SessionRecord
             /\ s(i).id = q[i].id /\ s(i).user = q[i].user
             /\ s(i).last = IF q[i].id = id THEN t ELSE q[i].last
             /\ s(i).refs = IF q[i].id = id THEN q[i].refs + 1 ELSE q[i].refs
  <2> DEFINE r == q[i]
  <2>1. r \in SessionRecord
    BY <1>1
  <2>2. s(i) = IF r.id = id THEN [r EXCEPT !.last = t, !.refs = @ + 1] ELSE r
    OBVIOUS
  <2> HIDE DEF r, s
  <2>3. s(i) \in SessionRecord
    BY <2>1, <2>2, SessionKept
  <2>4. /\ s(i).id = r.id /\ s(i).user = r.user
        /\ s(i).last = IF r.id = id THEN t ELSE r.last
        /\ s(i).refs = IF r.id = id THEN r.refs + 1 ELSE r.refs
    BY <2>1, <2>2 DEF SessionRecord
  <2>5. QED
    BY <2>3, <2>4 DEF r
<1> HIDE DEF s
<1>4. g \in Seq(SessionRecord) /\ Len(g) = n
  BY <1>1, <1>3
<1>5. QED
  BY <1>1, <1>2, <1>3, <1>4

(* session_deref changes the session given back, and nothing else.         *)
LEMMA DerefElements ==
  ASSUME NEW q \in Seq(SessionRecord), NEW id
  PROVE  /\ SessionDeref(q, id) \in Seq(SessionRecord)
         /\ DOMAIN SessionDeref(q, id) = DOMAIN q /\ Len(SessionDeref(q, id)) = Len(q)
         /\ \A i \in DOMAIN q :
              LET s == SessionDeref(q, id)[i]
              IN  /\ s.id = q[i].id /\ s.user = q[i].user /\ s.last = q[i].last
                  /\ s.refs = IF q[i].id = id THEN q[i].refs - 1 ELSE q[i].refs
<1> DEFINE n == Len(q)
           s(i) == IF q[i].id = id THEN [q[i] EXCEPT !.refs = @ - 1] ELSE q[i]
           g == [i \in 1 .. n |-> s(i)]
<1>1. DOMAIN q = 1 .. n /\ n \in Nat /\ \A i \in 1 .. n : q[i] \in SessionRecord
  BY LenProperties
<1>2. SessionDeref(q, id) = g
  BY <1>1 DEF SessionDeref, Updated
<1>3. ASSUME NEW i \in 1 .. n
      PROVE  /\ s(i) \in SessionRecord
             /\ s(i).id = q[i].id /\ s(i).user = q[i].user /\ s(i).last = q[i].last
             /\ s(i).refs = IF q[i].id = id THEN q[i].refs - 1 ELSE q[i].refs
  <2> DEFINE r == q[i]
  <2>1. r \in SessionRecord
    BY <1>1
  <2>2. s(i) = IF r.id = id THEN [r EXCEPT !.refs = @ - 1] ELSE r
    OBVIOUS
  <2> HIDE DEF r, s
  <2>3. s(i) \in SessionRecord
    BY <2>1, <2>2, SessionKept
  <2>4. /\ s(i).id = r.id /\ s(i).user = r.user /\ s(i).last = r.last
        /\ s(i).refs = IF r.id = id THEN r.refs - 1 ELSE r.refs
    BY <2>1, <2>2 DEF SessionRecord
  <2>5. QED
    BY <2>3, <2>4 DEF r
<1> HIDE DEF s
<1>4. g \in Seq(SessionRecord) /\ Len(g) = n
  BY <1>1, <1>3
<1>5. QED
  BY <1>1, <1>2, <1>3, <1>4

(* attach_session takes a reference, http_process gives it back.           *)
LEMMA GetSound ==
  ASSUME NEW q, NEW ids, NEW wronged, NEW t \in Nat, NEW id,
         Sound(q, ids, None, wronged, t), 0 \notin ids
  PROVE  Sound(SessionGet(q, id, t), ids, id, wronged, t)
<1> DEFINE g == SessionGet(q, id, t)
<1>1. /\ q \in Seq(SessionRecord) /\ Len(q) <= MaxSessions
      /\ \A i, j \in DOMAIN q : q[i].id = q[j].id => i = j
      /\ {q[i].id : i \in DOMAIN q} = ids
      /\ \A i \in DOMAIN q : q[i].user /\ q[i].last <= t
      /\ \A i \in DOMAIN q : q[i].refs = (IF q[i].id = 0 THEN 1 ELSE 0)
                                          - (IF q[i].id \in wronged THEN 1 ELSE 0)
  BY DEF Sound, Live, None
<1>2. /\ g \in Seq(SessionRecord) /\ DOMAIN g = DOMAIN q /\ Len(g) = Len(q)
      /\ \A i \in DOMAIN q :
           /\ g[i].id = q[i].id /\ g[i].user = q[i].user
           /\ g[i].last = IF q[i].id = id THEN t ELSE q[i].last
           /\ g[i].refs = IF q[i].id = id THEN q[i].refs + 1 ELSE q[i].refs
  BY <1>1, GetElements
<1> HIDE DEF g
<1>3. ASSUME NEW i \in DOMAIN q
      PROVE  /\ g[i].id = q[i].id /\ g[i].user /\ g[i].last <= t
             /\ g[i].refs = (IF q[i].id = id THEN 1 ELSE 0)
                            - (IF q[i].id \in wronged THEN 1 ELSE 0)
  <2>1. q[i] \in SessionRecord /\ q[i].id \in ids
    BY <1>1
  <2>2. q[i].last \in Nat /\ q[i].refs \in Int
    BY <2>1 DEF SessionRecord
  <2>3. QED
    BY <1>1, <1>2, <2>1, <2>2, SMTT(30)
<1>4. {g[i].id : i \in DOMAIN g} = ids
  <2>1. {g[i].id : i \in DOMAIN g} = {q[i].id : i \in DOMAIN q}
    BY <1>2, <1>3
  <2>2. QED
    BY <1>1, <2>1
<1>5. \A i, j \in DOMAIN g : g[i].id = g[j].id => i = j
  BY <1>1, <1>2
<1>6. Sound(g, ids, id, wronged, t)
  <2>1. g \in Seq(SessionRecord) /\ Len(g) <= MaxSessions
    BY <1>1, <1>2
  <2>2. Live(g) = ids
    BY <1>4 DEF Live
  <2>3. \A i \in DOMAIN g :
          /\ g[i].user /\ g[i].last <= t
          /\ g[i].refs = (IF g[i].id = id THEN 1 ELSE 0)
                         - (IF g[i].id \in wronged THEN 1 ELSE 0)
    BY <1>2, <1>3
  <2>4. QED
    BY <1>5, <2>1, <2>2, <2>3 DEF Sound
<1>7. QED
  BY <1>6 DEF g

(* When the session given back is not the one held, it is wronged.         *)
LEMMA DerefSound ==
  ASSUME NEW q, NEW ids, NEW held, NEW wronged, NEW t, NEW id,
         Sound(q, ids, held, wronged, t), 0 \notin ids,
         held = id \/ (held \notin ids /\ id \notin wronged)
  PROVE  Sound(SessionDeref(q, id), ids, None,
               IF held = id THEN wronged ELSE wronged \cup ({id} \ {None}), t)
<1> DEFINE g == SessionDeref(q, id)
           after == IF held = id THEN wronged ELSE wronged \cup ({id} \ {0})
<1>1. /\ q \in Seq(SessionRecord) /\ Len(q) <= MaxSessions
      /\ \A i, j \in DOMAIN q : q[i].id = q[j].id => i = j
      /\ {q[i].id : i \in DOMAIN q} = ids
      /\ \A i \in DOMAIN q : q[i].user /\ q[i].last <= t
      /\ \A i \in DOMAIN q : q[i].refs = (IF q[i].id = held THEN 1 ELSE 0)
                                          - (IF q[i].id \in wronged THEN 1 ELSE 0)
  BY DEF Sound, Live
<1>2. /\ g \in Seq(SessionRecord) /\ DOMAIN g = DOMAIN q /\ Len(g) = Len(q)
      /\ \A i \in DOMAIN q :
           /\ g[i].id = q[i].id /\ g[i].user = q[i].user /\ g[i].last = q[i].last
           /\ g[i].refs = IF q[i].id = id THEN q[i].refs - 1 ELSE q[i].refs
  BY <1>1, DerefElements
<1> HIDE DEF g
<1>3. ASSUME NEW i \in DOMAIN q
      PROVE  /\ g[i].id = q[i].id /\ g[i].user /\ g[i].last <= t
             /\ g[i].refs = (IF q[i].id = 0 THEN 1 ELSE 0)
                            - (IF q[i].id \in after THEN 1 ELSE 0)
  <2>1. q[i] \in SessionRecord /\ q[i].id \in ids
    BY <1>1
  <2>2. q[i].last \in Nat /\ q[i].refs \in Int
    BY <2>1 DEF SessionRecord
  <2>3. QED
    BY <1>1, <1>2, <2>1, <2>2
<1>4. {g[i].id : i \in DOMAIN g} = ids
  <2>1. {g[i].id : i \in DOMAIN g} = {q[i].id : i \in DOMAIN q}
    BY <1>2, <1>3
  <2>2. QED
    BY <1>1, <2>1
<1>5. \A i, j \in DOMAIN g : g[i].id = g[j].id => i = j
  BY <1>1, <1>2
<1>6. Sound(g, ids, 0, after, t)
  <2>1. g \in Seq(SessionRecord) /\ Len(g) <= MaxSessions
    BY <1>1, <1>2
  <2>2. Live(g) = ids
    BY <1>4 DEF Live
  <2>3. \A i \in DOMAIN g :
          /\ g[i].user /\ g[i].last <= t
          /\ g[i].refs = (IF g[i].id = 0 THEN 1 ELSE 0)
                         - (IF g[i].id \in after THEN 1 ELSE 0)
    BY <1>2, <1>3
  <2>4. QED
    BY <1>5, <2>1, <2>2, <2>3 DEF Sound
<1>7. QED
  BY <1>6 DEF g, None

(* After the purge there is room for one more session, and what is left is *)
(* as it was.  A session that went was not asked for after one out of use. *)
LEMMA PurgedSound ==
  ASSUME NEW q, NEW ids, NEW held, NEW wronged, NEW t,
         Sound(q, ids, held, wronged, t)
  PROVE  /\ Sound(Purged(q), Live(Purged(q)), held, wronged, t)
         /\ Len(Purged(q)) < MaxSessions
         /\ Live(Purged(q)) \subseteq ids
         /\ \A i, j \in DOMAIN q :
              q[i].id \notin Live(Purged(q)) /\ q[j].refs = 0 => q[i].last <= q[j].last
<1>1. /\ q \in Seq(SessionRecord) /\ Len(q) \in Nat /\ DOMAIN q = 1 .. Len(q)
      /\ Live(q) = ids /\ MaxSessions \in Nat \ {0} /\ Len(q) <= MaxSessions
  BY SessionAssumption, LenProperties DEF Sound
<1>2. CASE Len(q) < MaxSessions
  <2>1. Purged(q) = q
    BY <1>1, <1>2 DEF Purged
  <2>2. \A i \in DOMAIN q : q[i].id \in Live(q)
    BY DEF Live
  <2>3. QED
    BY <1>1, <1>2, <2>1, <2>2
<1>3. CASE Len(q) >= MaxSessions
  <2> DEFINE p == Purged(q)
             o == Oldest(q)
             from(k) == IF k < o THEN k ELSE k + 1
  <2>1. p = RemoveAt(q, o)
    BY <1>3 DEF Purged
  <2>2. q # <<>>
    BY <1>1, <1>3
  <2>3. /\ o \in 1 .. Len(q)
        /\ \A j \in DOMAIN q : q[j].refs = 0 => q[o].last <= q[j].last
    BY <1>1, <2>2, OldestIsLeastRecent
  <2> HIDE DEF o, p
  <2>4. /\ p \in Seq(SessionRecord) /\ Len(p) = Len(q) - 1
        /\ \A k \in 1 .. Len(q) - 1 : p[k] = IF k < o THEN q[k] ELSE q[k + 1]
    BY <1>1, <2>1, <2>3, RemoveAtElements
  <2>5. DOMAIN p = 1 .. Len(q) - 1
    BY <2>4, LenProperties
  <2>6. ASSUME NEW k \in DOMAIN p
        PROVE  from(k) \in DOMAIN q /\ from(k) # o /\ p[k] = q[from(k)]
    BY <1>1, <2>3, <2>4, <2>5
  <2>7. \A k, m \in DOMAIN p : from(k) = from(m) => k = m
    BY <1>1, <2>3, <2>5
  <2>8. ASSUME NEW i \in DOMAIN q, i # o
        PROVE  q[i].id \in Live(p)
    <3>1. CASE i < o
      <4>1. i \in DOMAIN p /\ p[i] = q[i]
        BY <1>1, <2>3, <2>4, <2>5, <3>1
      <4>2. QED
        BY <4>1 DEF Live
    <3>2. CASE i > o
      <4>1. i - 1 \in DOMAIN p /\ p[i - 1] = q[i]
        BY <1>1, <2>3, <2>4, <2>5, <3>2
      <4>2. QED
        BY <4>1 DEF Live
    <3>3. QED
      BY <1>1, <2>3, <2>8, <3>1, <3>2
  <2> HIDE DEF from
  <2>9. Live(p) \subseteq ids
    BY <1>1, <2>6 DEF Live
  <2>10. /\ \A k, m \in DOMAIN p : p[k].id = p[m].id => k = m
         /\ \A k \in DOMAIN p :
              /\ p[k].user /\ p[k].last <= t
              /\ p[k].refs = (IF p[k].id = held THEN 1 ELSE 0)
                             - (IF p[k].id \in wronged THEN 1 ELSE 0)
    <3>1. /\ \A i, j \in DOMAIN q : q[i].id = q[j].id => i = j
          /\ \A i \in DOMAIN q :
               /\ q[i].user /\ q[i].last <= t
               /\ q[i].refs = (IF q[i].id = held THEN 1 ELSE 0)
                              - (IF q[i].id \in wronged THEN 1 ELSE 0)
      BY DEF Sound
    <3>2. QED
      BY <2>6, <2>7, <3>1
  <2>11. Len(p) < MaxSessions
    BY <1>1, <2>4
  <2>12. Sound(p, Live(p), held, wronged, t)
    BY <1>1, <2>4, <2>10, <2>11 DEF Sound
  <2>13. ASSUME NEW i \in DOMAIN q, NEW j \in DOMAIN q,
                q[i].id \notin Live(p), q[j].refs = 0
         PROVE  q[i].last <= q[j].last
    BY <2>3, <2>8, <2>13
  <2>14. QED
    BY <2>9, <2>11, <2>12, <2>13 DEF p
<1>4. QED
  BY <1>1, <1>2, <1>3

(* What method_auth does to the list.                                      *)
Made(q, id) == [SessionNew(q, id) EXCEPT ![1].user = TRUE]
LoggedIn(q, id) == SessionDeref(Made(q, id), id)

(* A login puts its session before those that were not purged.             *)
LEMMA LoggedInSound ==
  ASSUME NEW q, NEW ids, NEW held, NEW wronged, NEW t \in Nat, NEW id \in Nat \ {0},
         Sound(q, ids, held, wronged, t),
         id \notin ids, id # held, id \notin wronged
  PROVE  /\ Sound(LoggedIn(q, id), Live(Purged(q)) \cup {id}, held, wronged, t)
         /\ Live(Made(q, id)) = Live(Purged(q)) \cup {id}
         /\ LoggedIn(q, id) # <<>> /\ LoggedIn(q, id)[1].id = id
<1> DEFINE p == Purged(q)
           first == [id |-> id, last |-> 0, refs |-> 1, user |-> FALSE]
           new == [first EXCEPT !.user = TRUE]
           made == Made(q, id)
           g == SessionDeref(made, id)
<1>0. /\ first \in SessionRecord /\ new \in SessionRecord
      /\ new.id = id /\ new.last = 0 /\ new.refs = 1 /\ new.user
  <2>1. /\ first \in SessionRecord
        /\ first.id = id /\ first.last = 0 /\ first.refs = 1
    BY DEF SessionRecord
  <2> HIDE DEF first
  <2>2. QED
    BY <2>1, UserSet
<1>1. /\ Sound(p, Live(p), held, wronged, t) /\ Len(p) < MaxSessions
      /\ Live(p) \subseteq ids
  BY PurgedSound
<1>2. /\ p \in Seq(SessionRecord) /\ Len(p) \in Nat /\ DOMAIN p = 1 .. Len(p)
  BY <1>1, LenProperties DEF Sound
<1> HIDE DEF p
<1>3. /\ made \in Seq(SessionRecord) /\ Len(made) = Len(p) + 1
      /\ made[1] = new /\ \A k \in 1 .. Len(p) : made[k + 1] = p[k]
  <2> DEFINE s == <<first>> \o p
  <2>1. SessionNew(q, id) = s
    BY DEF SessionNew, p
  <2>2. <<first>> \in Seq(SessionRecord) /\ Len(<<first>>) = 1 /\ <<first>>[1] = first
    BY <1>0
  <2> HIDE DEF first
  <2>3. /\ s \in Seq(SessionRecord) /\ Len(s) = 1 + Len(p)
        /\ \A i \in 1 .. 1 + Len(p) : s[i] = IF i <= 1 THEN <<first>>[i] ELSE p[i - 1]
    BY <1>2, <2>2, ConcatProperties
  <2>4. s[1] = first /\ \A k \in 1 .. Len(p) : s[k + 1] = p[k]
    BY <1>2, <2>2, <2>3
  <2> HIDE DEF s
  <2>5. made = [s EXCEPT ![1] = new]
    BY <2>1, <2>4 DEF Made
  <2> HIDE DEF made, new
  <2>6. /\ made \in Seq(SessionRecord) /\ Len(made) = Len(s)
        /\ \A i \in 1 .. Len(s) : made[i] = IF i = 1 THEN new ELSE s[i]
    BY <1>0, <1>2, <2>3, <2>5, ExceptSeq
  <2>7. QED
    BY <1>2, <2>3, <2>4, <2>6
<1> HIDE DEF made, new
<1>4. DOMAIN made = 1 .. Len(p) + 1
  BY <1>2, <1>3, LenProperties
<1>5. \A i \in DOMAIN made : \/ i = 1 /\ made[i] = new
                             \/ i - 1 \in DOMAIN p /\ made[i] = p[i - 1]
  <2>1. ASSUME NEW i \in 1 .. Len(p) + 1, i # 1
        PROVE  i - 1 \in 1 .. Len(p) /\ made[i] = p[i - 1]
    <3>1. i - 1 \in 1 .. Len(p) /\ (i - 1) + 1 = i
      BY <1>2, <2>1
    <3>2. QED
      BY <1>3, <3>1
  <2>2. QED
    BY <1>2, <1>3, <1>4, <2>1
<1>6. Live(made) = Live(p) \cup {id}
  <2>1. ASSUME NEW k \in DOMAIN p
        PROVE  k + 1 \in DOMAIN made /\ made[k + 1] = p[k]
    BY <1>2, <1>3, <1>4
  <2>2. 1 \in DOMAIN made /\ made[1].id = id
    BY <1>0, <1>2, <1>3, <1>4
  <2>3. \A i \in DOMAIN made : \/ made[i].id = id
                               \/ \E k \in DOMAIN p : made[i] = p[k]
    BY <1>0, <1>5
  <2>4. QED
    BY <2>1, <2>2, <2>3 DEF Live
<1>7. /\ g \in Seq(SessionRecord) /\ DOMAIN g = DOMAIN made /\ Len(g) = Len(made)
      /\ \A i \in DOMAIN made :
           /\ g[i].id = made[i].id /\ g[i].user = made[i].user /\ g[i].last = made[i].last
           /\ g[i].refs = IF made[i].id = id THEN made[i].refs - 1 ELSE made[i].refs
  BY <1>3, DerefElements
<1> HIDE DEF g
<1>8. ASSUME NEW k \in DOMAIN p
      PROVE  /\ p[k].id \in ids /\ p[k].id # id
             /\ p[k].user /\ p[k].last <= t
             /\ p[k].refs = (IF p[k].id = held THEN 1 ELSE 0)
                            - (IF p[k].id \in wronged THEN 1 ELSE 0)
             /\ \A m \in DOMAIN p : p[k].id = p[m].id => k = m
  BY <1>1 DEF Sound, Live
<1>9. ASSUME NEW i \in DOMAIN g
      PROVE  /\ g[i].user /\ g[i].last <= t
             /\ g[i].refs = (IF g[i].id = held THEN 1 ELSE 0)
                            - (IF g[i].id \in wronged THEN 1 ELSE 0)
             /\ g[i].id = id => i = 1
  <2>1. CASE i = 1
    BY <1>0, <1>3, <1>7, <2>1
  <2>2. CASE i # 1
    <3>1. i - 1 \in DOMAIN p /\ made[i] = p[i - 1]
      BY <1>5, <1>7, <2>2
    <3>2. QED
      BY <1>7, <1>8, <3>1
  <2>3. QED
    BY <2>1, <2>2
<1>10. ASSUME NEW i \in DOMAIN g, NEW j \in DOMAIN g, g[i].id = g[j].id
       PROVE  i = j
  <2>1. CASE i = 1 \/ j = 1
    BY <1>0, <1>3, <1>7, <1>9, <1>10, <2>1
  <2>2. CASE i # 1 /\ j # 1
    <3>1. /\ i - 1 \in DOMAIN p /\ g[i].id = p[i - 1].id
          /\ j - 1 \in DOMAIN p /\ g[j].id = p[j - 1].id
      BY <1>5, <1>7, <2>2
    <3>2. i - 1 = j - 1
      BY <1>8, <1>10, <3>1
    <3>3. i \in Nat /\ j \in Nat
      BY <1>2, <1>4, <1>7
    <3>4. QED
      BY <3>2, <3>3
  <2>3. QED
    BY <2>1, <2>2
<1>11. Live(g) = Live(p) \cup {id}
  <2>1. Live(g) = Live(made)
    BY <1>7 DEF Live
  <2>2. QED
    BY <1>6, <2>1
<1>12. Len(g) <= MaxSessions
  BY <1>1, <1>2, <1>3, <1>7, SessionAssumption
<1>13. Sound(g, Live(p) \cup {id}, held, wronged, t)
  BY <1>7, <1>9, <1>10, <1>11, <1>12 DEF Sound
<1>14. g # <<>> /\ g[1].id = id
  BY <1>0, <1>2, <1>3, <1>4, <1>7
<1>15. QED
  BY <1>6, <1>13, <1>14 DEF LoggedIn, g, made, p

-----------------------------------------------------------------------------
(* The inductive invariant.                                                *)

(* The share or the cookie of the request names a login not purged.        *)
Valid == {http.share, http.cookie} \cap (1 .. logins \ purged) # {}

Bounds ==
  /\ noauth \in BOOLEAN /\ root \in BOOLEAN
  /\ now \in 1 .. MaxTime /\ logins \in 0 .. MaxLogins
  /\ version \in DOMAIN Tables
  /\ purged \subseteq 1 .. logins /\ hurt \subseteq 1 .. logins
  /\ pc \in {"idle", "attached", "counted", "reading", "answered"}
  /\ DOMAIN http = DOMAIN Request
  /\ DOMAIN answer = {"status", "total", "index", "rows"}

(* The session attached is in the list, but for the one that was purged by *)
(* the request's own login; the new session is then the head of the list.  *)
AttachedSound ==
  /\ http.session \in 0 .. logins
  /\ pc = "idle" => http.session = None
  /\ http.session \in purged => /\ pc = "answered"
                                /\ sessions # <<>>
                                /\ sessions[1].id \in 1 .. logins \ purged
                                /\ sessions[1].id \notin hurt

(* What a request may do is known as soon as its session was looked for,   *)
(* a list is only made by one that may, and there is a login left for one  *)
(* that logs in.                                                           *)
Allowed ==
  /\ pc \in {"attached", "counted", "reading"} =>
       http.session # None <=> ~noauth /\ Valid
  /\ pc \in {"counted", "reading"} =>
       /\ http.name \in Lists \cup {"/track/index"}
       /\ noauth \/ Valid
  /\ pc = "attached" /\ http.login = "right" => logins < MaxLogins

IInv ==
  /\ Bounds
  /\ Sound(sessions, 1 .. logins \ purged, http.session, hurt, now)
  /\ AttachedSound
  /\ Allowed
  /\ MethodsGuarded

(* Nothing is attached, and there is nobody to be.                         *)
LEMMA InitInv == Init => IInv
<1> SUFFICES ASSUME Init PROVE IInv
  OBVIOUS
<1>1. Bounds
  <2>1. 1 \in DOMAIN Tables /\ 1 \in 1 .. MaxTime /\ 0 \in 0 .. MaxLogins
    BY RequestsAssumption
  <2>2. DOMAIN answer = {"status", "total", "index", "rows"}
    BY DEF Init, Reply
  <2>3. QED
    BY <2>1, <2>2 DEF Init, Bounds
<1>2. Sound(sessions, 1 .. logins \ purged, http.session, hurt, now)
  <2>1. sessions = <<>> /\ 1 .. logins \ purged = {} /\ MaxSessions \in Nat
    BY SessionAssumption DEF Init
  <2>2. <<>> \in Seq(SessionRecord) /\ DOMAIN <<>> = {} /\ Len(<<>>) = 0
    OBVIOUS
  <2>3. QED
    BY <2>1, <2>2 DEF Sound, Live
<1>3. AttachedSound
  BY DEF Init, AttachedSound, Request, None
<1>4. Allowed /\ MethodsGuarded
  BY DEF Init, Allowed, MethodsGuarded
<1>5. QED
  BY <1>1, <1>2, <1>3, <1>4 DEF IInv

(* call_method refuses exactly what it should.                             *)
LEMMA ForbiddenIff ==
  ASSUME IInv, pc = "attached"
  PROVE  /\ Authorised <=> ~noauth /\ Valid
         /\ Found \subseteq {http.name}
         /\ Forbidden <=> /\ Found # {} /\ http.name \notin {"/musicd", "/auth"}
                          /\ ~(noauth \/ Valid)
<1>1. /\ noauth \in BOOLEAN
      /\ http.session # None <=> ~noauth /\ Valid
      /\ http.session \in 0 .. logins /\ http.session \notin purged
      /\ Live(sessions) = 1 .. logins \ purged
      /\ \A i \in DOMAIN sessions : sessions[i].user
      /\ logins \in Nat
  BY DEF IInv, Bounds, AttachedSound, Allowed, Sound
<1>2. Authorised <=> http.session \in Live(sessions)
  BY <1>1 DEF Authorised, Live
<1>3. http.session \in Live(sessions) <=> http.session # None
  BY <1>1 DEF None
<1>4. Found \subseteq {http.name}
  BY DEF Found
<1>5. \A m \in Found : Methods[m].noAuth = (m \in {"/musicd", "/auth"})
  BY DEF Found, Methods
<1>6. QED
  BY <1>1, <1>2, <1>3, <1>4, <1>5 DEF Forbidden

(* Steps that only go on with the request or answer it.                    *)
LEMMA ListKept ==
  ASSUME IInv, UNCHANGED <<env, now, list, version, http>>,
         pc # "idle", pc' \in {"attached", "counted", "reading", "answered"},
         pc = "answered" => pc' = "answered",
         DOMAIN answer' = {"status", "total", "index", "rows"},
         Allowed', MethodsGuarded'
  PROVE  IInv'
<1>1. /\ noauth' = noauth /\ root' = root /\ now' = now /\ version' = version
      /\ sessions' = sessions /\ logins' = logins /\ purged' = purged /\ hurt' = hurt
      /\ http' = http
  BY DEF env, list
<1>2. Bounds'
  BY <1>1 DEF IInv, Bounds
<1>3. Sound(sessions, 1 .. logins \ purged, http.session, hurt, now)'
  BY <1>1 DEF IInv
<1>4. AttachedSound'
  BY <1>1 DEF IInv, AttachedSound
<1>5. QED
  BY <1>2, <1>3, <1>4 DEF IInv

-----------------------------------------------------------------------------
(* A request arrives, and its session is given back.                       *)

LEMMA ReceiveInv == IInv /\ Receive => IInv'
<1> SUFFICES ASSUME IInv, Receive PROVE IInv'
  OBVIOUS
<1>1. PICK request \in Asked(noauth) :
        LET id == Attached(request) IN
        /\ request.login = "right" => logins < MaxLogins
        /\ http' = [request EXCEPT !.session = id]
        /\ sessions' = SessionGet(sessions, id, now)
  BY DEF Receive
<1> DEFINE id == Attached(request)
           ids == 1 .. logins \ purged
<1>2. /\ pc = "idle" /\ pc' = "attached" /\ answer' = answer
      /\ noauth' = noauth /\ root' = root /\ now' = now /\ version' = version
      /\ logins' = logins /\ purged' = purged /\ hurt' = hurt
  BY DEF Receive, env, reading
<1>3. /\ noauth \in BOOLEAN /\ now \in Nat /\ 0 \notin ids /\ ids \subseteq 0 .. logins
      /\ Live(sessions) = ids /\ http.session = None
  BY <1>2, RequestsAssumption DEF IInv, Bounds, AttachedSound, Sound
<1>4. /\ DOMAIN request = DOMAIN Request
      /\ DOMAIN Request = {"name", "longer", "share", "cookie", "login", "filters",
                           "sort", "total", "limit", "offset", "id", "session"}
  BY <1>3, RequestsAssumption DEF Request, IsRequest
<1>5. /\ DOMAIN http' = DOMAIN Request /\ http'.session = id
      /\ http'.share = request.share /\ http'.cookie = request.cookie
      /\ http'.login = request.login
  <2> HIDE DEF id
  <2>1. http' = [request EXCEPT !.session = id]
    BY <1>1 DEF id
  <2>2. QED
    BY <1>4, <2>1
<1>6. /\ id \in ids \cup {None}
      /\ id # None <=> ~noauth /\ {request.share, request.cookie} \cap ids # {}
  BY <1>3 DEF Attached, None
<1> HIDE DEF id
<1>7. Bounds'
  BY <1>2, <1>5 DEF IInv, Bounds
<1>8. Sound(sessions, ids, http.session, hurt, now)'
  <2>1. Sound(sessions, ids, None, hurt, now)
    BY <1>3 DEF IInv
  <2>2. sessions' = SessionGet(sessions, id, now)
    BY <1>1 DEF id
  <2> HIDE DEF ids
  <2>3. Sound(SessionGet(sessions, id, now), ids, id, hurt, now)
    BY <1>3, <2>1, GetSound
  <2>4. ids' = ids
    BY <1>2 DEF ids
  <2>5. QED
    BY <1>2, <1>5, <2>2, <2>3, <2>4
<1>9. AttachedSound'
  <2>1. id \in 0 .. logins /\ id \notin purged
    BY <1>3, <1>6 DEF IInv, Bounds, None
  <2>2. QED
    BY <1>2, <1>5, <2>1 DEF AttachedSound
<1>10. Allowed'
  <2>1. http'.session # None <=> ~noauth' /\ Valid'
    BY <1>2, <1>5, <1>6 DEF Valid
  <2>2. http'.login = "right" => logins' < MaxLogins
    BY <1>1, <1>2, <1>5
  <2>3. QED
    BY <1>2, <2>1, <2>2 DEF Allowed
<1>11. MethodsGuarded'
  BY <1>2 DEF MethodsGuarded
<1>12. QED
  BY <1>7, <1>8, <1>9, <1>10, <1>11 DEF IInv, ids

(* If the session was purged meanwhile, it is the new one that may lose a  *)
(* reference in its place.                                                 *)
LEMMA FinishInv == IInv /\ Finish => IInv'
<1> SUFFICES ASSUME IInv, Finish PROVE IInv'
  OBVIOUS
<1> DEFINE lost == http.session \in purged
           ids == 1 .. logins \ purged
<1>1. PICK victim \in IF lost THEN {None, sessions[1].id} ELSE {http.session} :
        /\ sessions' = SessionDeref(sessions, victim)
        /\ hurt' = IF lost THEN hurt \cup ({victim} \ {None}) ELSE hurt
  BY DEF Finish
<1>2. /\ pc = "answered" /\ pc' = "idle" /\ http' = Request /\ answer' = Reply(Nothing)
      /\ noauth' = noauth /\ root' = root /\ now' = now /\ version' = version
      /\ logins' = logins /\ purged' = purged
  BY DEF Finish, env
<1>3. /\ 0 \notin ids /\ hurt \subseteq 1 .. logins /\ 0 \notin hurt
      /\ purged \subseteq 1 .. logins /\ logins \in Nat
      /\ lost => sessions[1].id \in ids /\ sessions[1].id \notin hurt
      /\ Sound(sessions, ids, http.session, hurt, now)
  BY RequestsAssumption DEF IInv, Bounds, AttachedSound
<1>4. /\ http.session = victim \/ (http.session \notin ids /\ victim \notin hurt)
      /\ lost => http.session # victim /\ victim \in ids \cup {0}
      /\ ~lost => http.session = victim
  BY <1>1, <1>3 DEF None
<1>5. Sound(sessions', ids, None, hurt', now)
  <2> HIDE DEF ids
  <2>1. Sound(SessionDeref(sessions, victim), ids, None,
              IF http.session = victim THEN hurt ELSE hurt \cup ({victim} \ {None}), now)
    BY <1>3, <1>4, DerefSound
  <2>2. hurt' = IF http.session = victim THEN hurt ELSE hurt \cup ({victim} \ {None})
    BY <1>1, <1>4
  <2>3. sessions' = SessionDeref(sessions, victim)
    BY <1>1
  <2>4. QED
    BY <2>1, <2>2, <2>3
<1>6. hurt' \subseteq 1 .. logins
  BY <1>1, <1>3, <1>4 DEF None
<1>7. Bounds'
  <2>1. DOMAIN answer' = {"status", "total", "index", "rows"}
    BY <1>2 DEF Reply
  <2>2. QED
    BY <1>2, <1>6, <2>1 DEF IInv, Bounds
<1>8. http'.session = None
  BY <1>2 DEF Request
<1>9. Sound(sessions, ids, http.session, hurt, now)'
  BY <1>2, <1>5, <1>8
<1>10. AttachedSound'
  BY <1>2, <1>3, <1>8 DEF AttachedSound, None
<1>11. Allowed' /\ MethodsGuarded'
  BY <1>2 DEF Allowed, MethodsGuarded
<1>12. QED
  BY <1>7, <1>9, <1>10, <1>11 DEF IInv

-----------------------------------------------------------------------------
(* A login, which may purge the session it came with.                      *)

LEMMA AuthSucceedsInv == IInv /\ AuthSucceeds => IInv'
<1> SUFFICES ASSUME IInv, AuthSucceeds PROVE IInv'
  OBVIOUS
<1> DEFINE id == logins + 1
           made == Made(sessions, id)
           ids == 1 .. logins \ purged
           left == Live(Purged(sessions))
<1>1. /\ pc = "attached" /\ pc' = "answered" /\ http' = http
      /\ noauth' = noauth /\ root' = root /\ now' = now /\ version' = version
      /\ logins' = id /\ hurt' = hurt /\ logins < MaxLogins
      /\ Found \cap {"/auth"} # {}
      /\ sessions' = SessionDeref(made, id)
      /\ purged' = purged \cup (Live(sessions) \ Live(made))
      /\ answer' = [Reply("auth ok") EXCEPT !.index = id]
  BY DEF AuthSucceeds, Made, Calls, Sends, env, IInv, Allowed
<1>2. /\ logins \in 0 .. MaxLogins /\ logins \in Nat /\ now \in Nat
      /\ purged \subseteq 1 .. logins /\ hurt \subseteq 1 .. logins
      /\ http.session \in 0 .. logins /\ http.session \notin purged
      /\ Sound(sessions, ids, http.session, hurt, now) /\ Live(sessions) = ids
  <2>1. /\ logins \in 0 .. MaxLogins /\ now \in 1 .. MaxTime
        /\ purged \subseteq 1 .. logins /\ hurt \subseteq 1 .. logins
        /\ http.session \in 0 .. logins
        /\ Sound(sessions, ids, http.session, hurt, now)
    BY DEF IInv, Bounds, AttachedSound
  <2>2. http.session \notin purged
    BY <1>1 DEF IInv, AttachedSound
  <2>3. Live(sessions) = ids
    BY <2>1 DEF Sound
  <2>4. MaxLogins \in Nat /\ MaxTime \in Nat
    BY RequestsAssumption
  <2>5. QED
    BY <2>1, <2>2, <2>3, <2>4
<1>3. /\ id \in Nat \ {0} /\ id \notin ids /\ id # http.session
      /\ id \notin hurt /\ id \notin purged
  BY <1>2
<1>4. /\ Sound(sessions', left \cup {id}, http.session, hurt, now)
      /\ Live(made) = left \cup {id}
      /\ sessions' # <<>> /\ sessions'[1].id = id
  <2> HIDE DEF ids
  <2>1. sessions' = LoggedIn(sessions, id)
    BY <1>1 DEF LoggedIn
  <2>2. /\ Sound(sessions, ids, http.session, hurt, now) /\ now \in Nat
        /\ id \in Nat \ {0} /\ id \notin ids /\ id # http.session /\ id \notin hurt
    BY <1>2, <1>3
  <2> HIDE DEF id, made, left
  <2>3. left = Live(Purged(sessions)) /\ made = Made(sessions, id)
    BY DEF left, made
  <2>4. Sound(LoggedIn(sessions, id), Live(Purged(sessions)) \cup {id}, http.session, hurt, now)
    BY <2>2, LoggedInSound
  <2>5. /\ Live(Made(sessions, id)) = Live(Purged(sessions)) \cup {id}
        /\ LoggedIn(sessions, id) # <<>> /\ LoggedIn(sessions, id)[1].id = id
    BY <2>2, <2>4, LoggedInSound
  <2>6. QED
    BY <2>1, <2>3, <2>4, <2>5
<1>5. left \subseteq ids
  <2> HIDE DEF ids
  <2>1. QED
    BY <1>2, PurgedSound
<1> HIDE DEF left, made
<1>6. /\ purged' = purged \cup (ids \ left)
      /\ 1 .. logins' \ purged' = left \cup {id}
      /\ purged' \subseteq 1 .. logins /\ 1 .. logins \subseteq 1 .. logins'
  <2>1. purged' = purged \cup (ids \ left)
    BY <1>1, <1>2, <1>3, <1>4
  <2>2. 1 .. id = 1 .. logins \cup {id}
    BY <1>2
  <2>3. QED
    BY <1>1, <1>2, <1>3, <1>5, <2>1, <2>2
<1>7. DOMAIN answer' = {"status", "total", "index", "rows"} /\ answer'.status = "auth ok"
  BY <1>1 DEF Reply
<1>8. Bounds'
  <2>1. logins' \in 0 .. MaxLogins
    <3>1. logins' = logins + 1 /\ logins < MaxLogins
      BY <1>1
    <3>2. logins \in Nat /\ MaxLogins \in Nat
      BY <1>2, RequestsAssumption
    <3>3. QED
      BY <3>1, <3>2
  <2>2. QED
    BY <1>1, <1>2, <1>6, <1>7, <2>1 DEF IInv, Bounds
<1>9. Sound(sessions, 1 .. logins \ purged, http.session, hurt, now)'
  <2> HIDE DEF id
  <2>1. QED
    BY <1>1, <1>4, <1>6
<1>10. AttachedSound'
  <2>1. sessions'[1].id \in (1 .. logins' \ purged') \ hurt'
    BY <1>1, <1>3, <1>4, <1>6
  <2>2. http'.session \in 0 .. logins'
    <3>1. logins' = logins + 1 /\ http' = http
      BY <1>1
    <3>2. QED
      BY <1>2, <3>1
  <2>3. QED
    BY <1>1, <1>4, <2>1, <2>2 DEF AttachedSound
<1>11. Allowed'
  BY <1>1 DEF Allowed
<1>12. MethodsGuarded'
  <2>1. http'.name = "/auth"
    BY <1>1 DEF Found
  <2>2. QED
    BY <1>7, <2>1 DEF MethodsGuarded
<1>13. QED
  BY <1>8, <1>9, <1>10, <1>11, <1>12 DEF IInv

-----------------------------------------------------------------------------
(* Time passes, and the scan changes the tracks.                           *)

LEMMA TickInv == IInv /\ Tick => IInv'
<1> SUFFICES ASSUME IInv, Tick PROVE IInv'
  OBVIOUS
<1>1. /\ now < MaxTime /\ now' = now + 1
      /\ noauth' = noauth /\ root' = root /\ version' = version
      /\ sessions' = sessions /\ logins' = logins /\ purged' = purged /\ hurt' = hurt
      /\ pc' = pc /\ http' = http /\ answer' = answer
  BY DEF Tick, env, list
<1>2. now \in 1 .. MaxTime /\ now' \in 1 .. MaxTime
  BY <1>1, RequestsAssumption DEF IInv, Bounds
<1>3. Sound(sessions, 1 .. logins \ purged, http.session, hurt, now)'
  <2>1. Sound(sessions, 1 .. logins \ purged, http.session, hurt, now)
    BY DEF IInv
  <2>2. \A i \in DOMAIN sessions : sessions[i].last \in Nat
    <3>1. sessions \in Seq(SessionRecord)
      BY <2>1 DEF Sound
    <3>2. \A i \in DOMAIN sessions : sessions[i] \in SessionRecord
      BY <3>1
    <3>3. QED
      BY <3>2 DEF SessionRecord
  <2>3. \A i \in DOMAIN sessions : sessions[i].last <= now => sessions[i].last <= now'
    BY <1>1, <1>2, <2>2, RequestsAssumption
  <2>4. QED
    BY <1>1, <2>1, <2>3 DEF Sound
<1>4. Bounds' /\ AttachedSound' /\ Allowed'
  BY <1>1, <1>2 DEF IInv, Bounds, AttachedSound, Allowed, Valid
<1>5. MethodsGuarded'
  BY <1>1 DEF IInv, MethodsGuarded, Found
<1>6. QED
  BY <1>3, <1>4, <1>5 DEF IInv

LEMMA ScanInv == IInv /\ Scan => IInv'
<1> SUFFICES ASSUME IInv, Scan PROVE IInv'
  OBVIOUS
<1>1. /\ version < Len(Tables) /\ version' = version + 1
      /\ noauth' = noauth /\ root' = root /\ now' = now
      /\ sessions' = sessions /\ logins' = logins /\ purged' = purged /\ hurt' = hurt
      /\ pc' = pc /\ http' = http /\ answer' = answer
  BY DEF Scan, env, list
<1>2. version' \in DOMAIN Tables
  BY <1>1, RequestsAssumption DEF IInv, Bounds
<1>3. Bounds' /\ AttachedSound' /\ Allowed'
  BY <1>1, <1>2 DEF IInv, Bounds, AttachedSound, Allowed, Valid
<1>4. Sound(sessions, 1 .. logins \ purged, http.session, hurt, now)' /\ MethodsGuarded'
  BY <1>1 DEF IInv, MethodsGuarded, Found
<1>5. QED
  BY <1>3, <1>4 DEF IInv

-----------------------------------------------------------------------------
(* The steps between the two ends of a request.                            *)

Answering ==
  \/ Forbid \/ SendDocument \/ MethodMusicd \/ AuthFails \/ MethodElsewhere
  \/ MethodList \/ MethodListStart \/ MethodTrackIndex \/ ReadRow \/ ReadAll

LEMMA AnsweringInv == IInv /\ Answering => IInv'
<1> SUFFICES ASSUME IInv, Answering PROVE IInv'
  OBVIOUS
<1>1. /\ noauth' = noauth /\ logins' = logins /\ purged' = purged /\ http' = http
      /\ UNCHANGED <<env, now, list, version, http>>
  BY DEF Answering, Forbid, SendDocument, MethodMusicd, AuthFails, MethodElsewhere,
         MethodList, MethodListStart, MethodTrackIndex, ReadRow, ReadAll, env, list
<1>2. Valid' <=> Valid
  BY <1>1 DEF Valid
<1>3. Found' = Found /\ Found \subseteq {http.name}
  BY <1>1 DEF Found
<1>4. noauth \in BOOLEAN /\ DOMAIN answer = {"status", "total", "index", "rows"} /\ Allowed
  BY DEF IInv, Bounds
<1>5. \A status : /\ DOMAIN Reply(status) = {"status", "total", "index", "rows"}
                  /\ Reply(status).status = status
  BY DEF Reply
(* How an answer may be sent.                                              *)
<1> DEFINE Fair == /\ Found # {} /\ http.name \notin {"/musicd", "/auth"}
                        => (answer'.status = "403" <=> ~(noauth \/ Valid))
                   /\ http.name \in {"/musicd", "/auth"} => answer'.status # "403"
                   /\ answer'.status \in {"authed", "not authed"}
                        => (answer'.status = "authed" <=> noauth \/ Valid)
<1>6. ASSUME pc # "idle", pc' = "answered",
             DOMAIN answer' = {"status", "total", "index", "rows"}, Fair
      PROVE  IInv'
  <2>1. Allowed'
    BY <1>6 DEF Allowed
  <2>2. MethodsGuarded'
    BY <1>1, <1>2, <1>3, <1>4, <1>6 DEF MethodsGuarded, Valid
  <2>3. QED
    BY <1>1, <1>6, <2>1, <2>2, ListKept
(* How a list may be gone on with.                                         *)
<1>7. ASSUME pc \in {"attached", "counted", "reading"}, pc' \in {"counted", "reading"},
             DOMAIN answer' = {"status", "total", "index", "rows"},
             http.name \in Lists \cup {"/track/index"}, noauth \/ Valid
      PROVE  IInv'
  <2>1. Allowed'
    BY <1>1, <1>2, <1>4, <1>7 DEF Allowed
  <2>2. MethodsGuarded'
    BY <1>7 DEF MethodsGuarded
  <2>3. QED
    BY <1>1, <1>7, <2>1, <2>2, ListKept
<1>8. ASSUME pc = "attached"
      PROVE  /\ Authorised <=> ~noauth /\ Valid
             /\ Forbidden <=> /\ Found # {} /\ http.name \notin {"/musicd", "/auth"}
                              /\ ~(noauth \/ Valid)
  BY <1>8, ForbiddenIff
(* The status of an answer to a list or an index.                          *)
<1>9. ASSUME http.name \in Lists \cup {"/track/index"}, noauth \/ Valid,
             answer'.status \in {"200", "400", "500"}
      PROVE  Fair
  BY <1>9 DEF Lists
<1>10. \A names : Found \cap names # {} => http.name \in names
  BY <1>3
<1> HIDE DEF Fair
<1>11. CASE Forbid
  <2>1. pc = "attached" /\ Forbidden /\ pc' = "answered" /\ answer' = Reply("403")
    BY <1>11 DEF Forbid, Sends
  <2>2. Fair
    BY <1>5, <1>8, <2>1 DEF Fair
  <2>3. QED
    BY <1>5, <1>6, <2>1, <2>2
<1>12. CASE SendDocument
  <2>1. PICK status \in {"404", "403", "200"} :
          /\ pc = "attached" /\ Found = {} /\ pc' = "answered" /\ answer' = Reply(status)
          /\ status = "403" => http.name = "/../"
    BY <1>12 DEF SendDocument, Sends
  <2>2. Fair
    BY <1>5, <2>1 DEF Fair
  <2>3. QED
    BY <1>5, <1>6, <2>1, <2>2
<1>13. CASE MethodMusicd
  <2>1. /\ pc = "attached" /\ http.name = "/musicd" /\ pc' = "answered"
        /\ answer' = Reply(IF Authorised \/ noauth THEN "authed" ELSE "not authed")
    BY <1>10, <1>13 DEF MethodMusicd, Calls, Sends
  <2>2. Fair
    BY <1>4, <1>5, <1>8, <2>1 DEF Fair
  <2>3. QED
    BY <1>5, <1>6, <2>1, <2>2
<1>14. CASE AuthFails
  <2>1. PICK status \in {"400", "auth error"} :
          pc = "attached" /\ http.name = "/auth" /\ pc' = "answered" /\ answer' = Reply(status)
    BY <1>10, <1>14 DEF AuthFails, Calls, Sends
  <2>2. Fair
    BY <1>5, <2>1 DEF Fair
  <2>3. QED
    BY <1>5, <1>6, <2>1, <2>2
<1>15. CASE MethodElsewhere
  <2>1. /\ pc = "attached" /\ ~Forbidden /\ Found # {} /\ http.name \in Elsewhere
        /\ pc' = "answered" /\ answer' = Reply("200")
    BY <1>10, <1>15 DEF MethodElsewhere, Calls, Sends
  <2>2. http.name \notin {"/musicd", "/auth"}
    BY <2>1 DEF Elsewhere
  <2>3. Fair
    BY <1>4, <1>5, <1>8, <2>1, <2>2 DEF Fair
  <2>4. QED
    BY <1>5, <1>6, <2>1, <2>3
<1>16. ASSUME NEW names, Calls(names), names \subseteq Lists \cup {"/track/index"}
       PROVE  pc = "attached" /\ http.name \in Lists \cup {"/track/index"} /\ (noauth \/ Valid)
  <2>1. pc = "attached" /\ ~Forbidden /\ Found # {} /\ http.name \in names
    BY <1>10, <1>16 DEF Calls
  <2>2. http.name \notin {"/musicd", "/auth"}
    BY <1>16, <2>1 DEF Lists
  <2>3. QED
    BY <1>8, <1>16, <2>1, <2>2
<1>17. CASE MethodList
  <2>1. pc = "attached" /\ http.name \in Lists \cup {"/track/index"} /\ (noauth \/ Valid)
    BY <1>16, <1>17 DEF MethodList
  <2>2. CASE pc' = "answered" /\ answer' = Reply("500")
    BY <1>5, <1>6, <1>9, <2>1, <2>2
  <2>3. CASE pc' = "counted" /\ DOMAIN answer' = DOMAIN answer
    BY <1>4, <1>7, <2>1, <2>3
  <2>4. QED
    BY <1>17, <2>2, <2>3 DEF MethodList, Sends
<1>18. CASE MethodListStart
  <2>1. pc = "counted" /\ http.name \in Lists \cup {"/track/index"} /\ (noauth \/ Valid)
    BY <1>4, <1>18 DEF MethodListStart, Allowed
  <2>2. CASE pc' = "answered" /\ answer' = Reply("500")
    BY <1>5, <1>6, <1>9, <2>1, <2>2
  <2>3. CASE pc' = "reading" /\ answer' = answer
    BY <1>4, <1>7, <2>1, <2>3
  <2>4. QED
    BY <1>18, <2>2, <2>3 DEF MethodListStart, Sends
<1>19. CASE MethodTrackIndex
  <2>1. pc = "attached" /\ http.name \in Lists \cup {"/track/index"} /\ (noauth \/ Valid)
    BY <1>16, <1>19 DEF MethodTrackIndex
  <2>2. CASE pc' = "answered" /\ (answer' = Reply("400") \/ answer' = Reply("500"))
    BY <1>5, <1>6, <1>9, <2>1, <2>2
  <2>3. CASE pc' = "reading" /\ answer' = answer
    BY <1>4, <1>7, <2>1, <2>3
  <2>4. QED
    BY <1>19, <2>2, <2>3 DEF MethodTrackIndex, Sends
<1>20. CASE ReadRow
  <2>1. /\ pc = "reading" /\ pc' = pc /\ answer' = answer
        /\ http.name \in Lists \cup {"/track/index"} /\ (noauth \/ Valid)
    BY <1>4, <1>20 DEF ReadRow, Allowed
  <2>2. QED
    BY <1>4, <1>7, <2>1
<1>21. CASE ReadAll
  <2>1. /\ pc = "reading" /\ pc' = "answered"
        /\ http.name \in Lists \cup {"/track/index"} /\ (noauth \/ Valid)
    BY <1>4, <1>21 DEF ReadAll, Sends, Allowed
  <2>2. DOMAIN answer' = DOMAIN answer /\ answer'.status = "200"
    BY <1>4, <1>21 DEF ReadAll, Sends
  <2>3. QED
    BY <1>4, <1>6, <1>9, <2>1, <2>2
<1>22. QED
  BY <1>11, <1>12, <1>13, <1>14, <1>15, <1>17, <1>18, <1>19, <1>20, <1>21 DEF Answering

(* Every step keeps the invariant.                                         *)
LEMMA NextInv == IInv /\ [Next]_vars => IInv'
<1> SUFFICES ASSUME IInv, [Next]_vars PROVE IInv'
  OBVIOUS
<1>1. CASE UNCHANGED vars
  <2>1. /\ UNCHANGED <<noauth, root, now, sessions, logins, purged, hurt, version>>
        /\ UNCHANGED <<pc, http, stmt, seen, answer>>
    BY <1>1 DEF vars, env, list, reading
  <2>2. Bounds'
    BY <2>1 DEF IInv, Bounds
  <2>3. Sound(sessions, 1 .. logins \ purged, http.session, hurt, now)'
    BY <2>1 DEF IInv
  <2>4. AttachedSound'
    BY <2>1 DEF IInv, AttachedSound
  <2>5. Allowed' /\ MethodsGuarded'
    BY <2>1 DEF IInv, Allowed, Valid, MethodsGuarded, Found
  <2>6. QED
    BY <2>2, <2>3, <2>4, <2>5 DEF IInv
<1>2. CASE Answering
  BY <1>2, AnsweringInv
<1>3. CASE Receive \/ AuthSucceeds \/ Finish \/ Tick \/ Scan
  BY <1>3, ReceiveInv, AuthSucceedsInv, FinishInv, TickInv, ScanInv
<1>4. QED
  BY <1>1, <1>2, <1>3 DEF Next, Answering

LEMMA SpecInv == Spec => []IInv
<1>1. QED
  BY InitInv, NextInv, PTL DEF Spec

-----------------------------------------------------------------------------
(* The theorems.                                                           *)

(* Types: the list of sessions stays within MAX_SESSIONS, and refs between *)
(* -1 and 1, whatever order requests and logins come in.                   *)
THEOREM TypeCorrect == Spec => []TypeOK
<1>1. IInv => TypeOK
  <2> SUFFICES ASSUME IInv PROVE TypeOK
    OBVIOUS
  <2>1. Bounds /\ http.session \in 0 .. logins
    BY DEF IInv, AttachedSound
  <2>2. ASSUME NEW i \in DOMAIN sessions
        PROVE  sessions[i] \in [id : 1 .. MaxLogins, last : 0 .. MaxTime,
                                refs : -1 .. 1, user : BOOLEAN]
    <3> DEFINE s == sessions[i]
    <3>1. /\ sessions \in Seq(SessionRecord) /\ Live(sessions) = 1 .. logins \ purged
          /\ s.last <= now
          /\ s.refs = (IF s.id = http.session THEN 1 ELSE 0) - (IF s.id \in hurt THEN 1 ELSE 0)
      BY DEF IInv, Sound
    <3>2. s \in SessionRecord /\ s.id \in 1 .. logins
      BY <3>1 DEF Live
    <3> HIDE DEF s
    <3>3. s.id \in 1 .. MaxLogins /\ s.last \in 0 .. MaxTime /\ s.refs \in -1 .. 1
      <4>1. /\ s.id \in Nat /\ s.last \in Nat /\ logins \in 0 .. MaxLogins
            /\ now \in 1 .. MaxTime /\ MaxLogins \in Nat /\ MaxTime \in Nat
        BY <2>1, <3>2, RequestsAssumption DEF SessionRecord, Bounds
      <4>2. s.refs \in {-1, 0, 1}
        BY <3>1
      <4>3. QED
        BY <3>1, <3>2, <4>1, <4>2
    <3>4. s \in [id : 1 .. MaxLogins, last : 0 .. MaxTime, refs : -1 .. 1, user : BOOLEAN]
      BY <3>2, <3>3 DEF SessionRecord
    <3>5. QED
      BY <3>4 DEF s
  <2>3. Len(sessions) <= MaxSessions
    BY DEF IInv, Sound
  <2>4. QED
    BY <2>1, <2>2, <2>3 DEF TypeOK, Bounds
<1>2. QED
  BY <1>1, SpecInv, PTL

(* The refusal of protected methods by call_method.                        *)
THEOREM AlwaysGuarded == Spec => []MethodsGuarded
<1>1. IInv => MethodsGuarded
  BY DEF IInv
<1>2. QED
  BY <1>1, SpecInv, PTL

(* No session is lost, and no reference forgotten.                         *)
THEOREM AlwaysSessionsSound == Spec => []SessionsSound
<1>1. IInv => SessionsSound
  <2> SUFFICES ASSUME IInv PROVE SessionsSound
    OBVIOUS
  <2>1. /\ sessions \in Seq(SessionRecord) /\ Live(sessions) = 1 .. logins \ purged
        /\ \A i, j \in DOMAIN sessions : sessions[i].id = sessions[j].id => i = j
        /\ \A i \in DOMAIN sessions :
             sessions[i].refs = (IF sessions[i].id = http.session THEN 1 ELSE 0)
                                - (IF sessions[i].id \in hurt THEN 1 ELSE 0)
    BY DEF IInv, Sound
  <2>2. pc = "idle" => http.session = 0
    BY DEF IInv, AttachedSound, None
  <2>3. \A i \in DOMAIN sessions : sessions[i].id # 0
    <3>1. \A i \in DOMAIN sessions : sessions[i] \in SessionRecord
      BY <2>1
    <3>2. QED
      BY <3>1 DEF SessionRecord
  <2>4. Len(sessions) \in Nat /\ DOMAIN sessions = 1 .. Len(sessions)
    BY <2>1, LenProperties
  <2>5. Cardinality(Live(sessions)) = Len(sessions)
    <3> DEFINE f == [i \in 1 .. Len(sessions) |-> sessions[i].id]
    <3>1. f \in Bijection(1 .. Len(sessions), Live(sessions))
      BY <2>1, <2>4 DEF Bijection, Injection, Surjection, IsInjective, Live
    <3>2. ExistsBijection(1 .. Len(sessions), Live(sessions))
      BY <3>1 DEF ExistsBijection
    <3>3. QED
      BY <2>4, <3>2, FS_CountingElements
  <2>6. QED
    BY <2>1, <2>2, <2>3, <2>5 DEF SessionsSound
<1>2. QED
  BY <1>1, SpecInv, PTL

(* What purge_oldest_session takes.                                        *)
THEOREM AlwaysPurgedLeastRecent == Spec => PurgedLeastRecent
<1> DEFINE Purges == \A i, j \in DOMAIN sessions :
                       /\ sessions[i].id \notin Live(sessions')
                       /\ sessions[j].refs = 0
                       => sessions[i].last <= sessions[j].last
<1>1. IInv /\ [Next]_vars => Purges
  <2> SUFFICES ASSUME IInv, [Next]_vars PROVE Purges
    OBVIOUS
  <2>1. sessions \in Seq(SessionRecord)
    BY DEF IInv, Sound
  <2>2. \A i \in DOMAIN sessions : sessions[i].id \in Live(sessions)
    BY DEF Live
  <2>3. ASSUME Live(sessions') = Live(sessions)
        PROVE  Purges
    BY <2>2, <2>3
  <2>4. CASE UNCHANGED sessions
    BY <2>3, <2>4
  <2>5. CASE Receive
    <3>1. now \in Nat
      BY RequestsAssumption DEF IInv, Bounds
    <3>2. PICK id : sessions' = SessionGet(sessions, id, now)
      BY <2>5 DEF Receive
    <3>3. Live(sessions') = Live(sessions)
      BY <2>1, <3>1, <3>2, GetElements DEF Live
    <3>4. QED
      BY <2>3, <3>3
  <2>6. CASE Finish
    <3>1. PICK id : sessions' = SessionDeref(sessions, id)
      BY <2>6 DEF Finish
    <3>2. Live(sessions') = Live(sessions)
      BY <2>1, <3>1, DerefElements DEF Live
    <3>3. QED
      BY <2>3, <3>2
  <2>7. CASE AuthSucceeds
    <3> DEFINE id == logins + 1
               ids == 1 .. logins \ purged
    <3>1. sessions' = LoggedIn(sessions, id)
      BY <2>7 DEF AuthSucceeds, LoggedIn, Made
    <3>2. /\ Sound(sessions, ids, http.session, hurt, now) /\ now \in Nat
          /\ id \in Nat \ {0} /\ id \notin ids /\ id # http.session /\ id \notin hurt
      BY RequestsAssumption DEF IInv, Bounds, AttachedSound
    <3> HIDE DEF id, ids
    <3>3. Sound(LoggedIn(sessions, id), Live(Purged(sessions)) \cup {id},
                http.session, hurt, now)
      BY <3>2, LoggedInSound
    <3>4. Live(sessions') = Live(Purged(sessions)) \cup {id}
      BY <3>1, <3>3 DEF Sound
    <3>5. QED
      BY <3>2, <3>4, PurgedSound
  <2>8. Receive \/ Finish \/ AuthSucceeds \/ UNCHANGED sessions
    BY DEF Next, vars, list, Forbid, SendDocument, MethodMusicd, AuthFails, MethodElsewhere,
           MethodList, MethodListStart, MethodTrackIndex, ReadRow, ReadAll, Tick, Scan
  <2>9. QED
    BY <2>4, <2>5, <2>6, <2>7, <2>8
<1>2. QED
  BY <1>1, SpecInv, PTL DEF Spec, PurgedLeastRecent

-----------------------------------------------------------------------------
(* Places in an order.  L is a set of pairs <<x, y>>: x comes before y.    *)
Orders(L, T) ==
  /\ \A x \in T : <<x, x>> \notin L
  /\ \A x, y \in T : x # y => <<x, y>> \in L \/ <<y, x>> \in L
  /\ \A x, y, z \in T : <<x, y>> \in L /\ <<y, z>> \in L => <<x, z>> \in L

Under(L, T, x) == {r \in T : <<r, x>> \in L}
Place(L, T, x) == Cardinality(Under(L, T, x))

(* A place is a number, less than there are elements, and it grows in the  *)
(* order.                                                                  *)
LEMMA PlaceGrows ==
  ASSUME NEW T, IsFiniteSet(T), NEW L, Orders(L, T)
  PROVE  /\ Cardinality(T) \in Nat
         /\ \A x \in T : Place(L, T, x) \in 0 .. Cardinality(T) - 1
         /\ \A x, y \in T : <<x, y>> \in L <=> Place(L, T, x) < Place(L, T, y)
         /\ \A x, y \in T : Place(L, T, x) = Place(L, T, y) => x = y
<1>1. Cardinality(T) \in Nat
  BY FS_CardinalityType
<1>2. ASSUME NEW S \in SUBSET T, NEW U \in SUBSET S, U # S
      PROVE  /\ Cardinality(U) \in Nat /\ Cardinality(S) \in Nat
             /\ Cardinality(U) < Cardinality(S)
  <2>1. IsFiniteSet(S)
    BY FS_Subset
  <2>2. IsFiniteSet(U) /\ Cardinality(U) <= Cardinality(S) /\ Cardinality(U) # Cardinality(S)
    BY <1>2, <2>1, FS_Subset
  <2>3. Cardinality(U) \in Nat /\ Cardinality(S) \in Nat
    BY <2>1, <2>2, FS_CardinalityType
  <2>4. QED
    BY <2>2, <2>3
<1>3. ASSUME NEW x \in T
      PROVE  Place(L, T, x) \in 0 .. Cardinality(T) - 1
  <2>1. Under(L, T, x) \in SUBSET T /\ Under(L, T, x) # T
    BY DEF Under, Orders
  <2>2. Place(L, T, x) \in Nat /\ Place(L, T, x) < Cardinality(T)
    BY <1>2, <2>1 DEF Place
  <2>3. QED
    BY <1>1, <2>2
<1>4. ASSUME NEW x \in T, NEW y \in T, <<x, y>> \in L
      PROVE  Place(L, T, x) < Place(L, T, y)
  <2>1. Under(L, T, y) \in SUBSET T /\ Under(L, T, x) \in SUBSET Under(L, T, y)
    BY <1>4 DEF Under, Orders
  <2>2. x \in Under(L, T, y) /\ x \notin Under(L, T, x)
    BY <1>4 DEF Under, Orders
  <2>3. QED
    BY <1>2, <2>1, <2>2 DEF Place
<1>5. ASSUME NEW x \in T, NEW y \in T
      PROVE  /\ <<x, y>> \in L <=> Place(L, T, x) < Place(L, T, y)
             /\ Place(L, T, x) = Place(L, T, y) => x = y
  <2>1. Place(L, T, x) \in Nat /\ Place(L, T, y) \in Nat
    BY <1>1, <1>3
  <2>2. x = y \/ <<x, y>> \in L \/ <<y, x>> \in L
    BY DEF Orders
  <2>3. x = y => <<x, y>> \notin L
    BY DEF Orders
  <2>4. QED
    BY <1>4, <2>1, <2>2, <2>3
<1>6. QED
  BY <1>1, <1>3, <1>5

(* Every place is taken.                                                   *)
LEMMA PlaceTaken ==
  ASSUME NEW T, IsFiniteSet(T), NEW L, Orders(L, T),
         NEW k \in 0 .. Cardinality(T) - 1
  PROVE  \E x \in T : Place(L, T, x) = k
<1> DEFINE n == Cardinality(T)
           f == [x \in T |-> Place(L, T, x)]
           P == 0 .. n - 1
<1>1. n \in Nat /\ f \in [T -> P] /\ \A x, y \in T : f[x] = f[y] => x = y
  BY PlaceGrows
<1>2. f \in Injection(T, P)
  BY <1>1 DEF Injection, IsInjective
<1>3. IsFiniteSet(P) /\ Cardinality(P) = n
  <2>1. n - 1 \in Int /\ 0 \in Int
    BY <1>1
  <2>2. /\ IsFiniteSet(0 .. n - 1)
        /\ Cardinality(0 .. n - 1) = IF 0 > n - 1 THEN 0 ELSE (n - 1) - 0 + 1
    BY <2>1, FS_Interval
  <2>3. QED
    BY <1>1, <2>2
<1> HIDE DEF f, P, n
<1>4. f \in Surjection(T, P)
  BY <1>2, <1>3, FS_Injection DEF n
<1>5. QED
  BY <1>4 DEF Surjection, P, n, f

(* Some elements have a first one.                                         *)
LEMMA HasFirst ==
  ASSUME NEW T, IsFiniteSet(T), NEW L, Orders(L, T), NEW S \in SUBSET T, S # {}
  PROVE  \E x \in S : \A y \in S \ {x} : <<x, y>> \in L
<1> DEFINE P == {Place(L, T, x) : x \in S}
<1>1. \A x \in T : Place(L, T, x) \in Nat
  BY PlaceGrows
<1>2. P \in SUBSET Nat /\ P # {}
  BY <1>1
<1>3. PICK k \in P : \A j \in P : k <= j
  BY <1>2, HasLeast
<1>4. PICK x \in S : k = Place(L, T, x)
  BY <1>3
<1>5. ASSUME NEW y \in S \ {x} PROVE <<x, y>> \in L
  <2>1. Place(L, T, y) \in P
    OBVIOUS
  <2> HIDE DEF P
  <2>2. k <= Place(L, T, y)
    BY <1>3, <2>1
  <2>3. Place(L, T, x) # Place(L, T, y)
    BY PlaceGrows
  <2>4. Place(L, T, x) < Place(L, T, y)
    BY <1>1, <1>4, <2>2, <2>3
  <2>5. QED
    BY <2>4, PlaceGrows
<1>6. QED
  BY <1>5

(* Those that come at the k-th place or after it start with the one that   *)
(* has it, and those after it are the ones after that.                     *)
LEMMA FromPlace ==
  ASSUME NEW T, IsFiniteSet(T), NEW L, Orders(L, T), NEW k \in Nat,
         NEW x \in T, Place(L, T, x) >= k,
         \A y \in T \ {x} : Place(L, T, y) >= k => <<x, y>> \in L
  PROVE  Place(L, T, x) = k
<1>1. /\ Cardinality(T) \in Nat /\ Place(L, T, x) \in 0 .. Cardinality(T) - 1
  BY PlaceGrows
<1>2. k \in 0 .. Cardinality(T) - 1
  BY <1>1
<1>3. PICK y \in T : Place(L, T, y) = k
  BY <1>2, PlaceTaken
<1>4. CASE y = x
  BY <1>3, <1>4
<1>5. CASE y # x
  <2>1. <<x, y>> \in L
    BY <1>3, <1>5
  <2>2. Place(L, T, x) < Place(L, T, y)
    BY <2>1, PlaceGrows
  <2>3. QED
    BY <1>1, <1>3, <2>2
<1>6. QED
  BY <1>4, <1>5

-----------------------------------------------------------------------------
(* The query of a request.                                                 *)

(* The names of fields, each once.                                         *)
LEMMA FieldsAre ==
  /\ DOMAIN Fields = 1 .. 12
  /\ \A i, j \in 1 .. 12 : Fields[i] = Fields[j] => i = j
  /\ Range(Fields) = {"trackid", "artistid", "albumid", "title", "artist", "album",
                      "track", "duration", "tracks", "directory", "directoryprefix", "all"}
<1>1. DOMAIN Fields = 1 .. 12
  BY DEF Fields
<1>2. 1 .. 12 = {1, 2, 3, 4, 5, 6, 7, 8, 9, 10, 11, 12}
  OBVIOUS
<1>3. Range(Fields) = {Fields[i] : i \in {1, 2, 3, 4, 5, 6, 7, 8, 9, 10, 11, 12}}
  BY <1>1, <1>2 DEF Range
<1>4. QED
  BY <1>1, <1>2, <1>3 DEF Fields

(* The kinds of queries.                                                   *)
Formats == {"tracks", "artists", "albums"}

(* The fields of a kind; only tracks are in directories.                   *)
LEMMA MapsAre ==
  ASSUME NEW format \in Formats
  PROVE  /\ Maps(format) \subseteq Range(Fields)
         /\ {"directory", "directoryprefix"} \cap Maps(format) # {} => format = "tracks"
BY FieldsAre DEF Maps, Formats

(* field_from_string finds a field or none.                                *)
LEMMA FieldIsKnown ==
  ASSUME NEW name
  PROVE  /\ FieldFromString(name) \in Range(Fields) \cup {"none"}
         /\ "none" \notin Range(Fields)
BY FieldsAre DEF FieldFromString

(* A request asks for one of the kinds.                                    *)
LEMMA KindIs == Kind \in Formats
BY DEF Kind, Formats

(* The largest of the numbers up to a bound.                               *)
LEMMA MaxIs ==
  ASSUME NEW n \in Nat, NEW S \in SUBSET (1 .. n), NEW i \in S, \A j \in S : j <= i
  PROVE  Max(S) = i
<1>1. ASSUME NEW x \in S, \A y \in S : x >= y
      PROVE  x = i
  BY <1>1
<1>2. \A y \in S : i >= y
  OBVIOUS
<1>3. QED
  BY <1>1, <1>2 DEF Max

(* There is one, unless there is no number.                                *)
LEMMA HasMax ==
  ASSUME NEW n \in Nat, NEW S \in SUBSET (1 .. n), S # {}
  PROVE  Max(S) \in S /\ \A j \in S : j <= Max(S)
<1> DEFINE T == {n - i : i \in S}
<1>1. T \in SUBSET Nat /\ T # {}
  <2>1. \A i \in S : i \in 1 .. n /\ n - i \in Nat
    OBVIOUS
  <2>2. QED
    BY <2>1
<1>2. PICK m \in T : \A k \in T : m <= k
  BY <1>1, HasLeast
<1>3. PICK i \in S : m = n - i
  BY <1>2
<1>4. ASSUME NEW j \in S PROVE j <= i
  <2>1. n - j \in T
    OBVIOUS
  <2> HIDE DEF T
  <2>2. m <= n - j
    BY <1>2, <2>1
  <2>3. QED
    BY <1>3, <2>2
<1>5. QED
  BY <1>4, MaxIs

(* The filter on f that a request makes.                                   *)
FilterOn(f) == IF Given(f) THEN [set |-> TRUE, value |-> Value(f)] ELSE Unset
Filters == [f \in Range(Fields) |-> FilterOn(f)]

(* parse_query_filters sets the filters given, each to its last value.     *)
LEMMA FilteredIs ==
  ASSUME IsRequest(http)
  PROVE  Filtered = [format |-> Kind, filters |-> Filters, limit |-> -1, offset |-> 0,
                     order |-> <<>>]
<1> DEFINE N == Len(http.filters)
           name(n) == FieldFromString(http.filters[n].name)
           over(n) == name(n) = "none" \/ ~http.filters[n].decodes
           start == QueryNew(Kind)
           next(n, q) == IF over(n) THEN q ELSE QueryFilter(q, name(n), http.filters[n].value)
           Parses(g) == g = [n \in 0 .. N |-> IF n = 0 THEN start ELSE next(n, g[n - 1])]
           to(f, n) == {i \in 1 .. n : name(i) = f /\ http.filters[i].decodes}
           on(f, n) == IF to(f, n) # {}
                       THEN [set |-> TRUE, value |-> http.filters[Max(to(f, n))].value]
                       ELSE Unset
           with(fs) == [format |-> Kind, filters |-> fs, limit |-> -1, offset |-> 0,
                        order |-> <<>>]
           fields(n) == [f \in Range(Fields) |-> on(f, n)]
           h == [n \in 0 .. N |-> with(fields(n))]
           parsed == CHOOSE g : Parses(g)
<1>1. Filtered = parsed[N]
  BY DEF Filtered, ParseQueryFilters
<1>2. N \in Nat /\ DOMAIN http.filters = 1 .. N
  BY DEF IsRequest
<1>3. start = with(fields(0))
  <2>1. \A f : to(f, 0) = {}
    OBVIOUS
  <2>2. fields(0) = [f \in Range(Fields) |-> Unset]
    BY <2>1
  <2>3. QED
    BY <2>2 DEF QueryNew
<1>4. ASSUME NEW n \in 1 .. N
      PROVE  with(fields(n)) = next(n, with(fields(n - 1)))
  <2>1. n \in Nat /\ n - 1 \in Nat /\ 1 .. n = 1 .. (n - 1) \cup {n}
    BY <1>2
  <2>2. ASSUME over(n)
        PROVE  fields(n) = fields(n - 1)
    <3>1. ASSUME NEW f \in Range(Fields) PROVE to(f, n) = to(f, n - 1)
      BY <2>1, <2>2, FieldIsKnown
    <3> HIDE DEF to
    <3>2. QED
      BY <3>1
  <2>3. ASSUME ~over(n)
        PROVE  /\ name(n) \in Range(Fields)
               /\ fields(n) = [fields(n - 1) EXCEPT ![name(n)] =
                                 [set |-> TRUE, value |-> http.filters[n].value]]
    <3>1. name(n) \in Range(Fields)
      BY <2>3, FieldIsKnown
    <3>2. ASSUME NEW f \in Range(Fields), f # name(n) PROVE on(f, n) = on(f, n - 1)
      <4>1. to(f, n) = to(f, n - 1)
        BY <2>1, <3>2
      <4> HIDE DEF to
      <4>2. QED
        BY <4>1
    <3>3. on(name(n), n) = [set |-> TRUE, value |-> http.filters[n].value]
      <4> DEFINE S == to(name(n), n)
      <4>1. S \in SUBSET (1 .. n) /\ n \in S /\ \A j \in S : j <= n
        BY <2>1, <2>3
      <4> HIDE DEF S
      <4>2. Max(S) = n /\ S # {}
        BY <2>1, <4>1, MaxIs
      <4>3. QED
        BY <4>2 DEF S
    <3> HIDE DEF on, name
    <3>4. QED
      BY <3>1, <3>2, <3>3
  <2> HIDE DEF fields, over, name
  <2>4. QED
    BY <2>2, <2>3 DEF QueryFilter
<1> HIDE DEF fields, next, with, start
<1>5. Parses(h)
  <2>1. \A n \in 0 .. N : h[n] = IF n = 0 THEN start ELSE next(n, h[n - 1])
    BY <1>2, <1>3, <1>4
  <2>2. h = [n \in 0 .. N |-> h[n]]
    OBVIOUS
  <2> HIDE DEF h
  <2>3. QED
    BY <2>1, <2>2
<1>6. Parses(parsed)
  <2> HIDE DEF Parses
  <2>1. QED
    BY <1>5
<1> HIDE DEF parsed
<1>7. parsed[N] = h[N]
  <2> DEFINE C == {n \in 0 .. N : parsed[n] # h[n]}
  <2>1. SUFFICES ASSUME C # {} PROVE FALSE
    BY <1>2
  <2>2. C \in SUBSET Nat
    BY <1>2
  <2>3. PICK k \in C : \A j \in C : k <= j
    BY <2>1, <2>2, HasLeast
  <2>4. k # 0 /\ k \in 0 .. N /\ k \in Nat
    <3>1. parsed[0] = start /\ h[0] = start
      <4> HIDE DEF h
      <4>1. 0 \in 0 .. N
        BY <1>2
      <4>2. QED
        BY <1>5, <1>6, <4>1
    <3>2. k \in 0 .. N /\ parsed[k] # h[k]
      BY <2>3
    <3>3. QED
      BY <1>2, <3>1, <3>2
  <2>5. k - 1 \in 0 .. N /\ k - 1 \notin C
    <3>1. k - 1 \in 0 .. N /\ ~(k <= k - 1)
      BY <1>2, <2>4
    <3> HIDE DEF C
    <3>2. QED
      BY <2>3, <3>1
  <2>6. parsed[k - 1] = h[k - 1]
    BY <2>5
  <2>7. parsed[k] = next(k, parsed[k - 1]) /\ h[k] = next(k, h[k - 1])
    BY <1>5, <1>6, <2>4
  <2>8. QED
    BY <2>3, <2>6, <2>7
<1>8. fields(N) = Filters
  <2>1. \A f : to(f, N) = On(f)
    BY <1>2 DEF On
  <2> HIDE DEF to
  <2>2. QED
    BY <2>1 DEF fields, Filters, FilterOn, Given, Value
<1>9. QED
  BY <1>1, <1>2, <1>7, <1>8 DEF with

-----------------------------------------------------------------------------
(* What a query of a format may be sorted by.                              *)
Keys(format, sort) ==
  [field : Maps(format), descending : {sort[i].descending : i \in 1 .. Len(sort)}]

(* query_sort_from_string makes an order that does not depend on the rest  *)
(* of the query, which it leaves as it is.                                 *)
LEMMA SortIs ==
  ASSUME NEW sort, Len(sort) \in Nat, NEW format \in Formats
  PROVE  \E o \in Seq(Keys(format, sort)) : \A filters, limit, offset :
           LET query(p) == [format |-> format, filters |-> filters, limit |-> limit,
                            offset |-> offset, order |-> p]
           IN  QuerySortFromString(query(<<>>), sort) = query(o)
<1> DEFINE N == Len(sort)
           K == Keys(format, sort)
           name(n) == FieldFromString(sort[n].name)
           ends(n) == \E i \in 1 .. n : FieldFromString(sort[i].name) = "none"
           key(n) == [field |-> name(n), descending |-> sort[n].descending]
           step(n, o) == IF ends(n) \/ name(n) \notin Maps(format) THEN o ELSE Append(o, key(n))
           Steps(e, k) == /\ e \in [0 .. k -> Seq(K)] /\ e[0] = <<>>
                          /\ \A n \in 1 .. k : e[n] = step(n, e[n - 1])
<1>1. ASSUME NEW n \in 1 .. N, NEW o \in Seq(K)
      PROVE  step(n, o) \in Seq(K)
  <2>1. CASE ends(n) \/ name(n) \notin Maps(format)
    BY <2>1
  <2>2. CASE ~(ends(n) \/ name(n) \notin Maps(format))
    <3>1. key(n) \in K
      BY <2>2 DEF Keys
    <3> HIDE DEF K, key, ends, name
    <3>2. QED
      BY <2>2, <3>1
  <2>3. QED
    BY <2>1, <2>2
<1> HIDE DEF step, K
<1>2. \E e : Steps(e, N)
  <2> DEFINE C == {k \in 0 .. N : ~\E e : Steps(e, k)}
  <2>1. SUFFICES ASSUME C # {} PROVE FALSE
    OBVIOUS
  <2>2. C \in SUBSET Nat
    OBVIOUS
  <2>3. PICK k \in C : \A j \in C : k <= j
    BY <2>1, <2>2, HasLeast
  <2>4. k \in 0 .. N /\ k \in Nat /\ ~\E e : Steps(e, k)
    <3> HIDE DEF Steps, N
    <3>1. k \in 0 .. N /\ ~\E e : Steps(e, k)
      BY <2>3
    <3>2. QED
      BY <2>2, <2>3, <3>1
  <2>5. CASE k = 0
    <3>1. Steps([n \in 0 .. 0 |-> <<>>], 0)
      OBVIOUS
    <3>2. QED
      BY <2>4, <2>5, <3>1
  <2>6. CASE k # 0
    <3>1. k - 1 \in 0 .. N /\ k - 1 \in Nat /\ ~(k <= k - 1)
      BY <2>4, <2>6
    <3>2. k - 1 \notin C
      <4> HIDE DEF C
      <4>1. QED
        BY <2>3, <3>1
    <3>3. PICK e : Steps(e, k - 1)
      BY <3>1, <3>2
    <3> DEFINE g == [n \in 0 .. k |-> IF n < k THEN e[n] ELSE step(k, e[k - 1])]
    <3>4. e \in [0 .. k - 1 -> Seq(K)] /\ k \in 1 .. N
      BY <2>4, <2>6, <3>3
    <3>5. step(k, e[k - 1]) \in Seq(K)
      BY <1>1, <3>1, <3>4
    <3>6. g \in [0 .. k -> Seq(K)] /\ g[0] = <<>>
      BY <2>4, <2>6, <3>3, <3>5
    <3>7. ASSUME NEW n \in 1 .. k
          PROVE  g[n] = step(n, g[n - 1])
      <4>1. n - 1 \in 0 .. k /\ n - 1 < k /\ g[n - 1] = e[n - 1]
        BY <2>4
      <4>2. CASE n < k
        <5>1. n \in 1 .. k - 1 /\ n \in 0 .. k
          BY <2>4, <4>2
        <5>2. QED
          BY <3>3, <4>1, <4>2, <5>1
      <4>3. CASE n = k
        <5>1. ~(n < k) /\ n \in 0 .. k
          BY <2>4, <4>3
        <5>2. QED
          BY <4>1, <4>3, <5>1
      <4>4. QED
        BY <2>4, <4>2, <4>3
    <3> HIDE DEF g
    <3>8. Steps(g, k)
      BY <3>6, <3>7
    <3>9. QED
      BY <2>4, <3>8
  <2>7. QED
    BY <2>5, <2>6
<1>3. PICK e : Steps(e, N)
  BY <1>2
<1> HIDE DEF Steps
<1>4. e \in [0 .. N -> Seq(K)] /\ e[0] = <<>> /\ \A n \in 1 .. N : e[n] = step(n, e[n - 1])
  BY <1>3 DEF Steps
<1>5. ASSUME NEW filters, NEW limit, NEW offset
      PROVE  LET query(p) == [format |-> format, filters |-> filters, limit |-> limit,
                              offset |-> offset, order |-> p]
             IN  QuerySortFromString(query(<<>>), sort) = query(e[N])
  <2> DEFINE query(p) == [format |-> format, filters |-> filters, limit |-> limit,
                          offset |-> offset, order |-> p]
             next(n, q) == IF ends(n) THEN q ELSE QuerySort(q, name(n), sort[n].descending)
             Asks(g) == g = [n \in 0 .. N |-> IF n = 0 THEN query(<<>>) ELSE next(n, g[n - 1])]
             asked == CHOOSE g : Asks(g)
             h == [n \in 0 .. N |-> query(e[n])]
  <2>1. QuerySortFromString(query(<<>>), sort) = asked[N]
    BY DEF QuerySortFromString
  <2>2. ASSUME NEW n, NEW o
        PROVE  next(n, query(o)) = query(step(n, o))
    <3>1. query(o).format = format /\ query(o).order = o
      OBVIOUS
    <3>2. \A p : [query(o) EXCEPT !.order = p] = query(p)
      OBVIOUS
    <3>3. [query(o) EXCEPT !.order = Append(@, key(n))] = query(Append(o, key(n)))
      BY <3>1, <3>2
    <3> HIDE DEF query, ends, name
    <3>4. QED
      BY <3>1, <3>3 DEF step, QuerySort
  <2> HIDE DEF next, query
  <2>3. Asks(h)
    <3>1. ASSUME NEW n \in 0 .. N
          PROVE  h[n] = IF n = 0 THEN query(<<>>) ELSE next(n, h[n - 1])
      <4>1. CASE n = 0
        BY <1>4, <4>1
      <4>2. CASE n # 0
        <5>1. n \in 1 .. N /\ n - 1 \in 0 .. N
          BY <4>2
        <5>2. h[n] = query(step(n, e[n - 1])) /\ h[n - 1] = query(e[n - 1])
          BY <1>4, <5>1
        <5> HIDE DEF h
        <5>3. QED
          BY <2>2, <4>2, <5>2
      <4>3. QED
        BY <4>1, <4>2
    <3>2. h = [n \in 0 .. N |-> h[n]]
      OBVIOUS
    <3> HIDE DEF h
    <3>3. QED
      BY <3>1, <3>2
  <2>4. Asks(asked)
    <3> HIDE DEF Asks
    <3>1. QED
      BY <2>3
  <2> HIDE DEF asked
  <2>5. asked[N] = h[N]
    <3> DEFINE C == {n \in 0 .. N : asked[n] # h[n]}
    <3>1. SUFFICES ASSUME C # {} PROVE FALSE
      OBVIOUS
    <3>2. C \in SUBSET Nat
      OBVIOUS
    <3>3. PICK k \in C : \A j \in C : k <= j
      BY <3>1, <3>2, HasLeast
    <3>4. k \in 0 .. N /\ asked[k] # h[k]
      BY <3>3
    <3> HIDE DEF h
    <3>5. k # 0
      BY <2>3, <2>4, <3>4
    <3>6. k - 1 \in 0 .. N /\ ~(k <= k - 1)
      BY <3>4, <3>5
    <3>7. k - 1 \notin C
      <4> HIDE DEF C
      <4>1. QED
        BY <3>3, <3>6
    <3>8. asked[k] = next(k, asked[k - 1]) /\ h[k] = next(k, h[k - 1])
      BY <2>3, <2>4, <3>4, <3>5
    <3>9. QED
      BY <3>4, <3>6, <3>7, <3>8
  <2>6. h[N] = query(e[N])
    OBVIOUS
  <2>7. QED
    BY <2>1, <2>5, <2>6 DEF query
<1>6. e[N] \in Seq(K)
  BY <1>4
<1>7. QED
  BY <1>5, <1>6 DEF K

(* The query that a list or an index is read with.                         *)
Bounded == http.name \in Lists
AskedQuery == [format |-> Kind, filters |-> Filters,
          limit |-> IF Bounded /\ http.limit > 0 THEN http.limit ELSE -1,
          offset |-> IF Bounded /\ http.offset > 0 THEN http.offset ELSE 0,
          order |-> Sorting]

(* It is what the methods make of the request; its sorting has only        *)
(* fields of the kind.                                                     *)
LEMMA QueryIs ==
  ASSUME IsRequest(http)
  PROVE  /\ Sorting \in Seq(Keys(Kind, http.sort))
         /\ Bounded => QuerySortFromString(ParseQueryBounds(Filtered), http.sort) = AskedQuery
         /\ ~Bounded => QuerySortFromString(Filtered, http.sort) = AskedQuery
<1> DEFINE query(fs, l, o, p) == [format |-> Kind, filters |-> fs, limit |-> l,
                                  offset |-> o, order |-> p]
           limit == IF http.limit > 0 THEN http.limit ELSE -1
           offset == IF http.offset > 0 THEN http.offset ELSE 0
           none == [f \in Range(Fields) |-> Unset]
<1>1. PICK o \in Seq(Keys(Kind, http.sort)) : \A fs, l, k :
        QuerySortFromString(query(fs, l, k, <<>>), http.sort) = query(fs, l, k, o)
  <2>1. Len(http.sort) \in Nat
    BY DEF IsRequest
  <2>2. QED
    BY <2>1, KindIs, SortIs
<1>2. \A fs, l, k, p : /\ query(fs, l, k, p).order = p
                       /\ query(fs, l, k, p).limit = l /\ query(fs, l, k, p).offset = k
  OBVIOUS
<1>3. Filtered = query(Filters, -1, 0, <<>>)
  BY FilteredIs
<1>4. QueryNew(Kind) = query(none, -1, 0, <<>>)
  BY DEF QueryNew
<1>5. \A l, k : [query(Filters, -1, 0, <<>>) EXCEPT !.limit = l, !.offset = k]
                  = query(Filters, l, k, <<>>)
  <2> DEFINE q == query(Filters, -1, 0, <<>>)
  <2>1. ASSUME NEW l, NEW k
        PROVE  [q EXCEPT !.limit = l, !.offset = k] = query(Filters, l, k, <<>>)
    <3>1. [q EXCEPT !.limit = l] = query(Filters, l, 0, <<>>)
      OBVIOUS
    <3>2. [query(Filters, l, 0, <<>>) EXCEPT !.offset = k] = query(Filters, l, k, <<>>)
      OBVIOUS
    <3>3. [q EXCEPT !.limit = l, !.offset = k] = [[q EXCEPT !.limit = l] EXCEPT !.offset = k]
      OBVIOUS
    <3> HIDE DEF query, q
    <3>4. QED
      BY <3>1, <3>2, <3>3
  <2>2. QED
    BY <2>1
<1>6. ParseQueryBounds(Filtered) = query(Filters, limit, offset, <<>>)
  <2>1. ParseQueryBounds(Filtered) = [Filtered EXCEPT !.limit = limit, !.offset = offset]
    <3> DEFINE l == limit
               k == offset
    <3>1. Filtered.limit = -1 /\ Filtered.offset = 0
      BY <1>2, <1>3
    <3> HIDE DEF query
    <3>2. QED
      BY <3>1 DEF ParseQueryBounds
  <2> HIDE DEF query, limit, offset
  <2>2. QED
    BY <1>3, <1>5, <2>1
<1> HIDE DEF none
<1>7. Sorting = o
  <2> HIDE DEF query
  <2>1. QED
    BY <1>1, <1>2, <1>4 DEF Sorting
<1>8. Bounded => AskedQuery = query(Filters, limit, offset, o)
  BY <1>7 DEF AskedQuery
<1>9. ~Bounded => AskedQuery = query(Filters, -1, 0, o)
  BY <1>7 DEF AskedQuery
<1> HIDE DEF query, limit, offset
<1>10. QED
  BY <1>1, <1>3, <1>6, <1>7, <1>8, <1>9

(* sqlite3_prepare_v2 refuses the malformed.                               *)
LEMMA PreparedIs ==
  ASSUME IsRequest(http), NEW query, query.format = Kind, query.filters = Filters
  PROVE  Prepared(query) <=> ~Malformed
<1>1. ASSUME NEW f \in IdFields \cap Maps(Kind)
      PROVE  /\ query.filters[f].set <=> Given(f)
             /\ Given(f) => query.filters[f].value = Value(f)
  <2>1. f \in Range(Fields)
    BY KindIs, MapsAre
  <2>2. query.filters[f] = FilterOn(f)
    BY <2>1 DEF Filters
  <2>3. QED
    BY <2>2 DEF FilterOn, Unset
<1>2. ASSUME NEW f \in IdFields \cap Maps(Kind)
      PROVE  (query.filters[f].set => query.filters[f].value.list) <=> ~(Given(f) /\ ~Value(f).list)
  BY <1>1
<1>3. QED
  BY <1>2 DEF Prepared, Malformed

-----------------------------------------------------------------------------
(* The statement and the values bound to it.                               *)

(* The order in which the question marks and the values are numbered.      *)
Numbered == {p \in Slots \X Slots :
               \/ p[1][1] < p[2][1]
               \/ p[1][1] = p[2][1] /\ p[1][2] < p[2][2]}

(* Numbering the slots in that order gives each its place.                 *)
LEMMA SlotsOrdered ==
  ASSUME NEW S \in SUBSET Slots
  PROVE  /\ IsFiniteSet(S) /\ Orders(Numbered, S)
         /\ \A x \in S : Number(x, S) = Place(Numbered, S, x)
         /\ \A x, y \in Slots : x[1] = y[1] /\ x[2] = y[2] => x = y
<1>1. Slots = (1 .. 12) \X {1, 2}
  BY FieldsAre DEF Slots
<1>2. IsFiniteSet(S)
  <2>1. IsFiniteSet(1 .. 12) /\ IsFiniteSet({1, 2})
    <3>1. IsFiniteSet(1 .. 12) /\ IsFiniteSet(1 .. 2)
      <4>1. 1 \in Int /\ 2 \in Int /\ 12 \in Int
        OBVIOUS
      <4>2. QED
        BY <4>1, FS_Interval
    <3>2. 1 .. 2 = {1, 2}
      OBVIOUS
    <3>3. QED
      BY <3>1, <3>2
  <2>2. IsFiniteSet((1 .. 12) \X {1, 2})
    BY <2>1, FS_Product
  <2>3. QED
    BY <1>1, <2>2, FS_Subset
<1>3. \A x \in Slots : x = <<x[1], x[2]>> /\ x[1] \in 1 .. 12 /\ x[2] \in {1, 2}
  BY <1>1
<1>4. \A x, y \in Slots : x[1] = y[1] /\ x[2] = y[2] => x = y
  BY <1>3
<1>5. \A x, y \in Slots : <<x, y>> \in Numbered <=> \/ x[1] < y[1]
                                                    \/ x[1] = y[1] /\ x[2] < y[2]
  BY DEF Numbered
<1>6. Orders(Numbered, S)
  <2>1. ASSUME NEW x \in S PROVE <<x, x>> \notin Numbered
    BY <1>3, <1>5
  <2>2. ASSUME NEW x \in S, NEW y \in S, x # y
        PROVE  <<x, y>> \in Numbered \/ <<y, x>> \in Numbered
    BY <1>3, <1>4, <1>5, <2>2
  <2>3. ASSUME NEW x \in S, NEW y \in S, NEW z \in S,
               <<x, y>> \in Numbered, <<y, z>> \in Numbered
        PROVE  <<x, z>> \in Numbered
    <3>1. /\ x[1] \in 1 .. 12 /\ y[1] \in 1 .. 12 /\ z[1] \in 1 .. 12
          /\ x[2] \in 1 .. 2 /\ y[2] \in 1 .. 2 /\ z[2] \in 1 .. 2
      BY <1>3
    <3>2. /\ x[1] < y[1] \/ (x[1] = y[1] /\ x[2] < y[2])
          /\ y[1] < z[1] \/ (y[1] = z[1] /\ y[2] < z[2])
      BY <1>5, <2>3
    <3>3. x[1] < z[1] \/ (x[1] = z[1] /\ x[2] < z[2])
      BY <3>1, <3>2
    <3>4. QED
      BY <1>5, <3>3
  <2>4. QED
    BY <2>1, <2>2, <2>3 DEF Orders
<1>7. ASSUME NEW x \in S PROVE Earlier(x, S) = Under(Numbered, S, x)
  BY <1>5 DEF Earlier, Under
<1>8. QED
  BY <1>2, <1>4, <1>6, <1>7 DEF Number, Place

(* The filters of the query are those the request gives.                   *)
LEMMA FilterIs ==
  ASSUME NEW f \in Range(Fields)
  PROVE  Filters[f].set <=> Given(f)
BY DEF Filters, FilterOn, Unset

(* They have the values it gives.                                          *)
LEMMA FilterValue ==
  ASSUME NEW f \in Range(Fields), Given(f)
  PROVE  Filters[f].value = Value(f)
BY DEF Filters, FilterOn

(* A filter has as many values as question marks: a directory two, any     *)
(* other one.                                                              *)
LEMMA MarksAre ==
  ASSUME NEW f, NEW value
  PROVE  /\ f = "directory" => DOMAIN Marks(f) = {1, 2} /\ DOMAIN Patterns(f, value) = {1, 2}
         /\ f # "directory" => DOMAIN Marks(f) = {1} /\ DOMAIN Patterns(f, value) = {1}
<1>1. CASE f = "directory"
  <2>1. DOMAIN Marks(f) = 1 .. 2 /\ DOMAIN Patterns(f, value) = 1 .. 2
    BY <1>1 DEF Marks, Patterns
  <2>2. QED
    BY <1>1, <2>1
<1>2. CASE f # "directory"
  <2>1. DOMAIN Marks(f) = 1 .. 1
    BY <1>2 DEF Marks
  <2>2. DOMAIN Patterns(f, value) = 1 .. 1
    BY <1>2 DEF Patterns
  <2>3. QED
    BY <1>2, <2>1, <2>2
<1>3. QED
  BY <1>1, <1>2

(* What a question mark of a field stands for if it has its own value.     *)
Matches(row, f, k) ==
  Like(Cell(row, f), Patterns(f, Value(f))[k]) # Marks(f)[k].negated

(* With nothing misbound each question mark has the value of its own       *)
(* filter: the two counters of bind_filters and the database agree.        *)
LEMMA MarksBound ==
  ASSUME ~Misbound, NEW query, query.format = Kind, query.filters = Filters, NEW row,
         NEW m \in Placeholders(query)
  PROVE  LET marks == Placeholders(query)
             bound == Bindings(query)
             pattern(b) == Patterns(Fields[b[1]], query.filters[Fields[b[1]]].value)[b[2]]
         IN  (\E b \in bound :
                /\ Number(b, bound) = Number(m, marks)
                /\ Like(Cell(row, Fields[m[1]]), pattern(b)) # Marks(Fields[m[1]])[m[2]].negated)
             <=> Matches(row, Fields[m[1]], m[2])
<1> DEFINE marks == Placeholders(query)
           bound == Bindings(query)
           pattern(b) == Patterns(Fields[b[1]], query.filters[Fields[b[1]]].value)[b[2]]
           f == Fields[m[1]]
<1>1. /\ \A x \in Slots : Fields[x[1]] \in Range(Fields) /\ x[1] \in DOMAIN Fields /\ x[1] \in Nat
      /\ marks \in SUBSET Slots /\ bound \in SUBSET Slots
  <2>1. Slots = (1 .. 12) \X {1, 2} /\ DOMAIN Fields = 1 .. 12
    BY FieldsAre DEF Slots
  <2>2. QED
    BY <2>1 DEF Range, Placeholders, Bindings
<1>2. \A x \in Slots : /\ x \in marks <=> /\ Given(Fields[x[1]])
                                          /\ Fields[x[1]] \in Maps(Kind) \ IdFields
                                          /\ x[2] \in DOMAIN Marks(Fields[x[1]])
                       /\ x \in bound <=> /\ Given(Fields[x[1]])
                                          /\ Fields[x[1]] \notin IdFields
                                          /\ x[2] \in DOMAIN Marks(Fields[x[1]])
  <2>1. \A x \in Slots : Filters[Fields[x[1]]].set <=> Given(Fields[x[1]])
    BY <1>1, FilterIs
  <2>2. \A g, v : DOMAIN Patterns(g, v) = DOMAIN Marks(g)
    BY MarksAre
  <2>3. QED
    BY <1>1, <2>1, <2>2 DEF Placeholders, Bindings
<1>3. \A x \in Slots : x \in marks <=> x \in bound /\ Fields[x[1]] \in Maps(Kind)
  BY <1>2
<1>4. m \in bound /\ m \in Slots
  BY <1>1, <1>3
<1>5. Earlier(m, bound) = Earlier(m, marks)
  <2>1. ASSUME NEW b \in bound, b[1] < m[1] \/ (b[1] = m[1] /\ b[2] < m[2])
        PROVE  b \in marks
    <3>1. CASE b[1] = m[1]
      BY <1>1, <1>3, <1>4, <3>1
    <3>2. CASE b[1] # m[1]
      <4> DEFINE i == b[1]
                 j == m[1]
      <4>1. i \in DOMAIN Fields /\ j \in DOMAIN Fields /\ i < j
        BY <1>1, <1>4, <2>1, <3>2
      <4>2. /\ {Fields[i], Fields[j]} \cap IdFields = {}
            /\ Given(Fields[i]) /\ Given(Fields[j]) /\ Fields[j] \in Maps(Kind)
        BY <1>1, <1>2
      <4> HIDE DEF i, j
      <4>3. Fields[i] \in Maps(Kind)
        BY <4>1, <4>2 DEF Misbound
      <4>4. QED
        BY <1>1, <1>3, <4>3 DEF i
    <3>3. QED
      BY <3>1, <3>2
  <2>2. marks \subseteq bound
    BY <1>1, <1>3
  <2> HIDE DEF marks, bound
  <2>3. QED
    BY <2>1, <2>2 DEF Earlier
<1>6. ASSUME NEW b \in bound, Number(b, bound) = Number(m, marks)
      PROVE  b = m
  <2>1. Number(b, bound) = Number(m, bound)
    BY <1>5, <1>6 DEF Number
  <2> HIDE DEF marks, bound
  <2>2. Place(Numbered, bound, b) = Place(Numbered, bound, m)
    BY <1>1, <1>4, <2>1, SlotsOrdered
  <2>3. IsFiniteSet(bound) /\ Orders(Numbered, bound)
    BY <1>1, SlotsOrdered
  <2>4. QED
    BY <1>4, <2>2, <2>3, PlaceGrows
<1>7. Number(m, bound) = Number(m, marks)
  BY <1>5 DEF Number
<1>8. pattern(m) = Patterns(f, Value(f))[m[2]]
  <2>1. f \in Range(Fields) /\ Given(f)
    BY <1>1, <1>2, <1>4
  <2>2. query.filters[f].value = Value(f)
    BY <2>1, FilterValue
  <2>3. QED
    BY <2>2
<1> HIDE DEF marks, bound, pattern
<1>9. (\E b \in bound : /\ Number(b, bound) = Number(m, marks)
                        /\ Like(Cell(row, f), pattern(b)) # Marks(f)[m[2]].negated)
      <=> Like(Cell(row, f), pattern(m)) # Marks(f)[m[2]].negated
  BY <1>4, <1>6, <1>7
<1>10. QED
  BY <1>8, <1>9 DEF marks, bound, pattern, Matches

-----------------------------------------------------------------------------
(* A path that a pattern of a directory fits, and what is below it.        *)
LEMMA PathFits ==
  ASSUME NEW value \in Seq(STRING), NEW path \in Seq(STRING)
  PROVE  LET rest == SubSeq(path, Len(value) + 1, Len(path))
         IN  /\ IsPrefix(value, path) <=> path = value \o rest
             /\ "/" \in Range(rest) <=>
                  \E i \in DOMAIN path : i > Len(value) /\ path[i] = "/"
<1> DEFINE a == Len(value)
           n == Len(path)
           rest == SubSeq(path, a + 1, n)
<1>1. a \in Nat /\ n \in Nat /\ DOMAIN path = 1 .. n /\ DOMAIN value = 1 .. a
  OBVIOUS
<1>2. /\ rest \in Seq(STRING)
      /\ Len(rest) = IF a <= n THEN n - a ELSE 0
      /\ \A i \in 1 .. n - a : rest[i] = path[a + i]
      /\ DOMAIN rest = 1 .. Len(rest)
  <2>1. /\ rest \in Seq(STRING)
        /\ Len(rest) = IF a + 1 <= n THEN n - (a + 1) + 1 ELSE 0
        /\ \A i \in 1 .. n - (a + 1) + 1 : rest[i] = path[i + (a + 1) - 1]
    BY <1>1, SubSeqProperties
  <2> HIDE DEF rest, a, n
  <2>2. \A i \in Int : n - (a + 1) + 1 = n - a /\ i + (a + 1) - 1 = a + i
    BY <1>1
  <2>3. (IF a + 1 <= n THEN n - (a + 1) + 1 ELSE 0) = IF a <= n THEN n - a ELSE 0
    BY <1>1
  <2>4. \A i \in 1 .. n - a : rest[i] = path[a + i]
    BY <2>1, <2>2
  <2>5. DOMAIN rest = 1 .. Len(rest)
    BY <2>1
  <2>6. QED
    BY <2>1, <2>3, <2>4, <2>5
<1>3. /\ DOMAIN (value \o rest) = 1 .. a + Len(rest)
      /\ \A i \in 1 .. a + Len(rest) :
           (value \o rest)[i] = IF i <= a THEN value[i] ELSE rest[i - a]
  <2> HIDE DEF rest
  <2> DEFINE both == value \o rest
  <2>1. /\ both \in Seq(STRING) /\ Len(both) = a + Len(rest)
        /\ \A i \in 1 .. Len(value) + Len(rest) :
             both[i] = IF i <= Len(value) THEN value[i] ELSE rest[i - Len(value)]
    BY <1>2, ConcatProperties
  <2> HIDE DEF both
  <2>2. DOMAIN both = 1 .. a + Len(rest)
    BY <2>1
  <2>3. QED
    BY <2>1, <2>2 DEF both
<1>4. IsPrefix(value, path) <=> a <= n /\ \A i \in 1 .. a : value[i] = path[i]
  <2>1. SubSeq(value, 1, a) = [i \in 1 .. a |-> value[i]]
    BY <1>1
  <2>2. SubSeq(path, 1, a) = [i \in 1 .. a |-> path[i]]
    BY <1>1
  <2>3. [i \in 1 .. a |-> value[i]] = [i \in 1 .. a |-> path[i]]
          <=> \A i \in 1 .. a : value[i] = path[i]
    OBVIOUS
  <2> HIDE DEF a, n
  <2>4. IsPrefix(value, path) <=> a <= n /\ SubSeq(value, 1, a) = SubSeq(path, 1, a)
    BY DEF IsPrefix, a, n
  <2>5. QED
    BY <2>1, <2>2, <2>3, <2>4
<1> HIDE DEF a, n, rest
<1>5. ASSUME IsPrefix(value, path)
      PROVE  path = value \o rest
  <2>1. DOMAIN (value \o rest) = 1 .. n
    BY <1>1, <1>2, <1>3, <1>4, <1>5
  <2>2. ASSUME NEW i \in 1 .. n PROVE path[i] = (value \o rest)[i]
    <3>1. CASE i <= a
      BY <1>1, <1>2, <1>3, <1>4, <1>5, <3>1
    <3>2. CASE ~(i <= a)
      <4>1. i - a \in 1 .. n - a /\ a + (i - a) = i /\ i \in 1 .. a + Len(rest)
        BY <1>1, <1>2, <1>4, <1>5, <3>2
      <4>2. QED
        BY <1>2, <1>3, <3>2, <4>1
    <3>3. QED
      BY <3>1, <3>2
  <2>3. path = [i \in 1 .. n |-> path[i]]
    BY <1>1
  <2>4. value \o rest = [i \in 1 .. n |-> (value \o rest)[i]]
    <3> DEFINE c == value \o rest
    <3>1. c \in Seq(STRING) /\ DOMAIN c = 1 .. n
      BY <1>2, <2>1
    <3> HIDE DEF c
    <3>2. c = [i \in 1 .. n |-> c[i]]
      BY <3>1
    <3>3. QED
      BY <3>2 DEF c
  <2>5. QED
    BY <2>2, <2>3, <2>4
<1>6. ASSUME path = value \o rest
      PROVE  IsPrefix(value, path)
  <2>1. n = a + Len(rest)
    BY <1>1, <1>2, <1>6, ConcatProperties DEF a, n
  <2>2. \A i \in 1 .. a : value[i] = path[i]
    BY <1>1, <1>2, <1>3, <1>6
  <2>3. QED
    BY <1>1, <1>2, <1>4, <2>1, <2>2
<1>7. "/" \in Range(rest) <=> \E i \in DOMAIN path : i > a /\ path[i] = "/"
  <2>1. ASSUME "/" \in Range(rest)
        PROVE  \E i \in DOMAIN path : i > a /\ path[i] = "/"
    <3>1. PICK i \in 1 .. Len(rest) : rest[i] = "/"
      BY <1>2, <2>1 DEF Range
    <3>2. i \in 1 .. n - a /\ a + i \in 1 .. n /\ a + i > a
      BY <1>1, <1>2, <3>1
    <3>3. QED
      BY <1>1, <1>2, <3>1, <3>2
  <2>2. ASSUME NEW i \in DOMAIN path, i > a, path[i] = "/"
        PROVE  "/" \in Range(rest)
    <3>1. i - a \in 1 .. n - a /\ a + (i - a) = i /\ a <= n
      BY <1>1, <2>2
    <3>2. i - a \in DOMAIN rest /\ rest[i - a] = "/"
      BY <1>1, <1>2, <2>2, <3>1
    <3>3. QED
      BY <3>2 DEF Range
  <2>3. QED
    BY <2>1, <2>2
<1>8. QED
  BY <1>5, <1>6, <1>7 DEF a, n, rest

(* The rows of the table of the request have what its filters look at.     *)
Shown(row) == Kind = "tracks" => row.cells["file"].path \in Seq(STRING)

(* What LIKE and NOT LIKE do with the kinds of patterns.                   *)
LEMMA LikeIs ==
  ASSUME NEW cell, NEW p
  PROVE  /\ p.kind = "has" => (Like(cell, p) # FALSE <=> p.value \in cell.words)
         /\ p.kind = "is" => (Like(cell, p) # FALSE <=> cell.words = {p.value})
         /\ p.kind = "below" => (Like(cell, p) # FALSE <=> IsPrefix(p.value, cell.path))
         /\ p.kind = "deeper" =>
              (Like(cell, p) # TRUE <=>
                 ~(/\ IsPrefix(p.value, cell.path)
                   /\ \E i \in DOMAIN cell.path : i > Len(p.value) /\ cell.path[i] = "/"))
<1>1. ASSUME p.kind = "has"
      PROVE  Like(cell, p) # FALSE <=> (p.value \in cell.words)
  <2> DEFINE A == p.value \in cell.words
  <2>1. Like(cell, p) = A
    BY <1>1 DEF Like
  <2>2. A \in BOOLEAN
    BY DEF IsPrefix
  <2> HIDE DEF A
  <2>3. Like(cell, p) # FALSE <=> A
    BY <2>1, <2>2
  <2>4. QED
    BY <2>3 DEF A
<1>2. ASSUME p.kind = "is"
      PROVE  Like(cell, p) # FALSE <=> (cell.words = {p.value})
  <2> DEFINE A == cell.words = {p.value}
  <2>1. Like(cell, p) = A
    BY <1>2 DEF Like
  <2>2. A \in BOOLEAN
    BY DEF IsPrefix
  <2> HIDE DEF A
  <2>3. Like(cell, p) # FALSE <=> A
    BY <2>1, <2>2
  <2>4. QED
    BY <2>3 DEF A
<1>3. ASSUME p.kind = "below"
      PROVE  Like(cell, p) # FALSE <=> (IsPrefix(p.value, cell.path))
  <2> DEFINE A == IsPrefix(p.value, cell.path)
  <2>1. Like(cell, p) = A
    BY <1>3 DEF Like, IsPrefix
  <2>2. A \in BOOLEAN
    BY DEF IsPrefix
  <2> HIDE DEF A
  <2>3. Like(cell, p) # FALSE <=> A
    BY <2>1, <2>2
  <2>4. QED
    BY <2>3 DEF A
<1>4. ASSUME p.kind = "deeper"
      PROVE  Like(cell, p) # TRUE <=>
               ~(/\ IsPrefix(p.value, cell.path)
                 /\ \E i \in DOMAIN cell.path : i > Len(p.value) /\ cell.path[i] = "/")
  <2> DEFINE A == /\ IsPrefix(p.value, cell.path)
                  /\ \E i \in DOMAIN cell.path : i > Len(p.value) /\ cell.path[i] = "/"
  <2>1. Like(cell, p) = A
    BY <1>4 DEF Like, IsPrefix
  <2>2. A \in BOOLEAN
    BY DEF IsPrefix
  <2> HIDE DEF A
  <2>3. Like(cell, p) # TRUE <=> ~A
    BY <2>1, <2>2
  <2>4. QED
    BY <2>3 DEF A
<1>5. QED
  BY <1>1, <1>2, <1>3, <1>4

(* A field of the request without an id, with the patterns bound for it.   *)
LEMMA MatchesMeets ==
  ASSUME IsRequest(http), NEW row, Shown(row),
         NEW f \in Maps(Kind) \ IdFields, Given(f)
  PROVE  (\A k \in DOMAIN Marks(f) : Matches(row, f, k)) <=> Meets(row, f, Value(f))
<1> DEFINE value == Value(f)
           path == row.cells["file"].path
<1>1. /\ f \in Range(Fields) /\ f \notin IdFields
      /\ f \in {"directory", "directoryprefix"} => Kind = "tracks"
  BY KindIs, MapsAre
<1>2. f \in {"directory", "directoryprefix"} => value \in Seq(STRING) /\ path \in Seq(STRING)
  <2>1. On(f) \in SUBSET (1 .. Len(http.filters)) /\ On(f) # {} /\ Len(http.filters) \in Nat
    BY DEF On, IsRequest, Given
  <2>2. Max(On(f)) \in On(f)
    <3> DEFINE S == On(f)
               n == Len(http.filters)
    <3> HIDE DEF S, n
    <3>1. S \in SUBSET (1 .. n) /\ S # {} /\ n \in Nat
      BY <2>1 DEF S, n
    <3>2. Max(S) \in S
      BY <3>1, HasMax
    <3>3. QED
      BY <3>2 DEF S
  <2>3. f \in {"directory", "directoryprefix"} => value \in Seq(STRING)
    BY <2>2 DEF Value, On, IsRequest
  <2>4. QED
    BY <1>1, <2>3 DEF Shown
<1> HIDE DEF value
<1>3. CASE f = "directory"
  <2>1. DOMAIN Marks(f) = {1, 2} /\ ~Marks(f)[1].negated /\ Marks(f)[2].negated = TRUE
        /\ Marks(f)[1].negated = FALSE
    BY <1>3, MarksAre DEF Marks
  <2>2. /\ Patterns(f, value)[1] = [kind |-> "below", value |-> value]
        /\ Patterns(f, value)[2] = [kind |-> "deeper", value |-> value]
    BY <1>3 DEF Patterns
  <2>3. Cell(row, f).path = path
    BY <1>3 DEF Cell
  <2> DEFINE deeper == \E i \in DOMAIN path : i > Len(value) /\ path[i] = "/"
             cell == Cell(row, f)
             p == Patterns(f, value)[1]
             q == Patterns(f, value)[2]
  <2>4. /\ p.kind = "below" /\ p.value = value /\ q.kind = "deeper" /\ q.value = value
        /\ cell.path = path
    BY <2>2, <2>3
  <2>5. /\ Matches(row, f, 1) <=> Like(cell, p) # FALSE
        /\ Matches(row, f, 2) <=> Like(cell, q) # TRUE
    BY <2>1 DEF Matches, value
  <2> HIDE DEF cell, p, q, path
  <2>6. Matches(row, f, 1) <=> IsPrefix(value, path)
    BY <2>4, <2>5, LikeIs
  <2>7. Matches(row, f, 2) <=> ~(IsPrefix(value, path) /\ deeper)
    BY <2>4, <2>5, LikeIs, ZenonT(60)
  <2>8. Meets(row, f, value) <=>
          /\ IsPrefix(value, path)
          /\ ~\E i \in DOMAIN path : i > Len(value) /\ path[i] = "/"
    <3> HIDE DEF path
    <3>1. value \in Seq(STRING) /\ path \in Seq(STRING)
      BY <1>2, <1>3
    <3>2. QED
      BY <1>1, <1>3, <3>1, PathFits DEF Meets, LikeFields, path
  <2>9. QED
    BY <2>1, <2>6, <2>7, <2>8 DEF value
<1>4. CASE f # "directory"
  <2>1. /\ DOMAIN Marks(f) = {1} /\ Marks(f)[1].negated = FALSE
    BY <1>4, MarksAre DEF Marks
  <2>2. CASE f = "directoryprefix"
    <3>1. Patterns(f, value)[1] = [kind |-> "below", value |-> value] /\ Cell(row, f).path = path
      BY <2>2 DEF Patterns, Cell
    <3>2. Matches(row, f, 1) <=> Like(Cell(row, f), Patterns(f, value)[1]) # FALSE
      BY <2>1 DEF Matches, value
    <3>3. Matches(row, f, 1) <=> IsPrefix(value, path)
      <4> DEFINE cell == Cell(row, f)
                 p == Patterns(f, value)[1]
      <4>1. p.kind = "below" /\ p.value = value /\ cell.path = path
        BY <3>1
      <4> HIDE DEF cell, p
      <4>2. Like(cell, p) # FALSE <=> IsPrefix(value, path)
        BY <4>1, LikeIs
      <4>3. QED
        BY <3>2, <4>2 DEF cell, p
    <3>4. Meets(row, f, value) <=> IsPrefix(value, path)
      <4> HIDE DEF path
      <4>1. value \in Seq(STRING) /\ path \in Seq(STRING)
        BY <1>2, <2>2
      <4>2. QED
        BY <1>1, <2>2, <4>1, PathFits DEF Meets, LikeFields, path
    <3>5. QED
      BY <2>1, <3>3, <3>4 DEF value
  <2>3. CASE f \in LikeFields
    <3>1. Patterns(f, value)[1] = [kind |-> "has", value |-> value]
      BY <2>3 DEF Patterns, LikeFields
    <3>2. Matches(row, f, 1) <=> Like(Cell(row, f), Patterns(f, value)[1]) # FALSE
      BY <2>1 DEF Matches, value
    <3>3. Matches(row, f, 1) <=> value \in Cell(row, f).words
      <4> DEFINE cell == Cell(row, f)
                 p == Patterns(f, value)[1]
      <4>1. p.kind = "has" /\ p.value = value
        BY <3>1
      <4> HIDE DEF cell, p
      <4>2. Like(cell, p) # FALSE <=> value \in cell.words
        BY <4>1, LikeIs
      <4>3. QED
        BY <3>2, <4>2 DEF cell, p
    <3>4. Meets(row, f, value) <=> value \in Cell(row, f).words
      <4>1. CASE f = "all"
        <5>1. Cell(row, f).words =
                UNION {row.cells[g].words : g \in {"title", "artist", "album"} \cap DOMAIN row.cells}
          BY <4>1 DEF Cell, AllCell
        <5>2. QED
          BY <1>1, <4>1, <5>1 DEF Meets, LikeFields
      <4>2. CASE f # "all"
        <5>1. Cell(row, f) = row.cells[f]
          BY <2>3, <4>2 DEF Cell, LikeFields
        <5>2. QED
          BY <1>1, <2>3, <4>2, <5>1 DEF Meets, LikeFields
      <4>3. QED
        BY <4>1, <4>2
    <3>5. QED
      BY <2>1, <3>3, <3>4 DEF value
  <2>4. CASE f # "directoryprefix" /\ f \notin LikeFields
    <3>1. Patterns(f, value)[1] = [kind |-> "is", value |-> value] /\ Cell(row, f) = row.cells[f]
      BY <1>4, <2>4 DEF Patterns, Cell, LikeFields
    <3>2. Matches(row, f, 1) <=> Like(Cell(row, f), Patterns(f, value)[1]) # FALSE
      BY <2>1 DEF Matches, value
    <3>3. Matches(row, f, 1) <=> row.cells[f].words = {value}
      <4> DEFINE cell == Cell(row, f)
                 p == Patterns(f, value)[1]
      <4>1. p.kind = "is" /\ p.value = value /\ cell = row.cells[f]
        BY <3>1
      <4> HIDE DEF cell, p
      <4>2. Like(cell, p) # FALSE <=> row.cells[f].words = {value}
        BY <4>1, LikeIs
      <4>3. QED
        BY <3>2, <4>2 DEF cell, p
    <3>4. Meets(row, f, value) <=> row.cells[f].words = {value}
      BY <1>1, <1>4, <2>4 DEF Meets, LikeFields
    <3>5. QED
      BY <2>1, <3>3, <3>4 DEF value
  <2>5. QED
    BY <2>2, <2>3, <2>4
<1>5. QED
  BY <1>3, <1>4

(* The statement selects the rows that fit.                                *)
LEMMA SelectedFits ==
  ASSUME IsRequest(http), ~Misbound, NEW row, Shown(row),
         NEW query, query.format = Kind, query.filters = Filters
  PROVE  Selected(query, row) <=> Fits(row)
<1> DEFINE marks == Placeholders(query)
<1>1. Maps(Kind) \subseteq Range(Fields)
  BY KindIs, MapsAre
<1>2. ASSUME NEW f \in IdFields \cap Maps(Kind)
      PROVE  (query.filters[f].set => row.cells[f].key \in query.filters[f].value.ids)
             <=> (Given(f) => Meets(row, f, Value(f)))
  <2>1. query.filters[f].set <=> Given(f)
    BY <1>1, <1>2, FilterIs
  <2>2. Given(f) => query.filters[f].value = Value(f)
    BY <1>1, <1>2, FilterValue
  <2>3. Meets(row, f, Value(f)) <=> row.cells[f].key \in Value(f).ids
    BY <1>2 DEF Meets, IdFields, LikeFields
  <2>4. QED
    BY <2>1, <2>2, <2>3
<1>3. (\A m \in marks : Matches(row, Fields[m[1]], m[2]))
      <=> \A f \in Maps(Kind) \ IdFields : Given(f) => Meets(row, f, Value(f))
  <2>1. \A x \in Slots : /\ Fields[x[1]] \in Range(Fields) /\ x[1] \in DOMAIN Fields
                         /\ x[2] \in {1, 2}
    BY DEF Slots, Range
  <2>2. ASSUME NEW f \in Maps(Kind) \ IdFields, Given(f), NEW k \in DOMAIN Marks(f)
        PROVE  \E m \in marks : Fields[m[1]] = f /\ m[2] = k
    <3>1. PICK i \in DOMAIN Fields : Fields[i] = f
      BY <1>1 DEF Range
    <3>2. k \in {1, 2}
      BY MarksAre
    <3>3. <<i, k>> \in Slots /\ <<i, k>>[1] = i /\ <<i, k>>[2] = k
      BY <3>2 DEF Slots
    <3>4. query.filters[f].set
      BY <1>1, <2>2, FilterIs
    <3>5. <<i, k>> \in marks
      BY <2>2, <3>1, <3>3, <3>4 DEF Placeholders
    <3>6. QED
      BY <3>1, <3>3, <3>5
  <2>3. ASSUME NEW m \in marks
        PROVE  /\ Fields[m[1]] \in Maps(Kind) \ IdFields /\ Given(Fields[m[1]])
               /\ m[2] \in DOMAIN Marks(Fields[m[1]])
    <3>1. m \in Slots /\ Filters[Fields[m[1]]].set /\ Fields[m[1]] \in Range(Fields)
      BY <2>1 DEF Placeholders
    <3>2. Given(Fields[m[1]])
      BY <3>1, FilterIs
    <3>3. QED
      BY <3>2 DEF Placeholders
  <2> HIDE DEF marks
  <2>4. \A f \in Maps(Kind) \ IdFields : Given(f) =>
          ((\A k \in DOMAIN Marks(f) : Matches(row, f, k)) <=> Meets(row, f, Value(f)))
    BY MatchesMeets
  <2>5. ASSUME \A m \in marks : Matches(row, Fields[m[1]], m[2]),
               NEW f \in Maps(Kind) \ IdFields, Given(f)
        PROVE  Meets(row, f, Value(f))
    <3>1. \A k \in DOMAIN Marks(f) : Matches(row, f, k)
      BY <2>2, <2>5
    <3>2. QED
      BY <2>4, <2>5, <3>1
  <2>6. ASSUME \A f \in Maps(Kind) \ IdFields : Given(f) => Meets(row, f, Value(f)),
               NEW m \in marks
        PROVE  Matches(row, Fields[m[1]], m[2])
    BY <2>3, <2>4, <2>6
  <2>7. QED
    BY <2>5, <2>6
<1>4. Selected(query, row) <=>
        /\ \A f \in IdFields \cap Maps(Kind) :
             query.filters[f].set => row.cells[f].key \in query.filters[f].value.ids
        /\ \A m \in marks : Matches(row, Fields[m[1]], m[2])
  BY MarksBound DEF Selected
<1> HIDE DEF marks
<1>5. Fits(row) <=> /\ \A f \in IdFields \cap Maps(Kind) : Given(f) => Meets(row, f, Value(f))
                    /\ \A f \in Maps(Kind) \ IdFields : Given(f) => Meets(row, f, Value(f))
  BY DEF Fits
<1>6. QED
  BY <1>2, <1>3, <1>4, <1>5

-----------------------------------------------------------------------------
(* The order of rows.                                                      *)

(* Rows that the keys of an order do not tell apart.                       *)
Alike(order, a, b) ==
  \A k \in DOMAIN order : Cell(a, order[k].field).key = Cell(b, order[k].field).key

(* Of two rows one precedes the other, or they are alike in all the keys,  *)
(* and this is an order.                                                   *)
LEMMA PrecedesOrders ==
  ASSUME NEW order, NEW n \in Nat, DOMAIN order = 1 .. n, NEW T,
         \A row \in T : \A k \in 1 .. n : Cell(row, order[k].field).key \in Int
  PROVE  /\ \A x, y \in T : Precedes(order, x, y) => ~Precedes(order, y, x) /\ ~Alike(order, x, y)
         /\ \A x, y \in T : Precedes(order, x, y) \/ Precedes(order, y, x) \/ Alike(order, x, y)
         /\ \A x, y \in T : Alike(order, x, y) => Alike(order, y, x)
         /\ \A x, y, z \in T : /\ Precedes(order, x, y) \/ Alike(order, x, y)
                               /\ Precedes(order, y, z) \/ Alike(order, y, z)
                               => \/ Precedes(order, x, z)
                                  \/ Alike(order, x, z) /\ Alike(order, x, y) /\ Alike(order, y, z)
<1> DEFINE key(a, k) == Cell(a, order[k].field).key
           down(k) == order[k].descending
           Less(k, a, b) == IF down(k) THEN key(a, k) > key(b, k) ELSE key(a, k) < key(b, k)
           Same(k, a, b) == \A j \in 1 .. k - 1 : key(a, j) = key(b, j)
<1>1. \A a \in T : \A k \in 1 .. n : key(a, k) \in Int
  OBVIOUS
<1>2. \A a, b : Precedes(order, a, b) <=> \E k \in 1 .. n : Same(k, a, b) /\ Less(k, a, b)
  BY DEF Precedes
<1>3. \A a, b : Alike(order, a, b) <=> \A k \in 1 .. n : key(a, k) = key(b, k)
  BY DEF Alike
<1> HIDE DEF key, down
<1>4. ASSUME NEW x \in T, NEW y \in T, Precedes(order, x, y)
      PROVE  ~Precedes(order, y, x) /\ ~Alike(order, x, y)
  <2>1. PICK k \in 1 .. n : Same(k, x, y) /\ Less(k, x, y)
    BY <1>2, <1>4
  <2>2. key(x, k) # key(y, k)
    BY <1>1, <2>1
  <2>3. ASSUME NEW m \in 1 .. n, Same(m, y, x), Less(m, y, x)
        PROVE  FALSE
    <3>1. CASE k = m
      BY <1>1, <2>1, <2>3, <3>1
    <3>2. CASE k < m
      <4>1. k \in 1 .. m - 1
        BY <3>2
      <4>2. QED
        BY <2>2, <2>3, <4>1
    <3>3. CASE m < k
      <4>1. m \in 1 .. k - 1
        BY <3>3
      <4>2. key(x, m) = key(y, m)
        BY <2>1, <4>1
      <4>3. QED
        BY <1>1, <2>3, <4>2
    <3>4. QED
      BY <3>1, <3>2, <3>3
  <2>4. QED
    BY <1>2, <1>3, <2>2, <2>3
<1>5. ASSUME NEW x \in T, NEW y \in T, ~Alike(order, x, y)
      PROVE  Precedes(order, x, y) \/ Precedes(order, y, x)
  <2> DEFINE D == {k \in 1 .. n : key(x, k) # key(y, k)}
  <2>1. D \in SUBSET Nat /\ D # {}
    BY <1>3, <1>5
  <2>2. PICK k \in D : \A m \in D : k <= m
    BY <2>1, HasLeast
  <2>3. ASSUME NEW j \in 1 .. k - 1 PROVE key(x, j) = key(y, j)
    <3>1. j \in 1 .. n /\ ~(k <= j)
      BY <2>2
    <3>2. j \notin D
      BY <2>2, <3>1
    <3>3. QED
      BY <3>1, <3>2
  <2>4. k \in 1 .. n /\ key(x, k) # key(y, k) /\ Same(k, x, y) /\ Same(k, y, x)
    BY <2>2, <2>3
  <2>5. Less(k, x, y) \/ Less(k, y, x)
    BY <1>1, <2>4
  <2>6. QED
    BY <1>2, <2>4, <2>5
<1>6. \A x, y \in T : Alike(order, x, y) => Alike(order, y, x)
  BY <1>3
<1>7. ASSUME NEW x \in T, NEW y \in T, NEW z \in T,
             Precedes(order, x, y) \/ Alike(order, x, y),
             Precedes(order, y, z) \/ Alike(order, y, z)
      PROVE  \/ Precedes(order, x, z)
             \/ Alike(order, x, z) /\ Alike(order, x, y) /\ Alike(order, y, z)
  <2>1. CASE Alike(order, x, y) /\ Alike(order, y, z)
    BY <1>3, <2>1
  <2>2. CASE Precedes(order, x, y) /\ Alike(order, y, z)
    <3>1. PICK k \in 1 .. n : Same(k, x, y) /\ Less(k, x, y)
      BY <1>2, <2>2
    <3>2. \A j \in 1 .. n : key(y, j) = key(z, j)
      BY <1>3, <2>2
    <3>3. Same(k, x, z)
      BY <3>1, <3>2
    <3>4. Less(k, x, z)
      BY <3>1, <3>2
    <3>5. QED
      BY <1>2, <3>3, <3>4
  <2>3. CASE Alike(order, x, y) /\ Precedes(order, y, z)
    <3>1. PICK k \in 1 .. n : Same(k, y, z) /\ Less(k, y, z)
      BY <1>2, <2>3
    <3>2. \A j \in 1 .. n : key(x, j) = key(y, j)
      BY <1>3, <2>3
    <3>3. Same(k, x, z)
      BY <3>1, <3>2
    <3>4. Less(k, x, z)
      BY <3>1, <3>2
    <3>5. QED
      BY <1>2, <3>3, <3>4
  <2>4. CASE Precedes(order, x, y) /\ Precedes(order, y, z)
    <3>1. PICK k \in 1 .. n : Same(k, x, y) /\ Less(k, x, y)
      BY <1>2, <2>4
    <3>2. PICK m \in 1 .. n : Same(m, y, z) /\ Less(m, y, z)
      BY <1>2, <2>4
    <3>3. CASE k = m
      <4>1. Same(k, x, z)
        BY <3>1, <3>2, <3>3
      <4>2. Less(k, x, z)
        BY <1>1, <3>1, <3>2, <3>3
      <4>3. QED
        BY <1>2, <4>1, <4>2
    <3>4. CASE k < m
      <4>1. k \in 1 .. m - 1 /\ \A j \in 1 .. k - 1 : j \in 1 .. m - 1
        BY <3>4
      <4>2. Same(k, x, z) /\ key(y, k) = key(z, k)
        BY <3>1, <3>2, <4>1
      <4>3. Less(k, x, z)
        BY <3>1, <4>2
      <4>4. QED
        BY <1>2, <4>2, <4>3
    <3>5. CASE m < k
      <4>1. m \in 1 .. k - 1 /\ \A j \in 1 .. m - 1 : j \in 1 .. k - 1
        BY <3>5
      <4>2. Same(m, x, z) /\ key(x, m) = key(y, m)
        BY <3>1, <3>2, <4>1
      <4>3. Less(m, x, z)
        BY <3>2, <4>2
      <4>4. QED
        BY <1>2, <4>2, <4>3
    <3>6. QED
      BY <3>3, <3>4, <3>5
  <2>5. QED
    BY <1>7, <2>1, <2>2, <2>3, <2>4
<1> HIDE DEF Less, Same
<1>8. \A x, y \in T : Precedes(order, x, y) \/ Precedes(order, y, x) \/ Alike(order, x, y)
  BY <1>5
<1>9. QED
  BY <1>4, <1>6, <1>7, <1>8

(* More keys leave the order that there is.                                *)
LEMMA MoreKeys ==
  ASSUME NEW S, NEW o \in Seq(S), NEW w \in Seq(S), IsPrefix(o, w), NEW a, NEW b,
         Precedes(o, a, b)
  PROVE  Precedes(w, a, b)
<1>1. DOMAIN o = 1 .. Len(o) /\ DOMAIN w = 1 .. Len(w) /\ Len(o) \in Nat /\ Len(w) \in Nat
  OBVIOUS
<1>2. Len(o) <= Len(w) /\ \A i \in 1 .. Len(o) : w[i] = o[i]
  <2>1. Len(o) <= Len(w) /\ SubSeq(o, 1, Len(o)) = SubSeq(w, 1, Len(o))
    BY DEF IsPrefix
  <2>2. \A i \in 1 .. Len(o) : SubSeq(o, 1, Len(o))[i] = o[i] /\ SubSeq(w, 1, Len(o))[i] = w[i]
    BY <1>1, <2>1
  <2>3. QED
    BY <2>1, <2>2
<1> DEFINE key(q, row, k) == Cell(row, q[k].field).key
<1>3. PICK k \in 1 .. Len(o) :
        /\ \A j \in 1 .. k - 1 : key(o, a, j) = key(o, b, j)
        /\ IF o[k].descending THEN key(o, a, k) > key(o, b, k) ELSE key(o, a, k) < key(o, b, k)
  BY <1>1 DEF Precedes
<1>4. k \in 1 .. Len(w) /\ \A j \in 1 .. k - 1 : j \in 1 .. Len(o)
  BY <1>1, <1>2
<1>5. \A j \in 1 .. k - 1 : key(w, a, j) = key(w, b, j)
  BY <1>2, <1>3, <1>4
<1>6. IF w[k].descending THEN key(w, a, k) > key(w, b, k) ELSE key(w, a, k) < key(w, b, k)
  BY <1>2, <1>3
<1>7. QED
  BY <1>1, <1>4, <1>5, <1>6 DEF Precedes

-----------------------------------------------------------------------------
(* A row with values in its columns.                                       *)
Typed(row) ==
  /\ row.id \in Int
  /\ \A f \in Maps(Kind) : Cell(row, f).key \in Int
  /\ Shown(row)

(* The tables hold such rows, each rowid once.                             *)
LEMMA TableIs ==
  ASSUME NEW v \in DOMAIN Tables
  PROVE  /\ IsFiniteSet(Table(http.name, v))
         /\ \A a, b \in Table(http.name, v) : a.id = b.id => a = b
         /\ \A row \in Table(http.name, v) : Typed(row)
<1>1. IsTable(Table(http.name, v), Kind)
  <2>1. CASE http.name = "/artists"
    BY <2>1, RequestsAssumption DEF Table, Kind
  <2>2. CASE http.name = "/albums"
    BY <2>2, RequestsAssumption DEF Table, Kind
  <2>3. CASE http.name \notin {"/artists", "/albums"}
    BY <2>3, RequestsAssumption DEF Table, Kind
  <2>4. QED
    BY <2>1, <2>2, <2>3
<1>2. QED
  BY <1>1 DEF IsTable, Typed, Shown

(* What a plan for the query of the request compares rows by.              *)
PlanKeys ==
  [field : Maps(Kind),
   descending : {http.sort[i].descending : i \in 1 .. Len(http.sort)} \cup BOOLEAN]
PlanOrder(plan) == (IF plan.sorted THEN Sorting ELSE <<>>) \o plan.scan

(* Every plan keeps to the order that was asked for.                       *)
LEMMA PlanIs ==
  ASSUME IsRequest(http), NEW plan \in Plans(AskedQuery)
  PROVE  /\ PlanOrder(plan) \in Seq(PlanKeys)
         /\ \A a, b : Precedes(Sorting, a, b) => Precedes(PlanOrder(plan), a, b)
<1>1. Sorting \in Seq(PlanKeys)
  <2>1. Sorting \in Seq(Keys(Kind, http.sort))
    BY QueryIs
  <2>2. Keys(Kind, http.sort) \subseteq PlanKeys
    BY DEF Keys, PlanKeys
  <2> HIDE DEF PlanKeys
  <2>3. QED
    BY <2>1, <2>2
<1>2. Kind = "tracks" => \A d \in BOOLEAN : By(DefaultIndex, d) \in Seq(PlanKeys)
  <2> SUFFICES ASSUME Kind = "tracks", NEW d \in BOOLEAN
               PROVE  By(DefaultIndex, d) \in Seq(PlanKeys)
    OBVIOUS
  <2>1. DOMAIN DefaultIndex = 1 .. 3
    BY DEF DefaultIndex
  <2>2. \A i \in 1 .. 3 : DefaultIndex[i] \in Maps(Kind)
    <3>1. {"album", "track", "title"} \subseteq Maps(Kind)
      BY FieldsAre DEF Maps
    <3>2. \A i \in 1 .. 3 : DefaultIndex[i] \in {"album", "track", "title"}
      BY DEF DefaultIndex
    <3>3. QED
      BY <3>1, <3>2
  <2>3. By(DefaultIndex, d) = [i \in 1 .. 3 |-> [field |-> DefaultIndex[i], descending |-> d]]
    BY <2>1 DEF By
  <2>4. \A i \in 1 .. 3 : [field |-> DefaultIndex[i], descending |-> d] \in PlanKeys
    BY <2>2 DEF PlanKeys
  <2>5. By(DefaultIndex, d) \in [1 .. 3 -> PlanKeys]
    BY <2>3, <2>4
  <2> DEFINE b == By(DefaultIndex, d)
  <2> HIDE DEF PlanKeys, b
  <2>6. 3 \in Nat /\ b \in [1 .. 3 -> PlanKeys]
    BY <2>5 DEF b
  <2>7. b \in Seq(PlanKeys)
    BY <2>6, SeqDef
  <2>8. QED
    BY <2>7 DEF b
<1>3. /\ plan.scan = <<>> \/ (Kind = "tracks" /\ \E d \in BOOLEAN : plan.scan = By(DefaultIndex, d))
      /\ plan.sorted \in BOOLEAN
      /\ plan.sorted \/ Sorting = <<>> \/ IsPrefix(Sorting, plan.scan)
  <2>1. AskedQuery.order = Sorting /\ AskedQuery.format = Kind
    BY DEF AskedQuery
  <2> DEFINE sort == Sorting # <<>>
  <2>2. \/ plan = [sorted |-> sort, scan |-> <<>>]
        \/ Kind = "tracks" /\ plan = [sorted |-> sort, scan |-> By(DefaultIndex, FALSE)]
        \/ /\ Kind = "tracks"
           /\ \E d \in BOOLEAN : /\ plan = [sorted |-> FALSE, scan |-> By(DefaultIndex, d)]
                                 /\ IsPrefix(Sorting, By(DefaultIndex, d))
    BY <2>1 DEF Plans
  <2> HIDE DEF sort
  <2>3. sort \in BOOLEAN /\ (~sort => Sorting = <<>>)
    BY DEF sort
  <2>4. CASE plan = [sorted |-> sort, scan |-> <<>>]
    BY <2>3, <2>4
  <2>5. CASE Kind = "tracks" /\ plan = [sorted |-> sort, scan |-> By(DefaultIndex, FALSE)]
    BY <2>3, <2>5
  <2>6. CASE /\ Kind = "tracks"
             /\ \E d \in BOOLEAN : /\ plan = [sorted |-> FALSE, scan |-> By(DefaultIndex, d)]
                                   /\ IsPrefix(Sorting, By(DefaultIndex, d))
    BY <2>6
  <2>7. QED
    BY <2>2, <2>4, <2>5, <2>6
<1>4. plan.scan \in Seq(PlanKeys)
  <2>1. CASE plan.scan = <<>>
    BY <2>1
  <2>2. CASE plan.scan # <<>>
    <3> HIDE DEF PlanKeys
    <3>1. QED
      BY <1>2, <1>3, <2>2
  <2>3. QED
    BY <2>1, <2>2
<1> DEFINE first == IF plan.sorted THEN Sorting ELSE <<>>
           whole == PlanOrder(plan)
<1>5. first \in Seq(PlanKeys) /\ whole = first \o plan.scan
  BY <1>1 DEF PlanOrder
<1>6. whole \in Seq(PlanKeys)
  <2> HIDE DEF first, PlanKeys, whole
  <2>1. QED
    BY <1>4, <1>5
<1>7. ASSUME NEW a, NEW b, Precedes(Sorting, a, b)
      PROVE  Precedes(whole, a, b)
  <2>1. Sorting # <<>>
    BY <1>7 DEF Precedes
  <2>2. CASE plan.sorted
    <3>1. first = Sorting
      BY <2>2
    <3> DEFINE scan == plan.scan
    <3> HIDE DEF first, PlanKeys, scan, whole
    <3>2. scan \in Seq(PlanKeys) /\ whole = Sorting \o scan
      BY <1>4, <1>5, <3>1 DEF scan
    <3>3. IsPrefix(Sorting, whole)
      <4>1. /\ Len(whole) = Len(Sorting) + Len(scan)
            /\ \A i \in 1 .. Len(Sorting) + Len(scan) :
                 whole[i] = IF i <= Len(Sorting) THEN Sorting[i] ELSE scan[i - Len(Sorting)]
        BY <1>1, <3>2, ConcatProperties
      <4>2. Len(Sorting) \in Nat /\ Len(scan) \in Nat
        BY <1>1, <3>2
      <4>3. \A i \in 1 .. Len(Sorting) : whole[i] = Sorting[i]
        BY <4>1, <4>2
      <4>4. SubSeq(Sorting, 1, Len(Sorting)) = [i \in 1 .. Len(Sorting) |-> Sorting[i]]
        BY <1>1
      <4>5. SubSeq(whole, 1, Len(Sorting)) = [i \in 1 .. Len(Sorting) |-> whole[i]]
        BY <1>6, <4>1, <4>2
      <4>6. QED
        BY <4>1, <4>2, <4>3, <4>4, <4>5 DEF IsPrefix
    <3>4. QED
      BY <1>1, <1>6, <1>7, <3>3, MoreKeys
  <2>3. CASE ~plan.sorted
    <3> DEFINE scan == plan.scan
    <3>1. first = <<>> /\ IsPrefix(Sorting, scan) /\ scan \in Seq(PlanKeys)
      BY <1>3, <1>4, <2>1, <2>3
    <3> HIDE DEF first, PlanKeys, scan
    <3>2. whole = scan
      BY <1>5, <3>1 DEF scan
    <3> HIDE DEF whole
    <3>3. QED
      BY <1>1, <1>6, <1>7, <3>1, <3>2, MoreKeys
  <2>4. QED
    BY <2>2, <2>3
<1>8. QED
  BY <1>6, <1>7

(* The order in which the database goes through rows is one, whatever      *)
(* tables they are of, and leaves no two of one table undecided.           *)
LEMMA BeforeOrders ==
  ASSUME IsRequest(http), NEW plan \in Plans(AskedQuery), NEW T, \A row \in T : Typed(row)
  PROVE  LET before(a, b) == Before(AskedQuery, plan, a, b)
         IN  /\ \A x \in T : ~before(x, x)
             /\ \A x, y, z \in T : before(x, y) /\ before(y, z) => before(x, z)
             /\ \A x, y \in T : x.id # y.id => before(x, y) \/ before(y, x)
             /\ \A x, y \in T : Precedes(Sorting, x, y) => before(x, y)
<1> DEFINE order == PlanOrder(plan)
           backwards == plan.scan # <<>> /\ plan.scan[1].descending
           next(a, b) == IF backwards THEN a.id > b.id ELSE a.id < b.id
           n == Len(order)
<1>1. /\ order \in Seq(PlanKeys) /\ n \in Nat /\ DOMAIN order = 1 .. n
      /\ \A a, b : Precedes(Sorting, a, b) => Precedes(order, a, b)
  BY PlanIs
<1>2. \A a, b : Before(AskedQuery, plan, a, b) <=>
                  \/ Precedes(order, a, b)
                  \/ ~Precedes(order, b, a) /\ next(a, b)
  BY DEF Before, PlanOrder, AskedQuery
<1>3. \A row \in T : row.id \in Int /\ \A k \in 1 .. n : Cell(row, order[k].field).key \in Int
  <2>1. \A k \in 1 .. n : order[k].field \in Maps(Kind)
    <3>1. \A r \in PlanKeys : r.field \in Maps(Kind)
      BY DEF PlanKeys
    <3> HIDE DEF PlanKeys
    <3>2. \A k \in 1 .. n : order[k] \in PlanKeys
      BY <1>1
    <3>3. QED
      BY <3>1, <3>2
  <2>2. QED
    BY <2>1 DEF Typed
<1> HIDE DEF order, n, backwards
<1>4. /\ \A x, y \in T : Precedes(order, x, y) => ~Precedes(order, y, x) /\ ~Alike(order, x, y)
      /\ \A x, y \in T : Precedes(order, x, y) \/ Precedes(order, y, x) \/ Alike(order, x, y)
      /\ \A x, y \in T : Alike(order, x, y) => Alike(order, y, x)
      /\ \A x, y, z \in T : /\ Precedes(order, x, y) \/ Alike(order, x, y)
                            /\ Precedes(order, y, z) \/ Alike(order, y, z)
                            => \/ Precedes(order, x, z)
                               \/ Alike(order, x, z) /\ Alike(order, x, y) /\ Alike(order, y, z)
  BY <1>1, <1>3, PrecedesOrders
<1>5. \A x, y \in T : Before(AskedQuery, plan, x, y) <=>
                        Precedes(order, x, y) \/ (Alike(order, x, y) /\ next(x, y))
  BY <1>2, <1>4
<1>6. /\ \A x \in T : ~next(x, x)
      /\ \A x, y, z \in T : next(x, y) /\ next(y, z) => next(x, z)
      /\ \A x, y \in T : x.id # y.id => next(x, y) \/ next(y, x)
  BY <1>3
<1> HIDE DEF next
<1>7. \A x \in T : ~Before(AskedQuery, plan, x, x)
  BY <1>4, <1>5, <1>6
<1>8. ASSUME NEW x \in T, NEW y \in T, NEW z \in T,
             Before(AskedQuery, plan, x, y), Before(AskedQuery, plan, y, z)
      PROVE  Before(AskedQuery, plan, x, z)
  BY <1>4, <1>5, <1>6, <1>8
<1>9. \A x, y \in T : x.id # y.id =>
        Before(AskedQuery, plan, x, y) \/ Before(AskedQuery, plan, y, x)
  BY <1>4, <1>5, <1>6
<1>10. QED
  BY <1>1, <1>5, <1>7, <1>8, <1>9

-----------------------------------------------------------------------------
(* The rows of a version that a query is about, and the order of the       *)
(* database among rows.                                                    *)
Chosen(name, q, v) == {row \in Table(name, v) : Selected(q, row)}
Ordered(q, plan, T) == {p \in T \X T : Before(q, plan, p[1], p[2])}

(* The statement s of the query q is being read: the table was at the      *)
(* version from when it was started, and is at the version to.             *)
Walk(name, id, q, s, from, to) ==
  LET before(a, b) == Before(q, s.plan, a, b)
      T == Chosen(name, q, to)
      rest(v) == {row \in Chosen(name, q, v) : before(Last(s.read), row)}
  IN  /\ DOMAIN s = {"query", "plan", "sorted", "read"}
      /\ s.query = q /\ s.plan \in Plans(q) /\ Prepared(q)
      /\ from \in DOMAIN Tables /\ to \in DOMAIN Tables /\ from <= to
      (* What was read was in the table meanwhile, and comes in the order. *)
      /\ s.read \in Seq(UNION {Chosen(name, q, v) : v \in from .. to})
      /\ \A i, j \in DOMAIN s.read : i < j => before(s.read[i], s.read[j])
      /\ q.limit = -1 \/ Len(s.read) <= q.limit
      (* The sorter has those that come after the last one.                *)
      /\ s.plan.sorted /\ s.read # <<>> => \E v \in from .. to : s.sorted = rest(v)
      (* A table left alone was read from the offset on without a gap.     *)
      /\ from = to => \A i \in DOMAIN s.read :
           Place(Ordered(q, s.plan, T), T, s.read[i]) = q.offset + i - 1
      (* What was in the table all the time was read or is still to come.  *)
      /\ q.offset = 0 => \A row \in T :
           (\A v \in from .. to : row \in Chosen(name, q, v)) =>
             \/ row \in Range(s.read)
             \/ s.read = <<>>
             \/ before(Last(s.read), row) /\ (s.plan.sorted => row \in s.sorted)
      (* An index is read no further than it needs to be.                  *)
      /\ name = "/track/index" => \A i \in 1 .. Len(s.read) - 1 : s.read[i].id # id

(* The rows chosen are finitely many, and the database orders them.        *)
LEMMA ChosenIs ==
  ASSUME IsRequest(http), NEW plan \in Plans(AskedQuery), NEW v \in DOMAIN Tables
  PROVE  LET T == Chosen(http.name, AskedQuery, v)
             L == Ordered(AskedQuery, plan, T)
         IN  /\ IsFiniteSet(T) /\ Orders(L, T)
             /\ \A row \in T : Typed(row)
             /\ \A x, y \in T : <<x, y>> \in L <=> Before(AskedQuery, plan, x, y)
             /\ \A x, y \in T : x.id = y.id => x = y
<1> DEFINE T == Chosen(http.name, AskedQuery, v)
           L == Ordered(AskedQuery, plan, T)
<1>1. T \in SUBSET Table(http.name, v)
  BY DEF Chosen
<1>2. IsFiniteSet(T)
  BY <1>1, TableIs, FS_Subset
<1>3. (\A row \in T : Typed(row)) /\ \A x, y \in T : x.id = y.id => x = y
  BY <1>1, TableIs
<1> HIDE DEF T
<1>4. \A x, y \in T : <<x, y>> \in L <=> Before(AskedQuery, plan, x, y)
  BY DEF Ordered
<1> HIDE DEF L
<1>5. Orders(L, T)
  <2>1. /\ \A x \in T : ~Before(AskedQuery, plan, x, x)
        /\ \A x, y, z \in T : /\ Before(AskedQuery, plan, x, y)
                              /\ Before(AskedQuery, plan, y, z)
                              => Before(AskedQuery, plan, x, z)
        /\ \A x, y \in T : x.id # y.id => \/ Before(AskedQuery, plan, x, y)
                                          \/ Before(AskedQuery, plan, y, x)
    BY <1>3, BeforeOrders
  <2>2. QED
    BY <1>3, <1>4, <2>1 DEF Orders
<1>6. QED
  BY <1>2, <1>3, <1>4, <1>5 DEF L, T

(* The rows that were ever chosen: among them the order is one, too.       *)
LEMMA EverChosen ==
  ASSUME IsRequest(http), NEW plan \in Plans(AskedQuery),
         NEW from \in DOMAIN Tables, NEW to \in DOMAIN Tables
  PROVE  LET U == UNION {Chosen(http.name, AskedQuery, v) : v \in from .. to}
             before(a, b) == Before(AskedQuery, plan, a, b)
         IN  /\ \A row \in U : Typed(row)
             /\ \A x \in U : ~before(x, x)
             /\ \A x, y, z \in U : before(x, y) /\ before(y, z) => before(x, z)
             /\ \A v \in from .. to : v \in DOMAIN Tables
<1> DEFINE U == UNION {Chosen(http.name, AskedQuery, v) : v \in from .. to}
<1>1. \A v \in from .. to : v \in DOMAIN Tables
  BY RequestsAssumption
<1>2. \A row \in U : Typed(row)
  BY <1>1, ChosenIs
<1> HIDE DEF U
<1>3. /\ \A x \in U : ~Before(AskedQuery, plan, x, x)
      /\ \A x, y, z \in U : /\ Before(AskedQuery, plan, x, y)
                            /\ Before(AskedQuery, plan, y, z)
                            => Before(AskedQuery, plan, x, z)
  BY <1>2, BeforeOrders
<1>4. QED
  BY <1>1, <1>2, <1>3 DEF U

(* The members of the query asked for.                                     *)
LEMMA AskedFields ==
  /\ AskedQuery.format = Kind /\ AskedQuery.filters = Filters /\ AskedQuery.order = Sorting
  /\ AskedQuery.limit = (IF Bounded /\ http.limit > 0 THEN http.limit ELSE -1)
  /\ AskedQuery.offset = (IF Bounded /\ http.offset > 0 THEN http.offset ELSE 0)
  /\ IsRequest(http) => /\ AskedQuery.limit \in Int /\ AskedQuery.offset \in Nat
                        /\ AskedQuery.limit = -1 \/ AskedQuery.limit > 0
BY DEF AskedQuery, IsRequest

(* Query_start.                                                            *)
LEMMA WalkStarts ==
  ASSUME IsRequest(http), NEW plan \in Plans(AskedQuery), Prepared(AskedQuery),
         NEW to \in DOMAIN Tables, NEW id
  PROVE  Walk(http.name, id, AskedQuery, QueryStart(AskedQuery, plan), to, to)
<1> DEFINE q == AskedQuery
           s == QueryStart(q, plan)
<1>1. /\ DOMAIN s = {"query", "plan", "sorted", "read"}
      /\ s.query = q /\ s.plan = plan /\ s.read = <<>>
  BY DEF QueryStart
<1>2. q.limit \in Int /\ (q.limit = -1 \/ q.limit > 0)
  BY AskedFields
<1> HIDE DEF q, s
<1>3. DOMAIN s.read = {} /\ Len(s.read) = 0 /\ to \in Nat /\ 1 .. Len(s.read) - 1 = {}
      /\ \A S : s.read \in Seq(S)
  BY <1>1, RequestsAssumption
<1>4. q.limit = -1 \/ Len(s.read) <= q.limit
  BY <1>2, <1>3
<1>5. QED
  BY <1>1, <1>3, <1>4 DEF Walk, q, s

(* The scan goes on under a statement.                                     *)
LEMMA WalkScanned ==
  ASSUME NEW name, NEW id, NEW q, NEW s, NEW from, NEW to,
         Walk(name, id, q, s, from, to), to + 1 \in DOMAIN Tables
  PROVE  Walk(name, id, q, s, from, to + 1)
<1>1. from \in Nat /\ to \in Nat /\ from <= to /\ from # to + 1 /\ from <= to + 1
  BY RequestsAssumption DEF Walk
<1>2. from .. to \subseteq from .. to + 1 /\ to \in from .. to
  BY <1>1
<1> DEFINE U == UNION {Chosen(name, q, v) : v \in from .. to}
           W == UNION {Chosen(name, q, v) : v \in from .. to + 1}
<1>3. U \subseteq W /\ s.read \in Seq(U)
  BY <1>2 DEF Walk
<1>4. s.read \in Seq(W)
  <2> HIDE DEF U, W
  <2>1. QED
    BY <1>3, SeqMonotonic
<1>5. s.plan.sorted /\ s.read # <<>> => \E v \in from .. to + 1 :
        s.sorted = {row \in Chosen(name, q, v) : Before(q, s.plan, Last(s.read), row)}
  BY <1>2 DEF Walk
<1>6. ASSUME q.offset = 0, NEW row \in Chosen(name, q, to + 1),
             \A v \in from .. to + 1 : row \in Chosen(name, q, v)
      PROVE  \/ row \in Range(s.read)
             \/ s.read = <<>>
             \/ Before(q, s.plan, Last(s.read), row) /\ (s.plan.sorted => row \in s.sorted)
  BY <1>2, <1>6 DEF Walk
<1> HIDE DEF U, W
<1>7. QED
  BY <1>1, <1>4, <1>5, <1>6 DEF Walk, W

-----------------------------------------------------------------------------
(* What is left of a statement: the rows of one version that come after    *)
(* the last one, or from the offset on; and none that was chosen all the   *)
(* time is missing.                                                        *)
LEMMA LeftIs ==
  ASSUME IsRequest(http), NEW id, NEW s, NEW from, NEW to,
         Walk(http.name, id, AskedQuery, s, from, to),
         Len(s.read) # AskedQuery.limit
  PROVE  LET q == AskedQuery
             left == Left(s, Table(http.name, to))
         IN  /\ \E v \in from .. to :
                  LET T == Chosen(http.name, q, v)
                      L == Ordered(q, s.plan, T)
                  IN  left = IF s.read # <<>> THEN {row \in T : Before(q, s.plan, Last(s.read), row)}
                             ELSE {row \in T : Place(L, T, row) >= q.offset}
             /\ q.offset = 0 => \A row \in Chosen(http.name, q, to) :
                  (\A v \in from .. to : row \in Chosen(http.name, q, v)) =>
                    row \in Range(s.read) \/ row \in left
<1> DEFINE q == AskedQuery
           table == Table(http.name, to)
           T == Chosen(http.name, q, to)
           L == Ordered(q, s.plan, T)
           left == Left(s, table)
           coming == Coming(s, table)
           rest(v) == {row \in Chosen(http.name, q, v) : Before(q, s.plan, Last(s.read), row)}
<1>1. /\ s.query = q /\ s.plan \in Plans(q) /\ to \in DOMAIN Tables
      /\ from \in DOMAIN Tables /\ from <= to
      /\ s.plan.sorted /\ s.read # <<>> => \E v \in from .. to : s.sorted = rest(v)
      /\ q.offset = 0 => \A row \in T :
           (\A v \in from .. to : row \in Chosen(http.name, q, v)) =>
             \/ row \in Range(s.read)
             \/ s.read = <<>>
             \/ Before(q, s.plan, Last(s.read), row) /\ (s.plan.sorted => row \in s.sorted)
  BY DEF Walk
<1>2. to \in from .. to
  BY <1>1, RequestsAssumption
<1>3. /\ IsFiniteSet(T) /\ Orders(L, T)
      /\ \A x, y \in T : <<x, y>> \in L <=> Before(q, s.plan, x, y)
  BY <1>1, ChosenIs
<1>4. s.read # <<>> => left = coming
  BY <1>1 DEF Left
<1>5. s.read = <<>> => left = {row \in T : Place(L, T, row) >= q.offset}
  <2> SUFFICES ASSUME s.read = <<>> PROVE left = {row \in T : Place(L, T, row) >= q.offset}
    OBVIOUS
  <2>1. coming = T
    BY <1>1 DEF Coming, Chosen
  <2>2. left = {row \in coming :
                  Cardinality({r \in coming : Before(s.query, s.plan, r, row)}) >= q.offset}
    BY <1>1 DEF Left
  <2> HIDE DEF coming, left, T, L
  <2>3. ASSUME NEW row \in T
        PROVE  {r \in T : Before(q, s.plan, r, row)} = Under(L, T, row)
    BY <1>3 DEF Under
  <2>4. \A row \in T : Cardinality({r \in T : Before(q, s.plan, r, row)}) = Place(L, T, row)
    BY <2>3 DEF Place
  <2>5. QED
    BY <1>1, <2>1, <2>2, <2>4
<1>6. s.read # <<>> /\ ~s.plan.sorted => left = rest(to)
  <2>1. s.read # <<>> /\ ~s.plan.sorted => coming = rest(to)
    BY <1>1 DEF Coming, Chosen
  <2>2. QED
    BY <1>4, <2>1
<1>7. s.read # <<>> /\ s.plan.sorted => left = s.sorted
  BY <1>4 DEF Coming
<1> HIDE DEF left, coming
<1>8. \E v \in from .. to :
        left = IF s.read # <<>> THEN rest(v)
               ELSE {row \in Chosen(http.name, q, v) :
                       Place(Ordered(q, s.plan, Chosen(http.name, q, v)),
                             Chosen(http.name, q, v), row)
                         >= q.offset}
  <2>1. CASE s.read = <<>>
    BY <1>2, <1>5, <2>1
  <2>2. CASE s.read # <<>> /\ ~s.plan.sorted
    BY <1>2, <1>6, <2>2
  <2>3. CASE s.read # <<>> /\ s.plan.sorted
    BY <1>1, <1>7, <2>3
  <2>4. QED
    BY <2>1, <2>2, <2>3
<1>9. ASSUME q.offset = 0, NEW row \in T, \A v \in from .. to : row \in Chosen(http.name, q, v)
      PROVE  row \in Range(s.read) \/ row \in left
  <2>1. Place(L, T, row) \in Nat
    BY <1>3, PlaceGrows
  <2>2. CASE s.read = <<>>
    BY <1>5, <1>9, <2>1, <2>2
  <2>3. CASE s.read # <<>> /\ ~s.plan.sorted
    BY <1>1, <1>6, <1>9, <2>3
  <2>4. CASE s.read # <<>> /\ s.plan.sorted
    BY <1>1, <1>7, <1>9, <2>4
  <2>5. QED
    BY <2>2, <2>3, <2>4
<1>10. QED
  BY <1>8, <1>9 DEF left

-----------------------------------------------------------------------------
(* sqlite3_step takes the first of the rows that are left.                 *)
LEMMA WalkGoes ==
  ASSUME IsRequest(http), NEW id, NEW s, NEW from, NEW to,
         Walk(http.name, id, AskedQuery, s, from, to),
         Left(s, Table(http.name, to)) # {},
         http.name = "/track/index" /\ Len(s.read) > 0 => Last(s.read).id # id
  PROVE  Walk(http.name, id, AskedQuery, QueryNext(s, Table(http.name, to)), from, to)
<1> DEFINE q == AskedQuery
           plan == s.plan
           read == s.read
           left == Left(s, Table(http.name, to))
           before(a, b) == Before(q, plan, a, b)
           row == CHOOSE x \in left : \A r \in left \ {x} : before(x, r)
           U == UNION {Chosen(http.name, q, v) : v \in from .. to}
           sorted == IF plan.sorted THEN left \ {row} ELSE {}
           new == QueryNext(s, Table(http.name, to))
           N == Len(read)
<1>1. /\ DOMAIN s = {"query", "plan", "sorted", "read"}
      /\ s.query = q /\ plan \in Plans(q) /\ Prepared(q)
      /\ from \in DOMAIN Tables /\ to \in DOMAIN Tables /\ from <= to
      /\ read \in Seq(U)
      /\ \A i, j \in DOMAIN read : i < j => before(read[i], read[j])
      /\ q.limit = -1 \/ N <= q.limit
      /\ http.name = "/track/index" => \A i \in 1 .. N - 1 : read[i].id # id
  BY DEF Walk
<1>2. N # q.limit
  BY <1>1 DEF Left
<1>3. PICK v \in from .. to :
        LET T == Chosen(http.name, q, v)
            L == Ordered(q, plan, T)
        IN  left = IF read # <<>> THEN {r \in T : before(Last(read), r)}
                   ELSE {r \in T : Place(L, T, r) >= q.offset}
  BY <1>2, LeftIs, ZenonT(60)
<1> DEFINE T == Chosen(http.name, q, v)
           L == Ordered(q, plan, T)
<1>4. /\ v \in DOMAIN Tables /\ T \subseteq U /\ from \in Nat /\ to \in Nat /\ v \in Nat
      /\ to \in from .. to
  BY <1>1, RequestsAssumption
<1>5. /\ IsFiniteSet(T) /\ Orders(L, T)
      /\ \A x, y \in T : <<x, y>> \in L <=> before(x, y)
  BY <1>1, <1>4, ChosenIs
<1>6. /\ \A x \in U : ~before(x, x)
      /\ \A x, y, z \in U : before(x, y) /\ before(y, z) => before(x, z)
  BY <1>1, EverChosen
<1>7. left \in SUBSET T /\ left # {}
  BY <1>3
<1>8. row \in left /\ \A r \in left \ {row} : before(row, r)
  <2> HIDE DEF left, L, T
  <2>1. PICK x \in left : \A r \in left \ {x} : <<x, r>> \in L
    BY <1>5, <1>7, HasFirst
  <2>2. \A r \in left \ {x} : before(x, r)
    BY <1>5, <1>7, <2>1
  <2>3. QED
    BY <2>1, <2>2
<1>9. new = [s EXCEPT !.sorted = sorted, !.read = Append(read, row)]
  <2> HIDE DEF left
  <2>1. left = Left(s, Table(http.name, to))
    BY DEF left
  <2>2. new = LET x == CHOOSE x \in left : \A r \in left \ {x} : Before(s.query, s.plan, x, r)
              IN  [s EXCEPT !.sorted = IF s.plan.sorted THEN left \ {x} ELSE {},
                            !.read = Append(@, x)]
    BY <2>1 DEF QueryNext
  <2>3. QED
    BY <1>1, <2>2
<1>10. q.offset = 0 => \A r \in Chosen(http.name, q, to) :
         (\A w \in from .. to : r \in Chosen(http.name, q, w)) => r \in Range(read) \/ r \in left
  BY <1>2, LeftIs
<1>11. q.offset \in Nat /\ q.limit \in Int
  BY AskedFields
<1> HIDE DEF row, left, sorted, new, U, q
<1>12. /\ DOMAIN new = {"query", "plan", "sorted", "read"}
       /\ new.query = q /\ new.plan = plan /\ new.sorted = sorted /\ new.read = Append(read, row)
  BY <1>1, <1>9
<1> DEFINE more == Append(read, row)
<1>13. /\ row \in U /\ row \in T
       /\ more \in Seq(U) /\ Len(more) = N + 1 /\ N \in Nat
       /\ DOMAIN read = 1 .. N /\ DOMAIN more = 1 .. N + 1
       /\ \A i \in 1 .. N : more[i] = read[i] /\ read[i] \in U
       /\ more[N + 1] = row /\ more # <<>> /\ Last(more) = row
  <2>1. row \in U /\ row \in T
    BY <1>4, <1>7, <1>8
  <2>2. N \in Nat /\ DOMAIN read = 1 .. N /\ \A i \in 1 .. N : read[i] \in U
    BY <1>1, ElementOfSeq
  <2>3. /\ more \in Seq(U) /\ Len(more) = N + 1
        /\ \A i \in 1 .. N : more[i] = read[i]
        /\ more[N + 1] = row
    BY <1>1, <2>1, AppendProperties
  <2>4. DOMAIN more = 1 .. N + 1
    BY <2>3
  <2>5. more # <<>> /\ Last(more) = row
    <3>1. Len(<<>>) = 0 /\ Len(more) # 0
      BY <2>2, <2>3
    <3>2. QED
      BY <2>3, <3>1 DEF Last
  <2>6. QED
    BY <2>1, <2>2, <2>3, <2>4, <2>5
<1>14. read = <<>> <=> N = 0
  BY <1>1
<1>15. read # <<>> => /\ Last(read) = read[N] /\ N \in 1 .. N /\ Last(read) \in U
                      /\ before(Last(read), row)
  <2> SUFFICES ASSUME read # <<>> PROVE /\ Last(read) = read[N] /\ N \in 1 .. N /\ Last(read) \in U
                                        /\ before(Last(read), row)
    OBVIOUS
  <2>1. Last(read) = read[N] /\ N \in 1 .. N
    BY <1>13, <1>14 DEF Last
  <2>2. QED
    BY <1>3, <1>8, <1>13, <2>1
<1> HIDE DEF T, L, more, N
<1>16. \A i, j \in DOMAIN more : i < j => before(more[i], more[j])
  <2> SUFFICES ASSUME NEW i \in 1 .. N + 1, NEW j \in 1 .. N + 1, i < j
               PROVE  before(more[i], more[j])
    BY <1>13
  <2>1. CASE j \in 1 .. N
    <3>1. i \in 1 .. N
      BY <1>13, <2>1
    <3>2. QED
      BY <1>1, <1>13, <2>1, <3>1
  <2>2. CASE j = N + 1
    <3>1. i \in 1 .. N /\ read # <<>>
      BY <1>13, <1>14, <2>2
    <3>2. CASE i = N
      BY <1>13, <1>15, <2>2, <3>1, <3>2
    <3>3. CASE i # N
      <4>1. before(read[i], read[N])
        BY <1>1, <1>13, <1>15, <3>1, <3>3
      <4>2. QED
        BY <1>6, <1>13, <1>15, <2>2, <3>1, <4>1
    <3>4. QED
      BY <3>2, <3>3
  <2>3. QED
    BY <1>13, <2>1, <2>2
<1>17. q.limit = -1 \/ N + 1 <= q.limit
  BY <1>1, <1>2, <1>11, <1>13 DEF N
<1>18. left \ {row} = {r \in T : before(row, r)}
  <2>1. ASSUME NEW r \in T, before(row, r)
        PROVE  r \in left /\ r # row
    <3>1. r # row
      BY <1>6, <1>13, <2>1
    <3>2. CASE read # <<>>
      <4>1. before(Last(read), r)
        BY <1>4, <1>6, <1>13, <1>15, <2>1, <3>2 DEF T
      <4>2. QED
        BY <1>3, <3>1, <3>2, <4>1 DEF T
    <3>3. CASE read = <<>>
      <4>1. Place(L, T, row) < Place(L, T, r)
        BY <1>5, <1>13, <2>1, PlaceGrows
      <4>2. Place(L, T, row) >= q.offset
        BY <1>3, <1>8, <3>3 DEF T, L
      <4>3. Place(L, T, row) \in Nat /\ Place(L, T, r) \in Nat
        BY <1>5, <1>13, PlaceGrows
      <4>4. Place(L, T, r) >= q.offset
        BY <1>11, <4>1, <4>2, <4>3
      <4>5. QED
        BY <1>3, <3>1, <3>3, <4>4 DEF T, L
    <3>4. QED
      BY <3>2, <3>3
  <2>2. QED
    BY <1>7, <1>8, <2>1
<1>19. plan.sorted => sorted = {r \in Chosen(http.name, q, v) : before(row, r)}
  BY <1>18 DEF sorted, T
<1>20. ASSUME from = to
       PROVE  v = to /\ \A i \in DOMAIN more : Place(L, T, more[i]) = q.offset + i - 1
  <2>1. v = to
    BY <1>4, <1>20
  <2>2. \A i \in 1 .. N : Place(L, T, read[i]) = q.offset + i - 1
    BY <1>13, <1>20, <2>1 DEF Walk, T, L, q
  <2>3. /\ Place(L, T, row) \in Nat
        /\ \A r \in T : Place(L, T, r) \in Nat
    BY <1>5, <1>13, PlaceGrows
  <2>4. Place(L, T, row) = q.offset + N
    <3>1. CASE read = <<>>
      <4>1. N = 0 /\ Place(L, T, row) >= q.offset
        BY <1>3, <1>8, <1>14, <3>1 DEF T, L
      <4>2. ASSUME NEW y \in T \ {row}, Place(L, T, y) >= q.offset
            PROVE  <<row, y>> \in L
        <5>1. y \in left \ {row}
          BY <1>3, <3>1, <4>2 DEF T, L
        <5>2. QED
          BY <1>5, <1>8, <1>13, <4>2, <5>1
      <4>3. Place(L, T, row) = q.offset
        BY <1>5, <1>11, <1>13, <4>1, <4>2, FromPlace
      <4>4. QED
        BY <1>11, <4>1, <4>3
    <3>2. CASE read # <<>>
      <4> DEFINE last == Last(read)
                 k == q.offset + N
      <4>1. last = read[N] /\ N \in 1 .. N /\ before(last, row) /\ last \in T
        <5>1. last \in U
          BY <1>15, <3>2
        <5>2. U = T
          BY <1>4, <1>20, <2>1 DEF U, T
        <5>3. QED
          BY <1>15, <3>2, <5>1, <5>2
      <4>2. Place(L, T, last) = k - 1 /\ k \in Nat
        <5>1. Place(L, T, last) = q.offset + N - 1
          BY <2>2, <4>1
        <5> HIDE DEF last
        <5>2. QED
          BY <1>11, <1>13, <5>1, SMTT(30)
      <4> HIDE DEF last, k
      <4>3. <<last, row>> \in L
        BY <1>5, <1>13, <4>1
      <4>4. Place(L, T, last) < Place(L, T, row)
        BY <1>5, <1>13, <4>1, <4>3, PlaceGrows
      <4>5. Place(L, T, row) >= k
        BY <2>3, <4>2, <4>4
      <4>6. ASSUME NEW y \in T \ {row}, Place(L, T, y) >= k
            PROVE  <<row, y>> \in L
        <5>1. Place(L, T, last) < Place(L, T, y)
          BY <2>3, <4>2, <4>6
        <5>2. before(last, y)
          BY <1>5, <4>1, <4>6, <5>1, PlaceGrows
        <5>3. y \in left \ {row}
          BY <1>3, <3>2, <4>6, <5>2 DEF T, last
        <5>4. QED
          BY <1>5, <1>8, <1>13, <4>6, <5>3
      <4>7. Place(L, T, row) = k
        BY <1>5, <1>13, <4>2, <4>5, <4>6, FromPlace
      <4>8. QED
        BY <4>7 DEF k
    <3>3. QED
      BY <3>1, <3>2
  <2>5. ASSUME NEW i \in 1 .. N + 1
        PROVE  Place(L, T, more[i]) = q.offset + i - 1
    <3>1. CASE i \in 1 .. N
      BY <1>13, <2>2, <3>1
    <3>2. CASE i = N + 1
      <4>1. q.offset + i - 1 = q.offset + N
        BY <1>11, <1>13, <3>2
      <4>2. QED
        BY <1>13, <2>4, <3>2, <4>1
    <3>3. QED
      BY <1>13, <3>1, <3>2
  <2>6. QED
    BY <1>13, <2>1, <2>5
<1>21. ASSUME q.offset = 0, NEW r \in Chosen(http.name, q, to),
              \A w \in from .. to : r \in Chosen(http.name, q, w)
       PROVE  \/ r \in Range(more)
              \/ before(row, r) /\ (plan.sorted => r \in sorted)
  <2>1. CASE r \in Range(read)
    <3>1. PICK i \in 1 .. N : r = read[i]
      BY <1>13, <2>1 DEF Range
    <3>2. i \in DOMAIN more /\ more[i] = r
      BY <1>13, <3>1
    <3>3. QED
      BY <3>2 DEF Range
  <2>2. CASE r = row
    <3>1. N + 1 \in DOMAIN more
      BY <1>13
    <3>2. QED
      BY <1>13, <2>2, <3>1 DEF Range
  <2>3. CASE r \in left /\ r # row
    BY <1>8, <2>3 DEF sorted
  <2>4. QED
    BY <1>10, <1>21, <2>1, <2>2, <2>3
<1>22. http.name = "/track/index" => \A i \in 1 .. N : more[i].id # id
  <2> SUFFICES ASSUME http.name = "/track/index", NEW i \in 1 .. N PROVE read[i].id # id
    BY <1>13
  <2>1. CASE i = N
    BY <1>13, <1>14, <1>15, <2>1 DEF N
  <2>2. CASE i # N
    <3>1. i \in 1 .. N - 1
      BY <1>13, <2>2
    <3>2. QED
      BY <1>1, <3>1 DEF N
  <2>3. QED
    BY <2>1, <2>2
<1>23. Len(more) - 1 = N
  BY <1>13
<1>24. /\ new.read = more
       /\ \A i \in 1 .. Len(more) - 1 : i \in 1 .. N
  BY <1>12, <1>23 DEF more
<1>25. QED
  <2>1. from = to => \A i \in DOMAIN new.read :
          Place(Ordered(q, new.plan, Chosen(http.name, q, to)),
                Chosen(http.name, q, to), new.read[i])
            = q.offset + i - 1
    BY <1>12, <1>20, <1>24 DEF T, L
  <2>2. \E w \in from .. to : new.plan.sorted /\ new.read # <<>> =>
          new.sorted = {r \in Chosen(http.name, q, w) : Before(q, new.plan, Last(new.read), r)}
    BY <1>12, <1>13, <1>19, <1>24
  <2>3. q.offset = 0 => \A r \in Chosen(http.name, q, to) :
          (\A w \in from .. to : r \in Chosen(http.name, q, w)) =>
            \/ r \in Range(new.read)
            \/ new.read = <<>>
            \/ Before(q, new.plan, Last(new.read), r) /\ (new.plan.sorted => r \in new.sorted)
    BY <1>12, <1>13, <1>21, <1>24
  <2>4. http.name = "/track/index" => \A i \in 1 .. Len(new.read) - 1 : new.read[i].id # id
    BY <1>22, <1>24
  <2>5. /\ new.read \in Seq(UNION {Chosen(http.name, q, w) : w \in from .. to})
        /\ \A i, j \in DOMAIN new.read : i < j => Before(q, new.plan, new.read[i], new.read[j])
        /\ q.limit = -1 \/ Len(new.read) <= q.limit
    BY <1>12, <1>13, <1>16, <1>17, <1>24 DEF U
  <2> HIDE DEF plan
  <2>6. new.plan = plan /\ plan \in Plans(q)
    BY <1>1, <1>12
  <2>7. Walk(http.name, id, q, new, from, to)
    BY <1>1, <1>12, <2>1, <2>2, <2>3, <2>4, <2>5, <2>6 DEF Walk
  <2>8. QED
    BY <2>7 DEF new, q

-----------------------------------------------------------------------------
(* Without anything misbound the rows chosen are those that fit.           *)
LEMMA ChosenFit ==
  ASSUME IsRequest(http), ~Misbound, NEW v \in DOMAIN Tables,
         NEW query, query.format = Kind, query.filters = Filters
  PROVE  Chosen(http.name, query, v) = Fitting(v)
<1>1. \A row \in Table(http.name, v) : Shown(row)
  BY TableIs DEF Typed
<1>2. \A row \in Table(http.name, v) : Selected(query, row) <=> Fits(row)
  BY <1>1, SelectedFits
<1>3. QED
  BY <1>2 DEF Chosen, Fitting

(* The place of a row in the order of the database is one that the sorting *)
(* asked for allows it.                                                    *)
LEMMA PlaceAllowed ==
  ASSUME IsRequest(http), NEW plan \in Plans(AskedQuery), NEW v \in DOMAIN Tables,
         NEW row \in Chosen(http.name, AskedQuery, v)
  PROVE  LET T == Chosen(http.name, AskedQuery, v)
         IN  Place(Ordered(AskedQuery, plan, T), T, row) \in Places(row, T)
<1> DEFINE T == Chosen(http.name, AskedQuery, v)
           L == Ordered(AskedQuery, plan, T)
           A == {r \in T : Precedes(Sorting, r, row)}
           B == {r \in T : ~Precedes(Sorting, row, r)}
           M == Under(L, T, row)
<1>1. /\ IsFiniteSet(T) /\ \A r \in T : Typed(r)
      /\ \A x, y \in T : <<x, y>> \in L <=> Before(AskedQuery, plan, x, y)
  BY ChosenIs
<1> HIDE DEF T, L
<1>2. row \in T
  BY DEF T
<1>3. /\ \A x \in T : ~Before(AskedQuery, plan, x, x)
      /\ \A x, y, z \in T : /\ Before(AskedQuery, plan, x, y)
                            /\ Before(AskedQuery, plan, y, z)
                            => Before(AskedQuery, plan, x, z)
      /\ \A x, y \in T : Precedes(Sorting, x, y) => Before(AskedQuery, plan, x, y)
  BY <1>1, BeforeOrders
<1>4. M \in SUBSET T /\ A \in SUBSET M
  BY <1>1, <1>2, <1>3 DEF Under
<1>5. row \notin M /\ M \cup {row} \in SUBSET B /\ B \in SUBSET T
  BY <1>1, <1>2, <1>3 DEF Under
<1> HIDE DEF M, A, B
<1>6. IsFiniteSet(M) /\ IsFiniteSet(B)
  BY <1>1, <1>4, <1>5, FS_Subset
<1>7. IsFiniteSet(A) /\ Cardinality(A) <= Cardinality(M)
  BY <1>4, <1>6, FS_Subset
<1>8. Cardinality(M) + 1 <= Cardinality(B)
  <2>1. Cardinality(M \cup {row}) = Cardinality(M) + 1
    BY <1>5, <1>6, FS_AddElement
  <2>2. Cardinality(M \cup {row}) <= Cardinality(B)
    BY <1>5, <1>6, FS_Subset
  <2>3. QED
    BY <2>1, <2>2
<1>9. Cardinality(A) \in Nat /\ Cardinality(M) \in Nat /\ Cardinality(B) \in Nat
  BY <1>6, <1>7, FS_CardinalityType
<1>10. Cardinality(M) \in Cardinality(A) .. Cardinality(B) - 1
  BY <1>7, <1>8, <1>9
<1>11. QED
  BY <1>10 DEF Places, Place, A, B, M, T, L

(* What was read of a statement.                                           *)
LEMMA WalkRead ==
  ASSUME IsRequest(http), NEW id, NEW s, NEW from, NEW to,
         Walk(http.name, id, AskedQuery, s, from, to)
  PROVE  /\ Len(s.read) \in Nat /\ DOMAIN s.read = 1 .. Len(s.read)
         /\ \A k \in DOMAIN s.read :
              \E v \in from .. to : s.read[k] \in Chosen(http.name, AskedQuery, v)
         /\ \A i, j \in DOMAIN s.read : s.read[i] = s.read[j] => i = j
         /\ \A row \in Range(s.read) : Cardinality({k \in DOMAIN s.read : s.read[k] = row}) = 1
         /\ Cardinality(Range(s.read)) = Len(s.read)
<1> DEFINE U == UNION {Chosen(http.name, AskedQuery, v) : v \in from .. to}
           read == s.read
           N == Len(s.read)
<1>1. /\ read \in Seq(U) /\ s.plan \in Plans(AskedQuery)
      /\ from \in DOMAIN Tables /\ to \in DOMAIN Tables
      /\ \A i, j \in DOMAIN read : i < j => Before(AskedQuery, s.plan, read[i], read[j])
  BY DEF Walk
<1>2. \A x \in U : ~Before(AskedQuery, s.plan, x, x)
  BY <1>1, EverChosen
<1>3. \A v \in from .. to : Chosen(http.name, AskedQuery, v) \subseteq U
  OBVIOUS
<1>4. \A x \in U : \E v \in from .. to : x \in Chosen(http.name, AskedQuery, v)
  OBVIOUS
<1> HIDE DEF U, read, N
<1>5. N \in Nat /\ DOMAIN read = 1 .. N /\ \A i \in 1 .. N : read[i] \in U
  BY <1>1, ElementOfSeq DEF N, read
<1>6. ASSUME NEW i \in DOMAIN read, NEW j \in DOMAIN read, read[i] = read[j]
      PROVE  i = j
  <2>1. i \in Nat /\ j \in Nat /\ ~(i < j) /\ ~(j < i)
    BY <1>1, <1>2, <1>5, <1>6
  <2>2. QED
    BY <2>1
<1>7. ASSUME NEW row \in Range(read)
      PROVE  Cardinality({k \in DOMAIN read : read[k] = row}) = 1
  <2>1. PICK k \in DOMAIN read : read[k] = row
    BY DEF Range
  <2>2. {i \in DOMAIN read : read[i] = row} = {k}
    BY <1>6, <2>1
  <2>3. QED
    BY <2>2, FS_Singleton
<1>8. Cardinality(Range(read)) = N
  <2> DEFINE f == [i \in 1 .. N |-> read[i]]
  <2>1. f \in Bijection(1 .. N, Range(read))
    BY <1>5, <1>6 DEF Bijection, Injection, Surjection, IsInjective, Range
  <2>2. ExistsBijection(1 .. N, Range(read))
    BY <2>1 DEF ExistsBijection
  <2>3. QED
    BY <1>5, <2>2, FS_CountingElements
<1>9. QED
  BY <1>4, <1>5, <1>6, <1>7, <1>8 DEF N, read

(* How many rows are read of a table left alone, and in which places.      *)
Most(query, T) ==
  Cardinality(T) - (IF query.offset < Cardinality(T) THEN query.offset ELSE Cardinality(T))

(* All of them from the offset on, up to the limit, each in a place that   *)
(* the sorting asked for allows.                                           *)
LEMMA WalkCounts ==
  ASSUME IsRequest(http), NEW id, NEW s, NEW to,
         Walk(http.name, id, AskedQuery, s, to, to)
  PROVE  LET q == AskedQuery
             T == Chosen(http.name, q, to)
             most == Most(q, T)
         IN  /\ \A k \in DOMAIN s.read :
                  s.read[k] \in T /\ q.offset + k - 1 \in Places(s.read[k], T)
             /\ Left(s, Table(http.name, to)) = {} =>
                  Len(s.read) = IF q.limit > 0 /\ q.limit < most THEN q.limit ELSE most
<1> DEFINE q == AskedQuery
           T == Chosen(http.name, q, to)
           L == Ordered(q, s.plan, T)
           N == Len(s.read)
           c == Cardinality(T)
<1>1. /\ s.plan \in Plans(q) /\ to \in DOMAIN Tables /\ to \in Nat
      /\ q.limit = -1 \/ N <= q.limit
      /\ \A i \in DOMAIN s.read : Place(L, T, s.read[i]) = q.offset + i - 1
  BY RequestsAssumption DEF Walk
<1>2. to .. to = {to}
  BY <1>1
<1>3. /\ N \in Nat /\ DOMAIN s.read = 1 .. N
      /\ \A i \in 1 .. N : s.read[i] \in T
  BY <1>2, WalkRead
<1>4. /\ q.offset \in Nat /\ q.limit \in Int /\ (q.limit = -1 \/ q.limit > 0)
  BY AskedFields
<1>5. ASSUME NEW k \in 1 .. N
      PROVE  q.offset + k - 1 \in Places(s.read[k], T)
  <2>1. Place(L, T, s.read[k]) \in Places(s.read[k], T)
    BY <1>1, <1>3, PlaceAllowed
  <2>2. QED
    BY <1>1, <1>3, <2>1
<1>6. /\ IsFiniteSet(T) /\ Orders(L, T)
      /\ \A x, y \in T : <<x, y>> \in L <=> Before(q, s.plan, x, y)
  BY <1>1, ChosenIs
<1>7. c \in Nat /\ \A x \in T : Place(L, T, x) \in 0 .. c - 1
  BY <1>6, PlaceGrows
<1>8. N > 0 => q.offset + N <= c
  <2> SUFFICES ASSUME N > 0 PROVE q.offset + N <= c
    OBVIOUS
  <2>1. N \in 1 .. N
    BY <1>3
  <2>2. q.offset + N - 1 \in 0 .. c - 1
    BY <1>1, <1>3, <1>7, <2>1
  <2>3. QED
    BY <1>3, <1>4, <1>7, <2>2
<1>9. ASSUME N # q.limit, Left(s, Table(http.name, to)) = {}
      PROVE  c <= q.offset + N
  <2>1. PICK w \in to .. to :
          {} = IF s.read # <<>>
               THEN {r \in Chosen(http.name, q, w) : Before(q, s.plan, Last(s.read), r)}
               ELSE {r \in Chosen(http.name, q, w) :
                       Place(Ordered(q, s.plan, Chosen(http.name, q, w)),
                             Chosen(http.name, q, w), r)
                         >= q.offset}
    BY <1>9, LeftIs
  <2>2. {} = IF s.read # <<>> THEN {r \in T : Before(q, s.plan, Last(s.read), r)}
             ELSE {r \in T : Place(L, T, r) >= q.offset}
    BY <1>2, <2>1
  <2> HIDE DEF L, T, q, N, c
  <2>3. SUFFICES ASSUME ~(c <= q.offset + N) PROVE FALSE
    OBVIOUS
  <2>4. q.offset + N \in 0 .. c - 1
    BY <1>3, <1>4, <1>7, <2>3
  <2>5. PICK x \in T : Place(L, T, x) = q.offset + N
    BY <1>6, <2>4, PlaceTaken DEF c
  <2>6. CASE s.read = <<>>
    <3>1. N = 0
      BY <2>6 DEF N
    <3>2. QED
      BY <1>4, <2>2, <2>5, <2>6, <3>1
  <2>7. CASE s.read # <<>>
    <3>1. N # 0
      <4>1. s.read \in Seq(UNION {Chosen(http.name, q, v) : v \in to .. to})
        BY DEF Walk, q
      <4>2. QED
        BY <2>7, <4>1, EmptySeq DEF N
    <3>2. N \in 1 .. N /\ Last(s.read) = s.read[N]
      BY <1>3, <3>1 DEF Last, N
    <3>3. Last(s.read) \in T /\ Place(L, T, Last(s.read)) = q.offset + N - 1
      BY <1>1, <1>3, <3>2
    <3>4. Place(L, T, Last(s.read)) < Place(L, T, x)
      BY <1>3, <1>4, <2>5, <3>3
    <3>5. Before(q, s.plan, Last(s.read), x)
      BY <1>6, <2>5, <3>3, <3>4, PlaceGrows
    <3>6. QED
      BY <2>2, <2>5, <2>7, <3>5
  <2>8. QED
    BY <2>6, <2>7
<1>10. ASSUME Left(s, Table(http.name, to)) = {}
       PROVE  N = IF q.limit > 0 /\ q.limit < Most(q, T) THEN q.limit ELSE Most(q, T)
  <2>1. Most(q, T) = IF q.offset < c THEN c - q.offset ELSE 0
    BY <1>4, <1>7 DEF Most
  <2>2. N # q.limit => c <= q.offset + N
    BY <1>9, <1>10
  <2> HIDE DEF q, T, N, c
  <2>3. QED
    BY <1>1, <1>3, <1>4, <1>7, <1>8, <2>1, <2>2, SMTT(30)
<1>11. QED
  BY <1>3, <1>5, <1>10

-----------------------------------------------------------------------------
(* What a request asks for stays while it is answered.                     *)
LEMMA AskedKept ==
  ASSUME http' = http
  PROVE  /\ Kind' = Kind /\ Bounded' = Bounded /\ AskedQuery' = AskedQuery
         /\ Filtered' = Filtered /\ Found' = Found
         /\ Malformed' = Malformed /\ Misbound' = Misbound
         /\ \A v : Fitting(v)' = Fitting(v)
         /\ \A row, rows : Places(row, rows)' = Places(row, rows)
<1>1. Kind' = Kind /\ Bounded' = Bounded /\ Found' = Found
  BY DEF Kind, Bounded, Found
<1>2. \A f : On(f)' = On(f)
  BY DEF On
<1>3. \A f : (Given(f)' <=> Given(f)) /\ Value(f)' = Value(f)
  BY <1>2 DEF Given, Value
<1>4. \A f : FilterOn(f)' = FilterOn(f)
  BY <1>3 DEF FilterOn
<1>5. Filters' = Filters
  BY <1>4 DEF Filters
<1>6. Sorting' = Sorting
  BY <1>1 DEF Sorting
<1>7. AskedQuery' = AskedQuery
  BY <1>1, <1>5, <1>6 DEF AskedQuery
<1>8. Filtered' = Filtered
  BY <1>1 DEF Filtered, ParseQueryFilters
<1>9. Malformed' = Malformed
  BY <1>1, <1>3 DEF Malformed
<1>10. Misbound' = Misbound
  BY <1>1, <1>3 DEF Misbound
<1>11. \A row : Fits(row)' = Fits(row)
  BY <1>1, <1>3 DEF Fits
<1>12. \A v : Fitting(v)' = Fitting(v)
  BY <1>11 DEF Fitting
<1>13. \A row, rows : Places(row, rows)' = Places(row, rows)
  BY <1>6 DEF Places
<1>14. QED
  BY <1>1, <1>7, <1>8, <1>9, <1>10, <1>12, <1>13

(* An answer that matched still does.                                      *)
LEMMA MatchesKept ==
  ASSUME http' = http
  PROVE  /\ ListMatches(answer', seen') => ListMatches(answer, seen)'
         /\ IndexMatches(answer', seen') => IndexMatches(answer, seen)'
<1>1. /\ \A v : Fitting(v)' = Fitting(v)
      /\ \A row, rows : Places(row, rows)' = Places(row, rows)
  BY AskedKept
<1>2. ListMatches(answer', seen') => ListMatches(answer, seen)'
  BY <1>1 DEF ListMatches
<1>3. IndexMatches(answer', seen') => IndexMatches(answer, seen)'
  BY <1>1 DEF IndexMatches
<1>4. QED
  BY <1>2, <1>3

-----------------------------------------------------------------------------
(* The query that is counted has the same filters.                         *)
LEMMA FilteredFields ==
  ASSUME IsRequest(http)
  PROVE  Filtered.format = Kind /\ Filtered.filters = Filters
BY FilteredIs

(* A list that was read to its end.                                        *)
LEMMA ListSent ==
  ASSUME IsRequest(http), ~Misbound, http.name \in Lists, NEW to,
         Walk(http.name, http.id, AskedQuery, stmt, seen.start, to),
         Left(stmt, Table(http.name, to)) = {},
         NEW reply, NEW at, reply.rows = stmt.read, at.start = seen.start, at.end = to,
         http.total => /\ at.count \in DOMAIN Tables
                       /\ reply.total = Cardinality(Chosen(http.name, Filtered, at.count))
  PROVE  ListMatches(reply, at)
<1> DEFINE q == AskedQuery
           from == seen.start
           read == stmt.read
           all == Fitting(to)
           offset == IF http.offset > 0 THEN http.offset ELSE 0
           most == Cardinality(all) - (IF offset < Cardinality(all) THEN offset ELSE Cardinality(all))
<1>1. /\ from \in DOMAIN Tables /\ to \in DOMAIN Tables /\ from <= to
      /\ stmt.plan \in Plans(q)
  BY DEF Walk
<1>2. \A v \in from .. to : v \in DOMAIN Tables
  BY <1>1, RequestsAssumption
<1>3. /\ Filtered.format = Kind /\ Filtered.filters = Filters
      /\ q.format = Kind /\ q.filters = Filters
  BY FilteredFields, AskedFields
<1>4. \A v \in DOMAIN Tables : Chosen(http.name, q, v) = Fitting(v)
  BY <1>3, ChosenFit
<1>5. http.total => reply.total = Cardinality(Fitting(at.count))
  BY <1>3, ChosenFit
<1>6. /\ q.offset = offset
      /\ q.limit = IF http.limit > 0 THEN http.limit ELSE -1
      /\ q.offset \in Nat /\ q.limit \in Int /\ http.limit \in Int
  BY AskedFields DEF Bounded, IsRequest
<1>7. /\ Len(read) \in Nat
      /\ \A k \in DOMAIN read : \E v \in from .. to : read[k] \in Chosen(http.name, q, v)
      /\ \A row \in Range(read) : Cardinality({k \in DOMAIN read : read[k] = row}) = 1
      /\ Cardinality(Range(read)) = Len(read)
  BY WalkRead
<1>8. \A k \in DOMAIN read : \E v \in from .. to : read[k] \in Fitting(v)
  BY <1>2, <1>4, <1>7
<1>9. ASSUME ~(http.limit > 0 \/ offset > 0), NEW row \in all,
             \A v \in from .. to : row \in Fitting(v)
      PROVE  Cardinality({k \in DOMAIN read : read[k] = row}) = 1
  <2>1. q.limit = -1 /\ q.offset = 0
    BY <1>6, <1>9
  <2>2. Len(read) # q.limit
    BY <1>7, <2>1
  <2>3. row \in Chosen(http.name, q, to) /\ \A v \in from .. to : row \in Chosen(http.name, q, v)
    BY <1>1, <1>2, <1>4, <1>9
  <2>4. row \in Range(read)
    BY <2>1, <2>2, <2>3, LeftIs
  <2>5. QED
    BY <1>7, <2>4
<1>10. ASSUME from = to
       PROVE  /\ Len(read) = IF http.limit > 0 /\ http.limit < most THEN http.limit ELSE most
              /\ \A k \in DOMAIN read : offset + k - 1 \in Places(read[k], all)
  <2>1. Walk(http.name, http.id, AskedQuery, stmt, to, to)
    BY <1>10
  <2>2. Chosen(http.name, q, to) = all
    BY <1>1, <1>4
  <2>3. Most(q, all) = most
    BY <1>6 DEF Most
  <2> HIDE DEF all, most
  <2>4. /\ \A k \in DOMAIN read : q.offset + k - 1 \in Places(read[k], all)
        /\ Len(read) = IF q.limit > 0 /\ q.limit < most THEN q.limit ELSE most
    BY <2>1, <2>2, <2>3, WalkCounts
  <2> HIDE DEF offset, q
  <2>5. Len(read) = IF http.limit > 0 /\ http.limit < most THEN http.limit ELSE most
    BY <1>6, <2>4
  <2>6. QED
    BY <1>6, <2>4, <2>5
<1> HIDE DEF read
<1>11. reply.rows = read
  BY DEF read
<1>12. QED
  BY <1>5, <1>7, <1>8, <1>9, <1>10, <1>11 DEF ListMatches

(* An index that was looked for until it was found, or to the end.         *)
LEMMA IndexSent ==
  ASSUME IsRequest(http), ~Misbound, http.name = "/track/index", NEW to,
         Walk(http.name, http.id, AskedQuery, stmt, seen.start, to),
         Wanted \/ Left(stmt, Table(http.name, to)) = {},
         NEW reply, NEW at, at.start = seen.start, at.end = to,
         reply.index = IF Wanted THEN Len(stmt.read) - 1 ELSE -1
  PROVE  IndexMatches(reply, at)
<1> SUFFICES ASSUME seen.start = to
             PROVE  IF \E row \in Fitting(to) : row.id = http.id
                    THEN \E row \in Fitting(to) :
                           row.id = http.id /\ reply.index \in Places(row, Fitting(to))
                    ELSE reply.index = -1
  BY DEF IndexMatches
<1> DEFINE q == AskedQuery
           read == stmt.read
           all == Fitting(to)
           N == Len(read)
<1>1. to \in DOMAIN Tables /\ \A i \in 1 .. N - 1 : read[i].id # http.id
  BY DEF Walk
<1>2. Chosen(http.name, q, to) = all
  BY <1>1, ChosenFit, AskedFields
<1>3. q.limit = -1 /\ q.offset = 0
  BY AskedFields DEF Bounded, Lists
<1>4. N \in Nat /\ DOMAIN read = 1 .. N
  BY WalkRead
<1>5. \A k \in 1 .. N : read[k] \in all /\ k - 1 \in Places(read[k], all)
  <2>1. \A k \in 1 .. N : read[k] \in all /\ 0 + k - 1 \in Places(read[k], all)
    BY <1>2, <1>3, <1>4, WalkCounts
  <2>2. \A k \in 1 .. N : 0 + k - 1 = k - 1
    BY <1>4
  <2>3. QED
    BY <2>1, <2>2
<1> HIDE DEF all, N
<1>6. CASE Wanted
  <2>1. N > 0 /\ Last(read).id = http.id
    BY <1>6 DEF Wanted, N
  <2>2. N \in 1 .. N /\ Last(read) = read[N]
    BY <1>4, <2>1 DEF Last, N
  <2>3. read[N] \in all /\ read[N].id = http.id /\ N - 1 \in Places(read[N], all)
    BY <1>5, <2>1, <2>2
  <2>4. reply.index = N - 1
    BY <1>6 DEF N
  <2>5. QED
    BY <2>3, <2>4 DEF all
<1>7. CASE ~Wanted
  <2>1. Left(stmt, Table(http.name, to)) = {} /\ reply.index = -1
    BY <1>7
  <2>2. ASSUME NEW row \in all, row.id = http.id
        PROVE  FALSE
    <3>1. to .. to = {to}
      BY <1>1, RequestsAssumption
    <3>2. row \in Range(read)
      <4>1. Len(stmt.read) # q.limit
        BY <1>3, <1>4 DEF N
      <4>2. Walk(http.name, http.id, AskedQuery, stmt, to, to)
        OBVIOUS
      <4>3. row \in Chosen(http.name, q, to) /\ \A v \in to .. to : row \in Chosen(http.name, q, v)
        BY <1>2, <3>1
      <4>4. row \in Range(read) \/ row \in Left(stmt, Table(http.name, to))
        BY <1>3, <4>1, <4>2, <4>3, LeftIs
      <4>5. QED
        BY <2>1, <4>4
    <3>3. PICK i \in 1 .. N : read[i] = row
      BY <1>4, <3>2 DEF Range
    <3>4. i = N
      <4>1. i \notin 1 .. N - 1
        BY <1>1, <2>2, <3>3 DEF N
      <4>2. QED
        BY <1>4, <3>3, <4>1
    <3>5. Len(stmt.read) > 0 /\ Last(stmt.read).id = http.id
      BY <1>4, <2>2, <3>3, <3>4 DEF Last, N
    <3>6. QED
      BY <1>7, <3>5 DEF Wanted
  <2>3. QED
    BY <2>1, <2>2 DEF all
<1>8. QED
  BY <1>6, <1>7

-----------------------------------------------------------------------------
(* The total is that of the rows chosen when they were counted.            *)
Counted ==
  http.total => /\ seen.count \in DOMAIN Tables
                /\ answer.total = Cardinality(Chosen(http.name, Filtered, seen.count))

(* What holds while a request is worked on: until the answer is sent, what *)
(* was counted and read so far is what was asked for.                      *)
Looked ==
  /\ IsRequest(http)
  /\ DOMAIN seen = {"count", "start", "end"}
  /\ pc = "counted" => Bounded /\ Counted
  /\ pc = "reading" =>
       /\ Bounded => Counted
       /\ ~Bounded => http.name = "/track/index"
       /\ Walk(http.name, http.id, AskedQuery, stmt, seen.start, version)

(* The empty request is one, and one stays one with a session.             *)
LEMMA RequestIsOne ==
  /\ IsRequest(Request)
  /\ \A r, id : IsRequest(r) => IsRequest([r EXCEPT !.session = id])
<1>1. IsRequest(Request)
  <2>1. /\ Request.filters = <<>> /\ Request.sort = <<>> /\ Request.total = FALSE
        /\ Request.limit = 0 /\ Request.offset = 0 /\ Request.id = 0
    BY DEF Request
  <2>2. Len(<<>>) = 0 /\ 1 .. 0 = {} /\ DOMAIN <<>> = 1 .. 0 /\ {0} \subseteq Int
    OBVIOUS
  <2>3. /\ {Len(Request.filters), Len(Request.sort)} \subseteq Nat
        /\ DOMAIN Request.filters = 1 .. Len(Request.filters)
        /\ DOMAIN Request.sort = 1 .. Len(Request.sort)
    BY <2>1, <2>2
  <2>4. DOMAIN Request.filters = {}
    BY <2>1, <2>2
  <2>5. Request.total \in BOOLEAN /\ {Request.limit, Request.offset, Request.id} \subseteq Int
    BY <2>1, <2>2
  <2>6. QED
    BY <2>3, <2>4, <2>5 DEF IsRequest
<1>2. ASSUME NEW r, NEW id, IsRequest(r)
      PROVE  IsRequest([r EXCEPT !.session = id])
  <2> DEFINE s == [r EXCEPT !.session = id]
  <2>1. DOMAIN Request = {"name", "longer", "share", "cookie", "login", "filters",
                          "sort", "total", "limit", "offset", "id", "session"}
    BY DEF Request
  <2>2. DOMAIN r = DOMAIN Request
    BY <1>2 DEF IsRequest
  <2>3. /\ DOMAIN s = DOMAIN Request
        /\ s.filters = r.filters /\ s.sort = r.sort /\ s.total = r.total
        /\ s.limit = r.limit /\ s.offset = r.offset /\ s.id = r.id
    BY <2>1, <2>2
  <2> HIDE DEF s
  <2>4. IsRequest(s)
    BY <1>2, <2>3 DEF IsRequest
  <2>5. QED
    BY <2>4 DEF s
<1>3. QED
  BY <1>1, <1>2

(* An answer that is no list and no index is none of theirs.               *)
LEMMA SentOther ==
  ASSUME http' = http, \/ pc' # "answered" \/ answer'.status \in {"400", "403"}
                       \/ Found \cap (Lists \cup {"/track/index"}) = {}
  PROVE  AnswersMatch'
<1>1. Found' = Found
  BY AskedKept
<1>2. QED
  BY <1>1 DEF AnswersMatch

(* An error is right if a list of ids was malformed.                       *)
LEMMA SentError ==
  ASSUME http' = http, answer'.status = "500", Malformed
  PROVE  AnswersMatch'
<1>1. Malformed' = Malformed
  BY AskedKept
<1>2. Malformed' = TRUE
  BY <1>1 DEF Malformed
<1>3. QED
  BY <1>2 DEF AnswersMatch

(* A list or an index is right if it matches and no list was malformed.    *)
LEMMA SentRight ==
  ASSUME http' = http, answer'.status = "200", ~Malformed,
         ~Misbound /\ http.name \in Lists => ListMatches(answer', seen'),
         ~Misbound /\ http.name = "/track/index" => IndexMatches(answer', seen')
  PROVE  AnswersMatch'
<1>1. Malformed' = Malformed /\ Misbound' = Misbound
  BY AskedKept
<1>2. Malformed' = FALSE
  BY <1>1 DEF Malformed
<1>3. ~Misbound' /\ http'.name \in Lists => ListMatches(answer, seen)'
  BY <1>1, MatchesKept
<1>4. ~Misbound' /\ http'.name = "/track/index" => IndexMatches(answer, seen)'
  BY <1>1, MatchesKept
<1>5. QED
  BY <1>2, <1>3, <1>4 DEF AnswersMatch

-----------------------------------------------------------------------------
(* The rows are counted, or their query is malformed.                      *)
LEMMA MethodListLooked ==
  ASSUME IInv, Looked, MethodList
  PROVE  Looked' /\ AnswersMatch'
<1> DEFINE chosen == Chosen(http.name, Filtered, version)
<1>1. /\ http' = http /\ http.name \in Lists /\ pc = "attached"
      /\ seen' = [seen EXCEPT !.count = version]
      /\ IF ParseTotal < 0 THEN pc' = "answered" /\ answer' = Reply("500")
         ELSE pc' = "counted" /\ answer' = [answer EXCEPT !.total = ParseTotal]
  BY DEF MethodList, Sends, Calls, Found
<1>2. /\ IsRequest(http) /\ DOMAIN seen = {"count", "start", "end"}
      /\ version \in DOMAIN Tables /\ DOMAIN answer = {"status", "total", "index", "rows"}
  BY DEF Looked, IInv, Bounds
<1>3. Prepared(Filtered) <=> ~Malformed
  BY <1>2, FilteredFields, PreparedIs
<1>4. Cardinality(chosen) \in Nat
  <2>1. IsFiniteSet(Table(http.name, version)) /\ chosen \in SUBSET Table(http.name, version)
    BY <1>2, TableIs DEF Chosen
  <2>2. QED
    BY <2>1, FS_Subset, FS_CardinalityType
<1>5. http.total => ParseTotal = IF Prepared(Filtered) THEN Cardinality(chosen) ELSE -1
  BY DEF ParseTotal, QueryCount, Chosen
<1>6. ~http.total => ParseTotal = 0
  BY DEF ParseTotal
<1> HIDE DEF chosen
<1>7. DOMAIN seen' = {"count", "start", "end"} /\ seen'.count = version
  BY <1>1, <1>2
<1>8. CASE ParseTotal < 0
  <2>1. Malformed
    BY <1>2, <1>3, <1>4, <1>5, <1>6, <1>8 DEF IsRequest
  <2>2. pc' = "answered" /\ answer'.status = "500"
    BY <1>1, <1>8 DEF Reply
  <2>3. QED
    BY <1>1, <1>2, <1>7, <2>1, <2>2, SentError DEF Looked
<1>9. CASE ~(ParseTotal < 0)
  <2> DEFINE total == ParseTotal
  <2>1. pc' = "counted" /\ answer' = [answer EXCEPT !.total = total]
    BY <1>1, <1>9
  <2>2. http.total => total = Cardinality(chosen)
    BY <1>5, <1>9
  <2> HIDE DEF total
  <2>3. answer'.total = total
    BY <1>2, <2>1
  <2>4. Filtered' = Filtered /\ Bounded' = Bounded
    BY <1>1, AskedKept
  <2>5. Counted'
    BY <1>1, <1>2, <1>7, <2>2, <2>3, <2>4 DEF Counted, chosen
  <2>6. QED
    BY <1>1, <1>2, <1>7, <2>1, <2>4, <2>5 DEF Looked, Bounded, AnswersMatch
<1>10. QED
  BY <1>8, <1>9

(* The statement of a list, or of an index, is started.                    *)
LEMMA StartLooked ==
  ASSUME IInv, Looked, http' = http, version' = version,
         seen' = [seen EXCEPT !.start = version],
         IF Prepared(AskedQuery)
         THEN /\ \E plan \in Plans(AskedQuery) : stmt' = QueryStart(AskedQuery, plan)
              /\ pc' = "reading" /\ answer' = answer
         ELSE pc' = "answered" /\ answer' = Reply("500"),
         Bounded => Counted, ~Bounded => http.name = "/track/index"
  PROVE  Looked' /\ AnswersMatch'
<1>1. /\ IsRequest(http) /\ DOMAIN seen = {"count", "start", "end"} /\ version \in DOMAIN Tables
  BY DEF Looked, IInv, Bounds
<1>2. DOMAIN seen' = {"count", "start", "end"} /\ seen'.start = version /\ seen'.count = seen.count
  BY <1>1
<1>3. Prepared(AskedQuery) <=> ~Malformed
  BY <1>1, AskedFields, PreparedIs
<1>4. CASE Prepared(AskedQuery)
  <2>1. PICK plan \in Plans(AskedQuery) : stmt' = QueryStart(AskedQuery, plan)
    BY <1>4
  <2>2. pc' = "reading" /\ answer' = answer
    BY <1>4
  <2>3. Walk(http.name, http.id, AskedQuery, QueryStart(AskedQuery, plan), version, version)
    BY <1>1, <1>4, WalkStarts
  <2>4. Bounded' = Bounded /\ AskedQuery' = AskedQuery /\ Filtered' = Filtered
    BY AskedKept
  <2>5. Counted' <=> Counted
    BY <1>2, <2>2, <2>4 DEF Counted
  <2>6. Walk(http.name, http.id, AskedQuery, stmt, seen.start, version)'
    BY <1>2, <2>1, <2>3, <2>4
  <2>7. QED
    BY <1>1, <1>2, <2>2, <2>4, <2>5, <2>6 DEF Looked, AnswersMatch
<1>5. CASE ~Prepared(AskedQuery)
  <2>1. pc' = "answered" /\ answer' = Reply("500")
    BY <1>5
  <2>2. answer'.status = "500"
    BY <2>1 DEF Reply
  <2>3. QED
    BY <1>1, <1>2, <1>3, <1>5, <2>1, <2>2, SentError DEF Looked
<1>6. QED
  BY <1>4, <1>5

(* The list is started with bounds and a sorting.                          *)
LEMMA MethodListStartLooked ==
  ASSUME IInv, Looked, MethodListStart
  PROVE  Looked' /\ AnswersMatch'
<1> DEFINE query == QuerySortFromString(ParseQueryBounds(Filtered), http.sort)
<1>1. /\ http' = http /\ version' = version
      /\ seen' = [seen EXCEPT !.start = version] /\ pc = "counted"
      /\ IF Prepared(query)
         THEN /\ \E plan \in Plans(query) : stmt' = QueryStart(query, plan)
              /\ pc' = "reading" /\ answer' = answer
         ELSE pc' = "answered" /\ answer' = Reply("500")
  BY DEF MethodListStart, Sends
<1>2. Bounded /\ Counted /\ IsRequest(http)
  BY <1>1 DEF Looked
<1>3. query = AskedQuery
  BY <1>2, QueryIs
<1> HIDE DEF query
<1>4. QED
  BY <1>1, <1>2, <1>3, StartLooked

(* An index is looked for without bounds, or its id is missing.            *)
LEMMA MethodTrackIndexLooked ==
  ASSUME IInv, Looked, MethodTrackIndex
  PROVE  Looked' /\ AnswersMatch'
<1> DEFINE query == QuerySortFromString(Filtered, http.sort)
<1>1. /\ http' = http /\ version' = version
      /\ seen' = [seen EXCEPT !.start = version] /\ http.name = "/track/index"
      /\ IF http.id <= 0 THEN pc' = "answered" /\ answer' = Reply("400")
         ELSE IF Prepared(query)
         THEN /\ \E plan \in Plans(query) : stmt' = QueryStart(query, plan)
              /\ pc' = "reading" /\ answer' = answer
         ELSE pc' = "answered" /\ answer' = Reply("500")
  BY DEF MethodTrackIndex, Sends, Calls, Found
<1>2. ~Bounded /\ IsRequest(http) /\ DOMAIN seen = {"count", "start", "end"}
  BY <1>1 DEF Looked, Bounded, Lists
<1>3. query = AskedQuery
  BY <1>2, QueryIs
<1> HIDE DEF query
<1>4. CASE http.id <= 0
  <2>1. pc' = "answered" /\ answer'.status = "400"
    BY <1>1, <1>4 DEF Reply
  <2>2. DOMAIN seen' = {"count", "start", "end"}
    BY <1>1, <1>2
  <2>3. QED
    BY <1>1, <1>2, <2>1, <2>2, SentOther DEF Looked
<1>5. CASE ~(http.id <= 0)
  BY <1>1, <1>2, <1>3, <1>5, StartLooked
<1>6. QED
  BY <1>4, <1>5

(* One more row is read.                                                   *)
LEMMA ReadRowLooked ==
  ASSUME IInv, Looked, ReadRow
  PROVE  Looked' /\ AnswersMatch'
<1>1. /\ http' = http /\ version' = version /\ seen' = seen /\ answer' = answer /\ pc' = pc
      /\ pc = "reading" /\ ~Wanted /\ Left(stmt, Table(http.name, version)) # {}
      /\ stmt' = QueryNext(stmt, Table(http.name, version))
  BY DEF ReadRow, Rows
<1>2. /\ IsRequest(http) /\ (Bounded => Counted) /\ (~Bounded => http.name = "/track/index")
      /\ Walk(http.name, http.id, AskedQuery, stmt, seen.start, version)
      /\ DOMAIN seen = {"count", "start", "end"}
  BY <1>1 DEF Looked
<1>3. Walk(http.name, http.id, AskedQuery, QueryNext(stmt, Table(http.name, version)),
           seen.start, version)
  BY <1>1, <1>2, WalkGoes DEF Wanted
<1>4. Bounded' = Bounded /\ AskedQuery' = AskedQuery /\ Filtered' = Filtered
  BY <1>1, AskedKept
<1>5. Counted' <=> Counted
  BY <1>1, <1>4 DEF Counted
<1>6. Walk(http.name, http.id, AskedQuery, stmt, seen.start, version)'
  BY <1>1, <1>3, <1>4
<1>7. QED
  BY <1>1, <1>2, <1>4, <1>5, <1>6 DEF Looked, AnswersMatch

(* All is read, and sent.                                                  *)
LEMMA ReadAllLooked ==
  ASSUME IInv, Looked, ReadAll
  PROVE  Looked' /\ AnswersMatch'
<1> DEFINE index == IF Wanted THEN Len(stmt.read) - 1
                    ELSE IF http.name = "/track/index" THEN -1 ELSE 0
           rows == IF http.name = "/track/index" THEN <<>> ELSE stmt.read
<1>1. /\ http' = http /\ pc = "reading" /\ pc' = "answered"
      /\ Wanted \/ Left(stmt, Table(http.name, version)) = {}
      /\ seen' = [seen EXCEPT !.end = version]
      /\ answer' = [answer EXCEPT !.status = "200", !.index = index, !.rows = rows]
  BY DEF ReadAll, Rows, Sends
<1>2. /\ IsRequest(http) /\ (Bounded => Counted) /\ (~Bounded => http.name = "/track/index")
      /\ Walk(http.name, http.id, AskedQuery, stmt, seen.start, version)
      /\ DOMAIN seen = {"count", "start", "end"}
      /\ DOMAIN answer = {"status", "total", "index", "rows"}
  BY <1>1 DEF Looked, IInv, Bounds
<1>3. http.name = "/track/index" => index = IF Wanted THEN Len(stmt.read) - 1 ELSE -1
  OBVIOUS
<1>4. http.name \in Lists => ~Wanted /\ rows = stmt.read
  BY DEF Lists, Wanted
<1> HIDE DEF index, rows
<1>5. /\ answer'.status = "200" /\ answer'.index = index /\ answer'.rows = rows
      /\ answer'.total = answer.total
      /\ seen'.count = seen.count /\ seen'.start = seen.start /\ seen'.end = version
      /\ DOMAIN seen' = {"count", "start", "end"}
  BY <1>1, <1>2
<1>6. ~Malformed
  <2>1. Prepared(AskedQuery)
    BY <1>2 DEF Walk
  <2>2. QED
    BY <1>2, <2>1, AskedFields, PreparedIs
<1>7. ASSUME ~Misbound, http.name \in Lists
      PROVE  ListMatches(answer', seen')
  <2> DEFINE reply == answer'
             at == seen'
  <2>1. /\ reply.rows = stmt.read /\ at.start = seen.start /\ at.end = version
        /\ Left(stmt, Table(http.name, version)) = {}
        /\ http.total => /\ at.count \in DOMAIN Tables
                         /\ reply.total = Cardinality(Chosen(http.name, Filtered, at.count))
    BY <1>1, <1>2, <1>4, <1>5, <1>7 DEF Bounded, Counted
  <2> HIDE DEF reply, at
  <2>2. ListMatches(reply, at)
    BY <1>2, <1>7, <2>1, ListSent
  <2>3. QED
    BY <2>2 DEF reply, at
<1>8. ASSUME ~Misbound, http.name = "/track/index"
      PROVE  IndexMatches(answer', seen')
  <2> DEFINE reply == answer'
             at == seen'
  <2>1. /\ at.start = seen.start /\ at.end = version
        /\ reply.index = IF Wanted THEN Len(stmt.read) - 1 ELSE -1
    BY <1>3, <1>5, <1>8
  <2> HIDE DEF reply, at
  <2>2. IndexMatches(reply, at)
    BY <1>1, <1>2, <1>8, <2>1, IndexSent
  <2>3. QED
    BY <2>2 DEF reply, at
<1>9. AnswersMatch'
  BY <1>1, <1>5, <1>6, <1>7, <1>8, SentRight
<1>10. QED
  BY <1>1, <1>2, <1>5, <1>9 DEF Looked

-----------------------------------------------------------------------------
(* At the start nothing was asked for and nothing is answered.             *)
LEMMA LookedInit == Init => Looked /\ AnswersMatch
<1> SUFFICES ASSUME Init PROVE Looked /\ AnswersMatch
  OBVIOUS
<1>1. http = Request /\ seen = Unseen /\ pc = "idle"
  BY DEF Init
<1>2. DOMAIN seen = {"count", "start", "end"}
  BY <1>1 DEF Unseen
<1>3. QED
  BY <1>1, <1>2, RequestIsOne DEF Looked, AnswersMatch

(* A request is taken in, with whatever it asks for.                       *)
LEMMA ReceiveLooked ==
  ASSUME IInv, Looked, Receive
  PROVE  Looked' /\ AnswersMatch'
<1>1. PICK r \in Asked(noauth) : http' = [r EXCEPT !.session = Attached(r)]
  BY DEF Receive
<1>2. IsRequest(r)
  BY RequestsAssumption DEF IInv, Bounds
<1>3. IsRequest(http')
  BY <1>1, <1>2, RequestIsOne
<1>4. pc' = "attached" /\ seen' = seen
  BY DEF Receive, reading
<1>5. IsRequest(http)'
  BY <1>3 DEF IsRequest, Request
<1>6. QED
  BY <1>4, <1>5 DEF Looked, AnswersMatch

(* A method that reads no table, or none at all, answers.                  *)
LEMMA OthersLooked ==
  ASSUME IInv, Looked,
         \/ Forbid \/ SendDocument \/ MethodMusicd \/ AuthFails \/ AuthSucceeds
         \/ MethodElsewhere
  PROVE  Looked' /\ AnswersMatch'
<1>1. http' = http /\ seen' = seen /\ pc' = "answered"
  BY DEF Forbid, SendDocument, MethodMusicd, AuthFails, AuthSucceeds, MethodElsewhere,
         Sends, reading
<1>2. \/ answer'.status = "403"
      \/ Found = {}
      \/ Found \cap ({"/musicd", "/auth"} \cup Elsewhere) # {}
  <2>1. CASE Forbid
    BY <2>1 DEF Forbid, Sends, Reply
  <2>2. CASE SendDocument
    BY <2>2 DEF SendDocument
  <2>3. CASE MethodMusicd \/ AuthFails \/ AuthSucceeds \/ MethodElsewhere
    BY <2>3 DEF MethodMusicd, AuthFails, AuthSucceeds, MethodElsewhere, Calls
  <2>4. QED
    BY <2>1, <2>2, <2>3
<1>3. \A m \in Found : m = http.name
  BY DEF Found
<1>4. ({"/musicd", "/auth"} \cup Elsewhere) \cap (Lists \cup {"/track/index"}) = {}
  BY DEF Elsewhere, Lists
<1>5. answer'.status = "403" \/ Found \cap (Lists \cup {"/track/index"}) = {}
  BY <1>2, <1>3, <1>4
<1>6. AnswersMatch'
  BY <1>1, <1>5, SentOther
<1>7. QED
  BY <1>1, <1>6 DEF Looked

(* The answer is forgotten with its request.                               *)
LEMMA FinishLooked ==
  ASSUME Finish
  PROVE  Looked' /\ AnswersMatch'
<1>1. http' = Request /\ seen' = Unseen /\ pc' = "idle"
  BY DEF Finish
<1>2. DOMAIN seen' = {"count", "start", "end"}
  BY <1>1 DEF Unseen
<1>3. IsRequest(http')
  BY <1>1, RequestIsOne
<1>4. IsRequest(http)'
  BY <1>3 DEF IsRequest, Request
<1>5. QED
  BY <1>1, <1>2, <1>4 DEF Looked, AnswersMatch

(* Nothing of the request changes: time goes by, or the scan changes a     *)
(* table, and what was read so far was read from one version or the other. *)
LEMMA MeanwhileLooked ==
  ASSUME IInv, Looked, AnswersMatch,
         UNCHANGED <<pc, http, stmt, seen, answer>>,
         version' = version \/ (version' = version + 1 /\ version < Len(Tables))
  PROVE  Looked' /\ AnswersMatch'
<1>1. /\ Bounded' = Bounded /\ AskedQuery' = AskedQuery /\ Filtered' = Filtered
      /\ Found' = Found /\ Malformed' = Malformed /\ Misbound' = Misbound
  BY AskedKept
<1>2. Counted' <=> Counted
  BY <1>1 DEF Counted
<1>3. ASSUME pc = "reading"
      PROVE  Walk(http.name, http.id, AskedQuery, stmt, seen.start, version)'
  <2>1. Walk(http.name, http.id, AskedQuery, stmt, seen.start, version)
    BY <1>3 DEF Looked
  <2>2. version < Len(Tables) => version + 1 \in DOMAIN Tables
    BY RequestsAssumption DEF IInv, Bounds
  <2>3. version' = version + 1 =>
          Walk(http.name, http.id, AskedQuery, stmt, seen.start, version + 1)
    BY <2>1, <2>2, WalkScanned DEF IInv, Bounds
  <2>4. Walk(http.name, http.id, AskedQuery, stmt, seen.start, version')
    BY <2>1, <2>3
  <2>5. QED
    BY <1>1, <2>4
<1>4. Looked'
  BY <1>1, <1>2, <1>3 DEF Looked
<1>5. /\ ListMatches(answer, seen) => ListMatches(answer, seen)'
      /\ IndexMatches(answer, seen) => IndexMatches(answer, seen)'
  BY MatchesKept
<1>6. AnswersMatch'
  BY <1>1, <1>5 DEF AnswersMatch
<1>7. QED
  BY <1>4, <1>6

(* No step of the server, of the scan or of time takes it away.            *)
LEMMA NextLooked ==
  IInv /\ Looked /\ AnswersMatch /\ [Next]_vars => (Looked /\ AnswersMatch)'
<1> SUFFICES ASSUME IInv, Looked, AnswersMatch, [Next]_vars PROVE Looked' /\ AnswersMatch'
  OBVIOUS
<1>1. CASE Receive
  BY <1>1, ReceiveLooked
<1>2. CASE \/ Forbid \/ SendDocument \/ MethodMusicd \/ AuthFails \/ AuthSucceeds
           \/ MethodElsewhere
  BY <1>2, OthersLooked
<1>3. CASE MethodList
  BY <1>3, MethodListLooked
<1>4. CASE MethodListStart
  BY <1>4, MethodListStartLooked
<1>5. CASE MethodTrackIndex
  BY <1>5, MethodTrackIndexLooked
<1>6. CASE ReadRow
  BY <1>6, ReadRowLooked
<1>7. CASE ReadAll
  BY <1>7, ReadAllLooked
<1>8. CASE Finish
  BY <1>8, FinishLooked
<1>9. CASE Tick
  <2>1. UNCHANGED <<pc, http, stmt, seen, answer>> /\ version' = version
    BY <1>9 DEF Tick, reading
  <2>2. QED
    BY <2>1, MeanwhileLooked
<1>10. CASE Scan
  <2>1. UNCHANGED <<pc, http, stmt, seen, answer>> /\ version' = version + 1 /\ version < Len(Tables)
    BY <1>10 DEF Scan, reading
  <2>2. QED
    BY <2>1, MeanwhileLooked
<1>11. CASE UNCHANGED vars
  <2>1. UNCHANGED <<pc, http, stmt, seen, answer>> /\ version' = version
    BY <1>11 DEF vars, reading
  <2>2. QED
    BY <2>1, MeanwhileLooked
<1>12. QED
  BY <1>1, <1>2, <1>3, <1>4, <1>5, <1>6, <1>7, <1>8, <1>9, <1>10, <1>11 DEF Next

(* Whatever the tables of tracks, artists and albums hold and however the  *)
(* scan changes them while they are read: lists and indexes have the rows  *)
(* that fit the filters with a name that query.c knows, in the order and   *)
(* between the bounds asked for, with the right total.  The filter id is   *)
(* documented but not known; filters bound to the wrong place are left out.*)
THEOREM AlwaysAnswersMatch == Spec => []AnswersMatch
<1>1. IInv /\ Looked /\ AnswersMatch /\ [Next]_vars => (IInv /\ Looked /\ AnswersMatch)'
  BY NextInv, NextLooked
<1>2. Init => IInv /\ Looked /\ AnswersMatch
  BY InitInv, LookedInit
<1>3. QED
  BY <1>1, <1>2, PTL DEF Spec

=============================================================================
