-------------------------- MODULE EventLoopProofs --------------------------
(***************************************************************************)
(* Theorems about the server loop, for every set of connections, every     *)
(* limit on them and on the sockets, and every sequence of requests.       *)
(***************************************************************************)
EXTENDS EventLoop, SequenceLemmas, FiniteSetTheorems, TLAPS

-----------------------------------------------------------------------------
(* The inductive invariant.                                                *)

(* No task of the loop is detached: it never calls task_launch.            *)
TypeInv == /\ TypeOK
           /\ worker \in [Ids -> BOOLEAN]
           /\ detached = [t \in Ids |-> FALSE]

(* The list holds the open connections, each once, and the poll array has  *)
(* one entry for each.                                                     *)
ListInv ==
  /\ \A i, j \in 1 .. Len(clients) : clients[i] = clients[j] => i = j
  /\ \A i \in 1 .. Len(clients) : conn[clients[i]] = "open"
  /\ \A c \in Conns : conn[c] = "open" => \E i \in 1 .. Len(clients) : clients[i] = c
  /\ Len(clients) <= MaxClients
  /\ poll_fds = [i \in 1 .. Len(clients) |-> Entry(clients[i], client[clients[i]])]

(* A client of the array the loop still has to come to that was found      *)
(* ready and waits for a task: the task has signalled.                     *)
ReadyInv ==
  /\ at = 0 => ready = {}
  /\ \A i \in ready : at <= i /\ client[clients[i]].state = "wait"
                        => life[client[clients[i]].wait] = "signalled"

(* How many segments of c have been taken out of inbuf: the next one that  *)
(* comes out is that after it.                                             *)
Consumed(c) == Len(asked[c]) - unread[c] - Len(client[c].inbuf)

(* What the buffers of a connection hold.                                  *)
BufferInv(c) ==
  /\ Len(asked[c]) <= MaxSegments
  /\ Consumed(c) \in Nat
  /\ \A i \in 1 .. Len(client[c].inbuf) : client[c].inbuf[i] = <<c, Consumed(c) + i>>
  /\ Len(sent[c]) <= taken[c] + SendBuffer

(* out answers the complete ones of the first m requests of c, in order,   *)
(* each once, and nothing else.                                            *)
Caught(c, kinds, out, m) ==
  /\ \A i \in Replies(out) : /\ out[i][1] = c /\ out[i][2] \in 1 .. m
                             /\ Complete(kinds, out[i][2])
  /\ \A i, j \in Replies(out) : i < j => out[i][2] < out[j][2]
  /\ \A n \in 1 .. m : Complete(kinds, n) => \E j \in Replies(out) : out[j] = <<c, n>>

(* What was taken out of inbuf has been answered, but for the last one     *)
(* when the client waits for its task.                                     *)
AnswerInv(c) ==
  /\ conn[c] # "open" => client[c] = Client
  /\ conn[c] \in {"idle", "backlog"} => sent[c] = <<>> /\ Consumed(c) = 0
  /\ conn[c] = "closed" => InOrder(c, asked[c], sent[c])
  /\ conn[c] = "open" /\ client[c].state # "wait" => Caught(c, asked[c], Output(c), Consumed(c))
  /\ conn[c] = "open" /\ client[c].state = "wait" =>
       /\ client[c].wait = <<c, Consumed(c)>>
       /\ Complete(asked[c], Consumed(c))
       /\ Caught(c, asked[c], Output(c), Consumed(c) - 1)

ConnInv(c) == BufferInv(c) /\ AnswerInv(c)

(* A connection that was not accepted yet has no tasks.                    *)
FreshInv == \A t \in Ids : conn[t[1]] \in {"idle", "backlog"} => life[t] = "free"

IInv == /\ TypeInv
        /\ ListInv
        /\ ReadyInv
        /\ \A c \in Conns : ConnInv(c)
        /\ OneTaskPerWait
        /\ FreshInv

-----------------------------------------------------------------------------
(* Sequences of answers.  The kinds of the requests and the answers are    *)
(* parameters here, so that the lemmas serve before and after a step.      *)

Elements == Ids \cup {Media}
Outs == Seq(Elements)

LEMMA MediaIsNoId == \A t \in Ids : t # Media
BY DEF Ids, Media

(* An answer to a later request is added.                                  *)
LEMMA CaughtReply ==
  ASSUME NEW c \in Conns, NEW kinds \in Seq(Kinds), NEW out \in Outs, NEW m \in Nat,
         Caught(c, kinds, out, m), Complete(kinds, m + 1), <<c, m + 1>> \in Ids
  PROVE  /\ Append(out, <<c, m + 1>>) \in Outs
         /\ Caught(c, kinds, Append(out, <<c, m + 1>>), m + 1)
<1> DEFINE new == Append(out, <<c, m + 1>>)
<1>1. /\ new \in Outs /\ Len(new) = Len(out) + 1 /\ Len(out) \in Nat
      /\ DOMAIN new = 1 .. Len(out) + 1 /\ DOMAIN out = 1 .. Len(out)
      /\ \A i \in 1 .. Len(out) : new[i] = out[i]
      /\ new[Len(out) + 1] = <<c, m + 1>>
  BY AppendProperties DEF Outs, Elements
<1>2. Replies(new) = Replies(out) \cup {Len(out) + 1}
  BY <1>1, MediaIsNoId DEF Replies
<1> HIDE DEF new
<1>3. \A i \in Replies(out) : new[i] = out[i] /\ i < Len(out) + 1 /\ i \in Nat
  BY <1>1 DEF Replies
<1>4. \A i \in Replies(new) : /\ new[i][1] = c /\ new[i][2] \in 1 .. m + 1
                              /\ Complete(kinds, new[i][2])
  BY <1>1, <1>2, <1>3 DEF Caught
<1>5. ASSUME NEW i \in Replies(new), NEW j \in Replies(new), i < j
      PROVE  new[i][2] < new[j][2]
  <2>1. i \in Replies(out)
    BY <1>1, <1>2, <1>3, <1>5
  <2>2. CASE j \in Replies(out)
    BY <2>1, <2>2, <1>3, <1>5 DEF Caught
  <2>3. CASE j = Len(out) + 1
    BY <2>1, <2>3, <1>1, <1>3 DEF Caught
  <2>4. QED
    BY <1>2, <2>2, <2>3
<1>6. ASSUME NEW n \in 1 .. m + 1, Complete(kinds, n)
      PROVE  \E j \in Replies(new) : new[j] = <<c, n>>
  <2>1. CASE n = m + 1
    BY <2>1, <1>1, <1>2
  <2>2. CASE n # m + 1
    <3>1. n \in 1 .. m
      BY <2>2
    <3>2. PICK j \in Replies(out) : out[j] = <<c, n>>
      BY <3>1, <1>6 DEF Caught
    <3>3. QED
      BY <3>2, <1>2, <1>3
  <2>3. QED
    BY <2>1, <2>2
<1>7. QED
  BY <1>1, <1>4, <1>5, <1>6 DEF Caught, new

(* A piece of media is added.                                              *)
LEMMA CaughtMedia ==
  ASSUME NEW c \in Conns, NEW kinds \in Seq(Kinds), NEW out \in Outs, NEW m \in Nat,
         Caught(c, kinds, out, m)
  PROVE  Append(out, Media) \in Outs /\ Caught(c, kinds, Append(out, Media), m)
<1> DEFINE new == Append(out, Media)
<1>1. /\ new \in Outs
      /\ DOMAIN new = 1 .. Len(out) + 1 /\ DOMAIN out = 1 .. Len(out) /\ Len(out) \in Nat
      /\ \A i \in 1 .. Len(out) : new[i] = out[i]
      /\ new[Len(out) + 1] = Media
  BY AppendProperties DEF Outs, Elements
<1> HIDE DEF new
<1>2. Replies(new) = Replies(out) /\ \A i \in Replies(out) : new[i] = out[i]
  BY <1>1 DEF Replies
<1>3. Caught(c, kinds, new, m)
  BY <1>2 DEF Caught
<1>4. QED
  BY <1>1, <1>3 DEF new

(* Requests that are not complete are passed over.                         *)
LEMMA CaughtSkip ==
  ASSUME NEW c \in Conns, NEW kinds \in Seq(Kinds), NEW out \in Outs,
         NEW m \in Nat, NEW p \in Nat, m <= p,
         Caught(c, kinds, out, m), \A n \in m + 1 .. p : ~Complete(kinds, n)
  PROVE  Caught(c, kinds, out, p)
<1>1. \A i \in Replies(out) : out[i][2] \in 1 .. p
  BY DEF Caught
<1>2. \A n \in 1 .. p : Complete(kinds, n) => n \in 1 .. m
  OBVIOUS
<1>3. QED
  BY <1>1, <1>2 DEF Caught

(* Answers that have caught up are in order.                               *)
LEMMA CaughtInOrder ==
  ASSUME NEW c \in Conns, NEW kinds \in Seq(Kinds), NEW out \in Outs, NEW m \in Nat,
         Caught(c, kinds, out, m)
  PROVE  InOrder(c, kinds, out)
<1>1. \A i \in Replies(out) : \A n \in 1 .. out[i][2] : n \in 1 .. m
  BY DEF Caught
<1>2. QED
  BY <1>1 DEF Caught, InOrder

(* A connection that is cut off has got its answers in order so far.       *)
LEMMA InOrderPrefix ==
  ASSUME NEW c \in Conns, NEW kinds \in Seq(Kinds), NEW out \in Outs, NEW q \in Outs,
         Len(q) <= Len(out), \A i \in 1 .. Len(q) : q[i] = out[i],
         InOrder(c, kinds, out)
  PROVE  InOrder(c, kinds, q)
<1>1. /\ \A i \in Replies(q) : i \in Replies(out) /\ i \in Nat /\ q[i] = out[i] /\ i <= Len(q)
      /\ \A i \in Replies(out) : i \in Nat /\ (i <= Len(q) => i \in Replies(q))
      /\ Len(q) \in Nat
  BY DEF Replies, Outs, Elements
<1>2. ASSUME NEW i \in Replies(q), NEW n \in 1 .. q[i][2], Complete(kinds, n)
      PROVE  \E j \in Replies(q) : q[j] = <<c, n>>
  <2>1. PICK j \in Replies(out) : out[j] = <<c, n>>
    BY <1>1, <1>2 DEF InOrder
  <2>2. q[i][2] \in Nat
    BY <1>1 DEF InOrder, Complete
  <2>3. ~(i < j)
    <3>1. i < j => out[i][2] < out[j][2]
      BY <1>1, <2>1 DEF InOrder
    <3>2. out[j][2] = n /\ out[i][2] = q[i][2] /\ n <= q[i][2] /\ n \in Nat
      BY <1>1, <2>1, <2>2
    <3>3. QED
      BY <3>1, <3>2, <2>2
  <2>4. j \in Replies(q)
    BY <1>1, <2>1, <2>3
  <2>5. QED
    BY <1>1, <2>1, <2>4
<1>3. QED
  BY <1>1, <1>2 DEF InOrder

-----------------------------------------------------------------------------
(* Writing from a buffer.                                                  *)

(* The first n elements of a buffer go out and the rest stays: together    *)
(* with what went out before they are what they were.                      *)
LEMMA WriteOut ==
  ASSUME NEW S, NEW s \in Seq(S), NEW o \in Seq(S), NEW n \in 0 .. Len(o)
  PROVE  /\ Rest(o, n) \in Seq(S)
         /\ Len(Rest(o, n)) = Len(o) - n
         /\ \A i \in 1 .. Len(o) - n : Rest(o, n)[i] = o[n + i]
         /\ s \o SubSeq(o, 1, n) \in Seq(S)
         /\ Len(s \o SubSeq(o, 1, n)) = Len(s) + n
         /\ (s \o SubSeq(o, 1, n)) \o Rest(o, n) = s \o o
<1>1. /\ Rest(o, n) \in Seq(S) /\ Len(Rest(o, n)) = Len(o) - n
      /\ \A i \in 1 .. Len(o) - n : Rest(o, n)[i] = o[n + i]
  BY DEF Rest
<1>2. SubSeq(o, 1, n) \in Seq(S) /\ Len(SubSeq(o, 1, n)) = n
  OBVIOUS
<1>3. SubSeq(o, 1, n) \o SubSeq(o, n + 1, Len(o)) = o
  <2>1. SubSeq(o, 1, n) \o SubSeq(o, n + 1, Len(o)) = SubSeq(o, 1, Len(o))
    <3>1. 1 \in 1 .. Len(o) + 1 /\ n \in 1 - 1 .. Len(o) /\ Len(o) \in n .. Len(o)
      OBVIOUS
    <3>2. QED
      BY <3>1, ConcatAdjacentSubSeq, Zenon
  <2>2. QED
    BY <2>1, SubSeqFull
<1>4. (s \o SubSeq(o, 1, n)) \o Rest(o, n) = s \o (SubSeq(o, 1, n) \o Rest(o, n))
  <2> DEFINE a == SubSeq(o, 1, n)
             b == Rest(o, n)
  <2>1. a \in Seq(S) /\ b \in Seq(S)
    BY <1>1, <1>2
  <2> HIDE DEF a, b
  <2>2. (s \o a) \o b = s \o (a \o b)
    BY <2>1, ConcatAssociative
  <2>3. QED
    BY <2>2 DEF a, b
<1>5. (s \o SubSeq(o, 1, n)) \o Rest(o, n) = s \o o
  BY <1>3, <1>4 DEF Rest
<1>6. s \o SubSeq(o, 1, n) \in Seq(S) /\ Len(s \o SubSeq(o, 1, n)) = Len(s) + n
  BY <1>2, ConcatProperties
<1>7. QED
  BY <1>1, <1>5, <1>6

LEMMA ConcatFront ==
  ASSUME NEW S, NEW s \in Seq(S), NEW o \in Seq(S)
  PROVE  Len(s) <= Len(s \o o) /\ \A i \in 1 .. Len(s) : s[i] = (s \o o)[i]
BY ConcatProperties

LEMMA ConcatAppend ==
  ASSUME NEW S, NEW s \in Seq(S), NEW o \in Seq(S), NEW e \in S
  PROVE  s \o Append(o, e) = Append(s \o o, e)
<1>1. Append(o, e) = o \o <<e>> /\ Append(s \o o, e) = (s \o o) \o <<e>>
  BY AppendIsConcat, ConcatProperties
<1>2. <<e>> \in Seq(S)
  OBVIOUS
<1>3. QED
  BY <1>1, <1>2, ConcatAssociative

(* One more element in the buffer of a client.                             *)
LEMMA OneMore ==
  ASSUME NEW out \in Outs, NEW o \in Outs, NEW e \in Elements
  PROVE  Append(o, e) \in Outs /\ out \o Append(o, e) = Append(out \o o, e)
         /\ out \o o \in Outs
BY ConcatAppend, AppendProperties, ConcatProperties DEF Outs

(* The smaller of two numbers.                                             *)
LEMMA MinTwo ==
  ASSUME NEW x \in Nat, NEW y \in Nat
  PROVE  Min({x, y}) \in Nat /\ Min({x, y}) <= x /\ Min({x, y}) <= y
<1>1. \E m \in {x, y} : \A n \in {x, y} : m <= n
  OBVIOUS
<1>2. QED
  BY <1>1 DEF Min

(* The end of the first complete request: nothing before it is one.        *)
LEMMA FirstRequestEnds ==
  ASSUME NEW in \in Seq(Ids)
  PROVE  /\ FirstRequest(in) \in 0 .. Len(in)
         /\ FirstRequest(in) > 0 => Kind(in[FirstRequest(in)]) \notin Partial
         /\ \A i \in 1 .. Len(in) : i < FirstRequest(in) \/ FirstRequest(in) = 0
                                      => Kind(in[i]) \in Partial
<1> DEFINE ends == {i \in DOMAIN in : Kind(in[i]) \notin Partial}
<1>1. FirstRequest(in) = IF ends = {} THEN 0 ELSE Min(ends)
  BY DEF FirstRequest
<1>2. ends \in SUBSET Nat /\ \A i \in ends : i \in 1 .. Len(in) /\ Kind(in[i]) \notin Partial
  OBVIOUS
<1>3. \A i \in 1 .. Len(in) : i \notin ends => Kind(in[i]) \in Partial
  OBVIOUS
<1> HIDE DEF ends
<1>4. CASE ends = {}
  BY <1>1, <1>3, <1>4
<1>5. CASE ends # {}
  <2>1. \E m \in ends : \A n \in ends : m <= n
    BY <1>2, <1>5, HasLeast
  <2>2. Min(ends) \in ends /\ \A n \in ends : Min(ends) <= n
    BY <2>1 DEF Min
  <2>3. \A i \in 1 .. Len(in) : i < Min(ends) => i \notin ends
    <3>1. ASSUME NEW i \in 1 .. Len(in), i < Min(ends), i \in ends PROVE FALSE
      <4>1. Min(ends) <= i /\ Min(ends) \in Nat /\ i \in Nat
        BY <3>1, <2>2, <1>2
      <4>2. QED
        BY <4>1, <3>1
    <3>2. QED
      BY <3>1
  <2>4. FirstRequest(in) = Min(ends) /\ Min(ends) \in 1 .. Len(in)
    BY <2>2, <1>1, <1>2, <1>5
  <2>5. FirstRequest(in) \in 0 .. Len(in) /\ FirstRequest(in) # 0
    BY <2>4
  <2>6. Kind(in[FirstRequest(in)]) \notin Partial
    BY <2>4, <2>2, <1>2
  <2>7. \A i \in 1 .. Len(in) : i < FirstRequest(in) => Kind(in[i]) \in Partial
    BY <2>4, <2>3, <1>3
  <2>8. QED
    BY <2>5, <2>6, <2>7
<1>6. QED
  BY <1>4, <1>5

-----------------------------------------------------------------------------
(* The steps that are not client_process.                                  *)

(* A step that leaves a connection alone keeps what is known of it.        *)
LEMMA Untouched ==
  ASSUME NEW c \in Conns, ConnInv(c),
         conn'[c] = conn[c], asked'[c] = asked[c], unread'[c] = unread[c],
         sent'[c] = sent[c], taken'[c] = taken[c], client'[c] = client[c]
  PROVE  ConnInv(c)'
BY DEF ConnInv, BufferInv, AnswerInv, Consumed, Output

(* Another segment of the peer changes nothing about the earlier ones.     *)
LEMMA CaughtMore ==
  ASSUME NEW c \in Conns, NEW kinds \in Seq(Kinds), NEW kind \in Kinds, NEW out \in Outs,
         NEW m \in Int, m <= Len(kinds), Caught(c, kinds, out, m)
  PROVE  Caught(c, Append(kinds, kind), out, m)
<1>1. \A n \in 1 .. m : Complete(Append(kinds, kind), n) <=> Complete(kinds, n)
  BY DEF Complete
<1>2. QED
  BY <1>1 DEF Caught

LEMMA CaughtNothing ==
  ASSUME NEW c \in Conns, NEW kinds \in Seq(Kinds)
  PROVE  Caught(c, kinds, <<>>, 0) /\ InOrder(c, kinds, <<>>)
<1>1. Replies(<<>>) = {}
  BY DEF Replies
<1>2. QED
  BY <1>1 DEF Caught, InOrder

(* What the types say of one connection, and of the list.                  *)
LEMMA TypesOf ==
  ASSUME TypeInv, NEW c \in Conns
  PROVE  /\ asked[c] \in Seq(Kinds) /\ Len(asked[c]) \in Nat
         /\ unread[c] \in Nat /\ unread[c] <= Len(asked[c])
         /\ sent[c] \in Outs /\ Len(sent[c]) \in Nat
         /\ taken[c] \in Nat /\ taken[c] <= Len(sent[c])
         /\ client[c] \in ClientType
         /\ client[c].inbuf \in Seq(Ids) /\ Len(client[c].inbuf) \in Nat
         /\ client[c].outbuf \in Outs /\ Len(client[c].outbuf) \in Nat
         /\ client[c].wait \in Ids \cup {NoId}
<1>1. client[c] \in ClientType /\ asked[c] \in Seq(Kinds) /\ sent[c] \in Outs
  BY DEF TypeInv, TypeOK, Outs, Elements
<1>2. /\ unread[c] \in Nat /\ unread[c] <= Len(asked[c])
      /\ taken[c] \in Nat /\ taken[c] <= Len(sent[c])
  BY DEF TypeInv, TypeOK
<1>3. /\ client[c].inbuf \in Seq(Ids) /\ client[c].outbuf \in Outs
      /\ client[c].wait \in Ids \cup {NoId}
  BY <1>1 DEF ClientType, Outs, Elements
<1>4. QED
  BY <1>1, <1>2, <1>3 DEF Outs, Elements

LEMMA ListTypes ==
  ASSUME TypeInv
  PROVE  /\ clients \in Seq(Conns) /\ Len(clients) \in Nat
         /\ \A i \in 1 .. Len(clients) : clients[i] \in Conns
         /\ at \in Nat /\ at <= Len(clients)
         /\ \A i \in ready : i \in 1 .. Len(clients)
BY DEF TypeInv, TypeOK

LEMMA ClientIsOne == Client \in ClientType
BY LoopAssumption DEF Client, ClientType

LEMMA InitInv == Init => IInv
<1> SUFFICES ASSUME Init PROVE IInv
  OBVIOUS
<1> USE LoopAssumption DEF Init, Tasks!SInit
<1>1. TypeInv
  BY ClientIsOne DEF TypeInv, TypeOK, Tasks!Life
<1>2. ListInv
  BY DEF ListInv
<1>3. ReadyInv
  BY DEF ReadyInv
<1>4. ASSUME NEW c \in Conns PROVE ConnInv(c)
  <2>1. asked[c] = <<>> /\ unread[c] = 0 /\ client[c].inbuf = <<>> /\ sent[c] = <<>>
    BY DEF Client
  <2>2. Consumed(c) = 0
    BY <2>1 DEF Consumed
  <2>3. BufferInv(c)
    BY <2>1, <2>2 DEF BufferInv
  <2>4. AnswerInv(c)
    BY <2>1, <2>2 DEF AnswerInv
  <2>5. QED
    BY <2>3, <2>4 DEF ConnInv
<1>5. OneTaskPerWait /\ FreshInv
  BY DEF OneTaskPerWait, FreshInv, Ids
<1>6. QED
  BY <1>1, <1>2, <1>3, <1>4, <1>5 DEF IInv

LEMMA PeerStep ==
  ASSUME IInv, NEW c \in Conns, Peer(c), UNCHANGED <<lvars, tvars>>
  PROVE  IInv'
<1> USE DEF IInv, lvars, tvars
<1>1. CASE Connect(c)
  <2> USE <1>1 DEF Connect
  <2>1. TypeInv'
    BY DEF TypeInv, TypeOK
  <2>0. /\ conn[c] = "idle" /\ conn'[c] = "backlog"
        /\ \A d \in Conns : d # c => conn'[d] = conn[d]
    BY DEF TypeInv, TypeOK
  <2>2. ListInv' /\ ReadyInv'
    <3>1. \A i \in 1 .. Len(clients) : clients[i] \in Conns /\ conn'[clients[i]] = "open"
      <4>1. \A i \in 1 .. Len(clients) : clients[i] \in Conns
        BY DEF TypeInv, TypeOK
      <4>2. \A i \in 1 .. Len(clients) : conn[clients[i]] = "open"
        BY DEF ListInv
      <4>3. QED
        BY <2>0, <4>1, <4>2
    <3>2. \A d \in Conns : conn'[d] = "open" => conn[d] = "open"
      BY <2>0
    <3>3. ListInv'
      BY <3>1, <3>2 DEF ListInv
    <3>4. QED
      BY <3>3 DEF ReadyInv
  <2>3. ASSUME NEW d \in Conns PROVE ConnInv(d)'
    <3>1. CASE d = c
      BY <3>1 DEF ConnInv, BufferInv, AnswerInv, Consumed, TypeInv, TypeOK
    <3>2. CASE d # c
      BY <3>2, Untouched DEF TypeInv, TypeOK
    <3>3. QED
      BY <3>1, <3>2
  <2>4. OneTaskPerWait' /\ FreshInv'
    BY DEF OneTaskPerWait, FreshInv, TypeInv, TypeOK, Ids
  <2>5. QED
    BY <2>1, <2>2, <2>3, <2>4
<1>2. ASSUME NEW kind \in Kinds, Send(c, kind) PROVE IInv'
  <2> USE <1>2 DEF Send
  <2>0. /\ asked'[c] = Append(asked[c], kind) /\ asked[c] \in Seq(Kinds)
        /\ Len(asked'[c]) = Len(asked[c]) + 1 /\ asked'[c] \in Seq(Kinds)
        /\ unread'[c] = unread[c] + 1 /\ Len(asked[c]) < MaxSegments /\ Len(asked[c]) \in Nat
        /\ \A d \in Conns : d # c => asked'[d] = asked[d] /\ unread'[d] = unread[d]
    BY DEF TypeInv, TypeOK
  <2>1. TypeInv'
    <3>1. asked' \in [Conns -> Seq(Kinds)] /\ unread' \in [Conns -> Nat]
      BY <2>0 DEF TypeInv, TypeOK
    <3>2. \A d \in Conns : unread'[d] <= Len(asked'[d])
      BY <2>0 DEF TypeInv, TypeOK
    <3>3. QED
      BY <3>1, <3>2 DEF TypeInv, TypeOK
  <2>2. ListInv' /\ ReadyInv'
    BY DEF ListInv, ReadyInv
  <2>3. ASSUME NEW d \in Conns PROVE ConnInv(d)'
    <3>1. CASE d = c
      <4>0. ConnInv(c) /\ client[c] \in ClientType /\ unread[c] \in Nat /\ sent[c] \in Outs
        BY DEF TypeInv, TypeOK, Outs, Elements
      <4>1. Consumed(c)' = Consumed(c) /\ Consumed(c) \in Nat /\ Consumed(c) <= Len(asked[c])
        <5>1. Len(client[c].inbuf) \in Nat /\ client'[c] = client[c] /\ Consumed(c) \in Nat
          BY <4>0 DEF ClientType, ConnInv, BufferInv
        <5>2. /\ Consumed(c) = Len(asked[c]) - unread[c] - Len(client[c].inbuf)
              /\ Consumed(c)' = Len(asked'[c]) - unread'[c] - Len(client'[c].inbuf)
          BY DEF Consumed
        <5>3. QED
          BY <2>0, <4>0, <5>1, <5>2
      <4>2. BufferInv(c)'
        BY <2>0, <4>0, <4>1, LoopAssumption DEF ConnInv, BufferInv
      <4>3. Output(c) \in Outs /\ Output(c)' = Output(c)
        BY <4>0, ConcatProperties DEF Output, ClientType, Outs, Elements
      <4>4. \A m \in {Consumed(c), Consumed(c) - 1} :
              Caught(c, asked[c], Output(c), m) => Caught(c, asked'[c], Output(c), m)
        BY <2>0, <4>1, <4>3, CaughtMore
      <4>5. Complete(asked[c], Consumed(c)) => Complete(asked'[c], Consumed(c))
        BY <2>0, <4>1 DEF Complete
      <4>6. AnswerInv(c)'
        BY <4>0, <4>1, <4>3, <4>4, <4>5 DEF ConnInv, AnswerInv
      <4>7. QED
        BY <3>1, <4>2, <4>6 DEF ConnInv
    <3>2. CASE d # c
      BY <2>0, <3>2, Untouched
    <3>3. QED
      BY <3>1, <3>2
  <2>4. OneTaskPerWait' /\ FreshInv'
    BY DEF OneTaskPerWait, FreshInv
  <2>5. QED
    BY <2>1, <2>2, <2>3, <2>4
<1>3. CASE Leave(c)
  <2> USE <1>3 DEF Leave
  <2>1. TypeInv'
    BY DEF TypeInv, TypeOK
  <2>2. ListInv' /\ ReadyInv'
    BY DEF ListInv, ReadyInv
  <2>3. ASSUME NEW d \in Conns PROVE ConnInv(d)'
    BY Untouched
  <2>4. OneTaskPerWait' /\ FreshInv'
    BY DEF OneTaskPerWait, FreshInv
  <2>5. QED
    BY <2>1, <2>2, <2>3, <2>4
<1>4. CASE Receive(c)
  <2> USE <1>4 DEF Receive
  <2>0. /\ taken'[c] = taken[c] + 1 /\ taken[c] \in Nat /\ Len(sent[c]) \in Nat
        /\ \A d \in Conns : d # c => taken'[d] = taken[d]
    BY DEF TypeInv, TypeOK
  <2>1. TypeInv'
    <3>1. taken' \in [Conns -> Nat]
      BY <2>0 DEF TypeInv, TypeOK
    <3>2. \A d \in Conns : taken'[d] <= Len(sent[d])
      BY <2>0 DEF TypeInv, TypeOK
    <3>3. QED
      BY <3>1, <3>2 DEF TypeInv, TypeOK
  <2>2. ListInv' /\ ReadyInv'
    BY DEF ListInv, ReadyInv
  <2>3. ASSUME NEW d \in Conns PROVE ConnInv(d)'
    <3>1. CASE d = c
      <4>0. Len(sent[c]) <= taken[c] + SendBuffer /\ SendBuffer \in Nat
        BY LoopAssumption DEF ConnInv, BufferInv
      <4>1a. Len(sent[c]) <= taken'[c] + SendBuffer
        BY <2>0, <4>0
      <4>1. BufferInv(c)'
        BY <4>1a DEF ConnInv, BufferInv, Consumed
      <4>2. AnswerInv(c)'
        BY DEF ConnInv, AnswerInv, Consumed, Output
      <4>3. QED
        BY <3>1, <4>1, <4>2 DEF ConnInv
    <3>2. CASE d # c
      BY <2>0, <3>2, Untouched
    <3>3. QED
      BY <3>1, <3>2
  <2>4. OneTaskPerWait' /\ FreshInv'
    BY DEF OneTaskPerWait, FreshInv
  <2>5. QED
    BY <2>1, <2>2, <2>3, <2>4
<1>5. QED
  BY <1>1, <1>2, <1>3, <1>4 DEF Peer

LEMMA AcceptStep ==
  ASSUME IInv, NEW c \in Conns, Accept(c)
  PROVE  IInv'
<1> USE DEF IInv
<1>0. /\ conn[c] = "backlog" /\ at = 0 /\ ready = {}
      /\ asked' = asked /\ unread' = unread /\ gone' = gone /\ taken' = taken /\ sent' = sent
      /\ ready' = ready /\ at' = at
      /\ life' = life /\ worker' = worker /\ detached' = detached
      /\ client[c] = Client /\ sent[c] = <<>> /\ Consumed(c) = 0
      /\ asked[c] \in Seq(Kinds)
      /\ \A i \in 1 .. Len(clients) : clients[i] \in Conns /\ clients[i] # c
  <2>1. \A i \in 1 .. Len(clients) : clients[i] \in Conns
    BY DEF TypeInv, TypeOK
  <2>2. \A i \in 1 .. Len(clients) : conn[clients[i]] = "open"
    BY DEF ListInv
  <2>3. conn[c] = "backlog"
    BY DEF Accept, Backlog
  <2>4. client[c] = Client /\ sent[c] = <<>> /\ Consumed(c) = 0
    BY <2>3 DEF ConnInv, AnswerInv
  <2>5. QED
    BY <2>1, <2>2, <2>3, <2>4 DEF Accept, TypeInv, TypeOK, ReadyInv, tvars
<1>1. CASE Admit
  <2>0. /\ conn' = [conn EXCEPT ![c] = "open"]
        /\ clients' = Append(clients, c)
        /\ client' = [client EXCEPT ![c] = Client]
        /\ BuildPollFds
    BY <1>1 DEF Accept
  <2>1. /\ clients \in Seq(Conns) /\ clients' \in Seq(Conns)
        /\ Len(clients) \in Nat /\ Len(clients') = Len(clients) + 1
        /\ \A i \in 1 .. Len(clients) : clients'[i] = clients[i]
        /\ clients'[Len(clients) + 1] = c
        /\ DOMAIN clients' = 1 .. Len(clients')
    BY <2>0, AppendProperties DEF TypeInv, TypeOK
  <2>2. /\ conn'[c] = "open" /\ \A d \in Conns : d # c => conn'[d] = conn[d]
        /\ client'[c] = Client /\ \A d \in Conns : d # c => client'[d] = client[d]
        /\ client' = client
    <3>1. /\ conn'[c] = "open" /\ \A d \in Conns : d # c => conn'[d] = conn[d]
          /\ client'[c] = Client /\ \A d \in Conns : d # c => client'[d] = client[d]
      BY <2>0 DEF TypeInv, TypeOK
    <3>2. client' = client
      BY <2>0, <1>0 DEF TypeInv, TypeOK
    <3>3. QED
      BY <3>1, <3>2
  <2>3. TypeInv'
    <3>1. conn' \in [Conns -> {"idle", "backlog", "open", "closed"}]
      BY <2>0 DEF TypeInv, TypeOK
    <3>2. at' \in 0 .. Len(clients') /\ ready' \subseteq 1 .. Len(clients')
      BY <1>0, <2>1
    <3>3. QED
      BY <1>0, <2>1, <2>2, <3>1, <3>2 DEF TypeInv, TypeOK
  <2>4. ListInv'
    <3>1. \A i, j \in 1 .. Len(clients') : clients'[i] = clients'[j] => i = j
      <4>1. \A i \in 1 .. Len(clients') : i \in 1 .. Len(clients) \/ i = Len(clients) + 1
        BY <2>1
      <4>2. \A i, j \in 1 .. Len(clients) : clients[i] = clients[j] => i = j
        BY DEF ListInv
      <4>3. QED
        BY <4>1, <4>2, <1>0, <2>1
    <3>2. \A i \in 1 .. Len(clients') : conn'[clients'[i]] = "open"
      BY <1>0, <2>1, <2>2 DEF ListInv
    <3>3. ASSUME NEW d \in Conns, conn'[d] = "open"
          PROVE  \E i \in 1 .. Len(clients') : clients'[i] = d
      <4>1. CASE d = c
        BY <4>1, <2>1
      <4>2. CASE d # c
        <5>1. PICK i \in 1 .. Len(clients) : clients[i] = d
          BY <4>2, <3>3, <2>2 DEF ListInv
        <5>2. QED
          BY <5>1, <2>1
      <4>3. QED
        BY <4>1, <4>2
    <3>4. Len(clients') <= MaxClients
      BY <1>1, <2>1 DEF Admit
    <3>5. poll_fds' = [i \in 1 .. Len(clients') |-> Entry(clients'[i], client'[clients'[i]])]
      BY <2>0, <2>1 DEF BuildPollFds
    <3>6. QED
      BY <3>1, <3>2, <3>3, <3>4, <3>5 DEF ListInv, Entry, PollFd, PollEvents
  <2>5. ReadyInv'
    BY <1>0 DEF ReadyInv
  <2>6. ASSUME NEW d \in Conns PROVE ConnInv(d)'
    <3>1. CASE d = c
      <4>1. BufferInv(c)'
        BY <1>0, <2>2 DEF ConnInv, BufferInv, Consumed
      <4>2. Output(c)' = <<>> /\ Consumed(c)' = 0
        BY <1>0, <2>2 DEF Output, Client, Consumed
      <4>3. Client.state # "wait"
        BY DEF Client
      <4>4. AnswerInv(c)'
        BY <1>0, <2>2, <4>2, <4>3, CaughtNothing DEF AnswerInv
      <4>5. QED
        BY <3>1, <4>1, <4>4 DEF ConnInv
    <3>2. CASE d # c
      BY <1>0, <2>2, <3>2, Untouched
    <3>3. QED
      BY <3>1, <3>2
  <2>7. OneTaskPerWait' /\ FreshInv'
    <3>1. \A t \in Ids : t[1] \in Conns
      BY DEF Ids
    <3>2. Client.state # "wait"
      BY DEF Client
    <3>3. QED
      BY <3>1, <3>2, <1>0, <2>2 DEF OneTaskPerWait, FreshInv
  <2>8. QED
    BY <2>3, <2>4, <2>5, <2>6, <2>7
<1>2. CASE ~Admit
  <2>0. conn' = [conn EXCEPT ![c] = "closed"] /\ UNCHANGED <<clients, client, poll_fds>>
    BY <1>2 DEF Accept
  <2>2. conn'[c] = "closed" /\ \A d \in Conns : d # c => conn'[d] = conn[d]
    BY <2>0 DEF TypeInv, TypeOK
  <2>3. TypeInv'
    BY <1>0, <2>0 DEF TypeInv, TypeOK
  <2>4. ListInv'
    <3>1. \A i \in 1 .. Len(clients) : conn'[clients[i]] = "open"
      BY <1>0, <2>2 DEF ListInv
    <3>2. \A d \in Conns : conn'[d] = "open" => conn[d] = "open"
      BY <2>2
    <3>3. QED
      BY <2>0, <3>1, <3>2 DEF ListInv
  <2>5. ReadyInv'
    BY <1>0 DEF ReadyInv
  <2>6. ASSUME NEW d \in Conns PROVE ConnInv(d)'
    <3>1. CASE d = c
      BY <1>0, <2>0, <2>2, <3>1, CaughtNothing DEF ConnInv, BufferInv, AnswerInv, Consumed
    <3>2. CASE d # c
      BY <1>0, <2>0, <2>2, <3>2, Untouched
    <3>3. QED
      BY <3>1, <3>2
  <2>7. OneTaskPerWait' /\ FreshInv'
    <3>1. \A t \in Ids : t[1] \in Conns
      BY DEF Ids
    <3>2. QED
      BY <3>1, <1>0, <2>0, <2>2 DEF OneTaskPerWait, FreshInv
  <2>8. QED
    BY <2>3, <2>4, <2>5, <2>6, <2>7
<1>3. QED
  BY <1>1, <1>2

LEMMA PollStep == ASSUME IInv, Poll PROVE IInv'
<1> USE DEF IInv
<1>0. /\ conn' = conn /\ asked' = asked /\ unread' = unread /\ gone' = gone /\ taken' = taken
      /\ sent' = sent /\ client' = client /\ clients' = clients /\ poll_fds' = poll_fds
      /\ life' = life /\ worker' = worker /\ detached' = detached
      /\ at' = 1 /\ ready' # {} /\ ready' = {i \in DOMAIN poll_fds : IsReady(poll_fds[i])}
  BY DEF Poll, pvars, tvars
<1>1. DOMAIN poll_fds = 1 .. Len(clients) /\ Len(clients) \in Nat
      /\ \A i \in 1 .. Len(clients) : poll_fds[i] = Entry(clients[i], client[clients[i]])
  BY DEF ListInv, TypeInv, TypeOK
<1>2. TypeInv'
  <2>1. ready' \subseteq 1 .. Len(clients) /\ at' \in 0 .. Len(clients)
    BY <1>0, <1>1
  <2>2. QED
    BY <1>0, <2>1 DEF TypeInv, TypeOK
<1>3. ListInv'
  BY <1>0 DEF ListInv
<1>4. ASSUME NEW i \in ready', client[clients[i]].state = "wait"
      PROVE  life[client[clients[i]].wait] = "signalled"
  <2>1. i \in 1 .. Len(clients) /\ IsReady(Entry(clients[i], client[clients[i]]))
    BY <1>0, <1>1, <1>4
  <2>2. clients[i] \in Conns /\ conn[clients[i]] = "open"
    BY <2>1 DEF ListInv, TypeInv, TypeOK
  <2>3. client[clients[i]].wait = <<clients[i], Consumed(clients[i])>>
    BY <2>2, <1>4 DEF ConnInv, AnswerInv
  <2>4. client[clients[i]].wait # NoId
    BY <2>3 DEF NoId
  <2>5. Entry(clients[i], client[clients[i]]).fd = client[clients[i]].wait
    BY <1>4 DEF Entry, PollFd
  <2>6. QED
    BY <2>1, <2>4, <2>5 DEF IsReady
<1>5. ReadyInv'
  BY <1>0, <1>4 DEF ReadyInv
<1>6. ASSUME NEW c \in Conns PROVE ConnInv(c)'
  BY <1>0, Untouched
<1>7. OneTaskPerWait' /\ FreshInv'
  BY <1>0 DEF OneTaskPerWait, FreshInv
<1>8. QED
  BY <1>2, <1>3, <1>5, <1>6, <1>7

LEMMA SkipStep == ASSUME IInv, Skip PROVE IInv'
<1> USE DEF IInv
<1>0. /\ conn' = conn /\ asked' = asked /\ unread' = unread /\ gone' = gone /\ taken' = taken
      /\ sent' = sent /\ client' = client /\ clients' = clients /\ poll_fds' = poll_fds
      /\ life' = life /\ worker' = worker /\ detached' = detached
      /\ Advance
  BY DEF Skip, pvars, tvars
<1>1. TypeInv' /\ ReadyInv'
  <2>1. CASE at < Len(clients)
    <3>1. at' = at + 1 /\ ready' = ready /\ at \in Nat /\ Len(clients) \in Nat
      BY <1>0, <2>1 DEF Advance, TypeInv, TypeOK
    <3>2. at' \in 0 .. Len(clients) /\ \A i \in ready : at' <= i => at <= i
      BY <2>1, <3>1 DEF TypeInv, TypeOK
    <3>3. at' # 0
      BY <3>1
    <3>4. QED
      BY <1>0, <3>1, <3>2, <3>3 DEF TypeInv, TypeOK, ReadyInv
  <2>2. CASE ~(at < Len(clients))
    <3>1. at' = 0 /\ ready' = {} /\ 0 \in 0 .. Len(clients)
      BY <1>0, <2>2 DEF Advance, TypeInv, TypeOK
    <3>2. QED
      BY <1>0, <3>1 DEF TypeInv, TypeOK, ReadyInv
  <2>3. QED
    BY <2>1, <2>2
<1>2. ListInv'
  BY <1>0 DEF ListInv
<1>3. ASSUME NEW c \in Conns PROVE ConnInv(c)'
  BY <1>0, Untouched
<1>4. OneTaskPerWait' /\ FreshInv'
  BY <1>0 DEF OneTaskPerWait, FreshInv
<1>5. QED
  BY <1>1, <1>2, <1>3, <1>4

(* The task manager moves a task on its way to its signal, and the tasks   *)
(* that have signalled stay as they are.                                   *)
LEMMA ServedMoves ==
  ASSUME TypeInv, NEW t \in Ids, Tasks!Served(t)
  PROVE  /\ life[t] \in {"pending", "running", "returned"}
         /\ life' \in [Ids -> Tasks!Life] /\ life'[t] # "free"
         /\ \A u \in Ids : u # t => life'[u] = life[u]
         /\ worker' = worker /\ detached' = detached
<1> USE DEF TypeInv, TypeOK, Tasks!Served, Tasks!Move, Tasks!Life
<1>1. CASE Tasks!Begin(t)
  BY <1>1 DEF Tasks!Begin
<1>2. CASE Tasks!Return(t)
  BY <1>2 DEF Tasks!Return
<1>3. CASE Tasks!Announce(t)
  BY <1>3 DEF Tasks!Announce
<1>4. QED
  BY <1>1, <1>2, <1>3

LEMMA TaskManagerStep == ASSUME IInv, NEW t \in Ids, TaskManager(t) PROVE IInv'
<1> USE DEF IInv
<1>0. /\ conn' = conn /\ asked' = asked /\ unread' = unread /\ gone' = gone /\ taken' = taken
      /\ sent' = sent /\ client' = client /\ clients' = clients /\ poll_fds' = poll_fds
      /\ ready' = ready /\ at' = at
  BY DEF TaskManager, pvars, lvars
<1>1. /\ life[t] \in {"pending", "running", "returned"}
      /\ life' \in [Ids -> Tasks!Life] /\ life'[t] # "free"
      /\ \A u \in Ids : u # t => life'[u] = life[u]
      /\ worker' = worker /\ detached' = detached
  BY ServedMoves DEF TaskManager
<1>2. TypeInv'
  BY <1>0, <1>1 DEF TypeInv, TypeOK
<1>3. ListInv'
  BY <1>0 DEF ListInv
<1>4. ReadyInv'
  <2>1. ASSUME NEW i \in ready, at <= i, client[clients[i]].state = "wait"
        PROVE  life'[client[clients[i]].wait] = "signalled"
    <3>1. life[client[clients[i]].wait] = "signalled"
      BY <2>1 DEF ReadyInv
    <3>2. client[clients[i]].wait # t
      BY <3>1, <1>1
    <3>3. clients[i] \in Conns /\ conn[clients[i]] = "open"
      BY DEF ListInv, TypeInv, TypeOK
    <3>4. client[clients[i]].wait \in Ids
      <4>1. client[clients[i]].wait \in Ids \cup {NoId}
        BY <3>3 DEF TypeInv, TypeOK, ClientType
      <4>2. client[clients[i]].wait # NoId
        BY <3>3, <2>1 DEF ConnInv, AnswerInv, NoId
      <4>3. QED
        BY <4>1, <4>2
    <3>5. QED
      BY <1>1, <3>1, <3>2, <3>4
  <2>2. QED
    BY <1>0, <2>1 DEF ReadyInv
<1>5. ASSUME NEW c \in Conns PROVE ConnInv(c)'
  BY <1>0, Untouched
<1>6. \A u \in Ids : life'[u] = "free" <=> life[u] = "free"
  BY <1>1
<1>7. OneTaskPerWait' /\ FreshInv'
  BY <1>0, <1>6 DEF OneTaskPerWait, FreshInv
<1>8. QED
  BY <1>2, <1>3, <1>4, <1>5, <1>7

-----------------------------------------------------------------------------
(* client_process.                                                         *)

(* What is known of the client the loop is at, when poll found it ready.   *)
LEMMA ReadyClient ==
  ASSUME IInv, at \in ready
  PROVE  /\ at \in 1 .. Len(clients) /\ Len(clients) \in Nat
         /\ clients[at] \in Conns /\ conn[clients[at]] = "open"
         /\ client[clients[at]].state = "wait" =>
              /\ client[clients[at]].wait \in Ids
              /\ life[client[clients[at]].wait] = "signalled"
<1> DEFINE c == clients[at]
<1>1. at \in 1 .. Len(clients) /\ Len(clients) \in Nat /\ c \in Conns
  BY DEF IInv, TypeInv, TypeOK
<1>2. conn[c] = "open"
  BY <1>1 DEF IInv, ListInv
<1>3. ASSUME client[c].state = "wait"
      PROVE  client[c].wait \in Ids /\ life[client[c].wait] = "signalled"
  <2>1. client[c].wait \in Ids \cup {NoId}
    BY <1>1 DEF IInv, TypeInv, TypeOK, ClientType
  <2>2. client[c].wait # NoId
    <3>1. client[c].wait = <<c, Consumed(c)>>
      BY <1>1, <1>2, <1>3 DEF IInv, ConnInv, AnswerInv
    <3>2. QED
      BY <3>1 DEF NoId
  <2>3. life[client[c].wait] = "signalled"
    BY <1>1, <1>3 DEF IInv, ReadyInv
  <2>4. QED
    BY <2>1, <2>2, <2>3
<1>4. QED
  BY <1>1, <1>2, <1>3

(* The other clients the loop still has to come to: nothing about them, or *)
(* about the tasks they wait for, changes while this one is served.        *)
LEMMA OthersReady ==
  ASSUME IInv, at \in ready, NEW c \in Conns, c = clients[at],
         clients' = clients, Advance,
         \A d \in Conns : d # c => client'[d] = client[d],
         \A t \in Ids : t[1] # c => life'[t] = life[t]
  PROVE  ReadyInv'
<1>0. at \in 1 .. Len(clients) /\ Len(clients) \in Nat
  BY ReadyClient
<1>1. CASE at < Len(clients)
  <2>1. at' = at + 1 /\ ready' = ready
    BY <1>1 DEF Advance
  <2>2. ASSUME NEW i \in ready, at + 1 <= i, client'[clients[i]].state = "wait"
        PROVE  life'[client'[clients[i]].wait] = "signalled"
    <3>1. i \in 1 .. Len(clients) /\ clients[i] \in Conns /\ i # at /\ at <= i
      <4>1. i \in 1 .. Len(clients) /\ clients[i] \in Conns
        BY ListTypes DEF IInv
      <4>2. QED
        BY <4>1, <1>0, <2>2
    <3>2. clients[i] # c /\ conn[clients[i]] = "open"
      BY <1>0, <3>1 DEF IInv, ListInv
    <3>3. client'[clients[i]] = client[clients[i]]
      BY <3>1, <3>2
    <3>4. life[client[clients[i]].wait] = "signalled"
      BY <3>1, <3>3, <2>2 DEF IInv, ReadyInv
    <3>5. client[clients[i]].wait = <<clients[i], Consumed(clients[i])>>
      BY <3>1, <3>2, <3>3, <2>2 DEF IInv, ConnInv, AnswerInv
    <3>6. client[clients[i]].wait \in Ids \cup {NoId}
      BY <3>1 DEF IInv, TypeInv, TypeOK, ClientType
    <3>7. client[clients[i]].wait \in Ids /\ client[clients[i]].wait[1] # c
      BY <3>2, <3>5, <3>6 DEF NoId
    <3>8. QED
      BY <3>3, <3>4, <3>7
  <2>3. at' # 0
    BY <1>0, <2>1
  <2>4. QED
    BY <2>1, <2>2, <2>3 DEF ReadyInv
<1>2. CASE ~(at < Len(clients))
  BY <1>2 DEF Advance, ReadyInv
<1>3. QED
  BY <1>1, <1>2

(* The server thread has read all of c, and out was written so far.        *)
Written(c, out) ==
  /\ asked' = asked /\ gone' = gone /\ taken' = taken
  /\ unread' = [unread EXCEPT ![c] = 0]
  /\ sent' = [sent EXCEPT ![c] = out]
  /\ out \in Outs /\ taken[c] <= Len(out) /\ Len(out) <= taken[c] + SendBuffer

(* A client k whose inbuf holds what comes after m segments, and that has  *)
(* answered what was complete up to there, or waits to answer the last.    *)
Sound(c, k, out, m) ==
  /\ k \in ClientType /\ m \in Nat
  /\ m + Len(k.inbuf) = Len(asked[c])
  /\ \A i \in 1 .. Len(k.inbuf) : k.inbuf[i] = <<c, m + i>>
  /\ k.state # "wait" => Caught(c, asked[c], out \o k.outbuf, m)
  /\ k.state = "wait" => /\ k.wait = <<c, m>> /\ Complete(asked[c], m)
                          /\ Caught(c, asked[c], out \o k.outbuf, m - 1)

(* The step concerns no task of another connection.                        *)
TasksElsewhere(c) ==
  /\ life' \in [Ids -> Tasks!Life] /\ worker' \in [Ids -> BOOLEAN] /\ detached' = detached
  /\ \A t \in Ids : t[1] # c => life'[t] = life[t]

(* The tasks of c are as client k needs them.                              *)
TasksHere(c, k) ==
  \A t \in Ids : t[1] = c => (life'[t] # "free" <=> k.state = "wait" /\ k.wait = t)

(* client_process has succeeded and left the client in state k.            *)
LEMMA CarryStep ==
  ASSUME IInv, at \in ready, NEW c \in Conns, c = clients[at],
         NEW k, NEW out, NEW m, Carry(c, k), Written(c, out), Sound(c, k, out, m),
         TasksElsewhere(c), TasksHere(c, k)
  PROVE  IInv'
<1> USE DEF IInv, Written, Sound, TasksElsewhere, TasksHere
<1>0. /\ at \in 1 .. Len(clients) /\ Len(clients) \in Nat /\ conn[c] = "open"
      /\ conn' = conn /\ clients' = clients /\ Advance
      /\ client' = [client EXCEPT ![c] = k]
      /\ poll_fds' = [poll_fds EXCEPT ![at] = Entry(c, k)]
  BY ReadyClient DEF Carry
<1>1. /\ client'[c] = k /\ unread'[c] = 0 /\ sent'[c] = out
      /\ \A d \in Conns : d # c => /\ client'[d] = client[d] /\ unread'[d] = unread[d]
                                   /\ sent'[d] = sent[d]
  BY <1>0 DEF TypeInv, TypeOK
<1>2. TypeInv'
  <2>1. client' \in [Conns -> ClientType] /\ unread' \in [Conns -> Nat]
        /\ sent' \in [Conns -> Seq(Ids \cup {Media})]
    BY <1>0 DEF TypeInv, TypeOK, Outs, Elements
  <2>2. \A d \in Conns : unread'[d] <= Len(asked[d]) /\ taken[d] <= Len(sent'[d])
    <3>1. ASSUME NEW d \in Conns PROVE unread'[d] <= Len(asked[d]) /\ taken[d] <= Len(sent'[d])
      <4>0. /\ Len(asked[d]) \in Nat /\ unread[d] <= Len(asked[d])
            /\ taken[d] <= Len(sent[d])
        BY TypesOf
      <4>1. CASE d = c
        BY <4>0, <4>1, <1>1
      <4>2. CASE d # c
        BY <4>0, <4>2, <1>1
      <4>3. QED
        BY <4>1, <4>2
    <3>2. QED
      BY <3>1
  <2>3. at' \in 0 .. Len(clients) /\ ready' \subseteq 1 .. Len(clients)
    <3>1. \/ at' = at + 1 /\ ready' = ready /\ at < Len(clients)
          \/ at' = 0 /\ ready' = {}
      BY <1>0 DEF Advance
    <3>2. ready \subseteq 1 .. Len(clients)
      BY ListTypes
    <3>3. QED
      <4>1. CASE at' = 0 /\ ready' = {}
        BY <4>1, <1>0
      <4>2. CASE at' = at + 1 /\ ready' = ready /\ at < Len(clients)
        BY <4>2, <1>0, <3>2
      <4>3. QED
        BY <3>1, <4>1, <4>2
  <2>4. QED
    BY <1>0, <2>1, <2>2, <2>3 DEF TypeInv, TypeOK
<1>3. ListInv'
  <2>1. poll_fds = [i \in 1 .. Len(clients) |-> Entry(clients[i], client[clients[i]])]
    BY DEF ListInv
  <2>2. ASSUME NEW i \in 1 .. Len(clients)
        PROVE  poll_fds'[i] = Entry(clients[i], client'[clients[i]])
    <3>1. CASE i = at
      BY <3>1, <1>0, <1>1, <2>1
    <3>2. CASE i # at
      <4>1. clients[i] # c /\ clients[i] \in Conns
        <5>1. clients[i] = clients[at] => i = at
          BY <1>0 DEF ListInv
        <5>2. QED
          BY <3>2, <5>1, ListTypes
      <4>2. poll_fds'[i] = poll_fds[i] /\ client'[clients[i]] = client[clients[i]]
        BY <3>2, <4>1, <1>0, <1>1, <2>1
      <4>3. QED
        BY <4>2, <2>1
    <3>3. QED
      BY <3>1, <3>2
  <2>3. poll_fds' = [i \in 1 .. Len(clients) |-> poll_fds'[i]]
    BY <1>0, <2>1
  <2>4. poll_fds' = [i \in 1 .. Len(clients) |-> Entry(clients[i], client'[clients[i]])]
    BY <2>2, <2>3
  <2>5. /\ \A i, j \in 1 .. Len(clients') : clients'[i] = clients'[j] => i = j
        /\ \A i \in 1 .. Len(clients') : conn'[clients'[i]] = "open"
        /\ \A d \in Conns : conn'[d] = "open" => \E i \in 1 .. Len(clients') : clients'[i] = d
        /\ Len(clients') <= MaxClients
    BY <1>0 DEF ListInv
  <2>6. poll_fds' = [i \in 1 .. Len(clients') |-> Entry(clients'[i], client'[clients'[i]])]
    <3>1. clients' = clients
      BY <1>0
    <3>2. QED
      BY <3>1, <2>4
  <2>7. QED
    BY <2>5, <2>6 DEF ListInv, Entry, PollFd, PollEvents
<1>4. ReadyInv'
  BY <1>0, <1>1, OthersReady
<1>5. ASSUME NEW d \in Conns PROVE ConnInv(d)'
  <2>1. CASE d = c
    <3>1. Len(asked[c]) \in Nat /\ Len(k.inbuf) \in Nat
      <4>1. k.inbuf \in Seq(Ids)
        BY DEF ClientType
      <4>2. QED
        BY <4>1, TypesOf
    <3>2. Consumed(c)' = m
      <4>1. Consumed(c)' = Len(asked[c]) - 0 - Len(k.inbuf)
        BY <1>1 DEF Consumed
      <4>2. m \in Nat /\ m + Len(k.inbuf) = Len(asked[c])
        OBVIOUS
      <4>3. Len(asked[c]) - 0 - Len(k.inbuf) = m
        BY <3>1, <4>2
      <4>4. QED
        BY <4>1, <4>3
    <3>3. BufferInv(c)'
      <4>1. Len(asked[c]) <= MaxSegments
        BY DEF ConnInv, BufferInv
      <4>2. QED
        BY <1>1, <3>2, <4>1 DEF BufferInv
    <3>4. Output(c)' = out \o k.outbuf
      BY <1>1 DEF Output
    <3>5. AnswerInv(c)'
      BY <1>0, <1>1, <3>2, <3>4 DEF AnswerInv
    <3>6. QED
      BY <2>1, <3>3, <3>5 DEF ConnInv
  <2>2. CASE d # c
    BY <1>0, <1>1, <2>2, Untouched
  <2>3. QED
    BY <2>1, <2>2
<1>6. OneTaskPerWait' /\ FreshInv'
  <2>1. \A t \in Ids : t[1] \in Conns
    BY DEF Ids
  <2>2. OneTaskPerWait'
    BY <1>0, <1>1, <2>1 DEF OneTaskPerWait
  <2>3. FreshInv'
    BY <1>0, <1>1, <2>1 DEF FreshInv
  <2>4. QED
    BY <2>2, <2>3
<1>7. QED
  BY <1>2, <1>3, <1>4, <1>5, <1>6

(* client_process has failed after out was written.                        *)
LEMMA DisconnectStep ==
  ASSUME IInv, at \in ready, NEW c \in Conns, c = clients[at], NEW out,
         Disconnect(c), Written(c, out), InOrder(c, asked[c], out), TasksElsewhere(c)
  PROVE  IInv'
<1> USE DEF IInv, Written, TasksElsewhere
<1>0. /\ at \in 1 .. Len(clients) /\ Len(clients) \in Nat /\ conn[c] = "open"
      /\ conn' = [conn EXCEPT ![c] = "closed"]
      /\ clients' = RemoveAt(clients, at)
      /\ client' = [client EXCEPT ![c] = Client]
      /\ BuildPollFds
      /\ at' = 0 /\ ready' = {}
      /\ clients \in Seq(Conns)
  BY ReadyClient DEF Disconnect, LeaveLoop, TypeInv, TypeOK
<1>1. /\ client'[c] = Client /\ unread'[c] = 0 /\ sent'[c] = out /\ conn'[c] = "closed"
      /\ \A d \in Conns : d # c => /\ client'[d] = client[d] /\ unread'[d] = unread[d]
                                   /\ sent'[d] = sent[d] /\ conn'[d] = conn[d]
  BY <1>0 DEF TypeInv, TypeOK
<1>2. /\ clients' \in Seq(Conns) /\ Len(clients') = Len(clients) - 1
      /\ \A j \in 1 .. Len(clients) - 1 :
           clients'[j] = IF j < at THEN clients[j] ELSE clients[j + 1]
      /\ DOMAIN clients' = 1 .. Len(clients')
  <2>1. clients' \in Seq(Conns) /\ Len(clients') = Len(clients) - 1
        /\ \A j \in 1 .. Len(clients) - 1 :
             clients'[j] = IF j < at THEN clients[j] ELSE clients[j + 1]
    BY <1>0, RemoveAtElements
  <2>2. QED
    BY <2>1
<1>3. TypeInv'
  <2>1. client' \in [Conns -> ClientType] /\ unread' \in [Conns -> Nat]
        /\ sent' \in [Conns -> Seq(Ids \cup {Media})]
        /\ conn' \in [Conns -> {"idle", "backlog", "open", "closed"}]
    BY <1>0, ClientIsOne DEF TypeInv, TypeOK, Outs, Elements
  <2>2. \A d \in Conns : unread'[d] <= Len(asked[d]) /\ taken[d] <= Len(sent'[d])
    <3>1. ASSUME NEW d \in Conns PROVE unread'[d] <= Len(asked[d]) /\ taken[d] <= Len(sent'[d])
      <4>0. /\ Len(asked[d]) \in Nat /\ unread[d] <= Len(asked[d])
            /\ taken[d] <= Len(sent[d])
        BY TypesOf
      <4>1. CASE d = c
        BY <4>0, <4>1, <1>1
      <4>2. CASE d # c
        BY <4>0, <4>2, <1>1
      <4>3. QED
        BY <4>1, <4>2
    <3>2. QED
      BY <3>1
  <2>3. at' \in 0 .. Len(clients') /\ ready' \subseteq 1 .. Len(clients')
    BY <1>0, <1>2
  <2>4. QED
    BY <1>2, <2>1, <2>2, <2>3 DEF TypeInv, TypeOK
<1>4. ListInv'
  <2>0. \A i, j \in 1 .. Len(clients) : clients[i] = clients[j] => i = j
    BY DEF ListInv
  <2>1. \A j \in 1 .. Len(clients') : \E i \in 1 .. Len(clients) :
          i = (IF j < at THEN j ELSE j + 1) /\ i # at /\ clients'[j] = clients[i]
    <3>1. ASSUME NEW j \in 1 .. Len(clients')
          PROVE  \E i \in 1 .. Len(clients) :
                   i = (IF j < at THEN j ELSE j + 1) /\ i # at /\ clients'[j] = clients[i]
      <4>1. CASE j < at
        BY <4>1, <1>0, <1>2
      <4>2. CASE ~(j < at)
        <5>1. j + 1 \in 1 .. Len(clients) /\ j + 1 # at /\ j \in 1 .. Len(clients) - 1
          BY <4>2, <1>0, <1>2
        <5>2. QED
          BY <4>2, <5>1, <1>2
      <4>3. QED
        BY <4>1, <4>2
    <3>2. QED
      BY <3>1
  <2>2. ASSUME NEW i \in 1 .. Len(clients'), NEW j \in 1 .. Len(clients'),
               clients'[i] = clients'[j]
        PROVE  i = j
    <3>1. PICK p \in 1 .. Len(clients) :
            p = (IF i < at THEN i ELSE i + 1) /\ clients'[i] = clients[p]
      BY <2>1
    <3>2. PICK q \in 1 .. Len(clients) :
            q = (IF j < at THEN j ELSE j + 1) /\ clients'[j] = clients[q]
      BY <2>1
    <3>3. p = q
      BY <2>0, <2>2, <3>1, <3>2
    <3>4. QED
      BY <1>0, <1>2, <3>1, <3>2, <3>3
  <2>3. \A j \in 1 .. Len(clients') : conn'[clients'[j]] = "open"
    <3>1. ASSUME NEW j \in 1 .. Len(clients') PROVE conn'[clients'[j]] = "open"
      <4>1. PICK i \in 1 .. Len(clients) : i # at /\ clients'[j] = clients[i]
        BY <2>1
      <4>2. clients[i] \in Conns /\ clients[i] # c /\ conn[clients[i]] = "open"
        BY <4>1, <2>0, <1>0 DEF ListInv
      <4>3. QED
        BY <4>1, <4>2, <1>1
    <3>2. QED
      BY <3>1
  <2>4. ASSUME NEW d \in Conns, conn'[d] = "open"
        PROVE  \E j \in 1 .. Len(clients') : clients'[j] = d
    <3>1. d # c /\ conn[d] = "open"
      BY <2>4, <1>1
    <3>2. PICK i \in 1 .. Len(clients) : clients[i] = d
      BY <3>1 DEF ListInv
    <3>3. i # at
      BY <3>1, <3>2
    <3>4. CASE i < at
      BY <3>2, <3>4, <1>0, <1>2
    <3>5. CASE i > at
      <4>1. i - 1 \in 1 .. Len(clients) - 1 /\ ~(i - 1 < at) /\ (i - 1) + 1 = i
        BY <3>5, <1>0
      <4>2. clients'[i - 1] = d
        BY <4>1, <3>2, <1>2
      <4>3. QED
        BY <4>1, <4>2, <1>2
    <3>6. QED
      BY <3>3, <3>4, <3>5, <1>0
  <2>5. Len(clients') <= MaxClients
    BY <1>0, <1>2, LoopAssumption DEF ListInv
  <2>6. poll_fds' = [i \in 1 .. Len(clients') |-> Entry(clients'[i], client'[clients'[i]])]
    BY <1>0, <1>2 DEF BuildPollFds
  <2>7. QED
    BY <2>2, <2>3, <2>4, <2>5, <2>6 DEF ListInv, Entry, PollFd, PollEvents
<1>5. ReadyInv'
  BY <1>0 DEF ReadyInv
<1>6. ASSUME NEW d \in Conns PROVE ConnInv(d)'
  <2>1. CASE d = c
    <3>1. Len(asked[c]) \in Nat
      BY TypesOf
    <3>2. Consumed(c)' = Len(asked[c])
      <4>1. Consumed(c)' = Len(asked[c]) - 0 - 0
        BY <1>1 DEF Consumed, Client
      <4>2. QED
        BY <3>1, <4>1
    <3>3. BufferInv(c)'
      BY <1>0, <1>1, <3>1, <3>2 DEF ConnInv, BufferInv, Client
    <3>4. AnswerInv(c)'
      BY <1>0, <1>1, <3>2 DEF AnswerInv
    <3>5. QED
      BY <2>1, <3>3, <3>4 DEF ConnInv
  <2>2. CASE d # c
    BY <1>0, <1>1, <2>2, Untouched
  <2>3. QED
    BY <2>1, <2>2
<1>7. OneTaskPerWait' /\ FreshInv'
  <2>1. \A t \in Ids : t[1] \in Conns
    BY DEF Ids
  <2>2. OneTaskPerWait'
    BY <1>0, <1>1, <2>1 DEF OneTaskPerWait
  <2>3. FreshInv'
    BY <1>0, <1>1, <2>1 DEF FreshInv
  <2>4. QED
    BY <2>2, <2>3
<1>8. QED
  BY <1>3, <1>4, <1>5, <1>6, <1>7

(* The answers of every connection are in order: AnswersInOrder.           *)
LEMMA OutputInOrder ==
  ASSUME IInv, NEW c \in Conns
  PROVE  /\ Output(c) \in Outs /\ InOrder(c, asked[c], Output(c))
         /\ InOrder(c, asked[c], sent[c])
<1> USE DEF IInv
<1>1. /\ asked[c] \in Seq(Kinds) /\ sent[c] \in Outs /\ client[c].outbuf \in Outs
      /\ Len(sent[c]) \in Nat /\ Len(client[c].outbuf) \in Nat
  BY TypesOf
<1>2. Output(c) \in Outs
  BY <1>1, ConcatProperties DEF Output, Outs, Elements
<1>3. Len(sent[c]) <= Len(Output(c)) /\ \A i \in 1 .. Len(sent[c]) : sent[c][i] = Output(c)[i]
  BY <1>1, ConcatFront DEF Output, Outs, Elements
<1>4. Consumed(c) \in Nat /\ AnswerInv(c)
  BY DEF ConnInv, BufferInv
<1>5. CASE conn[c] = "open"
  <2>1. CASE client[c].state # "wait"
    BY <2>1, <1>1, <1>2, <1>3, <1>4, <1>5, CaughtInOrder, InOrderPrefix DEF AnswerInv
  <2>2. CASE client[c].state = "wait"
    <3>1. Consumed(c) - 1 \in Nat /\ Caught(c, asked[c], Output(c), Consumed(c) - 1)
      <4>1. Complete(asked[c], Consumed(c)) /\ Caught(c, asked[c], Output(c), Consumed(c) - 1)
        BY <2>2, <1>4, <1>5 DEF AnswerInv
      <4>2. Consumed(c) \in 1 .. Len(asked[c])
        BY <4>1, <1>1 DEF Complete
      <4>3. QED
        BY <4>1, <4>2, <1>1
    <3>2. QED
      BY <3>1, <1>1, <1>2, <1>3, CaughtInOrder, InOrderPrefix
  <2>3. QED
    BY <2>1, <2>2
<1>6. CASE conn[c] # "open"
  <2>1. InOrder(c, asked[c], sent[c])
    BY <1>1, <1>4, <1>6, CaughtNothing DEF AnswerInv, TypeInv, TypeOK
  <2>2. Output(c) = sent[c]
    <3>1. client[c].outbuf = <<>>
      BY <1>4, <1>6 DEF AnswerInv, Client
    <3>2. QED
      BY <3>1, <1>1, ConcatEmptySeq DEF Output, Outs, Elements
  <2>3. QED
    BY <1>2, <2>1, <2>2
<1>7. QED
  BY <1>5, <1>6

(* What read_data leaves in inbuf.                                         *)
LEMMA InputSound ==
  ASSUME IInv, NEW c \in Conns
  PROVE  /\ Input(c) \in Seq(Ids) /\ Consumed(c) \in Nat /\ Len(Input(c)) \in Nat
         /\ Consumed(c) + Len(Input(c)) = Len(asked[c])
         /\ \A i \in 1 .. Len(Input(c)) : Input(c)[i] = <<c, Consumed(c) + i>>
<1> DEFINE in == client[c].inbuf
           more == Arrived(c)
<1>1. /\ Len(asked[c]) \in Nat /\ unread[c] \in Nat /\ unread[c] <= Len(asked[c])
      /\ in \in Seq(Ids) /\ Len(in) \in Nat
  BY TypesOf DEF IInv
<1>2. /\ Consumed(c) \in Nat /\ Len(asked[c]) <= MaxSegments
      /\ \A i \in 1 .. Len(in) : in[i] = <<c, Consumed(c) + i>>
  BY DEF IInv, ConnInv, BufferInv
<1>3. Consumed(c) = Len(asked[c]) - unread[c] - Len(in)
  BY DEF Consumed
<1>4. \A i \in 1 .. unread[c] : <<c, Len(asked[c]) - unread[c] + i>> \in Ids
  BY <1>1, <1>2, LoopAssumption DEF Ids
<1>5. more \in Seq(Ids) /\ Len(more) = unread[c]
      /\ \A i \in 1 .. unread[c] : more[i] = <<c, Len(asked[c]) - unread[c] + i>>
  BY <1>1, <1>4 DEF Arrived
<1>6. Input(c) = in \o more
  BY DEF Input
<1> HIDE DEF in, more
<1>7. /\ in \o more \in Seq(Ids) /\ Len(in \o more) = Len(in) + unread[c]
      /\ \A i \in 1 .. Len(in) + unread[c] :
           (in \o more)[i] = IF i <= Len(in) THEN in[i] ELSE more[i - Len(in)]
  <2>1. /\ in \o more \in Seq(Ids) /\ Len(in \o more) = Len(in) + Len(more)
        /\ \A i \in 1 .. Len(in) + Len(more) :
             (in \o more)[i] = IF i <= Len(in) THEN in[i] ELSE more[i - Len(in)]
    <3>1. in \in Seq(Ids) /\ more \in Seq(Ids)
      BY <1>1, <1>5
    <3>2. QED
      BY <3>1, ConcatProperties
  <2>2. Len(more) = unread[c]
    BY <1>5
  <2>3. QED
    BY <2>1, <2>2
<1>8. Consumed(c) + Len(Input(c)) = Len(asked[c])
  BY <1>1, <1>2, <1>3, <1>6, <1>7
<1>9. ASSUME NEW i \in 1 .. Len(Input(c)) PROVE Input(c)[i] = <<c, Consumed(c) + i>>
  <2>0. i \in 1 .. Len(in) + unread[c]
    BY <1>6, <1>7
  <2>1. CASE i <= Len(in)
    BY <2>0, <2>1, <1>1, <1>2, <1>6, <1>7
  <2>2. CASE ~(i <= Len(in))
    <3>1. /\ i - Len(in) \in 1 .. unread[c]
          /\ Len(asked[c]) - unread[c] + (i - Len(in)) = Consumed(c) + i
      BY <2>0, <2>2, <1>1, <1>3
    <3>2. QED
      BY <2>0, <2>2, <3>1, <1>5, <1>6, <1>7
  <2>3. QED
    BY <2>1, <2>2
<1>10. Input(c) \in Seq(Ids) /\ Len(Input(c)) \in Nat
  BY <1>1, <1>6, <1>7
<1>11. QED
  BY <1>2, <1>8, <1>9, <1>10

(* After the task of a client that was woken is freed, it has none left.   *)
LEMMA ReclaimedSound ==
  ASSUME IInv, at \in ready, NEW c \in Conns, c = clients[at]
  PROVE  /\ Reclaimed(c) \in [Ids -> Tasks!Life]
         /\ \A t \in Ids : t[1] # c => Reclaimed(c)[t] = life[t]
         /\ \A t \in Ids : t[1] = c => Reclaimed(c)[t] = "free"
<1>1. life \in [Ids -> Tasks!Life] /\ "free" \in Tasks!Life
  BY DEF IInv, TypeInv, TypeOK, Tasks!Life
<1>2. conn[c] = "open"
  BY ReadyClient
<1>3. \A t \in Ids : t[1] = c =>
        (life[t] # "free" <=> client[c].state = "wait" /\ client[c].wait = t)
  BY <1>2 DEF IInv, OneTaskPerWait
<1>4. CASE client[c].state = "wait"
  <2>1. client[c].wait = <<c, Consumed(c)>> /\ client[c].wait \in Ids
    BY <1>2, <1>4, ReadyClient DEF IInv, ConnInv, AnswerInv
  <2>2. Reclaimed(c) = [life EXCEPT ![client[c].wait] = "free"]
    BY <1>4 DEF Reclaimed
  <2>3. client[c].wait[1] = c
    BY <2>1
  <2>4. QED
    BY <2>1, <2>2, <2>3, <1>1, <1>3
<1>5. CASE client[c].state # "wait"
  BY <1>5, <1>1, <1>3 DEF Reclaimed
<1>6. QED
  BY <1>4, <1>5

(* The client after the reply it waited for: all that was taken out of     *)
(* inbuf is answered.                                                      *)
LEMMA WokenSound ==
  ASSUME IInv, NEW c \in Conns, conn[c] = "open", NEW full,
         full = Woken([client[c] EXCEPT !.inbuf = Input(c), !.protocol = TRUE])
  PROVE  /\ full \in ClientType /\ full.state # "wait" /\ full.inbuf = Input(c)
         /\ full.outbuf \in Outs
         /\ Caught(c, asked[c], sent[c] \o full.outbuf, Consumed(c))
<1> USE DEF IInv
<1>1. /\ asked[c] \in Seq(Kinds) /\ sent[c] \in Outs /\ Len(asked[c]) \in Nat
      /\ client[c] \in ClientType /\ client[c].outbuf \in Outs
      /\ Consumed(c) \in Nat /\ Input(c) \in Seq(Ids)
  BY TypesOf, InputSound
<1>2. AnswerInv(c)
  BY DEF ConnInv
<1>3. CASE client[c].state # "wait"
  <2>1. full = [client[c] EXCEPT !.inbuf = Input(c), !.protocol = TRUE]
    BY <1>1, <1>3 DEF Woken, ClientType
  <2>2. full \in ClientType /\ full.state # "wait" /\ full.inbuf = Input(c)
        /\ full.outbuf = client[c].outbuf
    BY <1>1, <1>3, <2>1 DEF ClientType
  <2>3. Caught(c, asked[c], sent[c] \o full.outbuf, Consumed(c))
    BY <1>2, <1>3, <2>2 DEF AnswerInv, Output
  <2>4. QED
    BY <1>1, <2>2, <2>3
<1>4. CASE client[c].state = "wait"
  <2>1. /\ client[c].wait = <<c, Consumed(c)>> /\ Complete(asked[c], Consumed(c))
        /\ Caught(c, asked[c], Output(c), Consumed(c) - 1)
    BY <1>2, <1>4 DEF AnswerInv
  <2>2. Consumed(c) - 1 \in Nat /\ (Consumed(c) - 1) + 1 = Consumed(c)
        /\ Consumed(c) \in 1 .. Len(asked[c])
    <3>1. Consumed(c) \in 1 .. Len(asked[c])
      BY <1>1, <2>1 DEF Complete
    <3>2. QED
      BY <3>1, <1>1
  <2>3. <<c, Consumed(c)>> \in Ids
    BY <2>2, <1>1, LoopAssumption DEF Ids, ConnInv, BufferInv
  <2>4. full = [[client[c] EXCEPT !.inbuf = Input(c), !.protocol = TRUE]
                  EXCEPT !.state = "normal", !.wait = NoId,
                         !.outbuf = Append(@, client[c].wait)]
    BY <1>1, <1>4 DEF Woken, ClientType
  <2>5. Append(client[c].outbuf, client[c].wait) \in Outs
    BY <1>1, <2>1, <2>3, AppendProperties DEF Outs, Elements
  <2>6. full \in ClientType /\ full.state # "wait" /\ full.inbuf = Input(c)
        /\ full.outbuf = Append(client[c].outbuf, <<c, Consumed(c)>>)
    BY <1>1, <2>1, <2>4, <2>5 DEF ClientType, Outs, Elements
  <2>7. sent[c] \o full.outbuf = Append(Output(c), <<c, Consumed(c)>>)
    <3> DEFINE a == sent[c]
               b == client[c].outbuf
               e == <<c, Consumed(c)>>
    <3>1. a \in Outs /\ b \in Outs /\ e \in Elements
      BY <1>1, <2>3 DEF Elements
    <3> HIDE DEF a, b, e
    <3>2. a \o Append(b, e) = Append(a \o b, e)
      BY <3>1, OneMore
    <3> USE DEF a, b, e
    <3>3. QED
      BY <2>6, <3>2 DEF Output
  <2>8. Output(c) \in Outs
    BY OutputInOrder
  <2>9. Caught(c, asked[c], Append(Output(c), <<c, (Consumed(c) - 1) + 1>>), (Consumed(c) - 1) + 1)
    BY <1>1, <2>1, <2>2, <2>3, <2>8, CaughtReply
  <2>10. QED
    BY <2>2, <2>5, <2>6, <2>7, <2>9, <2>1
<1>5. QED
  BY <1>3, <1>4

(* A buffer that holds what comes after m segments ends its first complete *)
(* request at end; what comes after it stays, and nothing before it was    *)
(* complete.                                                               *)
EndsAt(c, in, out, m, end) ==
  /\ end \in 1 .. Len(in) /\ in[end] = <<c, m + end>> /\ <<c, m + end>> \in Ids
  /\ Complete(asked[c], m + end)
  /\ m + end - 1 \in Nat /\ Caught(c, asked[c], out, m + end - 1)
  /\ m + end + Len(Rest(in, end)) = Len(asked[c])
  /\ \A i \in 1 .. Len(Rest(in, end)) : Rest(in, end)[i] = <<c, m + end + i>>

LEMMA TakenOut ==
  ASSUME NEW c \in Conns, asked[c] \in Seq(Kinds), NEW in \in Seq(Ids), NEW m \in Nat,
         m + Len(in) = Len(asked[c]),
         \A i \in 1 .. Len(in) : in[i] = <<c, m + i>>,
         NEW out \in Outs, Caught(c, asked[c], out, m), FirstRequest(in) > 0
  PROVE  EndsAt(c, in, out, m, FirstRequest(in))
<1> DEFINE end == FirstRequest(in)
<1> HIDE DEF end
<1>0. Len(in) \in Nat /\ Len(asked[c]) \in Nat
  OBVIOUS
<1>1. end \in 1 .. Len(in) /\ Kind(in[end]) \notin Partial
      /\ \A i \in 1 .. Len(in) : i < end => Kind(in[i]) \in Partial
  <2>1. /\ end \in 0 .. Len(in) /\ end > 0
        /\ end > 0 => Kind(in[end]) \notin Partial
        /\ \A i \in 1 .. Len(in) : i < end \/ end = 0 => Kind(in[i]) \in Partial
    BY FirstRequestEnds DEF end
  <2>2. QED
    BY <2>1, <1>0
<1>2. in[end] = <<c, m + end>> /\ m + end \in 1 .. Len(asked[c]) /\ in[end] \in Ids
  BY <1>0, <1>1
<1>3. \A i \in 1 .. Len(in) : Kind(in[i]) = asked[c][m + i]
  BY DEF Kind
<1>4. Complete(asked[c], m + end)
  <2>1. Kind(in[end]) = asked[c][m + end]
    BY <1>1, <1>3
  <2>2. QED
    BY <1>1, <1>2, <2>1 DEF Complete
<1>5. m + end - 1 \in Nat /\ m <= m + end - 1
  BY <1>0, <1>1
<1>6. ASSUME NEW n \in m + 1 .. m + end - 1 PROVE ~Complete(asked[c], n)
  <2>1. n - m \in 1 .. Len(in) /\ n - m < end /\ m + (n - m) = n
    BY <1>0, <1>1
  <2>2. asked[c][n] \in Partial
    BY <2>1, <1>1, <1>3
  <2>3. QED
    BY <2>2 DEF Complete
<1>7. Caught(c, asked[c], out, m + end - 1)
  BY <1>5, <1>6, CaughtSkip
<1>8. /\ Rest(in, end) \in Seq(Ids) /\ Len(Rest(in, end)) = Len(in) - end
      /\ \A i \in 1 .. Len(in) - end : Rest(in, end)[i] = in[end + i]
  <2>1. end \in Nat /\ 1 <= end /\ end <= Len(in)
    BY <1>0, <1>1
  <2>2. \A i \in end + 1 .. Len(in) : in[i] \in Ids
    BY <2>1
  <2>3. /\ Rest(in, end) \in Seq(Ids)
        /\ Len(Rest(in, end)) = IF end + 1 <= Len(in) THEN Len(in) - (end + 1) + 1 ELSE 0
        /\ \A i \in 1 .. Len(in) - (end + 1) + 1 : Rest(in, end)[i] = in[(end + 1) + i - 1]
    BY <1>0, <2>1, <2>2, SubSeqProperties DEF Rest
  <2>4. Len(Rest(in, end)) = Len(in) - end
    BY <1>0, <2>1, <2>3
  <2>5. ASSUME NEW i \in 1 .. Len(in) - end PROVE Rest(in, end)[i] = in[end + i]
    <3>1. i \in 1 .. Len(in) - (end + 1) + 1 /\ (end + 1) + i - 1 = end + i
      BY <1>0, <2>1
    <3>2. QED
      BY <3>1, <2>3
  <2>6. QED
    BY <2>3, <2>4, <2>5
<1>9. ASSUME NEW i \in 1 .. Len(Rest(in, end)) PROVE Rest(in, end)[i] = <<c, m + end + i>>
  <2>1. i \in 1 .. Len(in) - end
    BY <1>8
  <2>2. end + i \in 1 .. Len(in) /\ m + (end + i) = m + end + i
    <3>1. end \in Nat /\ i \in Nat /\ 1 <= i /\ i <= Len(in) - end
      BY <2>1, <1>0, <1>1
    <3>2. QED
      BY <3>1, <1>0
  <2>3. QED
    BY <2>1, <2>2, <1>8
<1>10. m + end + Len(Rest(in, end)) = Len(asked[c])
  BY <1>0, <1>1, <1>8
<1>11. QED
  BY <1>1, <1>2, <1>4, <1>5, <1>7, <1>9, <1>10 DEF EndsAt, end

LEMMA GiveUpStep ==
  ASSUME IInv, Serve, GiveUp(clients[at])
  PROVE  IInv'
<1> DEFINE c == clients[at]
<1>1. at \in ready /\ c \in Conns
  BY ReadyClient DEF Serve
<1>2. /\ asked' = asked /\ gone' = gone /\ taken' = taken
      /\ unread' = [unread EXCEPT ![c] = 0]
  BY DEF Serve
<1>3. Disconnect(c) /\ sent' = sent /\ life' = life /\ worker' = worker /\ detached' = detached
  BY DEF GiveUp, tvars
<1>4. sent' = [sent EXCEPT ![c] = sent[c]] /\ TasksElsewhere(c)
  BY <1>1, <1>3 DEF IInv, TypeInv, TypeOK, TasksElsewhere
<1>5. sent[c] \in Outs /\ taken[c] <= Len(sent[c]) /\ Len(sent[c]) <= taken[c] + SendBuffer
  BY <1>1, TypesOf DEF IInv, ConnInv, BufferInv
<1>6. InOrder(c, asked[c], sent[c])
  BY <1>1, OutputInOrder
<1> HIDE DEF c
<1>7. Written(c, sent[c])
  BY <1>2, <1>4, <1>5 DEF Written
<1>8. QED
  BY <1>1, <1>3, <1>4, <1>6, <1>7, DisconnectStep DEF c

(* One write of outbuf takes a client from full to k with out sent: what   *)
(* was sent and what is left to be sent make up the same as before.        *)
Writes(c, full, k, out) ==
  /\ k \in ClientType /\ k.outbuf \in Outs /\ out \in Outs
  /\ k.state = full.state /\ k.inbuf = full.inbuf
  /\ out \o k.outbuf = sent[c] \o full.outbuf
  /\ taken[c] <= Len(out) /\ Len(out) <= taken[c] + SendBuffer

LEMMA WriteSound ==
  ASSUME IInv, NEW c \in Conns, NEW full \in ClientType, full.outbuf \in Outs,
         NEW n, n = Min({Len(full.outbuf), Room(c)}),
         NEW k, k = [full EXCEPT !.outbuf = Rest(@, n)],
         NEW out, out = sent[c] \o SubSeq(full.outbuf, 1, n)
  PROVE  Writes(c, full, k, out)
<1>1. /\ sent[c] \in Outs /\ Len(sent[c]) \in Nat /\ taken[c] \in Nat
      /\ taken[c] <= Len(sent[c]) /\ Len(sent[c]) <= taken[c] + SendBuffer
      /\ SendBuffer \in Nat
  BY TypesOf, LoopAssumption DEF IInv, ConnInv, BufferInv
<1>2. Room(c) \in Nat /\ Room(c) = SendBuffer - (Len(sent[c]) - taken[c])
  BY <1>1 DEF Room
<1>3. Len(full.outbuf) \in Nat
  BY DEF Outs, Elements
<1>4. n \in Nat /\ n <= Len(full.outbuf) /\ n <= Room(c)
  BY <1>2, <1>3, MinTwo
<1>5. n \in 0 .. Len(full.outbuf) /\ sent[c] \in Seq(Elements)
      /\ full.outbuf \in Seq(Elements)
  BY <1>1, <1>3, <1>4 DEF Outs
<1>6. /\ Rest(full.outbuf, n) \in Outs /\ out \in Outs /\ Len(out) = Len(sent[c]) + n
      /\ out \o Rest(full.outbuf, n) = sent[c] \o full.outbuf
  <2> DEFINE a == sent[c]
             b == full.outbuf
  <2>1. a \in Seq(Elements) /\ b \in Seq(Elements) /\ n \in 0 .. Len(b)
    BY <1>5
  <2> HIDE DEF a, b
  <2>2. /\ Rest(b, n) \in Seq(Elements) /\ a \o SubSeq(b, 1, n) \in Seq(Elements)
        /\ Len(a \o SubSeq(b, 1, n)) = Len(a) + n
        /\ (a \o SubSeq(b, 1, n)) \o Rest(b, n) = a \o b
    BY <2>1, WriteOut, ZenonT(60)
  <2>3. out = a \o SubSeq(b, 1, n)
    BY DEF a, b
  <2>4. QED
    BY <2>2, <2>3 DEF Outs, a, b
<1>7. /\ k \in ClientType /\ k.outbuf = Rest(full.outbuf, n)
      /\ k.state = full.state /\ k.inbuf = full.inbuf
  BY <1>6 DEF ClientType, Outs, Elements
<1>8. taken[c] <= Len(out) /\ Len(out) <= taken[c] + SendBuffer
  BY <1>1, <1>2, <1>4, <1>6
<1>9. QED
  BY <1>6, <1>7, <1>8 DEF Writes

(* A client that has not taken another request out, and does not wait.     *)
LEMMA SoundAs ==
  ASSUME NEW c \in Conns, NEW k, NEW w \in ClientType, NEW out, NEW m, Sound(c, k, out, m),
         w.inbuf = k.inbuf, w.outbuf = k.outbuf, w.state # "wait", k.state # "wait"
  PROVE  Sound(c, w, out, m)
BY DEF Sound

(* The first complete request is taken out and answered at once.           *)
LEMMA SoundReply ==
  ASSUME NEW c \in Conns, asked[c] \in Seq(Kinds), NEW k, NEW out \in Outs, NEW m,
         Sound(c, k, out, m), k.state # "wait",
         NEW end, end = FirstRequest(k.inbuf), end > 0,
         NEW w \in ClientType, w.inbuf = Rest(k.inbuf, end),
         w.outbuf = Append(k.outbuf, k.inbuf[end]), w.state # "wait"
  PROVE  Sound(c, w, out, m + end)
<1> USE DEF EndsAt
<1>1. /\ k.inbuf \in Seq(Ids) /\ k.outbuf \in Outs /\ m \in Nat
      /\ m + Len(k.inbuf) = Len(asked[c])
      /\ \A i \in 1 .. Len(k.inbuf) : k.inbuf[i] = <<c, m + i>>
      /\ Caught(c, asked[c], out \o k.outbuf, m)
  BY DEF Sound, ClientType, Outs, Elements
<1>2. out \o k.outbuf \in Outs
  BY <1>1, ConcatProperties DEF Outs
<1>3. EndsAt(c, k.inbuf, out \o k.outbuf, m, end)
  BY <1>1, <1>2, TakenOut, ZenonT(30)
<1>4. m + end \in Nat /\ (m + end - 1) + 1 = m + end
  <2>1. m \in Nat /\ end \in Nat /\ end >= 1
    BY <1>1, <1>3
  <2>2. QED
    BY <2>1
<1>5. <<c, m + end>> \in Elements
  BY <1>3 DEF Elements
<1>6. out \o w.outbuf = Append(out \o k.outbuf, <<c, m + end>>)
  <2> DEFINE b == k.outbuf
             e == <<c, m + end>>
  <2>1. b \in Outs /\ e \in Elements /\ w.outbuf = Append(b, e)
    BY <1>1, <1>3, <1>5
  <2> HIDE DEF b, e
  <2>2. out \o w.outbuf = Append(out \o b, e)
    BY <2>1, OneMore
  <2>3. QED
    BY <2>2 DEF b, e
<1>7. Caught(c, asked[c], Append(out \o k.outbuf, <<c, (m + end - 1) + 1>>), (m + end - 1) + 1)
  BY <1>2, <1>3, <1>4, CaughtReply
<1>8. Caught(c, asked[c], out \o w.outbuf, m + end)
  BY <1>4, <1>6, <1>7
<1>9. QED
  BY <1>3, <1>4, <1>8 DEF Sound

(* The first complete request is taken out, and the client waits for the   *)
(* task made for it.                                                       *)
LEMMA SoundWait ==
  ASSUME NEW c \in Conns, asked[c] \in Seq(Kinds), NEW k, NEW out \in Outs, NEW m,
         Sound(c, k, out, m), k.state # "wait",
         NEW end, end = FirstRequest(k.inbuf), end > 0,
         NEW w \in ClientType, w.inbuf = Rest(k.inbuf, end), w.outbuf = k.outbuf,
         w.state = "wait", w.wait = k.inbuf[end]
  PROVE  Sound(c, w, out, m + end)
<1> USE DEF EndsAt
<1>1. /\ k.inbuf \in Seq(Ids) /\ k.outbuf \in Outs /\ m \in Nat
      /\ m + Len(k.inbuf) = Len(asked[c])
      /\ \A i \in 1 .. Len(k.inbuf) : k.inbuf[i] = <<c, m + i>>
      /\ Caught(c, asked[c], out \o k.outbuf, m)
  BY DEF Sound, ClientType, Outs, Elements
<1>2. out \o k.outbuf \in Outs
  BY <1>1, ConcatProperties DEF Outs
<1>3. EndsAt(c, k.inbuf, out \o k.outbuf, m, end)
  BY <1>1, <1>2, TakenOut, ZenonT(30)
<1>4. m + end \in Nat
  <2>1. m \in Nat /\ end \in Nat
    BY <1>1, <1>3
  <2>2. QED
    BY <2>1
<1>3a. Caught(c, asked[c], out \o k.outbuf, m + end - 1)
  BY <1>3 DEF EndsAt
<1> DEFINE p == m + end
<1>5. /\ p \in Nat /\ p + Len(w.inbuf) = Len(asked[c]) /\ Complete(asked[c], p)
      /\ \A i \in 1 .. Len(w.inbuf) : w.inbuf[i] = <<c, p + i>>
      /\ w.wait = <<c, p>> /\ Caught(c, asked[c], out \o w.outbuf, p - 1)
  <2>1. p \in Nat /\ p + Len(w.inbuf) = Len(asked[c]) /\ Complete(asked[c], p)
    BY <1>3, <1>4
  <2>2. \A i \in 1 .. Len(w.inbuf) : w.inbuf[i] = <<c, p + i>>
    BY <1>3
  <2>3. w.wait = <<c, p>>
    BY <1>3
  <2>4. Caught(c, asked[c], out \o w.outbuf, p - 1)
    <3>1. Caught(c, asked[c], out \o k.outbuf, p - 1)
      <4>1. m \in Int /\ end \in Int
        BY <1>1, <1>3
      <4>2. p - 1 = m + end - 1
        BY <4>1
      <4>3. QED
        BY <1>3a, <4>2
    <3>2. out \o w.outbuf = out \o k.outbuf
      OBVIOUS
    <3>3. QED
      BY <3>1, <3>2
  <2>5. QED
    BY <2>1, <2>2, <2>3, <2>4
<1> HIDE DEF p, EndsAt
<1>6. w \in ClientType /\ w.state = "wait"
  OBVIOUS
<1>7. Sound(c, w, out, p)
  BY <1>5, <1>6 DEF Sound
<1>8. QED
  BY <1>7 DEF p

(* client_process on the first complete request, once the buffer was       *)
(* written.                                                                *)
LEMMA ProcessStep ==
  ASSUME IInv, at \in ready, NEW c \in Conns, c = clients[at],
         NEW k, NEW out, NEW m, Written(c, out), Sound(c, k, out, m), k.state # "wait",
         InOrder(c, asked[c], out),
         NEW end, end = FirstRequest(k.inbuf), end > 0, Process(c, k, end)
  PROVE  IInv'
<1> DEFINE r == k.inbuf[end]
           left == [k EXCEPT !.inbuf = Rest(k.inbuf, end)]
           idle == life' = Reclaimed(c) /\ UNCHANGED <<worker, detached>>
<1>1. asked[c] \in Seq(Kinds) /\ k.inbuf \in Seq(Ids) /\ out \in Outs /\ k \in ClientType
      /\ k.outbuf \in Outs
  BY TypesOf DEF IInv, ClientType, Written, Sound, Outs, Elements
<1>2. end \in 1 .. Len(k.inbuf) /\ r \in Ids /\ r[1] = c
  <2>1. end \in 1 .. Len(k.inbuf)
    BY <1>1, FirstRequestEnds
  <2>2. QED
    BY <1>1, <2>1 DEF Sound
<1>3. Rest(k.inbuf, end) \in Seq(Ids) /\ Append(k.outbuf, r) \in Outs
  <2>1. Rest(k.inbuf, end) \in Seq(Ids)
    BY <1>1, <1>2 DEF Rest
  <2>2. r \in Elements
    BY <1>2 DEF Elements
  <2> HIDE DEF r
  <2>3. Append(k.outbuf, r) \in Outs
    BY <1>1, <2>2 DEF Outs
  <2>4. QED
    BY <2>1, <2>3
<1>4. /\ left \in ClientType /\ left.inbuf = Rest(k.inbuf, end)
      /\ left.outbuf = k.outbuf /\ left.state = k.state
  BY <1>1, <1>3 DEF ClientType
<1>5. /\ Reclaimed(c) \in [Ids -> Tasks!Life]
      /\ \A t \in Ids : t[1] # c => Reclaimed(c)[t] = life[t]
      /\ \A t \in Ids : t[1] = c => Reclaimed(c)[t] = "free"
      /\ worker \in [Ids -> BOOLEAN]
  BY ReclaimedSound DEF IInv, TypeInv
<1>6. idle => TasksElsewhere(c) /\ \A w : w.state # "wait" => TasksHere(c, w)
  BY <1>5 DEF TasksElsewhere, TasksHere
<1>7. \/ Kind(r) = "bad" /\ Disconnect(c) /\ idle
      \/ Kind(r) = "plain" /\ Carry(c, Plain(left, r)) /\ idle
      \/ Kind(r) = "open" /\ Carry(c, Stream(left, r)) /\ idle
      \/ /\ Kind(r) \in {"image", "lyrics"} /\ Carry(c, Wait(left, r))
         /\ life' = [Reclaimed(c) EXCEPT ![r] = "pending"]
         /\ worker' = [worker EXCEPT ![r] = Kind(r) = "image"]
         /\ UNCHANGED detached
  BY DEF Process
<1> HIDE DEF r, left, idle
<1>8. CASE Kind(r) = "bad" /\ Disconnect(c) /\ idle
  BY <1>6, <1>8, DisconnectStep
<1>9. CASE Kind(r) = "plain" /\ Carry(c, Plain(left, r)) /\ idle
  <2> DEFINE w == Plain(left, r)
  <2>1. /\ w \in ClientType /\ w.inbuf = Rest(k.inbuf, end) /\ w.state # "wait"
        /\ w.outbuf = Append(k.outbuf, r)
    BY <1>3, <1>4 DEF Plain, ClientType, Outs, Elements
  <2> HIDE DEF w
  <2>2. Sound(c, w, out, m + end)
    BY <1>1, <2>1, SoundReply DEF r
  <2>3. Carry(c, w) /\ TasksElsewhere(c) /\ TasksHere(c, w)
    BY <1>6, <1>9, <2>1 DEF w
  <2>4. QED
    BY <2>2, <2>3, CarryStep
<1>10. CASE Kind(r) = "open" /\ Carry(c, Stream(left, r)) /\ idle
  <2> DEFINE w == Stream(left, r)
  <2>1. /\ w \in ClientType /\ w.inbuf = Rest(k.inbuf, end) /\ w.state # "wait"
        /\ w.outbuf = Append(k.outbuf, r)
    <3>1. MaxPieces \in 0 .. MaxPieces
      BY LoopAssumption
    <3>2. QED
      BY <1>3, <1>4, <3>1 DEF Stream, ClientType, Outs, Elements
  <2> HIDE DEF w
  <2>2. Sound(c, w, out, m + end)
    BY <1>1, <2>1, SoundReply DEF r
  <2>3. Carry(c, w) /\ TasksElsewhere(c) /\ TasksHere(c, w)
    BY <1>6, <1>10, <2>1 DEF w
  <2>4. QED
    BY <2>2, <2>3, CarryStep
<1>11. CASE /\ Kind(r) \in {"image", "lyrics"} /\ Carry(c, Wait(left, r))
            /\ life' = [Reclaimed(c) EXCEPT ![r] = "pending"]
            /\ worker' = [worker EXCEPT ![r] = Kind(r) = "image"]
            /\ UNCHANGED detached
  <2> DEFINE w == Wait(left, r)
  <2>1. /\ w \in ClientType /\ w.inbuf = Rest(k.inbuf, end) /\ w.state = "wait"
        /\ w.outbuf = k.outbuf /\ w.wait = r
    BY <1>2, <1>4 DEF Wait, ClientType
  <2>2. TasksElsewhere(c) /\ TasksHere(c, w)
    <3>1. "pending" \in Tasks!Life /\ "pending" # "free"
      BY DEF Tasks!Life
    <3>2. worker' \in [Ids -> BOOLEAN]
      BY <1>5, <1>11
    <3>3. life' \in [Ids -> Tasks!Life]
      BY <1>5, <1>11, <3>1
    <3>4. \A t \in Ids : life'[t] = IF t = r THEN "pending" ELSE Reclaimed(c)[t]
      BY <1>5, <1>11
    <3>5. TasksElsewhere(c)
      BY <1>2, <1>5, <1>11, <3>2, <3>3, <3>4 DEF TasksElsewhere
    <3>6. \A t \in Ids : t[1] = c => (life'[t] # "free" <=> t = r)
      BY <1>5, <3>1, <3>4
    <3>7. QED
      BY <3>5, <3>6, <2>1 DEF TasksHere
  <2> HIDE DEF w
  <2>3. Sound(c, w, out, m + end)
    BY <1>1, <2>1, SoundWait DEF r
  <2>4. Carry(c, w)
    BY <1>11 DEF w
  <2>5. QED
    BY <2>2, <2>3, <2>4, CarryStep
<1>12. QED
  BY <1>7, <1>8, <1>9, <1>10, <1>11

(* What client_process goes on to do once out was written.                 *)
Outcome(c, k) ==
  \/ Disconnect(c) /\ UNCHANGED tvars
  \/ FirstRequest(k.inbuf) > 0 /\ Process(c, k, FirstRequest(k.inbuf))
  \/ Feed(c, k)
  \/ Carry(c, k) /\ life' = Reclaimed(c) /\ UNCHANGED <<worker, detached>>

(* client_process up to there, for a client whose peer is still there and  *)
(* whose protocol is known.                                                *)
LEMMA Continued ==
  ASSUME IInv, Serve, Continue(clients[at])
  PROVE  \E k, out : /\ Written(clients[at], out) /\ k.state # "wait"
                     /\ Sound(clients[at], k, out, Consumed(clients[at]))
                     /\ InOrder(clients[at], asked[clients[at]], out)
                     /\ Outcome(clients[at], k)
<1> DEFINE c == clients[at]
           m == Consumed(c)
<1>1. at \in ready /\ c \in Conns /\ conn[c] = "open"
  BY ReadyClient DEF Serve
<1>2. /\ asked' = asked /\ gone' = gone /\ taken' = taken
      /\ unread' = [unread EXCEPT ![c] = 0]
  BY DEF Serve
<1>3. PICK full \in {Woken([client[c] EXCEPT !.inbuf = Input(c), !.protocol = TRUE])} :
        \E n \in {Min({Len(full.outbuf), Room(c)})} :
        \E k \in {[full EXCEPT !.outbuf = Rest(@, n)]} :
        \E end \in {FirstRequest(k.inbuf)} :
          /\ sent' = [sent EXCEPT ![c] = @ \o SubSeq(full.outbuf, 1, n)]
          /\ IF k.state = "drain" /\ k.outbuf = <<>> THEN Disconnect(c) /\ UNCHANGED tvars
             ELSE IF end > 0 THEN Process(c, k, end)
             ELSE IF k.inbuf = <<>> /\ k.state = "feed" /\ k.outbuf = <<>> THEN Feed(c, k)
             ELSE Carry(c, k) /\ life' = Reclaimed(c) /\ UNCHANGED <<worker, detached>>
  BY DEF Continue
<1>4. PICK n \in {Min({Len(full.outbuf), Room(c)})} :
        \E k \in {[full EXCEPT !.outbuf = Rest(@, n)]} :
        \E end \in {FirstRequest(k.inbuf)} :
          /\ sent' = [sent EXCEPT ![c] = @ \o SubSeq(full.outbuf, 1, n)]
          /\ IF k.state = "drain" /\ k.outbuf = <<>> THEN Disconnect(c) /\ UNCHANGED tvars
             ELSE IF end > 0 THEN Process(c, k, end)
             ELSE IF k.inbuf = <<>> /\ k.state = "feed" /\ k.outbuf = <<>> THEN Feed(c, k)
             ELSE Carry(c, k) /\ life' = Reclaimed(c) /\ UNCHANGED <<worker, detached>>
  BY <1>3
<1>5. PICK k \in {[full EXCEPT !.outbuf = Rest(@, n)]} :
        \E end \in {FirstRequest(k.inbuf)} :
          /\ sent' = [sent EXCEPT ![c] = @ \o SubSeq(full.outbuf, 1, n)]
          /\ IF k.state = "drain" /\ k.outbuf = <<>> THEN Disconnect(c) /\ UNCHANGED tvars
             ELSE IF end > 0 THEN Process(c, k, end)
             ELSE IF k.inbuf = <<>> /\ k.state = "feed" /\ k.outbuf = <<>> THEN Feed(c, k)
             ELSE Carry(c, k) /\ life' = Reclaimed(c) /\ UNCHANGED <<worker, detached>>
  BY <1>4
<1>6. PICK end \in {FirstRequest(k.inbuf)} :
          /\ sent' = [sent EXCEPT ![c] = @ \o SubSeq(full.outbuf, 1, n)]
          /\ IF k.state = "drain" /\ k.outbuf = <<>> THEN Disconnect(c) /\ UNCHANGED tvars
             ELSE IF end > 0 THEN Process(c, k, end)
             ELSE IF k.inbuf = <<>> /\ k.state = "feed" /\ k.outbuf = <<>> THEN Feed(c, k)
             ELSE Carry(c, k) /\ life' = Reclaimed(c) /\ UNCHANGED <<worker, detached>>
  BY <1>5
<1> DEFINE out == sent[c] \o SubSeq(full.outbuf, 1, n)
<1>7. /\ full \in ClientType /\ full.state # "wait" /\ full.inbuf = Input(c)
      /\ full.outbuf \in Outs
      /\ Caught(c, asked[c], sent[c] \o full.outbuf, m)
  <2> HIDE DEF c
  <2>1. full = Woken([client[c] EXCEPT !.inbuf = Input(c), !.protocol = TRUE])
    OBVIOUS
  <2>2. QED
    BY <1>1, <2>1, WokenSound
<1>8. /\ k \in ClientType /\ k.outbuf \in Outs /\ out \in Outs
      /\ k.state = full.state /\ k.inbuf = full.inbuf
      /\ out \o k.outbuf = sent[c] \o full.outbuf
      /\ taken[c] <= Len(out) /\ Len(out) <= taken[c] + SendBuffer
  <2> HIDE DEF c
  <2>1. n = Min({Len(full.outbuf), Room(c)}) /\ k = [full EXCEPT !.outbuf = Rest(@, n)]
        /\ out = sent[c] \o SubSeq(full.outbuf, 1, n)
    OBVIOUS
  <2> HIDE DEF out
  <2>2. c \in Conns /\ full \in ClientType /\ full.outbuf \in Outs
    BY <1>1, <1>7
  <2>3. Writes(c, full, k, out)
    BY <1>1, <2>1, <2>2, WriteSound, ZenonT(30)
  <2>4. QED
    BY <2>3 DEF Writes
<1> HIDE DEF c, m, out
<1>9. Written(c, out)
  <2>1. sent' = [sent EXCEPT ![c] = out]
    BY <1>6 DEF out
  <2>2. QED
    BY <1>2, <1>8, <2>1 DEF Written
<1>10. Sound(c, k, out, m)
  <2>1. /\ m \in Nat /\ m + Len(k.inbuf) = Len(asked[c])
        /\ \A i \in 1 .. Len(k.inbuf) : k.inbuf[i] = <<c, m + i>>
    BY <1>1, <1>7, <1>8, InputSound DEF m
  <2>2. Caught(c, asked[c], out \o k.outbuf, m)
    BY <1>7, <1>8
  <2>3. QED
    BY <1>7, <1>8, <2>1, <2>2 DEF Sound
<1>11. InOrder(c, asked[c], out)
  <2>1. out \o k.outbuf \in Outs
    BY <1>8, ConcatProperties DEF Outs
  <2>2. InOrder(c, asked[c], out \o k.outbuf)
    BY <1>1, <1>10, <1>7, <1>8, <2>1, CaughtInOrder, TypesOf DEF Sound, IInv
  <2>3. Len(out) <= Len(out \o k.outbuf)
        /\ \A i \in 1 .. Len(out) : out[i] = (out \o k.outbuf)[i]
    <3> DEFINE b == k.outbuf
    <3>1. out \in Seq(Elements) /\ b \in Seq(Elements)
      BY <1>8 DEF Outs
    <3> HIDE DEF b
    <3>2. Len(out) <= Len(out \o b) /\ \A i \in 1 .. Len(out) : out[i] = (out \o b)[i]
      BY <3>1, ConcatFront
    <3>3. QED
      BY <3>2 DEF b
  <2>4. asked[c] \in Seq(Kinds)
    BY <1>1, TypesOf DEF IInv
  <2>5. QED
    BY <1>1, <1>8, <2>1, <2>2, <2>3, <2>4, InOrderPrefix
<1>12. k.state # "wait"
  BY <1>7, <1>8
<1>13. Outcome(c, k)
  BY <1>6 DEF Outcome
<1>14. QED
  BY <1>9, <1>10, <1>11, <1>12, <1>13 DEF c, m

(* The whole of client_process for such a client.                          *)
LEMMA ContinueStep ==
  ASSUME IInv, Serve, Continue(clients[at])
  PROVE  IInv'
<1> DEFINE c == clients[at]
           m == Consumed(c)
<1>1. at \in ready /\ c \in Conns /\ conn[c] = "open"
  BY ReadyClient DEF Serve
<1>2. PICK k, out : /\ Written(c, out) /\ k.state # "wait" /\ Sound(c, k, out, m)
                    /\ InOrder(c, asked[c], out) /\ Outcome(c, k)
  BY Continued
<1> HIDE DEF c, m
<1>8. k \in ClientType /\ k.outbuf \in Outs /\ out \in Outs
  BY <1>2 DEF Sound, Written, ClientType, Outs, Elements
<1>9. Written(c, out)
  BY <1>2
<1>10. Sound(c, k, out, m)
  BY <1>2
<1>11. InOrder(c, asked[c], out)
  BY <1>2
<1>12. c = clients[at] /\ k.state # "wait"
  BY <1>2 DEF c
<1>13. UNCHANGED tvars => TasksElsewhere(c)
  BY DEF TasksElsewhere, tvars, IInv, TypeInv, TypeOK
<1>14. life' = Reclaimed(c) /\ UNCHANGED <<worker, detached>>
         => TasksElsewhere(c) /\ \A w : w.state # "wait" => TasksHere(c, w)
  <2>1. /\ Reclaimed(c) \in [Ids -> Tasks!Life]
        /\ \A t \in Ids : t[1] # c => Reclaimed(c)[t] = life[t]
        /\ \A t \in Ids : t[1] = c => Reclaimed(c)[t] = "free"
        /\ worker \in [Ids -> BOOLEAN]
    BY <1>1, <1>12, ReclaimedSound DEF IInv, TypeInv
  <2>2. QED
    BY <2>1 DEF TasksElsewhere, TasksHere
<1>15. CASE Disconnect(c) /\ UNCHANGED tvars
  BY <1>1, <1>9, <1>11, <1>12, <1>13, <1>15, DisconnectStep
<1>16. CASE FirstRequest(k.inbuf) > 0 /\ Process(c, k, FirstRequest(k.inbuf))
  BY <1>1, <1>9, <1>10, <1>11, <1>12, <1>16, ProcessStep
<1>17. CASE Feed(c, k)
  <2>1. TasksElsewhere(c) /\ \A w : w.state # "wait" => TasksHere(c, w)
    BY <1>14, <1>17 DEF Feed
  <2>2. CASE k.left = 0
    <3> DEFINE w == [k EXCEPT !.state = "drain"]
    <3>1. w \in ClientType /\ w.inbuf = k.inbuf /\ w.outbuf = k.outbuf /\ w.state # "wait"
      BY <1>8 DEF ClientType
    <3>2. Carry(c, w)
      BY <1>17, <2>2 DEF Feed
    <3> HIDE DEF w
    <3>3. Sound(c, w, out, m)
      BY <1>1, <1>10, <1>12, <3>1, SoundAs
    <3>4. QED
      BY <1>1, <1>9, <1>12, <2>1, <3>1, <3>2, <3>3, CarryStep
  <2>3. CASE k.left # 0
    <3>1. PICK piece \in {<<>>, <<Media>>} :
            Carry(c, [k EXCEPT !.left = @ - 1, !.outbuf = @ \o piece])
      BY <1>17, <2>3 DEF Feed
    <3> DEFINE w == [k EXCEPT !.left = @ - 1, !.outbuf = @ \o piece]
    <3>2. k.left - 1 \in 0 .. MaxPieces
      BY <1>8, <2>3, LoopAssumption DEF ClientType
    <3>3. piece \in Seq(Elements) /\ k.outbuf \o piece \in Seq(Elements)
      <4>1. piece \in Seq(Elements)
        <5>1. <<>> \in Seq(Elements)
          OBVIOUS
        <5>2. <<Media>> \in Seq(Elements)
          BY DEF Elements
        <5>3. QED
          BY <5>1, <5>2
      <4>2. QED
        BY <1>8, <4>1, ConcatProperties DEF Outs
    <3>4. /\ w \in ClientType /\ w.inbuf = k.inbuf /\ w.outbuf = k.outbuf \o piece
          /\ w.state = k.state
      BY <1>8, <3>2, <3>3 DEF ClientType, Elements
    <3> HIDE DEF w
    <3>5. out \o k.outbuf \in Outs /\ asked[c] \in Seq(Kinds) /\ m \in Nat
      BY <1>1, <1>8, <1>10, ConcatProperties, TypesOf DEF Outs, Sound, IInv
    <3>6. Caught(c, asked[c], out \o w.outbuf, m)
      <4>1. CASE piece = <<>>
        <5>1. k.outbuf \o piece = k.outbuf
          BY <1>8, <4>1, ConcatEmptySeq DEF Outs
        <5>2. QED
          BY <1>10, <1>12, <3>4, <5>1 DEF Sound
      <4>2. CASE piece = <<Media>>
        <5>1. Media \in Elements
          BY DEF Elements
        <5>2. k.outbuf \o piece = Append(k.outbuf, Media)
          BY <1>8, <4>2, <5>1, AppendIsConcat DEF Outs
        <5>3. out \o w.outbuf = Append(out \o k.outbuf, Media)
          <6> DEFINE b == k.outbuf
          <6>1. b \in Outs /\ w.outbuf = Append(b, Media)
            BY <1>8, <3>4, <5>2
          <6> HIDE DEF b
          <6>2. out \o w.outbuf = Append(out \o b, Media)
            BY <1>8, <5>1, <6>1, OneMore
          <6>3. QED
            BY <6>2 DEF b
        <5>4. Caught(c, asked[c], Append(out \o k.outbuf, Media), m)
          BY <1>1, <1>10, <1>12, <3>5, CaughtMedia DEF Sound
        <5>5. QED
          BY <5>3, <5>4
      <4>3. QED
        BY <4>1, <4>2
    <3>7. Sound(c, w, out, m)
      BY <1>10, <1>12, <3>4, <3>6 DEF Sound
    <3>8. Carry(c, w)
      BY <3>1 DEF w
    <3>9. QED
      BY <1>1, <1>9, <1>12, <2>1, <3>4, <3>7, <3>8, CarryStep
  <2>4. QED
    BY <2>2, <2>3
<1>18. CASE Carry(c, k) /\ life' = Reclaimed(c) /\ UNCHANGED <<worker, detached>>
  BY <1>1, <1>9, <1>10, <1>12, <1>14, <1>18, CarryStep
<1>19. QED
  BY <1>2, <1>15, <1>16, <1>17, <1>18 DEF Outcome

LEMMA NextInv == IInv /\ [Next]_vars => IInv'
<1> SUFFICES ASSUME IInv, [Next]_vars PROVE IInv'
  OBVIOUS
<1>1. ASSUME NEW c \in Conns, Accept(c) PROVE IInv'
  BY <1>1, AcceptStep
<1>2. CASE Poll
  BY <1>2, PollStep
<1>3. CASE Skip
  BY <1>3, SkipStep
<1>4. CASE Serve
  BY <1>4, GiveUpStep, ContinueStep DEF Serve
<1>5. ASSUME NEW c \in Conns, Peer(c) /\ UNCHANGED <<lvars, tvars>> PROVE IInv'
  BY <1>5, PeerStep
<1>6. ASSUME NEW t \in Ids, TaskManager(t) PROVE IInv'
  BY <1>6, TaskManagerStep
<1>7. CASE UNCHANGED vars
  <2> USE <1>7 DEF vars, pvars, lvars, tvars, IInv
  <2>1. TypeInv'
    BY DEF TypeInv, TypeOK
  <2>2. ListInv' /\ ReadyInv'
    BY DEF ListInv, ReadyInv
  <2>3. ASSUME NEW c \in Conns PROVE ConnInv(c)'
    BY Untouched
  <2>4. OneTaskPerWait' /\ FreshInv'
    BY DEF OneTaskPerWait, FreshInv
  <2>5. QED
    BY <2>1, <2>2, <2>3, <2>4
<1>8. QED
  BY <1>1, <1>2, <1>3, <1>4, <1>5, <1>6, <1>7 DEF Next, Loop

-----------------------------------------------------------------------------
(* Theorems.                                                               *)

(* The inductive invariant holds in every reachable state.                 *)
THEOREM Invariance == Spec => []IInv
BY InitInv, NextInv, PTL DEF Spec

(* The variables of the loop keep their types; the indices of the array    *)
(* stay within it, and nobody reads what was not sent.                     *)
THEOREM TypesAlways == Spec => []TypeOK
<1>1. IInv => TypeOK
  BY DEF IInv, TypeInv
<1>2. QED
  BY <1>1, Invariance, PTL

(* The list of clients and the poll array agree with the connections that  *)
(* are open and with what each of them waits for, whenever the loop reads  *)
(* them: after build_pollfds and after the updates in thread_func.         *)
THEOREM PolledAlways == Spec => []ClientsPolled
<1>1. IInv => ClientsPolled
  <2> SUFFICES ASSUME IInv PROVE ClientsPolled
    OBVIOUS
  <2>1. /\ clients \in Seq(Conns) /\ Len(clients) \in Nat /\ DOMAIN clients = 1 .. Len(clients)
        /\ \A i \in 1 .. Len(clients) : clients[i] \in Conns
    BY ListTypes DEF IInv
  <2>2. /\ \A i, j \in 1 .. Len(clients) : clients[i] = clients[j] => i = j
        /\ \A i \in 1 .. Len(clients) : conn[clients[i]] = "open"
        /\ \A c \in Conns : conn[c] = "open" => \E i \in 1 .. Len(clients) : clients[i] = c
        /\ Len(clients) <= MaxClients
        /\ poll_fds = [i \in 1 .. Len(clients) |-> Entry(clients[i], client[clients[i]])]
    BY DEF IInv, ListInv
  <2>3. ToSet(clients) = {clients[i] : i \in 1 .. Len(clients)}
    BY <2>1 DEF ToSet
  <2>4. ToSet(clients) = {c \in Conns : conn[c] = "open"}
    BY <2>1, <2>2, <2>3
  <2>5. Cardinality(ToSet(clients)) = Len(clients)
    <3> DEFINE f == [i \in 1 .. Len(clients) |-> clients[i]]
    <3>1. f \in Bijection(1 .. Len(clients), ToSet(clients))
      BY <2>1, <2>2, <2>3 DEF Bijection, Injection, Surjection, IsInjective
    <3>2. ExistsBijection(1 .. Len(clients), ToSet(clients))
      BY <3>1 DEF ExistsBijection
    <3>3. QED
      BY <2>1, <3>2, FS_CountingElements
  <2>6. Len(poll_fds) = Len(clients)
        /\ \A i \in DOMAIN clients : poll_fds[i] = Entry(clients[i], client[clients[i]])
    BY <2>1, <2>2
  <2>7. QED
    BY <2>2, <2>4, <2>5, <2>6 DEF ClientsPolled
<1>2. QED
  BY <1>1, Invariance, PTL

(* A connection that is open has the task it waits for, and no other.      *)
THEOREM OneTaskAlways == Spec => []OneTaskPerWait
<1>1. IInv => OneTaskPerWait
  BY DEF IInv
<1>2. QED
  BY <1>1, Invariance, PTL

(* The answers on every connection are in the order of its requests, each  *)
(* once and none left out, however many requests come ahead and however    *)
(* long a task takes.                                                      *)
THEOREM InOrderAlways == Spec => []AnswersInOrder
<1>1. IInv => AnswersInOrder
  BY OutputInOrder DEF AnswersInOrder
<1>2. QED
  BY <1>1, Invariance, PTL

(* The server thread touches no task that has not signalled yet.           *)
LEMMA ServeLeavesTasks ==
  ASSUME IInv, Serve, NEW t \in Ids, life[t] \in {"pending", "running", "returned"}
  PROVE  life'[t] = life[t]
<1> DEFINE c == clients[at]
<1>1. at \in ready /\ c \in Conns /\ conn[c] = "open"
  BY ReadyClient DEF Serve
<1>2. client[c].state = "wait" => client[c].wait \in Ids /\ life[client[c].wait] = "signalled"
  BY <1>1, ReadyClient
<1>3. \A u \in Ids : u[1] = c =>
        (life[u] # "free" <=> client[c].state = "wait" /\ client[c].wait = u)
  BY <1>1 DEF IInv, OneTaskPerWait
<1>4. life \in [Ids -> Tasks!Life]
  BY DEF IInv, TypeInv, TypeOK
<1>5. t[1] # c
  BY <1>2, <1>3
<1>6. Reclaimed(c)[t] = life[t]
  BY <1>1, <1>5, ReclaimedSound
<1>7. CASE GiveUp(c)
  BY <1>7 DEF GiveUp, tvars
<1>8. CASE Continue(c)
  <2>1. PICK k, out : /\ Sound(c, k, out, Consumed(c)) /\ Outcome(c, k)
    BY <1>8, Continued
  <2>2. CASE FirstRequest(k.inbuf) > 0 /\ Process(c, k, FirstRequest(k.inbuf))
    <3> DEFINE end == FirstRequest(k.inbuf)
               r == k.inbuf[end]
    <3>1. k.inbuf \in Seq(Ids) /\ \A i \in 1 .. Len(k.inbuf) : k.inbuf[i][1] = c
      BY <2>1 DEF Sound, ClientType
    <3>2. end \in 1 .. Len(k.inbuf)
      BY <3>1, <2>2, FirstRequestEnds
    <3>3. r # t
      BY <3>1, <3>2, <1>5
    <3>4. Reclaimed(c) \in [Ids -> Tasks!Life]
      BY <1>1, ReclaimedSound
    <3>5. life' = Reclaimed(c) \/ life' = [Reclaimed(c) EXCEPT ![r] = "pending"]
      BY <2>2 DEF Process
    <3>6. QED
      BY <3>3, <3>4, <3>5, <1>6
  <2>3. QED
    BY <2>1, <2>2, <1>6 DEF Outcome, Feed, tvars
<1>9. QED
  BY <1>7, <1>8 DEF Serve

(* Nothing the loop or a peer does touches a task between task_start and   *)
(* its signal: only the task manager moves it on.                          *)
THEOREM UndisturbedAlways == Spec => TasksUndisturbed
<1> DEFINE Undisturbed ==
      \A t \in Ids : life[t] \in {"pending", "running", "returned"} /\ life'[t] # life[t]
                     => Tasks!Served(t)
<1>1. ASSUME IInv, [Next]_vars PROVE [Undisturbed]_vars
  <2>1. CASE life' = life
    BY <2>1
  <2>2. ASSUME NEW u \in Ids, TaskManager(u) PROVE Undisturbed
    <3>1. Tasks!Served(u) /\ \A t \in Ids : t # u => life'[t] = life[t]
      BY <1>1, <2>2, ServedMoves DEF TaskManager, IInv
    <3>2. QED
      BY <3>1
  <2>3. CASE Serve
    BY <1>1, <2>3, ServeLeavesTasks
  <2>4. QED
    BY <1>1, <2>1, <2>2, <2>3 DEF Next, Loop, Accept, Poll, Skip, lvars, tvars, vars
<1>2. QED
  BY <1>1, Invariance, PTL DEF Spec, TasksUndisturbed

=============================================================================
