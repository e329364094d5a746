----------------------------- MODULE EventLoop -----------------------------
(***************************************************************************)
(* The server thread of musicd: the poll loop of server.c, the connections *)
(* it serves (client.c), and how the HTTP protocol uses them (http_process *)
(* and http_feed of protocol_http.c).                                      *)
(*                                                                         *)
(* The peers, which connect, send, read and go away when they like, and    *)
(* the task manager, of which only the promises of TaskService are used,   *)
(* interleave with the loop between any two of its steps.  One call of     *)
(* client_process is one step: it runs on the server thread only, on data  *)
(* nobody else touches.  A byte stream is a sequence of segments towards   *)
(* the server, and of replies and pieces of media from it.                 *)
(***************************************************************************)
EXTENDS Naturals, Sequences, SequencesExt, FiniteSetsExt

CONSTANTS Conns,        \* connections, each made once: client_t and its socket
          MaxClients,   \* MAX_CLIENTS
          MaxWorkers,   \* MAX_ACTIVE_WORKERS of the task manager
          SendBuffer,   \* what the kernel holds of the data written to a socket
          Kinds,        \* the segments the peers of this instance send
          MaxSegments,  \* bound: how many segments all the peers send together
          MaxPieces     \* bound: how many steps the media of a stream takes

(***************************************************************************)
(* "short"   the first bytes of a request, too few for http_detect         *)
(* "part"    the first bytes of a request                                  *)
(* "plain"   (the rest of) a request that is answered at once              *)
(* "image"   a request for a thumbnail, which takes a worker task          *)
(* "lyrics"  a request for lyrics, which takes a task that is no worker    *)
(* "open"    a request for a stream                                        *)
(* "bad"     a request http_process refuses                                *)
(***************************************************************************)
Partial == {"short", "part"}
ASSUME LoopAssumption ==
  /\ Kinds \subseteq Partial \cup {"plain", "image", "lyrics", "open", "bad"}
  /\ {MaxClients, MaxWorkers, SendBuffer} \subseteq Nat \ {0}
  /\ {MaxSegments, MaxPieces} \subseteq Nat

(* The n-th segment of connection c is <<c, n>>; a request is named by its *)
(* last segment, and so are the reply to it and the task made for it.      *)
Ids == Conns \X (1 .. MaxSegments)
NoId == <<>>
Media == <<"media">>

VARIABLES conn,      \* conn[c]: "idle", "backlog", "open" or "closed"
          asked,     \* asked[c]: the kind of every segment its peer has sent
          unread,    \* unread[c]: how many of them the server has not read
          gone,      \* gone[c]: the peer has shut down its side
          sent,      \* sent[c]: all that was written to the socket of c
          taken,     \* taken[c]: how much of it the peer has read
          client,    \* client[c]: the client_t of connection c
          clients,   \* the list of clients, in order
          poll_fds,  \* the entries of the clients in the poll array
          ready,     \* the entries whose revents poll has set
          at,        \* i of the loop in thread_func; 0 is the call of poll
          life, worker, detached  \* the task manager

Tasks == INSTANCE TaskService WITH Tasks <- Ids

pvars == <<conn, asked, unread, gone, taken>>
lvars == <<sent, client, clients, poll_fds, ready, at>>
tvars == <<life, worker, detached>>
vars == <<pvars, lvars, tvars>>

(* client_new: inbuf and outbuf are sequences, wait is the request whose   *)
(* task wait_task is, left is what http->stream still has to give.         *)
Client == [state |-> "normal", protocol |-> FALSE, inbuf |-> <<>>,
           outbuf |-> <<>>, wait |-> NoId, left |-> 0]

Init == /\ conn = [c \in Conns |-> "idle"]
        /\ asked = [c \in Conns |-> <<>>]
        /\ unread = [c \in Conns |-> 0]
        /\ gone = [c \in Conns |-> FALSE]
        /\ sent = [c \in Conns |-> <<>>]
        /\ taken = [c \in Conns |-> 0]
        /\ client = [c \in Conns |-> Client]
        /\ clients = <<>>
        /\ poll_fds = <<>>
        /\ ready = {}
        /\ at = 0
        /\ Tasks!SInit

-----------------------------------------------------------------------------
(* The peers.                                                              *)

Connect(c) == /\ conn[c] = "idle"
              /\ conn' = [conn EXCEPT ![c] = "backlog"]
              /\ UNCHANGED <<asked, unread, gone, taken>>

(* The segments there are names for, and all that were sent.               *)
Segments == MapThenSumSet(LAMBDA d : Len(asked[d]), Conns)

Send(c, kind) ==
  /\ conn[c] \in {"backlog", "open"} /\ ~gone[c]
  /\ Len(asked[c]) < MaxSegments /\ Segments < MaxSegments
  /\ asked' = [asked EXCEPT ![c] = Append(@, kind)]
  /\ unread' = [unread EXCEPT ![c] = @ + 1]
  /\ UNCHANGED <<conn, gone, taken>>

Leave(c) == /\ conn[c] \in {"backlog", "open"} /\ ~gone[c]
            /\ gone' = [gone EXCEPT ![c] = TRUE]
            /\ UNCHANGED <<conn, asked, unread, taken>>

Receive(c) == /\ taken[c] < Len(sent[c])
              /\ taken' = [taken EXCEPT ![c] = @ + 1]
              /\ UNCHANGED <<conn, asked, unread, gone>>

-----------------------------------------------------------------------------
(* The poll array.                                                         *)

(* Seeded fault: a client that waits for a task still polls its socket.    *)
PollFdSocket(k) == NoId

(* client_poll_fd: the pipe of the task, or the socket (NoId).             *)
PollFd(k) == IF k.state = "wait" THEN k.wait ELSE NoId

(* Seeded fault: buffered output alone does not ask for POLLOUT.           *)
PollEventsFew(k) ==
  (IF k.state # "drain" THEN {"POLLIN"} ELSE {}) \cup
  (IF k.state \in {"feed", "drain"} THEN {"POLLOUT"} ELSE {})

(* client_poll_events.                                                     *)
PollEvents(k) ==
  (IF k.state # "drain" THEN {"POLLIN"} ELSE {}) \cup
  (IF k.outbuf # <<>> \/ k.state \in {"feed", "drain"} THEN {"POLLOUT"} ELSE {})

Entry(c, k) == [conn |-> c, fd |-> PollFd(k), events |-> PollEvents(k)]

(* build_pollfds, for the list and the clients as they are after a step.   *)
BuildPollFds == poll_fds' = [i \in DOMAIN clients' |-> Entry(clients'[i], client'[clients'[i]])]

Room(c) == SendBuffer - (Len(sent[c]) - taken[c])

(* What poll finds of an entry of the array.                               *)
IsReady(e) ==
  IF e.fd # NoId
  THEN "POLLIN" \in e.events /\ life[e.fd] = "signalled"
  ELSE \/ "POLLIN" \in e.events /\ (unread[e.conn] > 0 \/ gone[e.conn])
       \/ "POLLOUT" \in e.events /\ (Room(e.conn) > 0 \/ gone[e.conn])

Backlog == {c \in Conns : conn[c] = "backlog"}

(* The test of server_accept.                                              *)
Admit == Len(clients) + 1 <= MaxClients

(* server_accept, server_add_client and the continue after it: the clients *)
(* are not looked at while a connection waits to be accepted.              *)
Accept(c) ==
  /\ at = 0 /\ c \in Backlog
  /\ IF Admit
     THEN /\ conn' = [conn EXCEPT ![c] = "open"]
          /\ clients' = Append(clients, c)
          /\ client' = [client EXCEPT ![c] = Client]
          /\ BuildPollFds
     ELSE /\ conn' = [conn EXCEPT ![c] = "closed"]
          /\ UNCHANGED <<clients, client, poll_fds>>
  /\ UNCHANGED <<asked, unread, gone, taken, sent, ready, at, tvars>>

Poll == /\ at = 0 /\ Backlog = {}
        /\ ready' = {i \in DOMAIN poll_fds : IsReady(poll_fds[i])}
        /\ ready' # {}
        /\ at' = 1
        /\ UNCHANGED <<pvars, sent, client, clients, poll_fds, tvars>>

(* The next round of the for loop, or of the while loop around it.         *)
Advance == IF at < Len(clients)
           THEN at' = at + 1 /\ UNCHANGED ready
           ELSE at' = 0 /\ ready' = {}

Skip == /\ at > 0 /\ at \notin ready
        /\ Advance
        /\ UNCHANGED <<pvars, sent, client, clients, poll_fds, tvars>>

-----------------------------------------------------------------------------
(* client_process, for the client at index i of the loop.                  *)

(* Seeded fault: the loop goes on over the old poll array.                 *)
StayInLoop == at' = at /\ UNCHANGED ready

(* The break after server_del_client.                                      *)
LeaveLoop == at' = 0 /\ ready' = {}

(* client_process has failed: server_del_client closes the socket, frees   *)
(* the client_t and its stream, and rebuilds the array.  Whether the task  *)
(* the client waits for has ended or not, it is not freed.                 *)
Disconnect(c) ==
  /\ conn' = [conn EXCEPT ![c] = "closed"]
  /\ clients' = RemoveAt(clients, at)
  /\ client' = [client EXCEPT ![c] = Client]
  /\ BuildPollFds
  /\ LeaveLoop

(* Seeded fault: the entry of the client is left as it was.                *)
CarryStale(c, k) ==
  /\ client' = [client EXCEPT ![c] = k]
  /\ Advance
  /\ UNCHANGED <<conn, clients, poll_fds>>

(* client_process has succeeded with the client in state k.                *)
Carry(c, k) ==
  /\ client' = [client EXCEPT ![c] = k]
  /\ poll_fds' = [poll_fds EXCEPT ![at] = Entry(c, k)]
  /\ Advance
  /\ UNCHANGED <<conn, clients>>

(* inbuf after the loop of read_data.                                      *)
Arrived(c) == [i \in 1 .. unread[c] |-> <<c, Len(asked[c]) - unread[c] + i>>]
Input(c) == client[c].inbuf \o Arrived(c)
Kind(id) == asked[id[1]][id[2]]

(* find_protocol fails for the first input of a connection: http_detect    *)
(* wants more of it, which is taken for a refusal.  (What http_detect      *)
(* itself refuses ends as a "bad" request does, with nothing sent.)        *)
Unknown(c) == /\ ~client[c].protocol
              /\ \A i \in DOMAIN Input(c) : Kind(Input(c)[i]) = "short"

(* The end of a wait: task_free and the callback, which sends the reply.   *)
Woken(k) == IF k.state = "wait"
            THEN [k EXCEPT !.state = "normal", !.wait = NoId, !.outbuf = Append(@, k.wait)]
            ELSE k

(* Seeded fault: nobody frees the task.                                    *)
ReclaimedNever(c) == life

(* The tasks, after that of a client that was woken is freed.              *)
Reclaimed(c) == IF client[c].state = "wait"
                THEN [life EXCEPT ![client[c].wait] = "free"] ELSE life

(* Seeded fault: what was written stays in the buffer.                     *)
RestKept(out, n) == out

(* string_remove_front by write_data.                                      *)
Rest(out, n) == SubSeq(out, n + 1, Len(out))

(* The index in a buffer where its first complete request ends, 0 if none. *)
FirstRequest(in) ==
  LET ends == {i \in DOMAIN in : Kind(in[i]) \notin Partial}
  IN IF ends = {} THEN 0 ELSE Min(ends)

(* http_process on the first complete request, which is r: the reply, the  *)
(* wait for a task, or the headers of a stream.  An earlier stream is lost.*)
Plain(k, r) == [k EXCEPT !.outbuf = Append(@, r)]
Wait(k, r) == [k EXCEPT !.state = "wait", !.wait = r]
Stream(k, r) == [k EXCEPT !.outbuf = Append(@, r), !.state = "feed", !.left = MaxPieces]

Process(c, k, end) ==
  LET r == k.inbuf[end]
      left == [k EXCEPT !.inbuf = Rest(k.inbuf, end)]
      idle == life' = Reclaimed(c) /\ UNCHANGED <<worker, detached>>
  IN \/ Kind(r) = "bad" /\ Disconnect(c) /\ idle
     \/ Kind(r) = "plain" /\ Carry(c, Plain(left, r)) /\ idle
     \/ Kind(r) = "open" /\ Carry(c, Stream(left, r)) /\ idle
     \/ /\ Kind(r) \in {"image", "lyrics"} /\ Carry(c, Wait(left, r))
        /\ life' = [Reclaimed(c) EXCEPT ![r] = "pending"]
        /\ worker' = [worker EXCEPT ![r] = Kind(r) = "image"]
        /\ UNCHANGED detached

(* http_feed: the stream gives a piece, works without giving one yet, or   *)
(* has come to its end.                                                    *)
Feed(c, k) ==
  /\ IF k.left = 0
     THEN Carry(c, [k EXCEPT !.state = "drain"])
     ELSE \E piece \in {<<>>, <<Media>>} :
            Carry(c, [k EXCEPT !.left = @ - 1, !.outbuf = @ \o piece])
  /\ life' = Reclaimed(c) /\ UNCHANGED <<worker, detached>>

(* The part of client_process after the protocol is known: the reply to a *)
(* request that waited, one write of outbuf, and then a request, or a step *)
(* of the stream, or nothing.  full and k are the client before and after  *)
(* the write of n elements.                                                *)
Continue(c) ==
  \E full \in {Woken([client[c] EXCEPT !.inbuf = Input(c), !.protocol = TRUE])} :
  \E n \in {Min({Len(full.outbuf), Room(c)})} :
  \E k \in {[full EXCEPT !.outbuf = Rest(@, n)]} :
  \E end \in {FirstRequest(k.inbuf)} :
    /\ sent' = [sent EXCEPT ![c] = @ \o SubSeq(full.outbuf, 1, n)]
    /\ IF k.state = "drain" /\ k.outbuf = <<>> THEN Disconnect(c) /\ UNCHANGED tvars
       ELSE IF end > 0 THEN Process(c, k, end)
       ELSE IF k.inbuf = <<>> /\ k.state = "feed" /\ k.outbuf = <<>> THEN Feed(c, k)
       ELSE Carry(c, k) /\ life' = Reclaimed(c) /\ UNCHANGED <<worker, detached>>

(* The peer is gone, or speaks no protocol of ours: nothing else is done.  *)
GiveUp(c) == /\ gone[c] \/ Unknown(c)
             /\ Disconnect(c)
             /\ UNCHANGED <<sent, tvars>>

Serve == /\ at \in ready
         /\ LET c == clients[at]
            IN /\ unread' = [unread EXCEPT ![c] = 0]
               /\ GiveUp(c) \/ (~gone[c] /\ ~Unknown(c) /\ Continue(c))
         /\ UNCHANGED <<asked, gone, taken>>

-----------------------------------------------------------------------------
Loop == (\E c \in Conns : Accept(c)) \/ Poll \/ Skip \/ Serve

Peer(c) == \/ Connect(c) \/ Leave(c) \/ Receive(c)
           \/ \E kind \in Kinds : Send(c, kind)

TaskManager(t) == Tasks!Served(t) /\ UNCHANGED <<pvars, lvars>>

Next == \/ Loop
        \/ \E c \in Conns : Peer(c) /\ UNCHANGED <<lvars, tvars>>
        \/ \E t \in Ids : TaskManager(t)

(* The server thread runs, tasks are served (TaskPool), peers that stay    *)
(* read what they are sent.                                                *)
Fairness == /\ WF_vars(Loop)
            /\ \A t \in Ids : WF_vars(TaskManager(t))
            /\ \A c \in Conns : WF_vars(Receive(c) /\ UNCHANGED <<lvars, tvars>>)

Spec == Init /\ [][Next]_vars
FairSpec == Spec /\ Fairness

-----------------------------------------------------------------------------
(* Properties.                                                             *)

ClientType ==
  [state : {"normal", "feed", "wait", "drain"}, protocol : BOOLEAN,
   inbuf : Seq(Ids), outbuf : Seq(Ids \cup {Media}),
   wait : Ids \cup {NoId}, left : 0 .. MaxPieces]

(* Every variable has its type, and no peer has read what was not sent.    *)
TypeOK ==
  /\ conn \in [Conns -> {"idle", "backlog", "open", "closed"}]
  /\ asked \in [Conns -> Seq(Kinds)] /\ sent \in [Conns -> Seq(Ids \cup {Media})]
  /\ unread \in [Conns -> Nat] /\ taken \in [Conns -> Nat]
  /\ \A c \in Conns : unread[c] <= Len(asked[c]) /\ taken[c] <= Len(sent[c])
  /\ gone \in [Conns -> BOOLEAN]
  /\ client \in [Conns -> ClientType]
  /\ clients \in Seq(Conns)
  /\ at \in 0 .. Len(clients) /\ ready \subseteq 1 .. Len(clients)
  /\ life \in [Ids -> Tasks!Life]

(* The list of clients holds each open connection once and nothing else,   *)
(* and no more than MAX_CLIENTS, through every order of accepting, closing *)
(* and refusing connections; and the poll array, a cache of the list and of*)
(* the states of the clients rebuilt or updated in four places, agrees with*)
(* it whenever the loop reads it: entry i is about client i and asks for   *)
(* what this client now waits for.                                         *)
ClientsPolled ==
  /\ ToSet(clients) = {c \in Conns : conn[c] = "open"}
  /\ Cardinality(ToSet(clients)) = Len(clients)
  /\ Len(clients) <= MaxClients
  /\ Len(poll_fds) = Len(clients)
  /\ \A i \in DOMAIN clients : poll_fds[i] = Entry(clients[i], client[clients[i]])

(* The tasks of a connection that is open: the one it waits for, and no    *)
(* other.  So a request never leaves a task behind while the connection    *)
(* lasts, and a waiting client always has a task that will wake it.        *)
OneTaskPerWait ==
  \A t \in Ids : conn[t[1]] = "open" =>
    (life[t] # "free" <=> client[t[1]].state = "wait" /\ client[t[1]].wait = t)

(* task.h warns that freeing a task that has not signalled yet is a fault. *)
(* The loop never touches a task between task_start and its signal.        *)
TasksUndisturbed ==
  [][\A t \in Ids : life[t] \in {"pending", "running", "returned"} /\ life'[t] # life[t]
                      => Tasks!Served(t)]_vars

(* The answers on a connection come in the order of its requests, each     *)
(* once and none left out, even when the peer has sent several requests    *)
(* ahead and one of them waits for a task.                                 *)
Complete(kinds, n) == n \in DOMAIN kinds /\ kinds[n] \notin Partial
Replies(out) == {i \in DOMAIN out : out[i] # Media}

InOrder(c, kinds, out) ==
  /\ \A i \in Replies(out) : out[i][1] = c /\ Complete(kinds, out[i][2])
  /\ \A i, j \in Replies(out) : i < j => out[i][2] < out[j][2]
  /\ \A i \in Replies(out) : \A n \in 1 .. out[i][2] :
       Complete(kinds, n) => \E j \in Replies(out) : out[j] = <<c, n>>

Output(c) == sent[c] \o client[c].outbuf
AnswersInOrder == \A c \in Conns : InOrder(c, asked[c], Output(c))

(* Every complete request is answered, or its connection is closed: no     *)
(* request is forgotten in inbuf, in the task manager or in outbuf.        *)
Answered(id) == id \in ToSet(SubSeq(sent[id[1]], 1, taken[id[1]]))
EveryRequestAnswered ==
  \A id \in Ids : (id[2] \in DOMAIN asked[id[1]] /\ Kind(id) \notin Partial)
                    ~> (Answered(id) \/ conn[id[1]] = "closed")

(* protocol.h: closing a client frees all resources associated with it.    *)
(* The task it waited for is one of them.                                  *)
NoTaskLeftBehind ==
  \A t \in Ids : conn[t[1]] = "closed" ~> life[t] = "free"

(* client.h: in the feeder state, if the socket can be written to, feed is *)
(* called.  So the media of a stream comes to its end while the peer reads *)
(* it, or something else is done for the connection.                       *)
StreamsEnd ==
  \A c \in Conns : (conn[c] = "open" /\ client[c].state = "feed")
                     ~> (conn[c] = "closed" \/ client[c].state # "feed")

=============================================================================
