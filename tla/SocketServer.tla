---------------------------- MODULE SocketServer ----------------------------
(***************************************************************************)
(* The line-reversing server of Socket/Assignment with the clients of the  *)
(* same program.  The server's main thread accepts connections and creates *)
(* a thread for each; a thread reads one line from its descriptor, writes  *)
(* the reversed line, closes the descriptor and returns.  A reaper thread  *)
(* is meant to join the returned threads through a linked list.  A client  *)
(* writes a word and a newline with two calls of write, waits for a reply, *)
(* and connects again for its next word.                                   *)
(*                                                                         *)
(* A thread knows its connection only by the descriptor's number, which    *)
(* the kernel gives out again (the lowest free one) once it is closed; a   *)
(* call blocked in read keeps the connection it found.  The bytes of one   *)
(* write are read together.  A word is a value: its reversal is the value  *)
(* itself, marked with whether the reply covers the whole word.            *)
(***************************************************************************)
EXTENDS Integers, Sequences

CONSTANTS
  Client,    (* the client processes                                       *)
  Tid,       (* the threads the system lets the server create              *)
  MaxFd,     (* bound: descriptors the server can have left                *)
  MaxConns,  (* bound: connections the clients make in all                 *)
  Word,      (* what users type                                            *)
  Long,      (* the words whose line does not fit in INT_LEN bytes         *)
  MainThread (* server main and reaper, for the thread list                *)

Conns  == 1 .. MaxConns
Fds    == 1 .. MaxFd
NoConn == 0
NoFd   == 0
NL     == "newline"
NULL   == "null"
Nobody == "nobody"
NoAnswer == [of |-> <<>>, whole |-> FALSE]

ASSUME FdAssumption   == MaxFd \in Nat
ASSUME ConnAssumption == MaxConns \in Nat
ASSUME WordAssumption == NL \notin Word /\ Long \subseteq Word
ASSUME TidAssumption  == NULL \notin Tid /\ MainThread \notin Tid
ASSUME ClientAssumption == Nobody \notin Client

VARIABLES
  cl,        (* clients: where each one is in its loop                     *)
  sock,      (* clients: the connection of cfd                             *)
  input,     (* clients: the last word typed                               *)
  answer,    (* clients: the last reply read                               *)
  made,      (* connections made so far                                    *)
  owner,     (* the client that made each connection                       *)
  up, down,  (* what is under way to the server and to the client          *)
  backlog,   (* connections accept has not returned yet                    *)
  file,      (* the server's descriptor table                              *)
  room,      (* the descriptors the system leaves it for connections       *)
  main, cfd, (* server main: where it is, and its local cfd                *)
  new,       (* server main: the thread of p_new_thread                    *)
  st,        (* connection threads: where each one is                      *)
  fd,        (* connection threads: socket_fd                              *)
  buf,       (* connection threads: the words read_line has in buffer      *)
  at,        (* connection threads: what a blocked read waits on           *)
  list,      (* the data pointers of thread_list, from the first node      *)
  lost,      (* history: connections whose thread could not be created     *)
  conn,      (* history: the connection a thread was created for           *)
  failed     (* history: some read_line of the server returned 0 or -1     *)

clientVars == <<cl, sock, input, answer, made, owner>>
netVars    == <<up, down, backlog>>
mainVars   == <<room, main, cfd, new, list, lost>>
thrVars    == <<st, fd, buf, at, conn>>
vars == <<clientVars, netVars, file, mainVars, thrVars, failed>>

\* Some descriptor or some blocked read of the server refers to connection k.
Held(k) == (\E f \in Fds : file[f] = k) \/ (\E t \in Tid : at[t] = k)

Queued(k) == \E i \in 1 .. Len(backlog) : backlog[i] = k

\* The server has released connection k: what is written to it is lost.
Released(k) == k <= made /\ ~Queued(k) /\ ~Held(k)

Alive(k) == cl[owner[k]] # "dead"

Init ==
  /\ cl = [c \in Client |-> "connect"]
  /\ sock = [c \in Client |-> NoConn]
  /\ input = [c \in Client |-> NULL]
  /\ answer = [c \in Client |-> NoAnswer]
  /\ made = 0
  /\ owner = [k \in Conns |-> Nobody]
  /\ up = [k \in Conns |-> <<>>] /\ down = [k \in Conns |-> <<>>]
  /\ backlog = <<>>
  /\ room \in 0 .. MaxFd /\ file = [f \in Fds |-> NoConn]
  /\ main = "accept" /\ cfd = NoFd /\ new = NULL
  /\ st = [t \in Tid |-> "none"]
  /\ fd = [t \in Tid |-> NoFd]
  /\ buf = [t \in Tid |-> <<>>]
  /\ at = [t \in Tid |-> NoConn]
  /\ conn = [t \in Tid |-> NoConn]
  /\ list = <<NULL, MainThread>>
  /\ lost = {}
  /\ failed = FALSE

-----------------------------------------------------------------------------
(* The clients *)

\* The first connect, and the one after each reply.  The earlier descriptor
\* is overwritten, never closed.
Connect(c) ==
  /\ cl[c] = "connect" /\ made < MaxConns
  /\ made' = made + 1
  /\ sock' = [sock EXCEPT ![c] = made + 1]
  /\ owner' = [owner EXCEPT ![made + 1] = c]
  /\ backlog' = Append(backlog, made + 1)
  /\ cl' = [cl EXCEPT ![c] = "input"]
  /\ input' = [input EXCEPT ![c] = NULL]
  /\ answer' = [answer EXCEPT ![c] = NoAnswer]
  /\ UNCHANGED <<up, down, file, mainVars, thrVars, failed>>

\* The client connects with an address freeaddrinfo has freed: connect fails,
\* and the loop goes on with a descriptor no call can use.
ReconnectFails(c) ==
  /\ cl[c] = "connect" /\ sock[c] # NoConn
  /\ cl' = [cl EXCEPT ![c] = "useless"]
  /\ UNCHANGED <<sock, input, answer, made, owner, netVars, file, mainVars,
                 thrVars, failed>>

\* write(cfd, ...) of a client: lost when the server has let go of the socket.
WriteUp(k, x) == up' = IF Released(k) THEN up ELSE [up EXCEPT ![k] = Append(@, x)]

SendWord(c, w) ==
  /\ cl[c] = "input"
  /\ WriteUp(sock[c], w)
  /\ input' = [input EXCEPT ![c] = w]
  /\ cl' = [cl EXCEPT ![c] = "newline"]
  /\ UNCHANGED <<sock, answer, made, owner, down, backlog, file, mainVars,
                 thrVars, failed>>

SendNewline(c) ==
  /\ cl[c] = "newline"
  /\ WriteUp(sock[c], NL)
  /\ cl' = [cl EXCEPT ![c] = "wait"]
  /\ UNCHANGED <<sock, input, answer, made, owner, down, backlog, file, mainVars,
                 thrVars, failed>>

ReadReply(c) ==
  /\ cl[c] = "wait" /\ down[sock[c]] # <<>>
  /\ answer' = [answer EXCEPT ![c] = Head(down[sock[c]])]
  /\ down' = [down EXCEPT ![sock[c]] = Tail(@)]
  /\ cl' = [cl EXCEPT ![c] = "connect"]
  /\ UNCHANGED <<sock, input, made, owner, up, backlog, file, mainVars, thrVars,
                 failed>>

\* End of file or an error: the client goes on with the same descriptor.
ReadNothing(c) ==
  /\ cl[c] = "wait" /\ down[sock[c]] = <<>> /\ Released(sock[c])
  /\ cl' = [cl EXCEPT ![c] = "input"]
  /\ UNCHANGED <<sock, input, answer, made, owner, netVars, file, mainVars,
                 thrVars, failed>>

\* The user ends the client, whose descriptors the kernel closes.
Kill(c) ==
  /\ cl[c] # "dead" /\ sock[c] # NoConn
  /\ cl' = [cl EXCEPT ![c] = "dead"]
  /\ UNCHANGED <<sock, input, answer, made, owner, netVars, file, mainVars,
                 thrVars, failed>>

-----------------------------------------------------------------------------
(* The server's main thread and its reaper *)

\* Without a free descriptor accept fails and main tries again.
Accept(f) ==
  /\ main = "accept" /\ backlog # <<>> /\ f <= room
  /\ file[f] = NoConn /\ \A g \in Fds : g < f => file[g] # NoConn
  /\ file' = [file EXCEPT ![f] = Head(backlog)]
  /\ backlog' = Tail(backlog)
  /\ main' = "create" /\ cfd' = f
  /\ UNCHANGED <<clientVars, up, down, room, new, list, lost, thrVars, failed>>

CreateThread(t) ==
  /\ main = "create" /\ st[t] = "none"
  /\ st' = [st EXCEPT ![t] = "read"]
  /\ fd' = [fd EXCEPT ![t] = cfd]
  /\ conn' = [conn EXCEPT ![t] = file[cfd]]
  /\ main' = "insert" /\ new' = t
  /\ UNCHANGED <<clientVars, netVars, file, room, cfd, list, lost, buf, at, failed>>

\* The thread cannot be created: main goes on without closing cfd.
CreateFails ==
  /\ main = "create" /\ \A t \in Tid : st[t] # "none"
  /\ main' = "accept" /\ cfd' = NoFd
  /\ lost' = lost \cup ({file[cfd]} \ {NoConn})
  /\ UNCHANGED <<clientVars, netVars, file, room, new, list, thrVars, failed>>

\* llist_insert_at_end, and a tryjoin of the reaper that cannot succeed.
Insert ==
  /\ main = "insert"
  /\ list' = Append(list, new) /\ new' = NULL
  /\ main' = "accept" /\ cfd' = NoFd
  /\ UNCHANGED <<clientVars, netVars, file, room, lost, thrVars, failed>>

\* One traversal of the list: it does not advance at a node without data, so
\* it never ends there; otherwise the first returned thread leaves the list.
Joinable(i) == i > 1 /\ list[i] \in Tid /\ st[list[i]] = "returned"

FirstJoinable(i) == /\ Joinable(i)
                    /\ \A m \in 1 .. i - 1 : list[m] # NULL /\ ~Joinable(m)

Reap ==
  /\ IF \E i \in 1 .. Len(list) : FirstJoinable(i)
       THEN \E i \in 1 .. Len(list) :
              /\ FirstJoinable(i)
              /\ list' = SubSeq(list, 1, i - 1) \o SubSeq(list, i + 1, Len(list))
       ELSE list' = list
  /\ UNCHANGED <<clientVars, netVars, file, room, main, cfd, new, lost, thrVars, failed>>

-----------------------------------------------------------------------------
(* The connection threads *)

\* read finds the connection behind the descriptor and waits on it.
BeginRead(t) ==
  /\ st[t] = "read" /\ at[t] = NoConn /\ file[fd[t]] # NoConn
  /\ at' = [at EXCEPT ![t] = file[fd[t]]]
  /\ UNCHANGED <<clientVars, netVars, file, mainVars, st, fd, buf, conn, failed>>

\* Mutant: a newline does not end the line.
TakeNoEnd(t) ==
  /\ st[t] = "read" /\ at[t] # NoConn /\ up[at[t]] # <<>>
  /\ buf' = [buf EXCEPT ![t] = IF Head(up[at[t]]) = NL THEN @
                               ELSE Append(@, Head(up[at[t]]))]
  /\ up' = [up EXCEPT ![at[t]] = Tail(@)]
  /\ at' = [at EXCEPT ![t] = NoConn]
  /\ UNCHANGED <<clientVars, down, backlog, file, mainVars, st, fd, conn, failed>>

\* What one write sent is placed in buffer; a newline ends the line.
TakeData(t) ==
  /\ st[t] = "read" /\ at[t] # NoConn /\ up[at[t]] # <<>>
  /\ buf' = [buf EXCEPT ![t] = IF Head(up[at[t]]) = NL THEN @
                               ELSE Append(@, Head(up[at[t]]))]
  /\ up' = [up EXCEPT ![at[t]] = Tail(@)]
  /\ st' = [st EXCEPT ![t] = IF Head(up[at[t]]) = NL THEN "write" ELSE "read"]
  /\ at' = [at EXCEPT ![t] = NoConn]
  /\ UNCHANGED <<clientVars, down, backlog, file, mainVars, fd, conn, failed>>

\* End of file: a line without newline, or 0 when nothing had been read.
TakeEof(t) ==
  /\ st[t] = "read" /\ at[t] # NoConn /\ up[at[t]] = <<>> /\ ~Alive(at[t])
  /\ st' = [st EXCEPT ![t] = IF buf[t] = <<>> THEN "skip" ELSE "writeCut"]
  /\ failed' = (failed \/ buf[t] = <<>>)
  /\ at' = [at EXCEPT ![t] = NoConn]
  /\ UNCHANGED <<clientVars, netVars, file, mainVars, fd, buf, conn>>

\* read fails: the descriptor is closed, or the client ended with a reply it
\* had not read, which resets the connection.
ReadFails(t) ==
  /\ st[t] = "read"
  /\ \/ at[t] = NoConn /\ file[fd[t]] = NoConn
     \/ at[t] # NoConn /\ ~Alive(at[t]) /\ down[at[t]] # <<>>
  /\ st' = [st EXCEPT ![t] = "skip"]
  /\ failed' = TRUE
  /\ at' = [at EXCEPT ![t] = NoConn]
  /\ UNCHANGED <<clientVars, netVars, file, mainVars, fd, buf, conn>>

\* Mutant: the descriptor is set to -1 and the loop goes on.
SkipMinusOne(t) ==
  /\ st[t] = "skip"
  /\ file' = [file EXCEPT ![fd[t]] = NoConn]
  /\ fd' = [fd EXCEPT ![t] = -1]
  /\ buf' = [buf EXCEPT ![t] = <<>>]
  /\ st' = [st EXCEPT ![t] = "read"]
  /\ UNCHANGED <<clientVars, netVars, mainVars, at, conn, failed>>

\* close and continue: the descriptor's number is kept and read again.
SkipRequest(t) ==
  /\ st[t] = "skip"
  /\ file' = [file EXCEPT ![fd[t]] = NoConn]
  /\ buf' = [buf EXCEPT ![t] = <<>>]
  /\ st' = [st EXCEPT ![t] = "read"]
  /\ UNCHANGED <<clientVars, netVars, mainVars, fd, at, conn, failed>>

\* reverse_socket_string drops the last character, which is the newline only
\* when the line was ended by one and fitted.
Reverse(t) == [of    |-> buf[t],
               whole |-> /\ st[t] = "write" /\ Len(buf[t]) <= 1
                         /\ \A i \in 1 .. Len(buf[t]) : buf[t][i] \notin Long]

\* Mutant: the descriptor is read from a record main reuses.
WriteShared(t) ==
  /\ st[t] \in {"write", "writeCut"}
  /\ LET k == IF cfd # NoFd THEN file[cfd] ELSE file[fd[t]] IN
       down' = IF k = NoConn THEN down
                             ELSE [down EXCEPT ![k] = Append(@, Reverse(t))]
  /\ st' = [st EXCEPT ![t] = "close"]
  /\ buf' = [buf EXCEPT ![t] = <<>>]
  /\ UNCHANGED <<clientVars, up, backlog, file, mainVars, fd, at, conn, failed>>

\* Mutant: the descriptor is closed after the write, and again at the end.
WriteAndClose(t) ==
  /\ st[t] \in {"write", "writeCut"}
  /\ LET k == file[fd[t]] IN
       down' = IF k = NoConn THEN down
                             ELSE [down EXCEPT ![k] = Append(@, Reverse(t))]
  /\ file' = [file EXCEPT ![fd[t]] = NoConn]
  /\ st' = [st EXCEPT ![t] = "close"]
  /\ buf' = [buf EXCEPT ![t] = <<>>]
  /\ UNCHANGED <<clientVars, up, backlog, mainVars, fd, at, conn, failed>>

WriteReply(t) ==
  /\ st[t] \in {"write", "writeCut"}
  /\ LET k == file[fd[t]] IN
       down' = IF k = NoConn THEN down
                             ELSE [down EXCEPT ![k] = Append(@, Reverse(t))]
  /\ st' = [st EXCEPT ![t] = "close"]
  /\ buf' = [buf EXCEPT ![t] = <<>>]
  /\ UNCHANGED <<clientVars, up, backlog, file, mainVars, fd, at, conn, failed>>

\* Mutant: the thread returns without closing.
ReturnOnly(t) ==
  /\ st[t] = "close"
  /\ st' = [st EXCEPT ![t] = "returned"]
  /\ fd' = [fd EXCEPT ![t] = NoFd] /\ conn' = [conn EXCEPT ![t] = NoConn]
  /\ UNCHANGED <<clientVars, netVars, file, mainVars, buf, at, failed>>

CloseAndReturn(t) ==
  /\ st[t] = "close"
  /\ file' = [file EXCEPT ![fd[t]] = NoConn]
  /\ st' = [st EXCEPT ![t] = "returned"]
  /\ fd' = [fd EXCEPT ![t] = NoFd] /\ conn' = [conn EXCEPT ![t] = NoConn]
  /\ UNCHANGED <<clientVars, netVars, mainVars, buf, at, failed>>

-----------------------------------------------------------------------------
ClientStep(c) ==
  \/ Connect(c) \/ ReconnectFails(c) \/ SendNewline(c)
  \/ ReadReply(c) \/ ReadNothing(c) \/ Kill(c)
  \/ \E w \in Word : SendWord(c, w)

MainStep == (\E f \in Fds : Accept(f)) \/ (\E t \in Tid : CreateThread(t))
              \/ CreateFails \/ Insert

ThreadStep(t) ==
  \/ BeginRead(t) \/ TakeData(t) \/ TakeEof(t) \/ ReadFails(t)
  \/ SkipRequest(t) \/ WriteReply(t) \/ CloseAndReturn(t)

Next == \/ \E c \in Client : ClientStep(c)
        \/ MainStep
        \/ Reap
        \/ \E t \in Tid : ThreadStep(t)

Spec == Init /\ [][Next]_vars

\* The threads of the server are scheduled, and so are the clients: one writes
\* the newline right after its word and reads a reply that has arrived.  Users
\* need not type.
Fairness ==
  /\ WF_vars(MainStep) /\ WF_vars(Reap)
  /\ \A t \in Tid : WF_vars(ThreadStep(t))
  /\ \A c \in Client : WF_vars(SendNewline(c)) /\ WF_vars(ReadReply(c))

FairSpec == Spec /\ Fairness

-----------------------------------------------------------------------------
Serving(t) == st[t] \notin {"none", "returned"}

Reply == [of : Seq(Word), whole : BOOLEAN]

\* Every variable holds a value the program can give it.
TypeOK ==
  /\ cl \in [Client -> {"connect", "input", "newline", "wait", "useless", "dead"}]
  /\ sock \in [Client -> Conns \cup {NoConn}]
  /\ input \in [Client -> Word \cup {NULL}]
  /\ answer \in [Client -> Reply]
  /\ made \in 0 .. MaxConns
  /\ owner \in [Conns -> Client \cup {Nobody}]
  /\ up \in [Conns -> Seq(Word \cup {NL})]
  /\ down \in [Conns -> Seq(Reply)]
  /\ backlog \in Seq(Conns)
  /\ room \in 0 .. MaxFd /\ file \in [Fds -> Conns \cup {NoConn}]
  /\ main \in {"accept", "create", "insert"} /\ cfd \in Fds \cup {NoFd}
  /\ new \in Tid \cup {NULL}
  /\ st \in [Tid -> {"none", "read", "skip", "write", "writeCut", "close", "returned"}]
  /\ fd \in [Tid -> Fds \cup {NoFd}]
  /\ buf \in [Tid -> Seq(Word)]
  /\ at \in [Tid -> Conns \cup {NoConn}] /\ conn \in [Tid -> Conns \cup {NoConn}]
  /\ list \in Seq(Tid \cup {NULL, MainThread})
  /\ lost \subseteq Conns
  /\ failed \in BOOLEAN

\* Unless a read failed, a client is answered with the reversal of the line it
\* sent, whole when the line fits, whatever the order of threads and clients.
OwnReply ==
  ~failed => \A c \in Client : answer[c] # NoAnswer =>
    answer[c] = [of |-> <<input[c]>>, whole |-> input[c] \notin Long]

\* Unless a read failed, the descriptor of a thread is that of the connection
\* the thread was created for until the thread closes it, and the thread reads
\* no other connection.
OwnDescriptor ==
  ~failed => \A t \in Tid : Serving(t) => /\ file[fd[t]] = conn[t]
                                         /\ at[t] \in {NoConn, conn[t]}

\* No descriptor is forgotten: one that is open belongs to the connection main
\* has just accepted, to a thread that will still close it, or to one of the
\* connections main dropped when it could not create a thread.
OpenFdsServed ==
  \A f \in Fds : file[f] # NoConn =>
    \/ main = "create" /\ cfd = f
    \/ file[f] \in lost
    \/ \E t \in Tid : Serving(t) /\ fd[t] = f

\* Connection k is that of a client whose user has not typed its word yet.
Idle(k) == k # NoConn /\ cl[owner[k]] = "input" /\ sock[owner[k]] = k

\* Idle connections hold every descriptor there is, so that accept fails until
\* one of their users types: the server has no time limit against it.
Starved == \A f \in 1 .. room : Idle(file[f])

\* A client that waits gets an answer, also when connections before it held all
\* descriptors, unless idle ones hold them for ever, it ends, a read of the
\* server failed or a connection was dropped.
Answered ==
  []<>~Starved =>
    \A c \in Client :
      cl[c] = "wait" ~> (cl[c] \in {"connect", "dead"} \/ failed \/ lost # {})

\* A thread reads its own connection only: "Failed read; skip request".
OwnConnection == \A t \in Tid : at[t] \in {NoConn, conn[t]}
=============================================================================
