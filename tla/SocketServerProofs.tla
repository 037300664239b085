------------------------ MODULE SocketServerProofs ------------------------
(***************************************************************************)
(* Proofs about SocketServer for every number of clients, connections,     *)
(* descriptors and threads.                                                *)
(***************************************************************************)
EXTENDS SocketServer, SequenceTheorems, TLAPS

\* A client that is past connect has a socket.
SockInv == \A c \in Client : cl[c] # "connect" => sock[c] \in Conns

\* What main holds while it handles one connection.
MainInv ==
  /\ main = "create" => cfd \in Fds
  /\ main = "insert" => new \in Tid

\* A thread has a descriptor's number as long as it serves, and is blocked in
\* read only while it reads.
ThreadInv ==
  \A t \in Tid : /\ Serving(t) => fd[t] \in Fds
                 /\ at[t] # NoConn => st[t] = "read"

\* Unless a read failed, each open descriptor has one user: main until it has
\* created the thread, then that thread.
Exclusive ==
  ~failed =>
    /\ \A t \in Tid : Serving(t) => conn[t] # NoConn /\ st[t] # "skip"
    /\ \A t, u \in Tid : Serving(t) /\ Serving(u) /\ fd[t] = fd[u] => t = u
    /\ main = "create" => /\ file[cfd] # NoConn
                          /\ \A t \in Tid : Serving(t) => fd[t] # cfd

IInv == /\ TypeOK /\ SockInv /\ MainInv /\ ThreadInv /\ OpenFdsServed
        /\ OwnDescriptor /\ Exclusive

USE FdAssumption, ConnAssumption, WordAssumption, TidAssumption, ClientAssumption
-----------------------------------------------------------------------------
\* The type invariant.
LEMMA TypeStep ==
  TypeOK /\ SockInv /\ MainInv /\ ThreadInv /\ [Next]_vars => TypeOK'
<1> SUFFICES ASSUME TypeOK, SockInv, MainInv, ThreadInv, [Next]_vars PROVE TypeOK'
  OBVIOUS
<1>1. ASSUME NEW c \in Client, Connect(c) PROVE TypeOK'
  <2>1. made' \in 0 .. MaxConns
    BY <1>1 DEF Connect, TypeOK, Conns, Fds
  <2>2. sock' \in [Client -> Conns \cup {NoConn}]
    BY <1>1 DEF Connect, TypeOK, Conns, Fds
  <2>3. owner' \in [Conns -> Client \cup {Nobody}]
    BY <1>1 DEF Connect, TypeOK
  <2>4. backlog' \in Seq(Conns)
    BY <1>1 DEF Connect, TypeOK, Conns, Fds
  <2>5. cl' \in [Client -> {"connect", "input", "newline", "wait", "useless", "dead"}]
    BY <1>1 DEF Connect, TypeOK
  <2>6. input' \in [Client -> Word \cup {NULL}]
    BY <1>1 DEF Connect, TypeOK
  <2>7. answer' \in [Client -> Reply]
    BY <1>1 DEF Connect, TypeOK, Reply, NoAnswer
  <2> QED
    BY <1>1, <2>1, <2>2, <2>3, <2>4, <2>5, <2>6, <2>7 DEF Connect, TypeOK, clientVars, netVars, mainVars, thrVars
<1>2. ASSUME NEW c \in Client, ReconnectFails(c) PROVE TypeOK'
  <2>1. cl' \in [Client -> {"connect", "input", "newline", "wait", "useless", "dead"}]
    BY <1>2 DEF ReconnectFails, TypeOK
  <2> QED
    BY <1>2, <2>1 DEF ReconnectFails, TypeOK, clientVars, netVars, mainVars, thrVars
<1>3. ASSUME NEW c \in Client, SendNewline(c) PROVE TypeOK'
  <2>1. up' \in [Conns -> Seq(Word \cup {NL})]
    BY <1>3 DEF SendNewline, TypeOK, WriteUp, SockInv
  <2>2. cl' \in [Client -> {"connect", "input", "newline", "wait", "useless", "dead"}]
    BY <1>3 DEF SendNewline, TypeOK, WriteUp, SockInv
  <2> QED
    BY <1>3, <2>1, <2>2 DEF SendNewline, TypeOK, clientVars, netVars, mainVars, thrVars
<1>4. ASSUME NEW c \in Client, ReadReply(c) PROVE TypeOK'
  <2>1. answer' \in [Client -> Reply]
    BY <1>4 DEF ReadReply, TypeOK, SockInv
  <2>2. down' \in [Conns -> Seq(Reply)]
    BY <1>4 DEF ReadReply, TypeOK, SockInv
  <2>3. cl' \in [Client -> {"connect", "input", "newline", "wait", "useless", "dead"}]
    BY <1>4 DEF ReadReply, TypeOK, SockInv
  <2> QED
    BY <1>4, <2>1, <2>2, <2>3 DEF ReadReply, TypeOK, clientVars, netVars, mainVars, thrVars
<1>5. ASSUME NEW c \in Client, ReadNothing(c) PROVE TypeOK'
  <2>1. cl' \in [Client -> {"connect", "input", "newline", "wait", "useless", "dead"}]
    BY <1>5 DEF ReadNothing, TypeOK
  <2> QED
    BY <1>5, <2>1 DEF ReadNothing, TypeOK, clientVars, netVars, mainVars, thrVars
<1>6. ASSUME NEW c \in Client, Kill(c) PROVE TypeOK'
  <2>1. cl' \in [Client -> {"connect", "input", "newline", "wait", "useless", "dead"}]
    BY <1>6 DEF Kill, TypeOK
  <2> QED
    BY <1>6, <2>1 DEF Kill, TypeOK, clientVars, netVars, mainVars, thrVars
<1>7. ASSUME NEW c \in Client, NEW w \in Word, SendWord(c, w) PROVE TypeOK'
  <2>1. up' \in [Conns -> Seq(Word \cup {NL})]
    BY <1>7 DEF SendWord, TypeOK, WriteUp, SockInv
  <2>2. input' \in [Client -> Word \cup {NULL}]
    BY <1>7 DEF SendWord, TypeOK, WriteUp, SockInv
  <2>3. cl' \in [Client -> {"connect", "input", "newline", "wait", "useless", "dead"}]
    BY <1>7 DEF SendWord, TypeOK, WriteUp, SockInv
  <2> QED
    BY <1>7, <2>1, <2>2, <2>3 DEF SendWord, TypeOK, clientVars, netVars, mainVars, thrVars
<1>8. ASSUME NEW f \in Fds, Accept(f) PROVE TypeOK'
  <2>1. file' \in [Fds -> Conns \cup {NoConn}]
    <3>1. Head(backlog) \in Conns
      BY <1>8 DEF Accept, TypeOK
    <3> QED
      BY <1>8, <3>1 DEF Accept, TypeOK
  <2>2. backlog' \in Seq(Conns)
    BY <1>8 DEF Accept, TypeOK, NoConn, NoFd, Conns, Fds
  <2>3. main' \in {"accept", "create", "insert"}
    BY <1>8 DEF Accept, TypeOK, NoConn, NoFd
  <2>4. cfd' \in Fds \cup {NoFd}
    BY <1>8 DEF Accept, TypeOK, NoConn, NoFd, Conns, Fds
  <2> QED
    BY <1>8, <2>1, <2>2, <2>3, <2>4 DEF Accept, TypeOK, clientVars, netVars, mainVars, thrVars
<1>9. ASSUME NEW t \in Tid, CreateThread(t) PROVE TypeOK'
  <2>1. st' \in [Tid -> {"none", "read", "skip", "write", "writeCut", "close", "returned"}]
    BY <1>9 DEF CreateThread, TypeOK, MainInv
  <2>2. fd' \in [Tid -> Fds \cup {NoFd}]
    BY <1>9 DEF CreateThread, TypeOK, MainInv, Conns, Fds
  <2>3. conn' \in [Tid -> Conns \cup {NoConn}]
    BY <1>9 DEF CreateThread, TypeOK, MainInv, Conns, Fds
  <2>4. main' \in {"accept", "create", "insert"}
    BY <1>9 DEF CreateThread, TypeOK, MainInv
  <2>5. new' \in Tid \cup {NULL}
    BY <1>9 DEF CreateThread, TypeOK, MainInv
  <2> QED
    BY <1>9, <2>1, <2>2, <2>3, <2>4, <2>5 DEF CreateThread, TypeOK, clientVars, netVars, mainVars, thrVars
<1>10. CASE CreateFails
  <2>1. main' \in {"accept", "create", "insert"}
    BY <1>10 DEF CreateFails, TypeOK, MainInv
  <2>2. cfd' \in Fds \cup {NoFd}
    BY <1>10 DEF CreateFails, TypeOK, MainInv, Conns, Fds
  <2>3. lost' \subseteq Conns
    BY <1>10 DEF CreateFails, TypeOK, MainInv, Conns, Fds
  <2> QED
    BY <1>10, <2>1, <2>2, <2>3 DEF CreateFails, TypeOK, clientVars, netVars, mainVars, thrVars
<1>11. CASE Insert
  <2>1. list' \in Seq(Tid \cup {NULL, MainThread})
    BY <1>11 DEF Insert, TypeOK, MainInv
  <2>2. new' \in Tid \cup {NULL}
    BY <1>11 DEF Insert, TypeOK, MainInv
  <2>3. main' \in {"accept", "create", "insert"}
    BY <1>11 DEF Insert, TypeOK, MainInv
  <2>4. cfd' \in Fds \cup {NoFd}
    BY <1>11 DEF Insert, TypeOK, MainInv, Conns, Fds
  <2> QED
    BY <1>11, <2>1, <2>2, <2>3, <2>4 DEF Insert, TypeOK, clientVars, netVars, mainVars, thrVars
<1>12. CASE Reap
  <2>1. list' \in Seq(Tid \cup {NULL, MainThread})
    <3>1. ASSUME NEW i \in 1 .. Len(list)
          PROVE  SubSeq(list, 1, i - 1) \o SubSeq(list, i + 1, Len(list))
                   \in Seq(Tid \cup {NULL, MainThread})
      BY DEF TypeOK
    <3>2. list \in Seq(Tid \cup {NULL, MainThread})
      BY DEF TypeOK
    <3> QED
      BY <1>12, <3>1, <3>2 DEF Reap
  <2> QED
    BY <1>12, <2>1 DEF Reap, TypeOK, clientVars, netVars, mainVars, thrVars
<1>13. ASSUME NEW t \in Tid, BeginRead(t) PROVE TypeOK'
  <2>1. at' \in [Tid -> Conns \cup {NoConn}]
    BY <1>13 DEF BeginRead, TypeOK, ThreadInv, Serving, Conns, Fds
  <2> QED
    BY <1>13, <2>1 DEF BeginRead, TypeOK, clientVars, netVars, mainVars, thrVars
<1>14. ASSUME NEW t \in Tid, TakeData(t) PROVE TypeOK'
  <2>1. buf' \in [Tid -> Seq(Word)]
    BY <1>14 DEF TakeData, TypeOK
  <2>2. up' \in [Conns -> Seq(Word \cup {NL})]
    BY <1>14 DEF TakeData, TypeOK
  <2>3. st' \in [Tid -> {"none", "read", "skip", "write", "writeCut", "close", "returned"}]
    BY <1>14 DEF TakeData, TypeOK
  <2>4. at' \in [Tid -> Conns \cup {NoConn}]
    BY <1>14 DEF TakeData, TypeOK, Conns, Fds
  <2> QED
    BY <1>14, <2>1, <2>2, <2>3, <2>4 DEF TakeData, TypeOK, clientVars, netVars, mainVars, thrVars
<1>15. ASSUME NEW t \in Tid, TakeEof(t) PROVE TypeOK'
  <2>1. st' \in [Tid -> {"none", "read", "skip", "write", "writeCut", "close", "returned"}]
    BY <1>15 DEF TakeEof, TypeOK
  <2>2. failed' \in BOOLEAN
    BY <1>15 DEF TakeEof, TypeOK
  <2>3. at' \in [Tid -> Conns \cup {NoConn}]
    BY <1>15 DEF TakeEof, TypeOK, Conns, Fds
  <2> QED
    BY <1>15, <2>1, <2>2, <2>3 DEF TakeEof, TypeOK, clientVars, netVars, mainVars, thrVars
<1>16. ASSUME NEW t \in Tid, ReadFails(t) PROVE TypeOK'
  <2>1. st' \in [Tid -> {"none", "read", "skip", "write", "writeCut", "close", "returned"}]
    BY <1>16 DEF ReadFails, TypeOK
  <2>2. failed' \in BOOLEAN
    BY <1>16 DEF ReadFails, TypeOK
  <2>3. at' \in [Tid -> Conns \cup {NoConn}]
    BY <1>16 DEF ReadFails, TypeOK, Conns, Fds
  <2> QED
    BY <1>16, <2>1, <2>2, <2>3 DEF ReadFails, TypeOK, clientVars, netVars, mainVars, thrVars
<1>17. ASSUME NEW t \in Tid, SkipRequest(t) PROVE TypeOK'
  <2>1. file' \in [Fds -> Conns \cup {NoConn}]
    BY <1>17 DEF SkipRequest, TypeOK, ThreadInv, Serving, Conns, Fds
  <2>2. buf' \in [Tid -> Seq(Word)]
    BY <1>17 DEF SkipRequest, TypeOK, ThreadInv, Serving
  <2>3. st' \in [Tid -> {"none", "read", "skip", "write", "writeCut", "close", "returned"}]
    BY <1>17 DEF SkipRequest, TypeOK, ThreadInv, Serving
  <2> QED
    BY <1>17, <2>1, <2>2, <2>3 DEF SkipRequest, TypeOK, clientVars, netVars, mainVars, thrVars
<1>18. ASSUME NEW t \in Tid, WriteReply(t) PROVE TypeOK'
  <2>1. down' \in [Conns -> Seq(Reply)]
    <3>1. Reverse(t) \in Reply
      BY DEF TypeOK, Reverse, Reply
    <3>2. file[fd[t]] \in Conns \cup {NoConn}
      BY <1>18 DEF WriteReply, TypeOK, ThreadInv, Serving
    <3> QED
      BY <1>18, <3>1, <3>2 DEF WriteReply, TypeOK
  <2>2. st' \in [Tid -> {"none", "read", "skip", "write", "writeCut", "close", "returned"}]
    BY <1>18 DEF WriteReply, TypeOK, ThreadInv, Serving, Reply, Reverse
  <2>3. buf' \in [Tid -> Seq(Word)]
    BY <1>18 DEF WriteReply, TypeOK, ThreadInv, Serving, Reply, Reverse
  <2> QED
    BY <1>18, <2>1, <2>2, <2>3 DEF WriteReply, TypeOK, clientVars, netVars, mainVars, thrVars
<1>19. ASSUME NEW t \in Tid, CloseAndReturn(t) PROVE TypeOK'
  <2>1. file' \in [Fds -> Conns \cup {NoConn}]
    BY <1>19 DEF CloseAndReturn, TypeOK, ThreadInv, Serving, Conns, Fds
  <2>2. st' \in [Tid -> {"none", "read", "skip", "write", "writeCut", "close", "returned"}]
    BY <1>19 DEF CloseAndReturn, TypeOK, ThreadInv, Serving
  <2>3. fd' \in [Tid -> Fds \cup {NoFd}]
    BY <1>19 DEF CloseAndReturn, TypeOK, ThreadInv, Serving, Conns, Fds
  <2>4. conn' \in [Tid -> Conns \cup {NoConn}]
    BY <1>19 DEF CloseAndReturn, TypeOK, ThreadInv, Serving, Conns, Fds
  <2> QED
    BY <1>19, <2>1, <2>2, <2>3, <2>4 DEF CloseAndReturn, TypeOK, clientVars, netVars, mainVars, thrVars
<1>20. CASE UNCHANGED vars
  BY <1>20 DEF vars, TypeOK, clientVars, netVars, mainVars, thrVars
<1> QED
  BY <1>1, <1>2, <1>3, <1>4, <1>5, <1>6, <1>7, <1>8, <1>9, <1>10, <1>11, <1>12, <1>13, <1>14, <1>15, <1>16, <1>17, <1>18, <1>19, <1>20 DEF Next, ClientStep, MainStep, ThreadStep

LEMMA SockStep == TypeOK /\ SockInv /\ [Next]_vars => SockInv'
<1> SUFFICES ASSUME TypeOK, SockInv, [Next]_vars PROVE SockInv'
  OBVIOUS
<1>1. ASSUME NEW c \in Client, Connect(c) PROVE SockInv'
  BY <1>1 DEF Connect, SockInv, TypeOK, Conns, clientVars, netVars, mainVars, thrVars
<1>2. ASSUME NEW c \in Client, ReconnectFails(c) PROVE SockInv'
  BY <1>2 DEF ReconnectFails, SockInv, TypeOK, NoConn, clientVars, netVars, mainVars, thrVars
<1>3. ASSUME NEW c \in Client, SendNewline(c) PROVE SockInv'
  BY <1>3 DEF SendNewline, SockInv, TypeOK, clientVars, netVars, mainVars, thrVars
<1>4. ASSUME NEW c \in Client, ReadReply(c) PROVE SockInv'
  BY <1>4 DEF ReadReply, SockInv, TypeOK, clientVars, netVars, mainVars, thrVars
<1>5. ASSUME NEW c \in Client, ReadNothing(c) PROVE SockInv'
  BY <1>5 DEF ReadNothing, SockInv, TypeOK, clientVars, netVars, mainVars, thrVars
<1>6. ASSUME NEW c \in Client, Kill(c) PROVE SockInv'
  BY <1>6 DEF Kill, SockInv, TypeOK, NoConn, clientVars, netVars, mainVars, thrVars
<1>7. ASSUME NEW c \in Client, NEW w \in Word, SendWord(c, w) PROVE SockInv'
  BY <1>7 DEF SendWord, SockInv, TypeOK, clientVars, netVars, mainVars, thrVars
<1>8. ASSUME NEW f \in Fds, Accept(f) PROVE SockInv'
  BY <1>8 DEF Accept, SockInv, TypeOK, clientVars, netVars, mainVars, thrVars
<1>9. ASSUME NEW t \in Tid, CreateThread(t) PROVE SockInv'
  BY <1>9 DEF CreateThread, SockInv, TypeOK, clientVars, netVars, mainVars, thrVars
<1>10. CASE CreateFails
  BY <1>10 DEF CreateFails, SockInv, TypeOK, clientVars, netVars, mainVars, thrVars
<1>11. CASE Insert
  BY <1>11 DEF Insert, SockInv, TypeOK, clientVars, netVars, mainVars, thrVars
<1>12. CASE Reap
  BY <1>12 DEF Reap, SockInv, TypeOK, clientVars, netVars, mainVars, thrVars
<1>13. ASSUME NEW t \in Tid, BeginRead(t) PROVE SockInv'
  BY <1>13 DEF BeginRead, SockInv, TypeOK, clientVars, netVars, mainVars, thrVars
<1>14. ASSUME NEW t \in Tid, TakeData(t) PROVE SockInv'
  BY <1>14 DEF TakeData, SockInv, TypeOK, clientVars, netVars, mainVars, thrVars
<1>15. ASSUME NEW t \in Tid, TakeEof(t) PROVE SockInv'
  BY <1>15 DEF TakeEof, SockInv, TypeOK, clientVars, netVars, mainVars, thrVars
<1>16. ASSUME NEW t \in Tid, ReadFails(t) PROVE SockInv'
  BY <1>16 DEF ReadFails, SockInv, TypeOK, clientVars, netVars, mainVars, thrVars
<1>17. ASSUME NEW t \in Tid, SkipRequest(t) PROVE SockInv'
  BY <1>17 DEF SkipRequest, SockInv, TypeOK, clientVars, netVars, mainVars, thrVars
<1>18. ASSUME NEW t \in Tid, WriteReply(t) PROVE SockInv'
  BY <1>18 DEF WriteReply, SockInv, TypeOK, clientVars, netVars, mainVars, thrVars
<1>19. ASSUME NEW t \in Tid, CloseAndReturn(t) PROVE SockInv'
  BY <1>19 DEF CloseAndReturn, SockInv, TypeOK, clientVars, netVars, mainVars, thrVars
<1>20. CASE UNCHANGED vars
  BY <1>20 DEF vars, SockInv, TypeOK, clientVars, netVars, mainVars, thrVars
<1> QED
  BY <1>1, <1>2, <1>3, <1>4, <1>5, <1>6, <1>7, <1>8, <1>9, <1>10, <1>11, <1>12, <1>13, <1>14, <1>15, <1>16, <1>17, <1>18, <1>19, <1>20 DEF Next, ClientStep, MainStep, ThreadStep

LEMMA MainStepInv == TypeOK /\ MainInv /\ [Next]_vars => MainInv'
<1> SUFFICES ASSUME TypeOK, MainInv, [Next]_vars PROVE MainInv'
  OBVIOUS
<1>1. ASSUME NEW c \in Client, Connect(c) PROVE MainInv'
  BY <1>1 DEF Connect, MainInv, TypeOK, clientVars, netVars, mainVars, thrVars
<1>2. ASSUME NEW c \in Client, ReconnectFails(c) PROVE MainInv'
  BY <1>2 DEF ReconnectFails, MainInv, TypeOK, clientVars, netVars, mainVars, thrVars
<1>3. ASSUME NEW c \in Client, SendNewline(c) PROVE MainInv'
  BY <1>3 DEF SendNewline, MainInv, TypeOK, clientVars, netVars, mainVars, thrVars
<1>4. ASSUME NEW c \in Client, ReadReply(c) PROVE MainInv'
  BY <1>4 DEF ReadReply, MainInv, TypeOK, clientVars, netVars, mainVars, thrVars
<1>5. ASSUME NEW c \in Client, ReadNothing(c) PROVE MainInv'
  BY <1>5 DEF ReadNothing, MainInv, TypeOK, clientVars, netVars, mainVars, thrVars
<1>6. ASSUME NEW c \in Client, Kill(c) PROVE MainInv'
  BY <1>6 DEF Kill, MainInv, TypeOK, clientVars, netVars, mainVars, thrVars
<1>7. ASSUME NEW c \in Client, NEW w \in Word, SendWord(c, w) PROVE MainInv'
  BY <1>7 DEF SendWord, MainInv, TypeOK, clientVars, netVars, mainVars, thrVars
<1>8. ASSUME NEW f \in Fds, Accept(f) PROVE MainInv'
  BY <1>8 DEF Accept, MainInv, TypeOK, clientVars, netVars, mainVars, thrVars
<1>9. ASSUME NEW t \in Tid, CreateThread(t) PROVE MainInv'
  BY <1>9 DEF CreateThread, MainInv, TypeOK, clientVars, netVars, mainVars, thrVars
<1>10. CASE CreateFails
  BY <1>10 DEF CreateFails, MainInv, TypeOK, clientVars, netVars, mainVars, thrVars
<1>11. CASE Insert
  BY <1>11 DEF Insert, MainInv, TypeOK, clientVars, netVars, mainVars, thrVars
<1>12. CASE Reap
  BY <1>12 DEF Reap, MainInv, TypeOK, clientVars, netVars, mainVars, thrVars
<1>13. ASSUME NEW t \in Tid, BeginRead(t) PROVE MainInv'
  BY <1>13 DEF BeginRead, MainInv, TypeOK, clientVars, netVars, mainVars, thrVars
<1>14. ASSUME NEW t \in Tid, TakeData(t) PROVE MainInv'
  BY <1>14 DEF TakeData, MainInv, TypeOK, clientVars, netVars, mainVars, thrVars
<1>15. ASSUME NEW t \in Tid, TakeEof(t) PROVE MainInv'
  BY <1>15 DEF TakeEof, MainInv, TypeOK, clientVars, netVars, mainVars, thrVars
<1>16. ASSUME NEW t \in Tid, ReadFails(t) PROVE MainInv'
  BY <1>16 DEF ReadFails, MainInv, TypeOK, clientVars, netVars, mainVars, thrVars
<1>17. ASSUME NEW t \in Tid, SkipRequest(t) PROVE MainInv'
  BY <1>17 DEF SkipRequest, MainInv, TypeOK, clientVars, netVars, mainVars, thrVars
<1>18. ASSUME NEW t \in Tid, WriteReply(t) PROVE MainInv'
  BY <1>18 DEF WriteReply, MainInv, TypeOK, clientVars, netVars, mainVars, thrVars
<1>19. ASSUME NEW t \in Tid, CloseAndReturn(t) PROVE MainInv'
  BY <1>19 DEF CloseAndReturn, MainInv, TypeOK, clientVars, netVars, mainVars, thrVars
<1>20. CASE UNCHANGED vars
  BY <1>20 DEF vars, MainInv, TypeOK, clientVars, netVars, mainVars, thrVars
<1> QED
  BY <1>1, <1>2, <1>3, <1>4, <1>5, <1>6, <1>7, <1>8, <1>9, <1>10, <1>11, <1>12, <1>13, <1>14, <1>15, <1>16, <1>17, <1>18, <1>19, <1>20 DEF Next, ClientStep, MainStep, ThreadStep

LEMMA ThreadInvStep == TypeOK /\ MainInv /\ ThreadInv /\ [Next]_vars => ThreadInv'
<1> SUFFICES ASSUME TypeOK, MainInv, ThreadInv, [Next]_vars PROVE ThreadInv'
  OBVIOUS
<1>1. ASSUME NEW c \in Client, Connect(c) PROVE ThreadInv'
  BY <1>1 DEF Connect, ThreadInv, MainInv, Serving, TypeOK, clientVars, netVars, mainVars, thrVars
<1>2. ASSUME NEW c \in Client, ReconnectFails(c) PROVE ThreadInv'
  BY <1>2 DEF ReconnectFails, ThreadInv, MainInv, Serving, TypeOK, clientVars, netVars, mainVars, thrVars
<1>3. ASSUME NEW c \in Client, SendNewline(c) PROVE ThreadInv'
  BY <1>3 DEF SendNewline, ThreadInv, MainInv, Serving, TypeOK, clientVars, netVars, mainVars, thrVars
<1>4. ASSUME NEW c \in Client, ReadReply(c) PROVE ThreadInv'
  BY <1>4 DEF ReadReply, ThreadInv, MainInv, Serving, TypeOK, clientVars, netVars, mainVars, thrVars
<1>5. ASSUME NEW c \in Client, ReadNothing(c) PROVE ThreadInv'
  BY <1>5 DEF ReadNothing, ThreadInv, MainInv, Serving, TypeOK, clientVars, netVars, mainVars, thrVars
<1>6. ASSUME NEW c \in Client, Kill(c) PROVE ThreadInv'
  BY <1>6 DEF Kill, ThreadInv, MainInv, Serving, TypeOK, clientVars, netVars, mainVars, thrVars
<1>7. ASSUME NEW c \in Client, NEW w \in Word, SendWord(c, w) PROVE ThreadInv'
  BY <1>7 DEF SendWord, ThreadInv, MainInv, Serving, TypeOK, clientVars, netVars, mainVars, thrVars
<1>8. ASSUME NEW f \in Fds, Accept(f) PROVE ThreadInv'
  BY <1>8 DEF Accept, ThreadInv, MainInv, Serving, TypeOK, clientVars, netVars, mainVars, thrVars
<1>9. ASSUME NEW t \in Tid, CreateThread(t) PROVE ThreadInv'
  BY <1>9 DEF CreateThread, ThreadInv, MainInv, Serving, TypeOK, clientVars, netVars, mainVars, thrVars
<1>10. CASE CreateFails
  BY <1>10 DEF CreateFails, ThreadInv, MainInv, Serving, TypeOK, clientVars, netVars, mainVars, thrVars
<1>11. CASE Insert
  BY <1>11 DEF Insert, ThreadInv, MainInv, Serving, TypeOK, clientVars, netVars, mainVars, thrVars
<1>12. CASE Reap
  BY <1>12 DEF Reap, ThreadInv, MainInv, Serving, TypeOK, clientVars, netVars, mainVars, thrVars
<1>13. ASSUME NEW t \in Tid, BeginRead(t) PROVE ThreadInv'
  BY <1>13 DEF BeginRead, ThreadInv, MainInv, Serving, TypeOK, clientVars, netVars, mainVars, thrVars
<1>14. ASSUME NEW t \in Tid, TakeData(t) PROVE ThreadInv'
  BY <1>14 DEF TakeData, ThreadInv, MainInv, Serving, TypeOK, clientVars, netVars, mainVars, thrVars
<1>15. ASSUME NEW t \in Tid, TakeEof(t) PROVE ThreadInv'
  BY <1>15 DEF TakeEof, ThreadInv, MainInv, Serving, TypeOK, clientVars, netVars, mainVars, thrVars
<1>16. ASSUME NEW t \in Tid, ReadFails(t) PROVE ThreadInv'
  BY <1>16 DEF ReadFails, ThreadInv, MainInv, Serving, TypeOK, clientVars, netVars, mainVars, thrVars
<1>17. ASSUME NEW t \in Tid, SkipRequest(t) PROVE ThreadInv'
  BY <1>17 DEF SkipRequest, ThreadInv, MainInv, Serving, TypeOK, clientVars, netVars, mainVars, thrVars
<1>18. ASSUME NEW t \in Tid, WriteReply(t) PROVE ThreadInv'
  BY <1>18 DEF WriteReply, ThreadInv, MainInv, Serving, TypeOK, clientVars, netVars, mainVars, thrVars
<1>19. ASSUME NEW t \in Tid, CloseAndReturn(t) PROVE ThreadInv'
  BY <1>19 DEF CloseAndReturn, ThreadInv, MainInv, Serving, TypeOK, clientVars, netVars, mainVars, thrVars
<1>20. CASE UNCHANGED vars
  BY <1>20 DEF vars, ThreadInv, MainInv, Serving, TypeOK, clientVars, netVars, mainVars, thrVars
<1> QED
  BY <1>1, <1>2, <1>3, <1>4, <1>5, <1>6, <1>7, <1>8, <1>9, <1>10, <1>11, <1>12, <1>13, <1>14, <1>15, <1>16, <1>17, <1>18, <1>19, <1>20 DEF Next, ClientStep, MainStep, ThreadStep

LEMMA OpenStep == TypeOK /\ MainInv /\ ThreadInv /\ OpenFdsServed /\ [Next]_vars => OpenFdsServed'
<1> SUFFICES ASSUME TypeOK, MainInv, ThreadInv, OpenFdsServed, [Next]_vars PROVE OpenFdsServed'
  OBVIOUS
<1>1. ASSUME NEW c \in Client, Connect(c) PROVE OpenFdsServed'
  BY <1>1 DEF Connect, OpenFdsServed, MainInv, ThreadInv, Serving, TypeOK, clientVars, netVars, mainVars, thrVars
<1>2. ASSUME NEW c \in Client, ReconnectFails(c) PROVE OpenFdsServed'
  BY <1>2 DEF ReconnectFails, OpenFdsServed, MainInv, ThreadInv, Serving, TypeOK, clientVars, netVars, mainVars, thrVars
<1>3. ASSUME NEW c \in Client, SendNewline(c) PROVE OpenFdsServed'
  BY <1>3 DEF SendNewline, OpenFdsServed, MainInv, ThreadInv, Serving, TypeOK, clientVars, netVars, mainVars, thrVars
<1>4. ASSUME NEW c \in Client, ReadReply(c) PROVE OpenFdsServed'
  BY <1>4 DEF ReadReply, OpenFdsServed, MainInv, ThreadInv, Serving, TypeOK, clientVars, netVars, mainVars, thrVars
<1>5. ASSUME NEW c \in Client, ReadNothing(c) PROVE OpenFdsServed'
  BY <1>5 DEF ReadNothing, OpenFdsServed, MainInv, ThreadInv, Serving, TypeOK, clientVars, netVars, mainVars, thrVars
<1>6. ASSUME NEW c \in Client, Kill(c) PROVE OpenFdsServed'
  BY <1>6 DEF Kill, OpenFdsServed, MainInv, ThreadInv, Serving, TypeOK, clientVars, netVars, mainVars, thrVars
<1>7. ASSUME NEW c \in Client, NEW w \in Word, SendWord(c, w) PROVE OpenFdsServed'
  BY <1>7 DEF SendWord, OpenFdsServed, MainInv, ThreadInv, Serving, TypeOK, clientVars, netVars, mainVars, thrVars
<1>8. ASSUME NEW f \in Fds, Accept(f) PROVE OpenFdsServed'
  BY <1>8 DEF Accept, OpenFdsServed, MainInv, ThreadInv, Serving, TypeOK, clientVars, netVars, mainVars, thrVars
<1>9. ASSUME NEW t \in Tid, CreateThread(t) PROVE OpenFdsServed'
  BY <1>9 DEF CreateThread, OpenFdsServed, MainInv, ThreadInv, Serving, TypeOK, clientVars, netVars, mainVars, thrVars
<1>10. CASE CreateFails
  BY <1>10 DEF CreateFails, OpenFdsServed, MainInv, ThreadInv, Serving, TypeOK, clientVars, netVars, mainVars, thrVars
<1>11. CASE Insert
  BY <1>11 DEF Insert, OpenFdsServed, MainInv, ThreadInv, Serving, TypeOK, clientVars, netVars, mainVars, thrVars
<1>12. CASE Reap
  BY <1>12 DEF Reap, OpenFdsServed, MainInv, ThreadInv, Serving, TypeOK, clientVars, netVars, mainVars, thrVars
<1>13. ASSUME NEW t \in Tid, BeginRead(t) PROVE OpenFdsServed'
  BY <1>13 DEF BeginRead, OpenFdsServed, MainInv, ThreadInv, Serving, TypeOK, clientVars, netVars, mainVars, thrVars
<1>14. ASSUME NEW t \in Tid, TakeData(t) PROVE OpenFdsServed'
  BY <1>14 DEF TakeData, OpenFdsServed, MainInv, ThreadInv, Serving, TypeOK, clientVars, netVars, mainVars, thrVars
<1>15. ASSUME NEW t \in Tid, TakeEof(t) PROVE OpenFdsServed'
  BY <1>15 DEF TakeEof, OpenFdsServed, MainInv, ThreadInv, Serving, TypeOK, clientVars, netVars, mainVars, thrVars
<1>16. ASSUME NEW t \in Tid, ReadFails(t) PROVE OpenFdsServed'
  BY <1>16 DEF ReadFails, OpenFdsServed, MainInv, ThreadInv, Serving, TypeOK, clientVars, netVars, mainVars, thrVars
<1>17. ASSUME NEW t \in Tid, SkipRequest(t) PROVE OpenFdsServed'
  BY <1>17 DEF SkipRequest, OpenFdsServed, MainInv, ThreadInv, Serving, TypeOK, clientVars, netVars, mainVars, thrVars
<1>18. ASSUME NEW t \in Tid, WriteReply(t) PROVE OpenFdsServed'
  BY <1>18 DEF WriteReply, OpenFdsServed, MainInv, ThreadInv, Serving, TypeOK, clientVars, netVars, mainVars, thrVars
<1>19. ASSUME NEW t \in Tid, CloseAndReturn(t) PROVE OpenFdsServed'
  BY <1>19 DEF CloseAndReturn, OpenFdsServed, MainInv, ThreadInv, Serving, TypeOK, clientVars, netVars, mainVars, thrVars
<1>20. CASE UNCHANGED vars
  BY <1>20 DEF vars, OpenFdsServed, MainInv, ThreadInv, Serving, TypeOK, clientVars, netVars, mainVars, thrVars
<1> QED
  BY <1>1, <1>2, <1>3, <1>4, <1>5, <1>6, <1>7, <1>8, <1>9, <1>10, <1>11, <1>12, <1>13, <1>14, <1>15, <1>16, <1>17, <1>18, <1>19, <1>20 DEF Next, ClientStep, MainStep, ThreadStep

LEMMA OwnStep == TypeOK /\ MainInv /\ ThreadInv /\ OwnDescriptor /\ Exclusive /\ [Next]_vars => (OwnDescriptor /\ Exclusive)'
<1> SUFFICES ASSUME TypeOK, MainInv, ThreadInv, OwnDescriptor, Exclusive, [Next]_vars PROVE (OwnDescriptor /\ Exclusive)'
  OBVIOUS
<1>1. ASSUME NEW c \in Client, Connect(c) PROVE (OwnDescriptor /\ Exclusive)'
  BY <1>1 DEF Connect, OwnDescriptor, Exclusive, MainInv, ThreadInv, Serving, TypeOK, clientVars, netVars, mainVars, thrVars
<1>2. ASSUME NEW c \in Client, ReconnectFails(c) PROVE (OwnDescriptor /\ Exclusive)'
  BY <1>2 DEF ReconnectFails, OwnDescriptor, Exclusive, MainInv, ThreadInv, Serving, TypeOK, clientVars, netVars, mainVars, thrVars
<1>3. ASSUME NEW c \in Client, SendNewline(c) PROVE (OwnDescriptor /\ Exclusive)'
  BY <1>3 DEF SendNewline, OwnDescriptor, Exclusive, MainInv, ThreadInv, Serving, TypeOK, clientVars, netVars, mainVars, thrVars
<1>4. ASSUME NEW c \in Client, ReadReply(c) PROVE (OwnDescriptor /\ Exclusive)'
  BY <1>4 DEF ReadReply, OwnDescriptor, Exclusive, MainInv, ThreadInv, Serving, TypeOK, clientVars, netVars, mainVars, thrVars
<1>5. ASSUME NEW c \in Client, ReadNothing(c) PROVE (OwnDescriptor /\ Exclusive)'
  BY <1>5 DEF ReadNothing, OwnDescriptor, Exclusive, MainInv, ThreadInv, Serving, TypeOK, clientVars, netVars, mainVars, thrVars
<1>6. ASSUME NEW c \in Client, Kill(c) PROVE (OwnDescriptor /\ Exclusive)'
  BY <1>6 DEF Kill, OwnDescriptor, Exclusive, MainInv, ThreadInv, Serving, TypeOK, clientVars, netVars, mainVars, thrVars
<1>7. ASSUME NEW c \in Client, NEW w \in Word, SendWord(c, w) PROVE (OwnDescriptor /\ Exclusive)'
  BY <1>7 DEF SendWord, OwnDescriptor, Exclusive, MainInv, ThreadInv, Serving, TypeOK, clientVars, netVars, mainVars, thrVars
<1>8. ASSUME NEW f \in Fds, Accept(f) PROVE (OwnDescriptor /\ Exclusive)'
  <2>1. file[f] = NoConn /\ Head(backlog) \in Conns
    BY <1>8 DEF Accept, TypeOK
  <2>2. /\ file' = [file EXCEPT ![f] = Head(backlog)] /\ cfd' = f /\ main = "accept"
        /\ UNCHANGED <<st, fd, at, conn, failed>>
    BY <1>8 DEF Accept, thrVars
  <2>3. ASSUME ~failed, NEW t \in Tid, Serving(t)
        PROVE  fd[t] \in Fds /\ fd[t] # f
    BY <2>1, <2>3 DEF OwnDescriptor, Exclusive, ThreadInv
  <2>4. OwnDescriptor'
    BY <2>2, <2>3 DEF OwnDescriptor, Serving
  <2>5. file'[f] # NoConn
    BY <2>1, <2>2 DEF TypeOK, Conns, NoConn
  <2>6. Exclusive'
    BY <2>2, <2>3, <2>5 DEF Exclusive, Serving
  <2> QED
    BY <2>4, <2>6
<1>9. ASSUME NEW t \in Tid, CreateThread(t) PROVE (OwnDescriptor /\ Exclusive)'
  BY <1>9 DEF CreateThread, OwnDescriptor, Exclusive, MainInv, ThreadInv, Serving, TypeOK, clientVars, netVars, mainVars, thrVars
<1>10. CASE CreateFails
  BY <1>10 DEF CreateFails, OwnDescriptor, Exclusive, MainInv, ThreadInv, Serving, TypeOK, clientVars, netVars, mainVars, thrVars
<1>11. CASE Insert
  BY <1>11 DEF Insert, OwnDescriptor, Exclusive, MainInv, ThreadInv, Serving, TypeOK, clientVars, netVars, mainVars, thrVars
<1>12. CASE Reap
  BY <1>12 DEF Reap, OwnDescriptor, Exclusive, MainInv, ThreadInv, Serving, TypeOK, clientVars, netVars, mainVars, thrVars
<1>13. ASSUME NEW t \in Tid, BeginRead(t) PROVE (OwnDescriptor /\ Exclusive)'
  BY <1>13 DEF BeginRead, OwnDescriptor, Exclusive, MainInv, ThreadInv, Serving, TypeOK, clientVars, netVars, mainVars, thrVars
<1>14. ASSUME NEW t \in Tid, TakeData(t) PROVE (OwnDescriptor /\ Exclusive)'
  BY <1>14 DEF TakeData, OwnDescriptor, Exclusive, MainInv, ThreadInv, Serving, TypeOK, clientVars, netVars, mainVars, thrVars
<1>15. ASSUME NEW t \in Tid, TakeEof(t) PROVE (OwnDescriptor /\ Exclusive)'
  <2>1. /\ UNCHANGED <<fd, conn, file, main, cfd>>
        /\ at' = [at EXCEPT ![t] = NoConn]
        /\ \A u \in Tid : Serving(u)' <=> Serving(u)
        /\ ~failed' => ~failed /\ \A u \in Tid : st'[u] = "skip" => st[u] = "skip"
    BY <1>15 DEF TakeEof, Serving, TypeOK, mainVars
  <2>2. OwnDescriptor'
    BY <2>1 DEF OwnDescriptor, TypeOK
  <2>3. Exclusive'
    BY <2>1 DEF Exclusive
  <2> QED
    BY <2>2, <2>3
<1>16. ASSUME NEW t \in Tid, ReadFails(t) PROVE (OwnDescriptor /\ Exclusive)'
  BY <1>16 DEF ReadFails, OwnDescriptor, Exclusive, MainInv, ThreadInv, Serving, TypeOK, clientVars, netVars, mainVars, thrVars
<1>17. ASSUME NEW t \in Tid, SkipRequest(t) PROVE (OwnDescriptor /\ Exclusive)'
  BY <1>17 DEF SkipRequest, OwnDescriptor, Exclusive, MainInv, ThreadInv, Serving, TypeOK, clientVars, netVars, mainVars, thrVars
<1>18. ASSUME NEW t \in Tid, WriteReply(t) PROVE (OwnDescriptor /\ Exclusive)'
  BY <1>18 DEF WriteReply, OwnDescriptor, Exclusive, MainInv, ThreadInv, Serving, TypeOK, clientVars, netVars, mainVars, thrVars
<1>19. ASSUME NEW t \in Tid, CloseAndReturn(t) PROVE (OwnDescriptor /\ Exclusive)'
  <2>1. fd[t] \in Fds /\ at[t] = NoConn
    BY <1>19 DEF CloseAndReturn, ThreadInv, Serving, NoConn, TypeOK
  <2>2. ASSUME ~failed, NEW u \in Tid, Serving(u)'
        PROVE  u # t /\ Serving(u) /\ fd[u] # fd[t] /\ fd'[u] = fd[u]
    BY <1>19, <2>2 DEF CloseAndReturn, Exclusive, Serving, TypeOK
  <2>3. OwnDescriptor'
    BY <1>19, <2>1, <2>2 DEF CloseAndReturn, OwnDescriptor, Serving, ThreadInv, TypeOK
  <2>4. main = "create" => cfd # fd[t] \/ failed
    BY <1>19 DEF CloseAndReturn, Exclusive, Serving
  <2>5. Exclusive'
    BY <1>19, <2>1, <2>2, <2>4 DEF CloseAndReturn, Exclusive, Serving, MainInv, TypeOK, mainVars
  <2> QED
    BY <2>3, <2>5
<1>20. CASE UNCHANGED vars
  BY <1>20 DEF vars, OwnDescriptor, Exclusive, MainInv, ThreadInv, Serving, TypeOK, clientVars, netVars, mainVars, thrVars
<1> QED
  BY <1>1, <1>2, <1>3, <1>4, <1>5, <1>6, <1>7, <1>8, <1>9, <1>10, <1>11, <1>12, <1>13, <1>14, <1>15, <1>16, <1>17, <1>18, <1>19, <1>20 DEF Next, ClientStep, MainStep, ThreadStep

-----------------------------------------------------------------------------
LEMMA InitIInv == Init => IInv
<1> SUFFICES ASSUME Init PROVE IInv
  OBVIOUS
<1>1. <<>> \in Seq(Word) /\ NoAnswer \in Reply
  BY DEF NoAnswer, Reply
<1>2. /\ up \in [Conns -> Seq(Word \cup {NL})]
      /\ down \in [Conns -> Seq(Reply)]
      /\ backlog \in Seq(Conns)
      /\ list \in Seq(Tid \cup {NULL, MainThread})
  BY DEF Init
<1>a. /\ answer \in [Client -> Reply]
      /\ buf \in [Tid -> Seq(Word)]
  BY <1>1 DEF Init
<1>b. /\ cl \in [Client -> {"connect", "input", "newline", "wait", "useless", "dead"}]
      /\ st \in [Tid -> {"none", "read", "skip", "write", "writeCut", "close",
                         "returned"}]
  BY DEF Init
<1>c. /\ sock \in [Client -> Conns \cup {NoConn}]
      /\ input \in [Client -> Word \cup {NULL}]
      /\ made \in 0 .. MaxConns
      /\ owner \in [Conns -> Client \cup {Nobody}]
  BY DEF Init
<1>d. /\ room \in 0 .. MaxFd /\ file \in [Fds -> Conns \cup {NoConn}]
      /\ main \in {"accept", "create", "insert"} /\ cfd \in Fds \cup {NoFd}
      /\ new \in Tid \cup {NULL}
      /\ fd \in [Tid -> Fds \cup {NoFd}]
      /\ at \in [Tid -> Conns \cup {NoConn}] /\ conn \in [Tid -> Conns \cup {NoConn}]
      /\ lost \subseteq Conns
      /\ failed \in BOOLEAN
  BY DEF Init
<1>3. TypeOK
  BY <1>2, <1>a, <1>b, <1>c, <1>d DEF TypeOK
<1> QED
  BY <1>3 DEF Init, IInv, SockInv, MainInv, ThreadInv, OpenFdsServed,
              OwnDescriptor, Exclusive, Serving

LEMMA Inductive == Spec => []IInv
<1>1. IInv /\ [Next]_vars => IInv'
  BY TypeStep, SockStep, MainStepInv, ThreadInvStep, OpenStep, OwnStep DEF IInv
<1> QED
  BY InitIInv, <1>1, PTL DEF Spec

\* Every variable keeps its type.
THEOREM TypeCorrect == Spec => []TypeOK
  BY Inductive, PTL DEF IInv

\* No descriptor is forgotten, whatever fails: a thread returns only after a
\* close of the number it was given.
THEOREM DescriptorsAreServed == Spec => []OpenFdsServed
  BY Inductive, PTL DEF IInv

\* Until a read fails no thread reads, answers or closes the connection of
\* another: accept returns a number only after its last user has closed it.
THEOREM DescriptorsAreOwned == Spec => []OwnDescriptor
  BY Inductive, PTL DEF IInv

-----------------------------------------------------------------------------
(* A client is answered with its own line.  A connection is in one place of *)
(* the server at a time, and what the client has sent is on the way to the  *)
(* one thread that serves it, or the reply is on the way back.              *)

\* A connection is accepted once: it waits in one place of the backlog or has
\* one descriptor.
Placed ==
  /\ \A i \in 1 .. Len(backlog) :
       /\ backlog[i] <= made
       /\ \A j \in 1 .. Len(backlog) : backlog[i] = backlog[j] => i = j
       /\ \A f \in Fds : file[f] # backlog[i]
  /\ \A f \in Fds : /\ file[f] <= made
                    /\ \A g \in Fds : file[f] = file[g] /\ file[f] # NoConn => f = g

\* A client's socket is a connection it made; nothing is sent on one not made.
Owned ==
  /\ \A c \in Client : sock[c] # NoConn => sock[c] <= made /\ owner[sock[c]] = c
  /\ \A k \in Conns : k > made => up[k] = <<>> /\ down[k] = <<>>

\* read_line starts with an empty buffer.
Unused == \A t \in Tid : st[t] = "none" => buf[t] = <<>>

Serves(t, k) == Serving(t) /\ conn[t] = k

Talks(c) == cl[c] \in {"input", "newline", "wait"}

Answer(c) == [of |-> <<input[c]>>, whole |-> input[c] \notin Long]

\* b has been read of what client c has written, and u has not.
UnderWay(c, b, u) ==
  \/ cl[c] = "input" /\ b = <<>> /\ u = <<>>
  \/ cl[c] = "newline" /\ \/ b = <<>> /\ u = <<input[c]>>
                          \/ b = <<input[c]>> /\ u = <<>>
  \/ cl[c] = "wait" /\ \/ b = <<>> /\ u = <<input[c], NL>>
                       \/ b = <<input[c]>> /\ u = <<NL>>

\* The line of client c has not been answered.
Pending(c) ==
  /\ down[sock[c]] = <<>>
  /\ Queued(sock[c]) \/ \E f \in Fds : file[f] = sock[c]
  /\ (\A t \in Tid : ~Serves(t, sock[c])) => UnderWay(c, <<>>, up[sock[c]])
  /\ \A t \in Tid : Serves(t, sock[c]) =>
       \/ st[t] = "read" /\ UnderWay(c, buf[t], up[sock[c]])
       \/ st[t] = "write" /\ cl[c] = "wait" /\ buf[t] = <<input[c]>>

\* Its reply is on the way back, and no thread will write to it again.
Replied(c) ==
  /\ cl[c] = "wait" /\ down[sock[c]] = <<Answer(c)>>
  /\ ~Queued(sock[c])
  /\ main = "create" => file[cfd] # sock[c]
  /\ \A t \in Tid : Serves(t, sock[c]) => st[t] = "close"

LineInv == ~failed => \A c \in Client : Talks(c) => Pending(c) \/ Replied(c)

\* What a thread serves, under the invariants of the descriptors.
LEMMA ServerHolds ==
  ASSUME IInv, Placed, ~failed, NEW t \in Tid, Serving(t)
  PROVE  /\ fd[t] \in Fds /\ file[fd[t]] = conn[t] /\ conn[t] \in 1 .. made
         /\ conn[t] \in Conns /\ at[t] \in {NoConn, conn[t]} /\ st[t] # "skip"
         /\ \A u \in Tid : Serving(u) /\ conn[u] = conn[t] => u = t
<1>1. /\ fd[t] \in Fds /\ file[fd[t]] = conn[t] /\ conn[t] # NoConn
      /\ at[t] \in {NoConn, conn[t]} /\ st[t] # "skip"
  BY DEF IInv, ThreadInv, OwnDescriptor, Exclusive
<1>2. conn[t] \in 1 .. made /\ conn[t] \in Conns
  BY <1>1 DEF IInv, TypeOK, Placed, Conns, NoConn
<1>3. ASSUME NEW u \in Tid, Serving(u), conn[u] = conn[t] PROVE u = t
  <2>1. fd[u] \in Fds /\ file[fd[u]] = conn[t]
    BY <1>3 DEF IInv, ThreadInv, OwnDescriptor
  <2>2. fd[u] = fd[t]
    BY <2>1, <1>1 DEF Placed
  <2> QED
    BY <2>2, <1>3 DEF IInv, Exclusive
<1> QED
  BY <1>1, <1>2, <1>3

-----------------------------------------------------------------------------
LEMMA PlacedStep == IInv /\ Placed /\ [Next]_vars => Placed'
<1> SUFFICES ASSUME IInv, Placed, [Next]_vars PROVE Placed'
  OBVIOUS
<1> USE DEF IInv
<1>a. /\ backlog \in Seq(Conns) /\ made \in Nat /\ made <= MaxConns
      /\ file \in [Fds -> Conns \cup {NoConn}]
  BY DEF TypeOK
<1>b. \A i \in 1 .. Len(backlog) : backlog[i] \in 1 .. MaxConns
  BY <1>a DEF Conns
<1>1. ASSUME NEW c \in Client, Connect(c) PROVE Placed'
  <2>1. /\ made' = made + 1 /\ file' = file /\ backlog' = Append(backlog, made + 1)
        /\ made + 1 \in Conns
    BY <1>1, <1>a DEF Connect, Conns
  <2>2. /\ Len(backlog') = Len(backlog) + 1 /\ Len(backlog) \in Nat
        /\ \A i \in 1 .. Len(backlog) : backlog'[i] = backlog[i]
        /\ backlog'[Len(backlog) + 1] = made + 1
    BY <2>1, <1>a
  <2>3. \A f \in Fds : file[f] \in Int /\ file[f] <= made
    BY <1>a DEF Placed, Conns, NoConn
  <2>4. \A i \in 1 .. Len(backlog) : backlog[i] <= made
    BY DEF Placed
  <2>5. ASSUME NEW i \in 1 .. Len(backlog')
        PROVE  /\ backlog'[i] <= made + 1
               /\ \A f \in Fds : file[f] # backlog'[i]
               /\ \A j \in 1 .. Len(backlog') : backlog'[i] = backlog'[j] => i = j
    <3>1. CASE i = Len(backlog) + 1
      BY <3>1, <2>2, <2>3, <2>4, <1>a, <1>b
    <3>2. CASE i \in 1 .. Len(backlog)
      <4>1. backlog'[i] = backlog[i] /\ backlog[i] <= made
        BY <3>2, <2>2, <2>4
      <4>2. \A j \in 1 .. Len(backlog) : backlog'[i] = backlog'[j] => i = j
        BY <3>2, <2>2 DEF Placed
      <4>3. backlog'[i] # backlog'[Len(backlog) + 1]
        BY <4>1, <2>2, <1>a, <1>b, <3>2
      <4>4. \A j \in 1 .. Len(backlog') : backlog'[i] = backlog'[j] => i = j
        <5> TAKE j \in 1 .. Len(backlog')
        <5>1. j = Len(backlog) + 1 \/ j \in 1 .. Len(backlog)
          BY <2>2
        <5> QED
          BY <5>1, <4>2, <4>3
      <4> QED
        BY <4>1, <4>4, <3>2, <1>a, <1>b DEF Placed
    <3> QED
      BY <3>1, <3>2, <2>2
  <2> QED
    BY <2>1, <2>3, <2>5, <1>a DEF Placed
<1>2. ASSUME NEW f \in Fds, Accept(f) PROVE Placed'
  <2>1. /\ backlog # <<>> /\ backlog' = Tail(backlog) /\ made' = made
        /\ file' = [file EXCEPT ![f] = backlog[1]]
    BY <1>2 DEF Accept, clientVars
  <2>2. /\ Len(backlog) \in Nat /\ Len(backlog) >= 1
        /\ Len(backlog') = Len(backlog) - 1
        /\ \A i \in 1 .. Len(backlog') : backlog'[i] = backlog[i + 1]
    BY <2>1, <1>a
  <2>3. \A g \in Fds : file'[g] = IF g = f THEN backlog[1] ELSE file[g]
    BY <2>1, <1>a
  <2>4. ASSUME NEW i \in 1 .. Len(backlog')
        PROVE  /\ backlog'[i] <= made
               /\ \A j \in 1 .. Len(backlog') : backlog'[i] = backlog'[j] => i = j
               /\ \A g \in Fds : file'[g] # backlog'[i]
    <3>1. i + 1 \in 1 .. Len(backlog) /\ 1 \in 1 .. Len(backlog) /\ i + 1 # 1
      BY <2>2
    <3>2. \A j \in 1 .. Len(backlog') : j + 1 \in 1 .. Len(backlog)
      BY <2>2
    <3>3. backlog[i + 1] # backlog[1]
      BY <3>1 DEF Placed
    <3>4. \A j \in 1 .. Len(backlog') : backlog'[i] = backlog'[j] => i + 1 = j + 1
      BY <3>1, <3>2, <2>2 DEF Placed
    <3> QED
      BY <3>1, <3>3, <3>4, <2>2, <2>3 DEF Placed
  <2>5. 1 \in 1 .. Len(backlog)
    BY <2>2
  <2> QED
    BY <2>1, <2>3, <2>4, <2>5 DEF Placed
<1>3. ASSUME NEW t \in Tid, SkipRequest(t) \/ CloseAndReturn(t) PROVE Placed'
  <2>1. /\ UNCHANGED <<backlog, made>>
        /\ \A g \in Fds : file'[g] \in {file[g], NoConn}
    BY <1>3, <1>a DEF SkipRequest, CloseAndReturn, clientVars, netVars
  <2> QED
    BY <2>1, <1>a, <1>b DEF Placed, NoConn
<1>4. CASE UNCHANGED <<backlog, made, file>>
  BY <1>4 DEF Placed
<1> QED
  BY <1>1, <1>2, <1>3, <1>4
  DEF Next, ClientStep, MainStep, ThreadStep, ReconnectFails, SendNewline, ReadReply,
      ReadNothing, Kill, SendWord, CreateThread, CreateFails, Insert, Reap, BeginRead,
      TakeData, TakeEof, ReadFails, WriteReply, vars, clientVars, netVars

LEMMA OwnedStep == IInv /\ Placed /\ Owned /\ [Next]_vars => Owned'
<1> SUFFICES ASSUME IInv, Placed, Owned, [Next]_vars PROVE Owned'
  OBVIOUS
<1> USE DEF IInv
<1>1. ASSUME NEW c \in Client, Connect(c) PROVE Owned'
  <2>1. /\ made' = made + 1 /\ made \in Nat /\ made + 1 \in Conns /\ c \in Client
        /\ sock' = [sock EXCEPT ![c] = made + 1] /\ owner' = [owner EXCEPT ![made + 1] = c]
        /\ UNCHANGED <<up, down>>
        /\ sock \in [Client -> Conns \cup {NoConn}]
        /\ owner \in [Conns -> Client \cup {Nobody}]
    BY <1>1 DEF Connect, TypeOK, Conns
  <2>2. ASSUME NEW d \in Client, sock'[d] # NoConn
        PROVE  sock'[d] <= made' /\ owner'[sock'[d]] = d
    <3>1. CASE d = c
      BY <2>1, <3>1
    <3>2. CASE d # c
      <4>1. sock'[d] = sock[d] /\ sock[d] \in Conns /\ sock[d] <= made /\ owner[sock[d]] = d
        BY <2>1, <2>2, <3>2 DEF Owned
      <4> QED
        BY <2>1, <4>1 DEF Conns
    <3> QED
      BY <3>1, <3>2
  <2>3. \A k \in Conns : k > made' => k > made
    BY <2>1 DEF Conns
  <2> QED
    BY <2>1, <2>2, <2>3 DEF Owned
<1>2. ASSUME NEW c \in Client, NEW x, WriteUp(sock[c], x), cl[c] # "connect",
             UNCHANGED <<sock, owner, made, down>>
      PROVE  Owned'
  <2>1. sock[c] \in Conns /\ sock[c] <= made
    BY <1>2 DEF Owned, SockInv, Conns, NoConn
  <2>2. \A k \in Conns : k > made => up'[k] = up[k]
    BY <1>2, <2>1 DEF WriteUp, TypeOK, Conns
  <2> QED
    BY <1>2, <2>2 DEF Owned
<1>3. ASSUME NEW c \in Client, ReadReply(c) PROVE Owned'
  <2>1. sock[c] \in Conns /\ sock[c] <= made
    BY <1>3 DEF ReadReply, Owned, SockInv, Conns, NoConn
  <2> QED
    BY <1>3, <2>1 DEF ReadReply, Owned, netVars, TypeOK, Conns
<1>4. ASSUME NEW t \in Tid, TakeData(t) PROVE Owned'
  BY <1>4 DEF TakeData, Owned, TypeOK, clientVars, Conns
<1>5. ASSUME NEW t \in Tid, WriteReply(t) PROVE Owned'
  <2>1. fd[t] \in Fds /\ file[fd[t]] <= made
    BY <1>5 DEF WriteReply, ThreadInv, Serving, Placed
  <2> QED
    BY <1>5, <2>1 DEF WriteReply, Owned, TypeOK, clientVars, Conns, NoConn
<1>6. CASE UNCHANGED <<sock, owner, made, up, down>>
  BY <1>6 DEF Owned
<1>7. ASSUME NEW c \in Client, SendNewline(c) PROVE Owned'
  BY <1>7, <1>2 DEF SendNewline
<1>8. ASSUME NEW c \in Client, NEW w \in Word, SendWord(c, w) PROVE Owned'
  BY <1>8, <1>2 DEF SendWord
<1> QED
  BY <1>1, <1>3, <1>4, <1>5, <1>6, <1>7, <1>8
  DEF Next, ClientStep, MainStep, ThreadStep, ReconnectFails, ReadNothing, Kill, Accept,
      CreateThread, CreateFails, Insert, Reap, BeginRead, TakeEof, ReadFails,
      SkipRequest, CloseAndReturn, vars, clientVars, netVars

LEMMA UnusedStep == IInv /\ Unused /\ [Next]_vars => Unused'
<1> SUFFICES ASSUME IInv, Unused, [Next]_vars PROVE Unused'
  OBVIOUS
<1>1. ASSUME NEW t \in Tid, CreateThread(t) PROVE Unused'
  BY <1>1 DEF CreateThread, Unused, IInv, TypeOK
<1>2. ASSUME NEW t \in Tid, Serving(t), \A u \in Tid \ {t} : UNCHANGED <<st[u], buf[u]>>,
             st'[t] # "none"
      PROVE  Unused'
  BY <1>2 DEF Unused
<1>3. ASSUME NEW t \in Tid, TakeData(t) \/ TakeEof(t) \/ ReadFails(t) \/ SkipRequest(t)
                               \/ WriteReply(t) \/ CloseAndReturn(t)
      PROVE  Unused'
  <2>1. /\ Serving(t) /\ st'[t] # "none"
        /\ \A u \in Tid \ {t} : UNCHANGED <<st[u], buf[u]>>
    <3>1. st[t] \in {"read", "skip", "write", "writeCut", "close"}
      BY <1>3 DEF TakeData, TakeEof, ReadFails, SkipRequest, WriteReply, CloseAndReturn
    <3>2. DOMAIN st = Tid /\ DOMAIN buf = Tid
      BY DEF IInv, TypeOK
    <3>3. st'[t] # "none" /\ \A u \in Tid \ {t} : st'[u] = st[u]
      BY <1>3, <3>2
      DEF TakeData, TakeEof, ReadFails, SkipRequest, WriteReply, CloseAndReturn
    <3>4. \A u \in Tid \ {t} : buf'[u] = buf[u]
      BY <1>3, <3>2
      DEF TakeData, TakeEof, ReadFails, SkipRequest, WriteReply, CloseAndReturn
    <3> QED BY <3>1, <3>3, <3>4 DEF Serving
  <2> QED
    BY <1>2, <2>1
<1>4. CASE UNCHANGED <<st, buf>>
  BY <1>4 DEF Unused
<1> QED
  BY <1>1, <1>3, <1>4
  DEF Next, ClientStep, MainStep, ThreadStep, Connect, ReconnectFails, SendNewline,
      ReadReply, ReadNothing, Kill, SendWord, Accept, CreateFails, Insert, Reap,
      BeginRead, vars, thrVars

-----------------------------------------------------------------------------
\* What a step leaves alone for client c to stay as it is.
Untouched(c) ==
  /\ UNCHANGED <<cl[c], sock[c], input[c]>>
  /\ up'[sock[c]] = up[sock[c]] /\ down'[sock[c]] = down[sock[c]]
  /\ \A t \in Tid : /\ Serves(t, sock[c])' <=> Serves(t, sock[c])
                    /\ Serves(t, sock[c]) => st'[t] = st[t] /\ buf'[t] = buf[t]

\* The server still has, or still has not, the connection of client c.
StaysPut(c) ==
  /\ Queued(sock[c]) \/ (\E f \in Fds : file[f] = sock[c]) =>
       Queued(sock[c])' \/ \E f \in Fds : file'[f] = sock[c]
  /\ ~Queued(sock[c]) =>
       /\ ~Queued(sock[c])'
       /\ main' = "create" => \/ main = "create" /\ file'[cfd'] = file[cfd]
                              \/ file'[cfd'] # sock[c]

LEMMA LineKept ==
  ASSUME NEW c \in Client, Untouched(c), StaysPut(c), Pending(c) \/ Replied(c)
  PROVE  (Pending(c) \/ Replied(c))'
<1>1. /\ cl'[c] = cl[c] /\ sock'[c] = sock[c] /\ input'[c] = input[c]
      /\ up'[sock[c]] = up[sock[c]] /\ down'[sock[c]] = down[sock[c]]
  BY DEF Untouched
<1>2. /\ \A t \in Tid : Serves(t, sock[c])' <=> Serves(t, sock[c])
      /\ \A t \in Tid : Serves(t, sock[c]) => st'[t] = st[t] /\ buf'[t] = buf[t]
  BY DEF Untouched
<1>3. ASSUME NEW b, NEW u PROVE UnderWay(c, b, u)' <=> UnderWay(c, b', u')
  BY <1>1 DEF UnderWay
<1>4. CASE Pending(c)
  <2>1. down'[sock'[c]] = <<>>
    BY <1>4, <1>1 DEF Pending
  <2>2. Queued(sock[c])' \/ \E f \in Fds : file'[f] = sock'[c]
    BY <1>4, <1>1 DEF Pending, StaysPut
  <2> QED
    BY <1>1, <1>2, <1>3, <1>4, <2>1, <2>2 DEF Pending
<1>5. CASE Replied(c)
  BY <1>1, <1>2, <1>5 DEF Replied, StaysPut, Answer
<1> QED
  BY <1>4, <1>5

\* What is known of a client that talks.
LEMMA TalkerKnown ==
  ASSUME IInv, Owned, NEW c \in Client, Talks(c)
  PROVE  /\ sock[c] \in Conns /\ sock[c] <= made /\ owner[sock[c]] = c
         /\ \A d \in Client : Talks(d) /\ d # c => sock[d] # sock[c]
<1>1. \A d \in Client : Talks(d) =>
        sock[d] \in Conns /\ sock[d] <= made /\ owner[sock[d]] = d
  BY DEF IInv, SockInv, Talks, Owned, Conns, NoConn
<1> QED
  BY <1>1

LEMMA AppendShort ==
  ASSUME NEW x, NEW y
  PROVE  Append(<<>>, x) = <<x>> /\ Append(<<x>>, y) = <<x, y>>
<1> DEFINE S == {x, y}
<1>1. <<>> \in Seq(S) /\ <<x>> \in Seq(S) /\ <<x, y>> \in Seq(S)
  OBVIOUS
<1>2. Append(<<>>, x) \in Seq(S) /\ Append(<<x>>, y) \in Seq(S)
  BY <1>1
<1>3. Len(Append(<<>>, x)) = 1 /\ Append(<<>>, x)[1] = x
  BY <1>1
<1>4. Len(Append(<<x>>, y)) = 2 /\ Append(<<x>>, y)[1] = x /\ Append(<<x>>, y)[2] = y
  BY <1>1
<1>5. /\ Len(<<x>>) = 1 /\ <<x>>[1] = x
      /\ Len(<<x, y>>) = 2 /\ <<x, y>>[1] = x /\ <<x, y>>[2] = y
  OBVIOUS
<1> HIDE DEF S
<1>6. Append(<<>>, x) = <<x>>
  <2>1. \A i \in 1 .. Len(<<x>>) : Append(<<>>, x)[i] = <<x>>[i]
    BY <1>3, <1>5
  <2> QED
    BY <2>1, <1>1, <1>2, <1>3, <1>5, SeqEqual
<1>7. Append(<<x>>, y) = <<x, y>>
  <2>1. \A i \in 1 .. Len(<<x, y>>) : Append(<<x>>, y)[i] = <<x, y>>[i]
    <3>1. \A i \in 1 .. 2 : i = 1 \/ i = 2
      OBVIOUS
    <3> QED
      BY <3>1, <1>4, <1>5
  <2> QED
    BY <2>1, <1>1, <1>2, <1>4, <1>5, SeqEqual
<1> QED
  BY <1>6, <1>7

\* What a client writes while its line is pending arrives.
LEMMA WriteArrives ==
  ASSUME IInv, Owned, NEW c \in Client, Talks(c), Pending(c),
         NEW x \in Word \cup {NL}, WriteUp(sock[c], x)
  PROVE  /\ up'[sock[c]] = Append(up[sock[c]], x)
         /\ \A k \in Conns : k # sock[c] => up'[k] = up[k]
<1>1. sock[c] \in Conns
  BY TalkerKnown
<1>2. ~Released(sock[c])
  BY DEF Pending, Released, Held
<1> QED
  BY <1>1, <1>2 DEF WriteUp, IInv, TypeOK

\* The steps that do not concern the line of client c.
LEMMA OthersStep ==
  ASSUME IInv, Placed, Owned, ~failed, ~failed', NEW c \in Client, Talks(c),
         Pending(c) \/ Replied(c), UNCHANGED <<cl[c], sock[c], input[c]>>,
         up'[sock[c]] = up[sock[c]], down'[sock[c]] = down[sock[c]],
         UNCHANGED <<backlog, file>>, UNCHANGED <<main, cfd>> \/ main' # "create",
         \A t \in Tid : Serves(t, sock[c])' <=> Serves(t, sock[c]),
         \A t \in Tid : Serves(t, sock[c]) => st'[t] = st[t] /\ buf'[t] = buf[t]
  PROVE  (Pending(c) \/ Replied(c))'
<1>1. Untouched(c)
  BY DEF Untouched
<1>2. StaysPut(c)
  BY DEF StaysPut, Queued
<1> QED
  BY <1>1, <1>2, LineKept

LEMMA LineStep ==
  IInv /\ Placed /\ Owned /\ Unused /\ LineInv /\ [Next]_vars => LineInv'
<1> SUFFICES ASSUME IInv, Placed, Owned, Unused, LineInv, [Next]_vars, ~failed',
                    NEW d \in Client, Talks(d)'
             PROVE  (Pending(d) \/ Replied(d))'
  BY DEF LineInv
<1>f. ~failed
  BY DEF Next, ClientStep, MainStep, ThreadStep, Connect, ReconnectFails, SendNewline,
         ReadReply, ReadNothing, Kill, SendWord, Accept, CreateThread, CreateFails,
         Insert, Reap, BeginRead, TakeData, TakeEof, ReadFails, SkipRequest, WriteReply,
         CloseAndReturn, vars
<1>h. Talks(d) => Pending(d) \/ Replied(d)
  BY <1>f DEF LineInv
<1>t. TypeOK
  BY DEF IInv
<1>1. ASSUME NEW c \in Client, Connect(c) PROVE (Pending(d) \/ Replied(d))'
  <2>1. /\ UNCHANGED <<up, down, file, main, cfd, st, conn, buf>>
        /\ backlog' = Append(backlog, made + 1) /\ made + 1 \in Conns /\ made \in Nat
        /\ sock' = [sock EXCEPT ![c] = made + 1] /\ cl' = [cl EXCEPT ![c] = "input"]
        /\ input' = [input EXCEPT ![c] = NULL]
    BY <1>1, <1>t DEF Connect, mainVars, thrVars, TypeOK, Conns
  <2>2. /\ backlog' # <<>> /\ Len(backlog') = Len(backlog) + 1 /\ Len(backlog) \in Nat
        /\ backlog'[Len(backlog) + 1] = made + 1
        /\ \A i \in 1 .. Len(backlog) : backlog'[i] = backlog[i]
    <3>1. backlog \in Seq(Conns)
      BY <1>t DEF TypeOK
    <3> QED
      BY <2>1, <3>1
  <2>3. CASE d = c
    <3>1. sock'[d] = made + 1 /\ cl'[d] = "input"
      BY <2>1, <2>3, <1>t DEF TypeOK
    <3>2. up'[made + 1] = <<>> /\ down'[made + 1] = <<>>
      BY <2>1 DEF Owned
    <3>3. Queued(sock[d])'
      BY <2>2, <3>1 DEF Queued
    <3>4. ASSUME NEW t \in Tid PROVE ~Serves(t, sock[d])'
      <4>1. Serving(t) => conn[t] \in 1 .. made
        BY <1>f, ServerHolds
      <4> QED
        BY <2>1, <3>1, <4>1 DEF Serves, Serving
    <3> QED
      BY <3>1, <3>2, <3>3, <3>4 DEF Pending, UnderWay
  <2>4. CASE d # c
    <3>1. UNCHANGED <<cl[d], sock[d], input[d]>> /\ Talks(d)
      BY <2>1, <2>4, <1>t DEF Talks, TypeOK
    <3>2. sock[d] # made + 1
      BY <3>1, <2>1, TalkerKnown DEF Conns
    <3>3. Untouched(d)
      BY <2>1, <3>1 DEF Untouched, Serves, Serving
    <3>4. Queued(sock[d])' <=> Queued(sock[d])
      BY <2>2, <3>1, <3>2 DEF Queued
    <3>5. StaysPut(d)
      BY <2>1, <3>1, <3>4 DEF StaysPut
    <3> QED
      BY <3>1, <3>3, <3>5, <1>h, LineKept
  <2> QED
    BY <2>3, <2>4
<1>2. ASSUME NEW c \in Client,
             ReconnectFails(c) \/ ReadReply(c) \/ ReadNothing(c) \/ Kill(c)
      PROVE  (Pending(d) \/ Replied(d))'
  <2>1. /\ UNCHANGED <<up, backlog, file, main, cfd, st, conn, buf, sock, input>>
        /\ cl' = [cl EXCEPT ![c] = cl'[c]] /\ cl'[c] \in {"useless", "connect", "input", "dead"}
        /\ cl'[c] = "input" => Talks(c) /\ down[sock[c]] = <<>> /\ Released(sock[c])
        /\ \/ down' = down
           \/ cl[c] = "wait" /\ down' = [down EXCEPT ![sock[c]] = Tail(@)]
    BY <1>2, <1>t DEF ReconnectFails, ReadReply, ReadNothing, Kill, Talks, netVars,
                      mainVars, thrVars, TypeOK
  <2>2. CASE d = c
    <3>1. Talks(d) /\ down[sock[d]] = <<>> /\ Released(sock[d])
      BY <2>1, <2>2, <1>t DEF Talks, TypeOK
    <3> QED
      BY <3>1, <1>h DEF Pending, Replied, Released, Held
  <2>3. CASE d # c
    <3>1. UNCHANGED <<cl[d], sock[d], input[d]>> /\ Talks(d)
      BY <2>1, <2>3, <1>t DEF Talks, TypeOK
    <3>2. down'[sock[d]] = down[sock[d]]
      <4>1. cl[c] = "wait" => sock[d] # sock[c]
        BY <3>1, <2>3, TalkerKnown DEF Talks
      <4> QED
        BY <2>1, <4>1, <3>1, TalkerKnown, <1>t DEF TypeOK
    <3> QED
      BY <2>1, <3>1, <3>2, <1>f, <1>h, OthersStep DEF Serves, Serving
  <2> QED
    BY <2>2, <2>3
<1>3. ASSUME NEW c \in Client, NEW x \in Word \cup {NL}, WriteUp(sock[c], x),
             cl' = [cl EXCEPT ![c] = cl'[c]],
             \/ cl[c] = "input" /\ cl'[c] = "newline" /\ x = input'[c] /\ x \in Word
                  /\ input' = [input EXCEPT ![c] = x]
             \/ cl[c] = "newline" /\ cl'[c] = "wait" /\ x = NL /\ input' = input,
             UNCHANGED <<down, backlog, file, main, cfd, st, conn, buf, sock>>
      PROVE  (Pending(d) \/ Replied(d))'
  <2>1. Talks(c) /\ cl[c] # "wait"
    BY <1>3 DEF Talks
  <2>2. Pending(c)
    BY <2>1, <1>f DEF LineInv, Replied
  <2>3. /\ up'[sock[c]] = Append(up[sock[c]], x)
        /\ \A k \in Conns : k # sock[c] => up'[k] = up[k]
    BY <1>3, <2>1, <2>2, WriteArrives
  <2>4. CASE d = c
    <3>1. ASSUME NEW b, UnderWay(c, b, up[sock[c]]) PROVE UnderWay(c, b, up[sock[c]])'
      <4>1. /\ sock'[c] = sock[c]
            /\ cl[c] = "input" => cl'[c] = "newline" /\ input'[c] = x
            /\ cl[c] = "newline" => cl'[c] = "wait" /\ input'[c] = input[c] /\ x = NL
        BY <1>3, <1>t DEF TypeOK
      <4>2. CASE cl[c] = "input"
        <5>1. b = <<>> /\ up'[sock[c]] = <<x>>
          BY <4>2, <3>1, <2>3, AppendShort DEF UnderWay
        <5> QED
          BY <4>1, <4>2, <5>1 DEF UnderWay
      <4>3. CASE cl[c] = "newline"
        <5>1. \/ b = <<>> /\ up'[sock[c]] = <<input[c], NL>>
              \/ b = <<input[c]>> /\ up'[sock[c]] = <<NL>>
          BY <4>1, <4>3, <3>1, <2>3, AppendShort DEF UnderWay
        <5> QED
          BY <4>1, <4>3, <5>1 DEF UnderWay
      <4> QED
        BY <4>2, <4>3, <2>1, <3>1 DEF UnderWay
    <3> QED
      BY <1>3, <2>2, <2>4, <3>1 DEF Pending, Serves, Serving, Queued
  <2>5. CASE d # c
    <3>1. UNCHANGED <<cl[d], sock[d], input[d]>> /\ Talks(d)
      BY <1>3, <2>5, <1>t DEF Talks, TypeOK
    <3>2. up'[sock[d]] = up[sock[d]]
      BY <2>1, <2>3, <2>5, <3>1, TalkerKnown
    <3> QED
      BY <1>3, <3>1, <3>2, <1>f, <1>h, OthersStep DEF Serves, Serving
  <2> QED
    BY <2>4, <2>5
<1>4. ASSUME NEW c \in Client, SendNewline(c) PROVE (Pending(d) \/ Replied(d))'
  BY <1>3, <1>4, <1>t DEF SendNewline, mainVars, thrVars, TypeOK
<1>5. ASSUME NEW c \in Client, NEW w \in Word, SendWord(c, w)
      PROVE  (Pending(d) \/ Replied(d))'
  BY <1>3, <1>5, <1>t DEF SendWord, mainVars, thrVars, TypeOK
<1>6. ASSUME NEW f \in Fds, Accept(f) PROVE (Pending(d) \/ Replied(d))'
  <2>1. /\ backlog # <<>> /\ backlog' = Tail(backlog) /\ backlog \in Seq(Conns)
        /\ file' = [file EXCEPT ![f] = backlog[1]] /\ file[f] = NoConn
        /\ cfd' = f /\ file \in [Fds -> Conns \cup {NoConn}]
        /\ UNCHANGED <<up, down, cl, sock, input, st, conn, buf>>
    BY <1>6, <1>t DEF Accept, TypeOK, clientVars, thrVars
  <2>2. Untouched(d) /\ Talks(d)
    BY <2>1 DEF Untouched, Serves, Serving, Talks
  <2>3. /\ Len(backlog) \in Nat /\ Len(backlog) >= 1 /\ Len(backlog') = Len(backlog) - 1
        /\ \A i \in 1 .. Len(backlog') : backlog'[i] = backlog[i + 1]
    BY <2>1
  <2>4. Queued(sock[d])' => Queued(sock[d])
    <3> SUFFICES ASSUME NEW i \in 1 .. Len(backlog'), backlog'[i] = sock'[d]
                 PROVE  Queued(sock[d])
      BY DEF Queued
    <3> QED
      BY <2>1, <2>3 DEF Queued
  <2>5. Queued(sock[d]) => Queued(sock[d])' \/ backlog[1] = sock[d]
    <3> SUFFICES ASSUME NEW i \in 1 .. Len(backlog), backlog[i] = sock[d], i # 1
                 PROVE  Queued(sock[d])'
      BY DEF Queued
    <3>1. i - 1 \in 1 .. Len(backlog') /\ backlog'[i - 1] = sock[d]
      BY <2>3
    <3> QED
      BY <3>1, <2>1 DEF Queued
  <2>6. file'[f] = backlog[1] /\ \A g \in Fds : g # f => file'[g] = file[g]
    BY <2>1
  <2>7. ~Queued(sock[d]) => backlog[1] # sock[d]
    BY <2>3 DEF Queued
  <2>8. sock[d] # NoConn
    BY <2>2, TalkerKnown DEF Conns, NoConn
  <2>9. StaysPut(d)
    BY <2>1, <2>4, <2>5, <2>6, <2>7, <2>8 DEF StaysPut
  <2> QED
    BY <2>2, <2>9, <1>h, LineKept
<1>7. ASSUME NEW t \in Tid, CreateThread(t) PROVE (Pending(d) \/ Replied(d))'
  <2>1. /\ main = "create" /\ st[t] = "none" /\ main' = "insert"
        /\ UNCHANGED <<cl, sock, input, up, down, backlog, file, buf>>
        /\ conn' = [conn EXCEPT ![t] = file[cfd]] /\ st' = [st EXCEPT ![t] = "read"]
        /\ st'[t] = "read" /\ conn'[t] = file[cfd]
        /\ \A u \in Tid : u # t => st'[u] = st[u] /\ conn'[u] = conn[u]
    BY <1>7, <1>t DEF CreateThread, TypeOK, clientVars, netVars
  <2>2. Talks(d)
    BY <2>1 DEF Talks
  <2>3. ~Serving(t)
    BY <2>1 DEF Serving
  <2>4. CASE file[cfd] = sock[d]
    <3>1. Pending(d)
      BY <1>h, <2>1, <2>2, <2>4 DEF Replied
    <3>2. ASSUME NEW u \in Tid, Serves(u, sock[d]) PROVE FALSE
      <4>1. fd[u] \in Fds /\ file[fd[u]] = file[cfd] /\ fd[u] # cfd /\ file[cfd] # NoConn
        BY <3>2, <2>1, <2>4, <1>f, ServerHolds DEF Serves, IInv, Exclusive
      <4>2. cfd \in Fds
        BY <2>1 DEF IInv, MainInv
      <4> QED
        BY <4>1, <4>2 DEF Placed
    <3>3. UnderWay(d, buf[t], up[sock[d]])
      BY <3>1, <3>2, <2>1 DEF Pending, Unused
    <3>4. \A u \in Tid : Serves(u, sock[d])' => u = t
      BY <3>2, <2>1 DEF Serves, Serving
    <3>5. Serves(t, sock[d])'
      BY <2>1, <2>4 DEF Serves, Serving
    <3>6. UnderWay(d, buf[t], up[sock[d]])'
      BY <3>3, <2>1 DEF UnderWay
    <3> QED
      BY <3>1, <3>4, <3>5, <3>6, <2>1 DEF Pending, Queued
  <2>5. CASE file[cfd] # sock[d]
    <3>1. \A u \in Tid : /\ Serves(u, sock[d])' <=> Serves(u, sock[d])
                         /\ Serves(u, sock[d]) => st'[u] = st[u]
      BY <2>1, <2>3, <2>5 DEF Serves, Serving
    <3> QED
      BY <2>1, <2>2, <3>1, <1>f, <1>h, OthersStep
  <2> QED
    BY <2>4, <2>5
<1>8. ASSUME CreateFails \/ Insert \/ Reap \/ (\E t \in Tid : BeginRead(t)) \/ UNCHANGED vars
      PROVE  (Pending(d) \/ Replied(d))'
  <2>1. /\ UNCHANGED <<cl, sock, input, up, down, backlog, file, st, conn, buf>>
        /\ UNCHANGED <<main, cfd>> \/ main' # "create"
    BY <1>8 DEF CreateFails, Insert, Reap, BeginRead, vars, clientVars, netVars,
                thrVars, mainVars
  <2>2. Talks(d)
    BY <2>1 DEF Talks
  <2> QED
    BY <2>1, <2>2, <1>f, <1>h, OthersStep DEF Serves, Serving
\* A step of the thread that serves another connection.
<1>9. ASSUME NEW t \in Tid, Serving(t), Talks(d), conn[t] # sock[d],
             UNCHANGED <<cl, sock, input, backlog, main, cfd>>,
             \A u \in Tid : u # t => UNCHANGED <<st[u], buf[u], conn[u]>>,
             conn'[t] \in {conn[t], NoConn},
             \A k \in Conns : k # conn[t] => UNCHANGED <<up[k], down[k]>>,
             \A f \in Fds : f # fd[t] => file'[f] = file[f],
             file'[fd[t]] \in {file[fd[t]], NoConn}
      PROVE  (Pending(d) \/ Replied(d))'
  <2>1. sock[d] \in Conns /\ sock[d] # NoConn
    BY <1>9, TalkerKnown DEF Conns, NoConn
  <2>2. file[fd[t]] = conn[t] /\ fd[t] \in Fds
    BY <1>9, <1>f, ServerHolds
  <2>3. Untouched(d)
    BY <1>9, <2>1 DEF Untouched, Serves, Serving
  <2>4. \A f \in Fds : file[f] = sock[d] => file'[f] = sock[d]
    BY <1>9, <2>2
  <2>5. main = "create" => cfd \in Fds
    BY DEF IInv, MainInv
  <2>6. StaysPut(d)
    BY <1>9, <2>1, <2>2, <2>4, <2>5 DEF StaysPut, Queued
  <2> QED
    BY <1>9, <2>3, <2>6, <1>h, LineKept
<1>10. ASSUME NEW t \in Tid, TakeData(t) PROVE (Pending(d) \/ Replied(d))'
  <2>1. /\ Serving(t) /\ st[t] = "read" /\ at[t] = conn[t] /\ up[conn[t]] # <<>>
        /\ conn[t] \in Conns
        /\ \A u \in Tid : Serves(u, conn[t]) => u = t
    <3>1. Serving(t) /\ st[t] = "read" /\ at[t] # NoConn /\ up[at[t]] # <<>>
      BY <1>10 DEF TakeData, Serving
    <3> QED
      BY <3>1, <1>f, ServerHolds DEF Serves
  <2>2. /\ UNCHANGED <<cl, sock, input, down, backlog, file, main, cfd, conn>>
        /\ up' = [up EXCEPT ![conn[t]] = Tail(up[conn[t]])]
        /\ st' = [st EXCEPT ![t] = IF Head(up[conn[t]]) = NL THEN "write" ELSE "read"]
        /\ buf' = [buf EXCEPT ![t] = IF Head(up[conn[t]]) = NL THEN buf[t]
                                     ELSE Append(buf[t], Head(up[conn[t]]))]
    BY <1>10, <2>1 DEF TakeData, clientVars, mainVars
  <2>3. Talks(d)
    BY <2>2 DEF Talks
  <2>4. CASE conn[t] = sock[d]
    <3>1. Pending(d) /\ Serves(t, sock[d]) /\ UnderWay(d, buf[t], up[sock[d]])
      BY <1>h, <2>1, <2>3, <2>4 DEF Replied, Pending, Serves
    <3>2. input[d] # NL /\ NL # input[d]
      BY <1>t DEF TypeOK, NL, NULL
    <3>3. /\ up'[sock[d]] = Tail(up[sock[d]])
          /\ st'[t] = IF Head(up[sock[d]]) = NL THEN "write" ELSE "read"
          /\ buf'[t] = IF Head(up[sock[d]]) = NL THEN buf[t]
                       ELSE Append(buf[t], Head(up[sock[d]]))
      BY <2>1, <2>2, <2>4, <1>t DEF TypeOK
    <3>4. \/ st'[t] = "read" /\ UnderWay(d, buf'[t], up'[sock[d]])
          \/ st'[t] = "write" /\ cl[d] = "wait" /\ buf'[t] = <<input[d]>>
      <4>1. CASE cl[d] = "newline" /\ buf[t] = <<>> /\ up[sock[d]] = <<input[d]>>
        BY <3>2, <3>3, <4>1 DEF UnderWay
      <4>2. CASE cl[d] = "wait" /\ buf[t] = <<>> /\ up[sock[d]] = <<input[d], NL>>
        BY <3>2, <3>3, <4>2 DEF UnderWay
      <4>3. CASE cl[d] = "wait" /\ buf[t] = <<input[d]>> /\ up[sock[d]] = <<NL>>
        BY <3>3, <4>3
      <4> QED
        BY <3>1, <2>1, <2>4, <4>1, <4>2, <4>3 DEF UnderWay
    <3>5. \A u \in Tid : Serves(u, sock[d])' <=> u = t
      <4>1. Serving(t)'
        BY <3>3 DEF Serving
      <4>2. \A u \in Tid : u # t => st'[u] = st[u]
        BY <2>2
      <4> QED
        BY <2>1, <2>2, <2>4, <4>1, <4>2 DEF Serves, Serving
    <3>6. \/ st'[t] = "read" /\ UnderWay(d, buf[t], up[sock[d]])'
          \/ st'[t] = "write" /\ cl'[d] = "wait" /\ buf'[t] = <<input'[d]>>
      BY <3>4, <2>2 DEF UnderWay
    <3> QED
      BY <2>2, <3>1, <3>5, <3>6 DEF Pending, Queued
  <2>5. CASE conn[t] # sock[d]
    <3>1. \A k \in Conns : k # conn[t] => up'[k] = up[k]
      BY <2>2, <1>t DEF TypeOK
    <3> QED
      BY <1>9, <2>1, <2>2, <2>3, <2>5, <3>1
  <2> QED
    BY <2>4, <2>5
<1>11. ASSUME NEW t \in Tid, TakeEof(t) PROVE (Pending(d) \/ Replied(d))'
  <2>1. Serving(t) /\ at[t] # NoConn /\ cl[owner[at[t]]] = "dead"
    BY <1>11 DEF TakeEof, Serving, Alive
  <2>2. /\ UNCHANGED <<cl, sock, input, up, down, backlog, file, main, cfd, conn, buf>>
        /\ \A u \in Tid : u # t => st'[u] = st[u]
    BY <1>11, <1>t DEF TakeEof, clientVars, netVars, mainVars, TypeOK
  <2>3. Talks(d)
    BY <2>2 DEF Talks
  <2>4. conn[t] # sock[d]
    BY <2>1, <2>3, <1>f, TalkerKnown, ServerHolds DEF Talks
  <2> QED
    BY <1>9, <2>1, <2>2, <2>3, <2>4
<1>12. ASSUME NEW t \in Tid, ReadFails(t) \/ SkipRequest(t) PROVE FALSE
  <2>1. SkipRequest(t) => Serving(t) /\ st[t] = "skip"
    BY DEF SkipRequest, Serving
  <2> QED
    BY <1>12, <2>1, <1>f, ServerHolds DEF ReadFails
<1>13. ASSUME NEW t \in Tid, WriteReply(t) PROVE (Pending(d) \/ Replied(d))'
  <2>1. /\ Serving(t) /\ st[t] \in {"write", "writeCut"}
        /\ file[fd[t]] = conn[t] /\ fd[t] \in Fds
        /\ conn[t] \in Conns /\ conn[t] # NoConn
        /\ \A u \in Tid : Serves(u, conn[t]) => u = t
    <3>1. Serving(t) /\ st[t] \in {"write", "writeCut"}
      BY <1>13 DEF WriteReply, Serving
    <3>2. conn[t] \in Conns => conn[t] # NoConn
      BY DEF Conns, NoConn
    <3> QED
      BY <3>1, <3>2, <1>f, ServerHolds DEF Serves
  <2>2. /\ UNCHANGED <<cl, sock, input, up, backlog, file, main, cfd, conn>>
        /\ down' = [down EXCEPT ![conn[t]] = Append(@, Reverse(t))]
        /\ st' = [st EXCEPT ![t] = "close"] /\ buf' = [buf EXCEPT ![t] = <<>>]
    BY <1>13, <2>1 DEF WriteReply, clientVars, mainVars
  <2>3. Talks(d)
    BY <2>2 DEF Talks
  <2>4. CASE conn[t] = sock[d]
    <3>1. Pending(d) /\ st[t] = "write" /\ cl[d] = "wait" /\ buf[t] = <<input[d]>>
      BY <1>h, <2>1, <2>3, <2>4 DEF Replied, Pending, Serves
    <3>2. Reverse(t) = Answer(d)
      <4>1. Len(buf[t]) = 1 /\ \A i \in 1 .. Len(buf[t]) : buf[t][i] = input[d]
        BY <3>1
      <4>2. (\A i \in 1 .. Len(buf[t]) : buf[t][i] \notin Long) <=> input[d] \notin Long
        BY <4>1
      <4>3. st[t] = "write" /\ Len(buf[t]) <= 1
        BY <3>1, <4>1
      <4>4. CASE input[d] \in Long
        BY <3>1, <4>2, <4>3, <4>4, Zenon DEF Reverse, Answer
      <4>5. CASE input[d] \notin Long
        BY <3>1, <4>2, <4>3, <4>5, Zenon DEF Reverse, Answer
      <4> QED
        BY <4>4, <4>5
    <3>3. down'[sock[d]] = <<Answer(d)>>
      BY <2>1, <2>2, <2>4, <3>1, <3>2, <1>t DEF TypeOK, Pending
    <3>4. ~Queued(sock[d])
      BY <2>1, <2>4 DEF Queued, Placed
    <3>5. main = "create" => file[cfd] # sock[d]
      <4>1. main = "create" => cfd \in Fds /\ fd[t] # cfd
        BY <2>1, <1>f DEF IInv, MainInv, Exclusive
      <4> QED
        BY <2>1, <2>4, <4>1 DEF Placed
    <3>6. st'[t] = "close" /\ \A u \in Tid : u # t => st'[u] = st[u]
      BY <2>2, <1>t DEF TypeOK
    <3>7. \A u \in Tid : Serves(u, sock[d])' => u = t
      BY <2>1, <2>2, <2>4, <3>6 DEF Serves, Serving
    <3>8. Answer(d)' = Answer(d)
      BY <2>2 DEF Answer
    <3> QED
      BY <2>2, <3>1, <3>3, <3>4, <3>5, <3>6, <3>7, <3>8 DEF Replied, Queued
  <2>5. CASE conn[t] # sock[d]
    <3>1. \A k \in Conns : k # conn[t] => down'[k] = down[k]
      BY <2>2, <1>t DEF TypeOK
    <3> QED
      BY <1>9, <2>1, <2>2, <2>3, <2>5, <3>1
  <2> QED
    BY <2>4, <2>5
<1>14. ASSUME NEW t \in Tid, CloseAndReturn(t) PROVE (Pending(d) \/ Replied(d))'
  <2>1. /\ Serving(t) /\ st[t] = "close"
        /\ file[fd[t]] = conn[t] /\ fd[t] \in Fds /\ conn[t] # NoConn
        /\ \A u \in Tid : Serves(u, conn[t]) => u = t
    <3>1. Serving(t) /\ st[t] = "close"
      BY <1>14 DEF CloseAndReturn, Serving
    <3> QED
      BY <3>1, <1>f, ServerHolds DEF Serves, Conns, NoConn
  <2>2. /\ UNCHANGED <<cl, sock, input, up, down, backlog, main, cfd, buf>>
        /\ file' = [file EXCEPT ![fd[t]] = NoConn]
        /\ st' = [st EXCEPT ![t] = "returned"] /\ conn' = [conn EXCEPT ![t] = NoConn]
    BY <1>14 DEF CloseAndReturn, clientVars, netVars, mainVars
  <2>3. Talks(d)
    BY <2>2 DEF Talks
  <2>4. /\ st'[t] = "returned" /\ conn'[t] = NoConn
        /\ \A u \in Tid : u # t => st'[u] = st[u] /\ conn'[u] = conn[u]
        /\ \A f \in Fds : file'[f] = IF f = fd[t] THEN NoConn ELSE file[f]
    BY <2>2, <1>t DEF TypeOK
  <2>5. CASE conn[t] = sock[d]
    <3>1. Replied(d)
      BY <1>h, <2>1, <2>3, <2>5 DEF Pending, Serves
    <3>2. \A u \in Tid : ~Serves(u, sock[d])'
      BY <2>1, <2>2, <2>4, <2>5 DEF Serves, Serving
    <3>3. main = "create" => cfd \in Fds
      BY DEF IInv, MainInv
    <3> QED
      BY <2>1, <2>2, <2>4, <2>5, <3>1, <3>2, <3>3 DEF Replied, Queued, Answer
  <2>6. CASE conn[t] # sock[d]
    BY <1>9, <2>1, <2>2, <2>3, <2>4, <2>6
  <2> QED
    BY <2>5, <2>6
<1> QED
  BY <1>1, <1>2, <1>4, <1>5, <1>6, <1>7, <1>8, <1>10, <1>11, <1>12, <1>13, <1>14
  DEF Next, ClientStep, MainStep, ThreadStep

-----------------------------------------------------------------------------
\* A client that talks has not read a reply on its connection yet.
Unanswered == \A c \in Client : Talks(c) => answer[c] = NoAnswer

LEMMA UnansweredStep == IInv /\ Unanswered /\ [Next]_vars => Unanswered'
<1> SUFFICES ASSUME IInv, Unanswered, [Next]_vars PROVE Unanswered'
  OBVIOUS
<1>t. TypeOK
  BY DEF IInv
<1>1. ASSUME NEW c \in Client, Connect(c) PROVE Unanswered'
  BY <1>1, <1>t DEF Connect, Unanswered, Talks, TypeOK
<1>2. ASSUME NEW c \in Client, ReadReply(c) PROVE Unanswered'
  BY <1>2, <1>t DEF ReadReply, Unanswered, Talks, TypeOK
<1>3. ASSUME NEW c \in Client, cl' = [cl EXCEPT ![c] = cl'[c]], Talks(c)' => Talks(c),
             answer' = answer
      PROVE  Unanswered'
  BY <1>3, <1>t DEF Unanswered, Talks, TypeOK
<1>4. ASSUME NEW c \in Client,
             \/ ReconnectFails(c) \/ SendNewline(c) \/ ReadNothing(c) \/ Kill(c)
             \/ \E w \in Word : SendWord(c, w)
      PROVE  Unanswered'
  BY <1>3, <1>4, <1>t DEF ReconnectFails, SendNewline, ReadNothing, Kill, SendWord, Talks,
                          TypeOK
<1>5. ASSUME UNCHANGED <<cl, answer>> PROVE Unanswered'
  BY <1>5 DEF Unanswered, Talks
<1> QED
  BY <1>1, <1>2, <1>4, <1>5
  DEF Next, ClientStep, MainStep, ThreadStep, Accept, CreateThread, CreateFails, Insert,
      Reap, BeginRead, TakeData, TakeEof, ReadFails, SkipRequest, WriteReply,
      CloseAndReturn, vars, clientVars

LEMMA AnswerStep == IInv /\ LineInv /\ Unanswered /\ OwnReply /\ [Next]_vars => OwnReply'
<1> SUFFICES ASSUME IInv, LineInv, Unanswered, OwnReply, [Next]_vars PROVE OwnReply'
  OBVIOUS
<1>t. TypeOK
  BY DEF IInv
<1>1. ASSUME NEW c \in Client, ReadReply(c) PROVE OwnReply'
  <2>1. /\ cl[c] = "wait" /\ down[sock[c]] # <<>> /\ UNCHANGED <<input, failed>>
        /\ answer' = [answer EXCEPT ![c] = Head(down[sock[c]])]
    BY <1>1 DEF ReadReply
  <2>2. ~failed => Head(down[sock[c]]) = Answer(c)
    BY <2>1 DEF LineInv, Talks, Pending, Replied
  <2> QED
    BY <2>1, <2>2, <1>t DEF OwnReply, Answer, TypeOK
<1>2. ASSUME NEW c \in Client, Connect(c) PROVE OwnReply'
  BY <1>2, <1>t DEF Connect, OwnReply, TypeOK
<1>3. ASSUME NEW c \in Client, NEW w \in Word, SendWord(c, w) PROVE OwnReply'
  <2>1. answer[c] = NoAnswer
    BY <1>3 DEF SendWord, Unanswered, Talks
  <2> QED
    BY <1>3, <2>1, <1>t DEF SendWord, OwnReply, TypeOK
<1>4. ASSUME UNCHANGED <<answer, input>>, failed => failed' PROVE OwnReply'
  BY <1>4 DEF OwnReply
<1>5. ASSUME NEW t \in Tid, TakeEof(t) \/ ReadFails(t) PROVE OwnReply'
  BY <1>4, <1>5 DEF TakeEof, ReadFails, clientVars
<1>6. ASSUME NEW c \in Client, ReconnectFails(c) \/ SendNewline(c) \/ ReadNothing(c) \/ Kill(c)
      PROVE  OwnReply'
  BY <1>4, <1>6 DEF ReconnectFails, SendNewline, ReadNothing, Kill
<1>7. ASSUME NEW t \in Tid,
             \/ BeginRead(t) \/ TakeData(t) \/ SkipRequest(t) \/ WriteReply(t)
             \/ CloseAndReturn(t)
      PROVE  OwnReply'
  BY <1>4, <1>7
  DEF BeginRead, TakeData, SkipRequest, WriteReply, CloseAndReturn, clientVars
<1>8. ASSUME MainStep \/ Reap \/ UNCHANGED vars PROVE OwnReply'
  <2>1. UNCHANGED <<answer, input, failed>>
    BY <1>8
    DEF MainStep, Accept, CreateThread, CreateFails, Insert, Reap, vars, clientVars
  <2> QED
    BY <1>4, <2>1
<1> QED
  BY <1>1, <1>2, <1>3, <1>5, <1>6, <1>7, <1>8 DEF Next, ClientStep, ThreadStep

\* Until a read fails a client is answered with the reversal of its own line:
\* what it wrote is on the way to the one thread that has its connection, and
\* the only reply on that connection is made of it.
THEOREM RepliesAreOwn == Spec => []OwnReply
<1> DEFINE Inv == Placed /\ Owned /\ Unused /\ LineInv /\ Unanswered /\ OwnReply
<1>1. Init => Inv
  <2> SUFFICES ASSUME Init PROVE Inv
    OBVIOUS
  <2>1. \A c \in Client : ~Talks(c) /\ answer[c] = NoAnswer /\ sock[c] = NoConn
    <3>1. /\ cl = [c \in Client |-> "connect"] /\ sock = [c \in Client |-> NoConn]
          /\ answer = [c \in Client |-> NoAnswer]
      BY DEF Init
    <3>2. ASSUME NEW c \in Client
          PROVE  cl[c] = "connect" /\ answer[c] = NoAnswer /\ sock[c] = NoConn
      BY <3>1
    <3> QED
      BY <3>2 DEF Talks
  <2>2. Placed
    BY DEF Init, Placed, NoConn
  <2>3. Owned
    BY <2>1 DEF Init, Owned
  <2>4. Unused
    BY DEF Init, Unused
  <2> QED
    BY <2>1, <2>2, <2>3, <2>4 DEF LineInv, Unanswered, OwnReply
<1>2. IInv /\ Inv /\ [Next]_vars => Inv'
  BY PlacedStep, OwnedStep, UnusedStep, LineStep, UnansweredStep, AnswerStep
<1>3. Inv => OwnReply
  OBVIOUS
<1> QED
  BY <1>1, <1>2, <1>3, Inductive, PTL DEF Spec
=============================================================================
