-------------------------------- MODULE HttpGet --------------------------------
(***************************************************************************)
(* One request for a file: socket_ipv4_get_from_url, then                  *)
(* socket_http_get_file with socket_utilities_connect_timeout, or          *)
(* socket_https_get_file as https_test calls it.  The other side sends a   *)
(* reply piece by piece, stops sending, closes or resets the connection    *)
(* when it likes.  The program makes one request after the other, so a     *)
(* descriptor that is not closed is missed later.                          *)
(*                                                                         *)
(* A reply is a sequence of items: "head" and "body" characters, "crlf"    *)
(* (\r\n), and "nul".  Two "crlf" in a row end the head.                   *)
(***************************************************************************)
EXTENDS Integers, Sequences, SequencesExt

CONSTANTS
  Replies,   (* what a server may send                                     *)
  BufLen,    (* sizeof(rbuf), in items                                     *)
  MaxFds     (* the descriptors the process may have open                  *)

ASSUME RepliesAssumption == Replies \subseteq Seq({"head", "body", "crlf", "nul"})
ASSUME SizesAssumption   == BufLen \in Nat \ {0, 1} /\ MaxFds \in Nat \ {0}

VARIABLES
  pc,       (* where the request is                                        *)
  proto,    (* "http" or "https"                                           *)
  fds,      (* how many descriptors are open                               *)
  blocking, (* O_NONBLOCK is not set                                       *)
  status,   (* select reported the socket                                  *)
  rbuf,     (* the receive buffer                                          *)
  file,     (* what the file in /tmp holds                                 *)
  result,   (* what the request returned                                   *)
  peer,     (* the connection, as the other side left it                   *)
  reply,    (* the reply of this server                                    *)
  sent,     (* how much of it was sent                                     *)
  pipe,     (* what was sent and not yet received                          *)
  got,      (* history: what was received in time                          *)
  early,    (* history: how much of it came before the piece that brought  *)
            (* the end of the head                                         *)
  missed,   (* history: something was received after select timed out      *)
  plain,    (* history: nothing received in time is beyond the parser      *)
  lost      (* history: the requests that could not open their file        *)

client == <<pc, proto, fds, blocking, status, rbuf, file, result, lost>>
net    == <<peer, reply, sent, pipe>>
past   == <<got, early, missed, plain>>
vars   == <<client, net, past>>

Zeros == [i \in 1 .. BufLen |-> "nul"]

Init ==
  /\ pc = "idle" /\ proto = "http" /\ fds = 0 /\ blocking = FALSE /\ status = FALSE
  /\ rbuf = Zeros /\ file = <<>> /\ result = 0 /\ lost = 0
  /\ peer = "none" /\ reply = <<>> /\ sent = 0 /\ pipe = <<>>
  /\ got = <<>> /\ early = 0 /\ missed = FALSE /\ plain = TRUE

-----------------------------------------------------------------------------
(* What is written of a buffer: strstr, strlen and fwrite.                 *)

\* A buffer without a zero is read beyond its end, where anything may be.
Beyond == {<<>>, <<"junk">>, <<"crlf", "crlf", "junk">>}

CString(s) == IF Contains(s, "nul") THEN SubSeq(s, 1, SelectInSeq(s, LAMBDA c : c = "nul") - 1)
              ELSE s

EndsHead(s, i) == i + 1 \in DOMAIN s /\ s[i] = "crlf" /\ s[i + 1] = "crlf"
HasEnd(s)   == \E i \in DOMAIN s : EndsHead(s, i)
AfterEnd(s) == LET first == CHOOSE i \in DOMAIN s :
                              EndsHead(s, i) /\ \A k \in 1 .. i - 1 : ~EndsHead(s, k)
               IN SubSeq(s, first + 2, Len(s))

\* Mutant: the end of the head is written too.
WrittenWithEnd(buf, n, others) ==
  LET text == CString(buf \o others)
  IN IF HasEnd(text) THEN <<"crlf", "crlf">> \o AfterEnd(text) ELSE SubSeq(buf, 1, n)

\* n items were received into a buffer, which is followed by some others.
Written(buf, n, others) ==
  LET text == CString(buf \o others)
  IN IF HasEnd(text) THEN AfterEnd(text) ELSE SubSeq(buf, 1, n)

Overwritten(buf, s) == s \o SubSeq(buf, Len(s) + 1, BufLen)

Taken(most) == SubSeq(pipe, 1, IF Len(pipe) < most THEN Len(pipe) ELSE most)

\* What the parser of a buffer gets right: there is no zero, and room for the
\* one that ends the string; and a blank line in the buffer is the first of the
\* reply, and the only one.
Parsed(s) ==
  /\ Len(s) < BufLen /\ ~Contains(s, "nul")
  /\ HasEnd(s) => ~HasEnd(got) /\ ~HasEnd(AfterEnd(s)) /\ AfterEnd(got \o s) = AfterEnd(s)

-----------------------------------------------------------------------------
(* The request.                                                            *)

At(from, to) == pc = from /\ pc' = to

Return(value) == pc' = "idle" /\ result' = value
Close == fds' = fds - 1

Resolve ==
  /\ pc = "idle"
  /\ proto' \in {"http", "https"}
  /\ \/ Return(0)
     \/ pc' = "socket" /\ UNCHANGED result
  /\ peer' = "none" /\ pipe' = <<>> /\ sent' = 0
  /\ got' = <<>> /\ early' = 0 /\ missed' = FALSE /\ plain' = TRUE /\ status' = FALSE
  /\ UNCHANGED <<fds, blocking, rbuf, file, lost, reply>>

\* socket(), and a cleared buffer.
Socket ==
  /\ pc = "socket" /\ proto = "http"
  /\ \/ fds = MaxFds /\ Return(0) /\ UNCHANGED <<fds, blocking, rbuf>>
     \/ /\ fds < MaxFds /\ fds' = fds + 1 /\ blocking' = FALSE
        /\ rbuf' = Zeros
        /\ pc' = "connect" /\ UNCHANGED result
  /\ UNCHANGED <<proto, status, file, lost, net, past>>

\* Only the beginning of this buffer is cleared.
SocketHttps ==
  /\ pc = "socket" /\ proto = "https"
  /\ \/ fds = MaxFds /\ Return(0) /\ UNCHANGED <<fds, blocking, rbuf>>
     \/ /\ fds < MaxFds /\ fds' = fds + 1 /\ blocking' = TRUE
        /\ rbuf' \in {Zeros, [Zeros EXCEPT ![BufLen] = "junk"]}
        /\ pc' = "connect" /\ UNCHANGED result
  /\ UNCHANGED <<proto, status, file, lost, net, past>>

Connected == peer' = "open" /\ reply' \in Replies /\ UNCHANGED <<sent, pipe>>

\* The function makes the socket blocking again and ends without a return
\* value; what the caller gets may be -1.
AtOnce ==
  /\ Connected /\ blocking' = TRUE
  /\ \/ pc' = "send" /\ UNCHANGED <<fds, result>>
     \/ Return(0) /\ Close

\* Mutant: the socket stays open.
ConnectKeep ==
  /\ pc = "connect" /\ proto = "http"
  /\ \/ Return(0) /\ UNCHANGED <<fds, blocking, net>>
     \/ At("connect", "connecting") /\ UNCHANGED <<fds, blocking, result, net>>
     \/ AtOnce
  /\ UNCHANGED <<proto, status, rbuf, file, lost, past>>

\* connect() fails, goes on, or succeeds at once.
Connect ==
  /\ pc = "connect" /\ proto = "http"
  /\ \/ Return(0) /\ Close /\ UNCHANGED <<blocking, net>>
     \/ At("connect", "connecting") /\ UNCHANGED <<fds, blocking, result, net>>
     \/ AtOnce
  /\ UNCHANGED <<proto, status, rbuf, file, lost, past>>

\* select() waits one second for the connection.  That it fails, is
\* interrupted or times out, and that the connection failed, are all -1.
Connecting ==
  /\ pc = "connecting"
  /\ \/ Return(0) /\ Close /\ UNCHANGED net
     \/ pc' = "send" /\ Connected /\ UNCHANGED <<fds, result>>
  /\ UNCHANGED <<proto, blocking, status, rbuf, file, lost, past>>

\* socket_https_get_file goes on when it could not connect, and then looks into
\* a certificate it did not get.
ConnectHttps ==
  /\ pc = "connect" /\ proto = "https"
  /\ \/ pc' = "send" /\ Connected
     \/ pc' = "crashed" /\ UNCHANGED net
  /\ UNCHANGED <<proto, fds, blocking, status, rbuf, file, result, lost, past>>

Send ==
  /\ pc = "send" /\ proto = "http"
  /\ \/ Return(0) /\ Close
     \/ pc' = "open" /\ UNCHANGED <<fds, result>>
  /\ UNCHANGED <<proto, blocking, status, rbuf, file, lost, net, past>>

\* fopen() empties the file, or fails; the socket is then not closed.
OpenThen(next) ==
  \/ Return(0) /\ lost' = lost + 1 /\ UNCHANGED file
  \/ pc' = next /\ file' = <<>> /\ UNCHANGED <<result, lost>>

Open ==
  /\ pc = "open" /\ OpenThen("select")
  /\ UNCHANGED <<proto, fds, blocking, status, rbuf, net, past>>

\* What SSL_write() did is not looked at.
SendHttps ==
  /\ pc = "send" /\ proto = "https" /\ OpenThen("read")
  /\ UNCHANGED <<proto, fds, blocking, status, rbuf, net, past>>

\* select() waits three seconds for data, an end or an error.
Select ==
  /\ At("select", "recv")
  /\ status' = (pipe # <<>> \/ peer # "open")
  /\ rbuf' = Zeros
  /\ UNCHANGED <<proto, fds, blocking, file, result, lost, net, past>>

Received(s) ==
  /\ got' = got \o s /\ early' = (IF HasEnd(got) THEN early ELSE Len(got))
  /\ plain' = (plain /\ Parsed(s))
  /\ UNCHANGED missed

\* Data was received.  What arrived after select() timed out is not written.
RecvData ==
  LET s == Taken(BufLen)
  IN /\ pipe # <<>>
     /\ pipe' = SubSeq(pipe, Len(s) + 1, Len(pipe))
     /\ rbuf' = Overwritten(rbuf, s)
     /\ \E others \in IF Contains(rbuf', "nul") THEN {<<>>} ELSE Beyond :
          file' = IF status THEN file \o Written(rbuf', Len(s), others) ELSE file
     /\ IF status THEN Received(s) ELSE missed' = TRUE /\ UNCHANGED <<got, early, plain>>
     /\ pc' = "select" /\ UNCHANGED <<fds, result, peer>>

\* Mutant: the end of the data and an error do not leave the loop.
RecvGoOn ==
  /\ pipe = <<>>
  /\ \/ peer = "open" /\ ~blocking /\ UNCHANGED peer
     \/ peer = "closed" /\ UNCHANGED peer
     \/ peer = "reset" /\ peer' = "closed"
  /\ pc' = "select" /\ UNCHANGED <<fds, result>>
  /\ UNCHANGED <<rbuf, file, pipe, past>>

\* No data: recv() returns 0 at the end, and fails once after a reset and, on
\* a socket that does not block, when there is nothing.
RecvNothing ==
  /\ pipe = <<>>
  /\ \/ peer = "open" /\ ~blocking /\ UNCHANGED peer
     \/ peer = "closed" /\ UNCHANGED peer
     \/ peer = "reset" /\ peer' = "closed"
  /\ \/ ~status /\ pc' = "select" /\ UNCHANGED <<fds, result>>
     \/ status /\ Return(IF peer = "closed" THEN 1 ELSE 0) /\ Close
  /\ UNCHANGED <<rbuf, file, pipe, past>>

Recv ==
  /\ pc = "recv"
  /\ RecvData \/ RecvNothing
  /\ UNCHANGED <<proto, blocking, status, lost, reply, sent>>

\* SSL_read() leaves the last item of the buffer alone, and what an earlier
\* one wrote behind its own data.
ReadData ==
  LET s == Taken(BufLen - 1)
  IN /\ pc = "read" /\ pipe # <<>>
     /\ pipe' = SubSeq(pipe, Len(s) + 1, Len(pipe))
     /\ rbuf' = Overwritten(rbuf, s)
     /\ \E others \in IF Contains(rbuf', "nul") THEN {<<>>} ELSE Beyond :
          file' = file \o Written(rbuf', Len(s), others)
     /\ got' = got \o s /\ plain' = FALSE /\ UNCHANGED <<early, missed>>
     /\ UNCHANGED <<pc, proto, fds, blocking, status, result, lost, peer, reply, sent>>

\* An error is logged and the read tried again.  At the end of the data
\* select() waits until the socket can be written: a timeout leads back to the
\* read, and so does a set that was never filled in, when it holds the socket;
\* else the request fails.
ReadNothing ==
  /\ pc = "read" /\ pipe = <<>> /\ peer # "open"
  /\ \/ UNCHANGED <<pc, fds, result>>
     \/ peer = "closed" /\ Return(0) /\ Close
  /\ UNCHANGED <<proto, blocking, status, rbuf, file, lost, net, past>>

Request ==
  \/ Resolve
  \/ Socket \/ Connect \/ Connecting \/ Send \/ Open \/ Select \/ Recv
  \/ SocketHttps \/ ConnectHttps \/ SendHttps \/ ReadData \/ ReadNothing

-----------------------------------------------------------------------------
(* The other side.                                                         *)

\* Nothing answers before it was asked.
Talking == peer = "open" /\ pc \in {"open", "select", "recv", "read"}

Serve ==
  /\ Talking /\ sent < Len(reply)
  /\ sent' = sent + 1 /\ pipe' = Append(pipe, reply[sent + 1])
  /\ UNCHANGED <<client, peer, reply, past>>

Hangup ==
  /\ Talking
  /\ peer' \in {"closed", "reset"}
  /\ UNCHANGED <<client, reply, sent, pipe, past>>

Next == Request \/ Serve \/ Hangup

Fairness == WF_vars(Request)
Spec == Init /\ [][Next]_vars /\ Fairness

-----------------------------------------------------------------------------
(* What a request keeps.                                                   *)

\* Between two requests the only descriptors left open are those of the
\* requests whose file could not be opened: no other way out leaves one behind,
\* and none closes it twice.
Accounted ==
  /\ pc \in {"idle", "socket", "connect", "connecting", "send", "open", "select", "recv",
             "read", "crashed"}
  /\ proto \in {"http", "https"} /\ result \in {0, 1}
  /\ peer \in {"none", "open", "closed", "reset"}
  /\ fds \in 0 .. MaxFds /\ lost \in Nat
  /\ fds = lost + (IF pc \in {"idle", "socket"} THEN 0 ELSE 1)

\* What of the head may be in the file: nothing when it came in one piece; else
\* what came before its last piece, or all of it when the blank line was cut.
Kept == IF early = 0 THEN {0} ELSE {early, Len(got) - Len(AfterEnd(got))}

InFile ==
  IF HasEnd(got) THEN \E k \in Kept : file = SubSeq(got, 1, k) \o AfterEnd(got)
                 ELSE file = got

\* However an HTTP reply is cut into receives, and whenever select times out, the
\* file is what was received in time, without the head, or without its last
\* piece when the head came in pieces.  Nothing behind the head is lost, doubled
\* or moved.  A request that succeeds, and received nothing after a timeout,
\* received all that was sent.  Full buffers, zeros and further blank lines are
\* left out (plain).
FileIsBody ==
  LET done == pc = "idle" /\ result = 1
  IN /\ proto = "http" /\ (pc \in {"select", "recv"} \/ done) /\ plain => InFile
     /\ done /\ ~missed => got = SubSeq(reply, 1, sent)

\* A request by HTTP returns once the server closes or resets the connection.
\* HTTPS is left out: its loop ends only when the select after the end of the
\* data fails, and never after a reset.
HttpEnds == peer \in {"closed", "reset"} /\ proto = "http" ~> pc = "idle"
=============================================================================
