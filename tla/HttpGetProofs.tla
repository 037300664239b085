----------------------------- MODULE HttpGetProofs -----------------------------
(***************************************************************************)
(* Proofs about requests, for every reply, size of the buffer, limit of    *)
(* descriptors and behaviour of the other side: descriptors are accounted  *)
(* for, and the file holds what was received in time behind the head.      *)
(***************************************************************************)
EXTENDS HttpGet, FiniteSetTheorems, WellFoundedInduction, SequenceTheorems, TLAPS

-----------------------------------------------------------------------------
(* Descriptors.                                                            *)

\* The invariant holds before the first request.
LEMMA AccountedInit == Init => Accounted
  BY SizesAssumption DEF Init, Accounted

\* No step of the request loses a descriptor or closes one twice.
LEMMA AccountedRequest == Accounted /\ Request => Accounted'
<1> SUFFICES ASSUME Accounted, Request PROVE Accounted'
  OBVIOUS
<1> USE SizesAssumption DEF Accounted
<1>1. CASE Resolve
  BY <1>1 DEF Resolve, Return
<1>2. CASE Socket
  BY <1>2 DEF Socket, Return, net
<1>3. CASE Connect
  BY <1>3 DEF Connect, AtOnce, Connected, Return, Close, At, net
<1>4. CASE ConnectHttps
  BY <1>4 DEF ConnectHttps, Connected, net
<1>5. CASE Connecting
  BY <1>5 DEF Connecting, Connected, Return, Close, net
<1>6. CASE Send
  BY <1>6 DEF Send, Return, Close, net
<1>7. CASE Open
  BY <1>7 DEF Open, OpenThen, Return, net
<1>8. CASE Select
  BY <1>8 DEF Select, At, net
<1>9. CASE Recv
  <2>1. CASE RecvData
    BY <1>9, <2>1 DEF Recv, RecvData
  <2>2. CASE RecvNothing
    BY <1>9, <2>2 DEF Recv, RecvNothing, Return, Close
  <2> QED
    BY <1>9, <2>1, <2>2 DEF Recv
<1>10. CASE ReadData
  BY <1>10 DEF ReadData
<1>11. CASE ReadNothing
  BY <1>11 DEF ReadNothing, Return, Close, net
<1>12. CASE SocketHttps
  BY <1>12 DEF SocketHttps, Return, net
<1>13. CASE SendHttps
  BY <1>13 DEF SendHttps, OpenThen, Return, net
<1> QED
  BY <1>1, <1>2, <1>3, <1>4, <1>5, <1>6, <1>7, <1>8, <1>9, <1>10, <1>11, <1>12, <1>13 DEF Request

\* Nor does a step of the other side, or none at all.
LEMMA AccountedNext == Accounted /\ [Next]_vars => Accounted'
<1> SUFFICES ASSUME Accounted, [Next]_vars PROVE Accounted'
  OBVIOUS
<1>1. CASE Request
  BY <1>1, AccountedRequest
<1>2. CASE Serve
  BY <1>2 DEF Serve, Accounted, client
<1>3. CASE Hangup
  BY <1>3 DEF Hangup, Accounted, client
<1>4. CASE UNCHANGED vars
  BY <1>4 DEF vars, client, net, Accounted
<1> QED
  BY <1>1, <1>2, <1>3, <1>4 DEF Next

\* Whatever the servers do, a request leaves a descriptor open only when it
\* could not open its file (socket_http.c), for every limit of descriptors.
THEOREM DescriptorsAccounted == Spec => []Accounted
<1>1. Init => Accounted
  BY AccountedInit
<1>2. Accounted /\ [Next]_vars => Accounted'
  BY AccountedNext
<1> QED
  BY <1>1, <1>2, PTL DEF Spec

-----------------------------------------------------------------------------
(* The parser: strstr and fwrite on one buffer.                            *)

Item == {"head", "body", "crlf", "nul"}

\* strlen: a string without zero, followed by one, ends there.
LEMMA CStringRight ==
  ASSUME NEW T, NEW s \in Seq(T), NEW r \in Seq(T), r # <<>>, r[1] = "nul",
         ~Contains(s, "nul")
  PROVE  CString(s \o r) = s
<1> DEFINE b == s \o r
           I == {k \in 1 .. Len(b) : b[k] = "nul"}
<1>1. /\ b \in Seq(T) /\ Len(b) = Len(s) + Len(r)
      /\ \A k \in 1 .. Len(s) : b[k] = s[k]
      /\ \A k \in 1 .. Len(r) : b[Len(s) + k] = r[k]
      /\ Len(s) \in Nat /\ Len(r) \in Nat /\ Len(r) >= 1
  OBVIOUS
<1> HIDE DEF b
<1>2. Len(s) + 1 \in I /\ \A k \in I : Len(s) + 1 <= k
  <2>1. \A k \in 1 .. Len(s) : b[k] # "nul"
    BY <1>1 DEF Contains
  <2>2. b[Len(s) + 1] = "nul" /\ Len(s) + 1 \in 1 .. Len(b)
    BY <1>1
  <2> QED BY <1>1, <2>1, <2>2
<1>3. \A x \in I : (\A k \in I : x <= k) => x = Len(s) + 1
  BY <1>1, <1>2
<1> HIDE DEF I
<1>4. Min(I) = Len(s) + 1
  BY <1>2, <1>3 DEF Min
<1>5. SelectInSeq(b, LAMBDA c : c = "nul") = Len(s) + 1
  BY <1>2, <1>4 DEF SelectInSeq, I
<1>6. Contains(b, "nul")
  BY <1>2 DEF Contains, I
<1>7. SubSeq(b, 1, Len(s)) = s
  BY <1>1 DEF b
<1>8. CString(b) = SubSeq(b, 1, (Len(s) + 1) - 1)
  BY <1>5, <1>6 DEF CString
<1> QED BY <1>1, <1>7, <1>8 DEF b

\* strstr finds an end of the head with none in front of it: among the finite
\* sets 1 .. k up to an end k, one is smallest.
LEMMA FirstEnd ==
  ASSUME NEW T, NEW s \in Seq(T), HasEnd(s)
  PROVE  \E first \in 1 .. Len(s) :
           /\ first + 1 \in 1 .. Len(s)
           /\ EndsHead(s, first) /\ \A k \in 1 .. first - 1 : ~EndsHead(s, k)
           /\ AfterEnd(s) = SubSeq(s, first + 2, Len(s))
<1> DEFINE Ups == {1 .. k : k \in {n \in 1 .. Len(s) : EndsHead(s, n)}}
           F == FiniteSubsetsOf(Nat)
           R == StrictSubsetOrdering(Nat)
<1>1. IsWellFoundedOn(R, F)
  BY FS_StrictSubsetOrderingWellFounded
<1>2. Ups \subseteq F /\ Ups # {}
  <2>1. ASSUME NEW k \in 1 .. Len(s) PROVE 1 .. k \in F
    <3>1. IsFiniteSet(1 .. k) /\ 1 .. k \in SUBSET Nat
      BY FS_Interval
    <3> QED BY <3>1 DEF FiniteSubsetsOf
  <2>2. \E k \in 1 .. Len(s) : EndsHead(s, k)
    BY DEF HasEnd
  <2> HIDE DEF F
  <2> QED BY <2>1, <2>2
<1>3. PICK B \in Ups : \A C \in Ups : ~(<<C, B>> \in R)
  <2> HIDE DEF Ups, R, F
  <2> QED BY <1>1, <1>2, WFMin
<1>4. PICK x \in 1 .. Len(s) : EndsHead(s, x) /\ B = 1 .. x
  OBVIOUS
<1>5. ASSUME NEW k \in 1 .. x - 1 PROVE ~EndsHead(s, k)
  <2> SUFFICES ASSUME EndsHead(s, k) PROVE FALSE
    OBVIOUS
  <2>1. 1 .. k \in Ups
    OBVIOUS
  <2>2. 1 .. k \subseteq 1 .. x /\ 1 .. k # 1 .. x
    OBVIOUS
  <2>3. <<1 .. k, 1 .. x>> \in R
    BY <2>2 DEF StrictSubsetOrdering
  <2> QED BY <1>3, <1>4, <2>1, <2>3
<1> DEFINE First(k) == EndsHead(s, k) /\ \A m \in 1 .. k - 1 : ~EndsHead(s, m)
           first == CHOOSE k \in DOMAIN s : First(k)
<1>6. first \in DOMAIN s /\ First(first)
  <2>1. x \in DOMAIN s /\ First(x)
    BY <1>4, <1>5
  <2> HIDE DEF First
  <2> QED BY <2>1
<1>7. AfterEnd(s) = SubSeq(s, first + 2, Len(s))
  BY DEF AfterEnd
<1> HIDE DEF first
<1>8. first \in 1 .. Len(s) /\ first + 1 \in 1 .. Len(s)
  BY <1>6 DEF EndsHead
<1> QED BY <1>6, <1>7, <1>8

\* What is behind the characters f and f + 1 of a sequence.
LEMMA Behind ==
  ASSUME NEW T, NEW s \in Seq(T), NEW f \in Nat, f + 1 \in 1 .. Len(s)
  PROVE  LET a == SubSeq(s, f + 2, Len(s))
         IN /\ a \in Seq(T) /\ Len(a) = Len(s) - f - 1
            /\ \A k \in 1 .. Len(a) : a[k] = s[f + 1 + k]
<1> DEFINE a == SubSeq(s, f + 2, Len(s))
           m == Len(s)
<1>1. m \in Nat /\ f + 2 \in 1 .. m + 1 /\ m - (f + 2) + 1 = m - f - 1
  OBVIOUS
<1>2. \A k \in f + 2 .. m : s[k] \in T
  BY <1>1
<1>3. /\ a \in Seq(T)
      /\ Len(a) = IF f + 2 <= m THEN m - (f + 2) + 1 ELSE 0
      /\ \A k \in 1 .. m - (f + 2) + 1 : a[k] = s[f + 2 + k - 1]
  BY <1>1, <1>2, SubSeqProperties
<1> HIDE DEF a, m
<1>4. Len(a) = m - f - 1
  BY <1>1, <1>3
<1>5. ASSUME NEW k \in 1 .. Len(a) PROVE a[k] = s[f + 1 + k]
  <2>1. f + 2 + k - 1 = f + 1 + k /\ k \in 1 .. m - (f + 2) + 1
    BY <1>1, <1>4
  <2> QED BY <1>3, <2>1
<1> QED BY <1>3, <1>4, <1>5 DEF a, m

\* What follows a head that is complete does not move its end.
LEMMA AfterEndAppend ==
  ASSUME NEW T, NEW s \in Seq(T), NEW r \in Seq(T), HasEnd(s)
  PROVE  HasEnd(s \o r) /\ AfterEnd(s \o r) = AfterEnd(s) \o r
<1> DEFINE b == s \o r
<1>1. /\ b \in Seq(T) /\ Len(b) = Len(s) + Len(r)
      /\ \A k \in 1 .. Len(s) : b[k] = s[k]
      /\ \A k \in 1 .. Len(r) : b[Len(s) + k] = r[k]
      /\ Len(s) \in Nat /\ Len(r) \in Nat
      /\ DOMAIN b = 1 .. Len(b) /\ DOMAIN s = 1 .. Len(s)
  OBVIOUS
<1>2. PICK f \in 1 .. Len(s) :
        /\ f + 1 \in 1 .. Len(s)
        /\ EndsHead(s, f) /\ \A k \in 1 .. f - 1 : ~EndsHead(s, k)
        /\ AfterEnd(s) = SubSeq(s, f + 2, Len(s))
  BY FirstEnd
<1> HIDE DEF b
<1>3. EndsHead(b, f) /\ \A k \in 1 .. f - 1 : ~EndsHead(b, k)
  <2>1. ASSUME NEW k \in 1 .. f PROVE EndsHead(b, k) <=> EndsHead(s, k)
    <3>1. k \in 1 .. Len(s) /\ k + 1 \in 1 .. Len(s)
      BY <1>1, <1>2
    <3>2. b[k] = s[k] /\ b[k + 1] = s[k + 1] /\ k + 1 \in 1 .. Len(b)
      BY <1>1, <3>1
    <3> QED BY <1>1, <3>1, <3>2 DEF EndsHead
  <2>2. f \in 1 .. f /\ 1 .. f - 1 \subseteq 1 .. f
    BY <1>1, <1>2
  <2> QED BY <1>2, <2>1, <2>2
<1>4. HasEnd(b)
  <2>1. f \in DOMAIN b
    BY <1>1, <1>2
  <2> QED BY <1>3, <2>1 DEF HasEnd
<1>5. PICK g \in 1 .. Len(b) :
        /\ g + 1 \in 1 .. Len(b)
        /\ EndsHead(b, g) /\ \A k \in 1 .. g - 1 : ~EndsHead(b, k)
        /\ AfterEnd(b) = SubSeq(b, g + 2, Len(b))
  BY <1>1, <1>4, FirstEnd
<1>6. f = g
  BY <1>1, <1>2, <1>3, <1>5
<1>7. SubSeq(b, f + 2, Len(b)) = SubSeq(s, f + 2, Len(s)) \o r
  <2> DEFINE a == SubSeq(s, f + 2, Len(s))
             l == SubSeq(b, f + 2, Len(b))
  <2>1. /\ a \in Seq(T) /\ Len(a) = Len(s) - f - 1
        /\ \A k \in 1 .. Len(a) : a[k] = s[f + 1 + k]
    <3>1. f \in Nat /\ f + 1 \in 1 .. Len(s)
      BY <1>1, <1>2
    <3> QED BY <3>1, Behind
  <2>2. /\ l \in Seq(T) /\ Len(l) = Len(b) - f - 1
        /\ \A k \in 1 .. Len(l) : l[k] = b[f + 1 + k]
    <3>1. b \in Seq(T) /\ f \in Nat /\ f + 1 \in 1 .. Len(b)
      BY <1>1, <1>2
    <3> QED BY <3>1, Behind
  <2> HIDE DEF a, l
  <2>3. /\ a \o r \in Seq(T) /\ Len(a \o r) = Len(a) + Len(r)
        /\ \A k \in 1 .. Len(a) + Len(r) :
             (a \o r)[k] = IF k <= Len(a) THEN a[k] ELSE r[k - Len(a)]
    BY <2>1, ConcatProperties
  <2> DEFINE c == a \o r
  <2> HIDE DEF c
  <2>4. /\ c \in Seq(T) /\ Len(c) = Len(a) + Len(r)
        /\ \A k \in 1 .. Len(a) + Len(r) :
             c[k] = IF k <= Len(a) THEN a[k] ELSE r[k - Len(a)]
    BY <2>3 DEF c
  <2>5. Len(c) = Len(l) /\ Len(l) \in Nat
    BY <1>1, <1>2, <2>1, <2>2, <2>4
  <2>6. \A k \in 1 .. Len(l) : l[k] = c[k]
    <3> SUFFICES ASSUME NEW k \in 1 .. Len(l) PROVE l[k] = c[k]
      OBVIOUS
    <3>1. CASE k <= Len(a)
      BY <1>1, <1>2, <2>1, <2>2, <2>4, <2>5, <3>1
    <3>2. CASE k > Len(a)
      <4>1. l[k] = b[f + 1 + k] /\ c[k] = r[k - Len(a)]
        BY <1>1, <1>2, <2>1, <2>2, <2>4, <2>5, <3>2
      <4>2. f + 1 + k = Len(s) + (k - Len(a)) /\ k - Len(a) \in 1 .. Len(r)
        BY <1>1, <1>2, <2>1, <2>2, <2>4, <2>5, <3>2
      <4> QED BY <1>1, <4>1, <4>2
    <3> QED BY <1>1, <1>2, <2>1, <3>1, <3>2
  <2>7. l = c
    BY <2>2, <2>4, <2>5, <2>6, SeqEqual
  <2> QED BY <2>7 DEF a, l, c
<1> QED BY <1>2, <1>4, <1>5, <1>6, <1>7 DEF b

\* What is behind the end of a head are items of the reply.
LEMMA AfterEndItems ==
  ASSUME NEW T, NEW s \in Seq(T), HasEnd(s)
  PROVE  AfterEnd(s) \in Seq(T) /\ Len(AfterEnd(s)) \in 0 .. Len(s)
<1>1. PICK f \in 1 .. Len(s) : f + 1 \in 1 .. Len(s) /\ AfterEnd(s) = SubSeq(s, f + 2, Len(s))
  BY FirstEnd
<1>2. f \in Nat /\ Len(s) \in Nat
  OBVIOUS
<1>3. AfterEnd(s) \in Seq(T) /\ Len(AfterEnd(s)) = Len(s) - f - 1
  BY <1>1, <1>2, Behind
<1> QED BY <1>1, <1>2, <1>3

\* What is behind the end of a head is the last part of the reply.
LEMMA HeadAndBody ==
  ASSUME NEW T, NEW s \in Seq(T), HasEnd(s)
  PROVE  s = SubSeq(s, 1, Len(s) - Len(AfterEnd(s))) \o AfterEnd(s)
<1>1. PICK f \in 1 .. Len(s) : f + 1 \in 1 .. Len(s) /\ AfterEnd(s) = SubSeq(s, f + 2, Len(s))
  BY FirstEnd
<1>2. f \in Nat /\ Len(s) \in Nat
  OBVIOUS
<1> DEFINE a == AfterEnd(s)
           h == SubSeq(s, 1, f + 1)
           c == h \o a
<1>3. /\ a \in Seq(T) /\ Len(a) = Len(s) - f - 1
      /\ \A k \in 1 .. Len(a) : a[k] = s[f + 1 + k]
  BY <1>1, <1>2, Behind
<1>4. h \in Seq(T) /\ Len(h) = f + 1 /\ \A k \in 1 .. f + 1 : h[k] = s[k]
  BY <1>1, <1>2
<1> HIDE DEF a, h
<1>5. Len(s) - Len(a) = f + 1
  BY <1>2, <1>3
<1>6. /\ c \in Seq(T) /\ Len(c) = Len(h) + Len(a)
      /\ \A k \in 1 .. Len(h) + Len(a) : c[k] = IF k <= Len(h) THEN h[k] ELSE a[k - Len(h)]
  BY <1>3, <1>4, ConcatProperties
<1> HIDE DEF c
<1>7. Len(c) = Len(s)
  BY <1>1, <1>2, <1>3, <1>4, <1>6
<1>8. ASSUME NEW k \in 1 .. Len(s) PROVE c[k] = s[k]
  <2>1. CASE k <= f + 1
    <3>1. k \in 1 .. f + 1 /\ k \in 1 .. Len(h) + Len(a) /\ k <= Len(h)
      BY <1>2, <1>3, <1>4, <1>6, <1>7, <2>1
    <3>2. h[k] = s[k]
      BY <1>4, <3>1
    <3> QED
      BY <1>6, <3>1, <3>2
  <2>2. CASE k > f + 1
    <3>1. k - (f + 1) \in 1 .. Len(a) /\ f + 1 + (k - (f + 1)) = k
      BY <1>1, <1>2, <1>3, <2>2
    <3>2. c[k] = a[k - (f + 1)]
      BY <1>2, <1>4, <1>6, <1>7, <2>2
    <3> QED BY <1>3, <3>1, <3>2
  <2> QED BY <1>2, <2>1, <2>2
<1>9. s = c
  BY <1>6, <1>7, <1>8, SeqEqual
<1> QED BY <1>5, <1>9 DEF c, h, a

\* An end of the head in what is received is one of all that was received.
LEMMA EndBehind ==
  ASSUME NEW T, NEW s \in Seq(T), NEW r \in Seq(T), HasEnd(r)
  PROVE  HasEnd(s \o r)
<1> DEFINE b == s \o r
<1>1. /\ b \in Seq(T) /\ Len(b) = Len(s) + Len(r)
      /\ \A k \in 1 .. Len(r) : b[Len(s) + k] = r[k]
      /\ Len(s) \in Nat /\ Len(r) \in Nat
      /\ DOMAIN b = 1 .. Len(b) /\ DOMAIN r = 1 .. Len(r)
  OBVIOUS
<1>2. PICK i \in DOMAIN r : EndsHead(r, i)
  BY DEF HasEnd
<1>3. i \in 1 .. Len(r) /\ i + 1 \in 1 .. Len(r) /\ r[i] = "crlf" /\ r[i + 1] = "crlf"
  BY <1>1, <1>2 DEF EndsHead
<1> HIDE DEF b
<1>4. Len(s) + i \in 1 .. Len(b) /\ Len(s) + i + 1 \in 1 .. Len(b)
  BY <1>1, <1>3
<1>5. b[Len(s) + i] = "crlf" /\ b[Len(s) + i + 1] = "crlf"
  <2>1. Len(s) + i + 1 = Len(s) + (i + 1)
    BY <1>1, <1>3
  <2> QED BY <1>1, <1>3, <2>1
<1>6. EndsHead(b, Len(s) + i) /\ Len(s) + i \in DOMAIN b
  BY <1>1, <1>4, <1>5 DEF EndsHead
<1> QED BY <1>6 DEF HasEnd, b

-----------------------------------------------------------------------------
(* The file.                                                               *)

Done == pc = "idle" /\ result = 1

\* What was sent is what was received and what is on its way, in that order,
\* while nothing is received after a timeout.
Straight ==
  /\ sent = Len(got) + Len(pipe)
  /\ \A k \in 1 .. Len(got) : got[k] = reply[k]
  /\ \A k \in 1 .. Len(pipe) : pipe[k] = reply[Len(got) + k]

NetRight ==
  /\ got \in Seq(Item) /\ pipe \in Seq(Item) /\ reply \in Seq(Item)
  /\ sent \in 0 .. Len(reply) /\ early \in 0 .. Len(got)
  /\ ~missed => Straight

\* Nothing is sent before the connection and nothing received before the file
\* is open.
NothingYet ==
  /\ pc \in {"socket", "connect", "connecting"} => pipe = <<>> /\ sent = 0
  /\ pc \in {"socket", "connect", "connecting", "send", "open"} => got = <<>> /\ plain

\* The file while a reply is read without TLS; every receive finds its buffer
\* cleared.
FileRight ==
  /\ pc = "recv" => rbuf = Zeros
  /\ (pc \in {"select", "recv"} \/ Done) /\ plain => InFile
  /\ Done => pipe = <<>>

FileInv == NetRight /\ NothingYet /\ FileRight

\* A connection on which nothing was sent.
LEMMA NetFresh ==
  ASSUME pipe' = <<>>, got' = <<>>, sent' = 0, early' = 0, reply' \in Seq(Item)
  PROVE  NetRight'
<1>1. /\ pipe' \in Seq(Item) /\ got' \in Seq(Item) /\ Len(pipe') = 0 /\ Len(got') = 0
      /\ Len(reply') \in Nat
  OBVIOUS
<1> QED BY <1>1 DEF NetRight, Straight

\* A step that neither sends nor receives.
LEMMA NetKept ==
  ASSUME NetRight, UNCHANGED <<past, pipe, reply, sent>>
  PROVE  NetRight'
BY DEF NetRight, Straight, past

\* The other side sends one item more.
LEMMA NetServe ==
  ASSUME NetRight, Serve
  PROVE  NetRight'
<1>1. /\ UNCHANGED <<got, early, missed, reply>> /\ sent' = sent + 1 /\ sent < Len(reply)
      /\ pipe' = Append(pipe, reply[sent + 1])
  BY DEF Serve, past
<1>2. /\ got \in Seq(Item) /\ pipe \in Seq(Item) /\ reply \in Seq(Item)
      /\ sent \in Nat /\ Len(got) \in Nat /\ Len(pipe) \in Nat /\ Len(reply) \in Nat
  BY DEF NetRight
<1>3. reply[sent + 1] \in Item
  <2>1. sent + 1 \in 1 .. Len(reply)
    BY <1>1, <1>2
  <2> QED BY <1>2, <2>1
<1>4. /\ pipe' \in Seq(Item) /\ Len(pipe') = Len(pipe) + 1
      /\ \A k \in 1 .. Len(pipe') :
           pipe'[k] = IF k <= Len(pipe) THEN pipe[k] ELSE reply[sent + 1]
  BY <1>1, <1>2, <1>3
<1>5. ASSUME ~missed' PROVE Straight'
  <2>0. Straight
    BY <1>1, <1>5 DEF NetRight
  <2>1. ASSUME NEW k \in 1 .. Len(pipe') PROVE pipe'[k] = reply[Len(got) + k]
    <3>1. CASE k <= Len(pipe)
      <4>1. k \in 1 .. Len(pipe) /\ pipe'[k] = pipe[k]
        BY <1>2, <1>4, <3>1
      <4> QED BY <2>0, <4>1 DEF Straight
    <3>2. CASE k > Len(pipe)
      <4>1. k = Len(pipe) + 1 /\ Len(got) + k = sent + 1
        <5> DEFINE p == Len(pipe)
                   q == Len(pipe')
                   g == Len(got)
        <5>1. sent = g + p /\ p \in Nat /\ g \in Nat /\ q = p + 1
          BY <1>2, <1>4, <2>0 DEF Straight
        <5>2. k \in 1 .. q /\ k > p
          BY <3>2
        <5> HIDE DEF p, q, g
        <5>3. k = p + 1 /\ g + k = sent + 1
          BY <5>1, <5>2
        <5> QED BY <5>3 DEF p, g
      <4> QED BY <1>4, <3>2, <4>1
    <3> QED BY <1>2, <3>1, <3>2
  <2> QED BY <1>1, <1>2, <1>4, <2>0, <2>1 DEF Straight
<1>6. sent' \in 0 .. Len(reply') /\ early' \in 0 .. Len(got')
  BY <1>1, <1>2 DEF NetRight
<1> QED BY <1>1, <1>2, <1>4, <1>5, <1>6 DEF NetRight

\* What is left on its way after a receive.
LEMMA LeftRight ==
  ASSUME pipe \in Seq(Item), NEW n \in 0 .. Len(pipe),
         pipe' = SubSeq(pipe, Len(SubSeq(pipe, 1, n)) + 1, Len(pipe))
  PROVE  /\ pipe' \in Seq(Item) /\ Len(pipe') = Len(pipe) - n
         /\ \A k \in 1 .. Len(pipe) - n : pipe'[k] = pipe[n + k]
<1>1. Len(pipe) \in Nat /\ Len(SubSeq(pipe, 1, n)) = n
  OBVIOUS
<1>2. pipe' = SubSeq(pipe, n + 1, Len(pipe))
  BY <1>1
<1>3. \A k \in n + 1 .. Len(pipe) : pipe[k] \in Item
  BY <1>1
<1>4. /\ pipe' \in Seq(Item)
      /\ Len(pipe') = IF n + 1 <= Len(pipe) THEN Len(pipe) - (n + 1) + 1 ELSE 0
      /\ \A k \in 1 .. Len(pipe) - (n + 1) + 1 : pipe'[k] = pipe[n + 1 + k - 1]
  BY <1>1, <1>2, <1>3, SubSeqProperties
<1>5. Len(pipe') = Len(pipe) - n
  BY <1>1, <1>4
<1>6. ASSUME NEW k \in 1 .. Len(pipe) - n PROVE pipe'[k] = pipe[n + k]
  <2>1. k \in 1 .. Len(pipe) - (n + 1) + 1 /\ n + 1 + k - 1 = n + k
    BY <1>1
  <2> QED BY <1>4, <2>1
<1> QED BY <1>4, <1>5, <1>6

\* A receive that is ignored.
LEMMA NetMissed ==
  ASSUME NetRight, NEW n \in 0 .. Len(pipe), missed' = TRUE,
         pipe' = SubSeq(pipe, Len(SubSeq(pipe, 1, n)) + 1, Len(pipe)),
         UNCHANGED <<got, early, reply, sent>>
  PROVE  NetRight'
<1>1. pipe' \in Seq(Item)
  BY LeftRight DEF NetRight
<1> QED BY <1>1 DEF NetRight

\* A receive takes what was sent first.
LEMMA NetTaken ==
  ASSUME NetRight, NEW n \in 0 .. Len(pipe),
         got' = got \o SubSeq(pipe, 1, n),
         pipe' = SubSeq(pipe, Len(SubSeq(pipe, 1, n)) + 1, Len(pipe)),
         early' \in {early, Len(got)},
         UNCHANGED <<missed, reply, sent>>
  PROVE  NetRight'
<1> DEFINE s == SubSeq(pipe, 1, n)
<1>1. /\ got \in Seq(Item) /\ pipe \in Seq(Item) /\ reply \in Seq(Item)
      /\ Len(got) \in Nat /\ Len(pipe) \in Nat /\ Len(reply) \in Nat
      /\ early \in 0 .. Len(got) /\ sent \in 0 .. Len(reply)
  BY DEF NetRight
<1>2. s \in Seq(Item) /\ Len(s) = n /\ \A k \in 1 .. n : s[k] = pipe[k]
  BY <1>1
<1>3. /\ pipe' \in Seq(Item) /\ Len(pipe') = Len(pipe) - n
      /\ \A k \in 1 .. Len(pipe) - n : pipe'[k] = pipe[n + k]
  BY <1>1, LeftRight
<1> HIDE DEF s
<1>4. got' = got \o s
  BY DEF s
<1>5. /\ got' \in Seq(Item) /\ Len(got') = Len(got) + n
      /\ \A k \in 1 .. Len(got) + n :
           got'[k] = IF k <= Len(got) THEN got[k] ELSE s[k - Len(got)]
  <2> DEFINE all == got \o s
  <2>1. got \in Seq(Item) /\ s \in Seq(Item)
    BY <1>1, <1>2
  <2>2. /\ all \in Seq(Item) /\ Len(all) = Len(got) + Len(s)
        /\ \A k \in 1 .. Len(got) + Len(s) :
             all[k] = IF k <= Len(got) THEN got[k] ELSE s[k - Len(got)]
    BY <2>1, ConcatProperties
  <2> HIDE DEF all
  <2>3. Len(s) = n /\ got' = all
    BY <1>2, <1>4 DEF all
  <2> QED BY <2>2, <2>3
<1>6. ASSUME ~missed' PROVE Straight'
  <2> DEFINE left == Len(pipe')
             have == Len(got')
  <2> HIDE DEF left, have
  <2>0. /\ Straight /\ sent = Len(got) + Len(pipe)
        /\ left = Len(pipe) - n /\ have = Len(got) + n /\ reply' = reply /\ sent' = sent
    BY <1>3, <1>5, <1>6 DEF NetRight, Straight, left, have
  <2>1. ASSUME NEW k \in 1 .. Len(got') PROVE got'[k] = reply[k]
    <3>1. CASE k <= Len(got)
      BY <1>1, <1>5, <2>0, <3>1 DEF Straight
    <3>2. CASE k > Len(got)
      <4>1. /\ k - Len(got) \in 1 .. n /\ k - Len(got) \in 1 .. Len(pipe)
            /\ Len(got) + (k - Len(got)) = k
        BY <1>1, <1>5, <3>2
      <4>2. got'[k] = pipe[k - Len(got)]
        BY <1>2, <1>5, <3>2, <4>1
      <4> QED BY <1>1, <2>0, <4>1, <4>2 DEF Straight
    <3> QED BY <1>1, <3>1, <3>2
  <2>2. ASSUME NEW k \in 1 .. left PROVE pipe'[k] = reply[have + k]
    <3>1. n + k \in 1 .. Len(pipe) /\ have + k = Len(got) + (n + k)
      BY <1>1, <2>0
    <3>2. pipe'[k] = pipe[n + k]
      BY <1>1, <1>3, <2>0
    <3> QED BY <2>0, <3>1, <3>2 DEF Straight
  <2>3. sent' = have + left
    BY <1>1, <2>0
  <2> QED BY <2>0, <2>1, <2>2, <2>3 DEF Straight, left, have
<1>7. early' \in 0 .. Len(got') /\ sent' \in 0 .. Len(reply')
  BY <1>1, <1>5
<1> QED BY <1>1, <1>3, <1>5, <1>6, <1>7 DEF NetRight

\* What is taken is a first part of what is on its way.
LEMMA TakenRight ==
  ASSUME pipe \in Seq(Item), NEW most \in Nat
  PROVE  \E n \in 0 .. Len(pipe) :
           /\ Taken(most) = SubSeq(pipe, 1, n)
           /\ pipe # <<>> /\ most > 0 => n > 0
<1>1. Len(pipe) \in Nat
  OBVIOUS
<1>2. CASE Len(pipe) < most
  BY <1>1, <1>2 DEF Taken
<1>3. CASE ~(Len(pipe) < most)
  BY <1>1, <1>3 DEF Taken
<1> QED BY <1>2, <1>3

\* What is written of a cleared buffer into which s was received.
LEMMA WrittenRight ==
  ASSUME NEW s \in Seq(Item), Len(s) < BufLen, ~Contains(s, "nul")
  PROVE  /\ Contains(Overwritten(Zeros, s), "nul")
         /\ Written(Overwritten(Zeros, s), Len(s), <<>>) =
              IF HasEnd(s) THEN AfterEnd(s) ELSE s
<1> DEFINE r == SubSeq(Zeros, Len(s) + 1, BufLen)
           b == s \o r
<1>1. Len(s) \in Nat /\ BufLen \in Nat
  BY SizesAssumption
<1>2. r \in Seq(Item) /\ r # <<>> /\ r[1] = "nul"
  <2>1. \A k \in Len(s) + 1 .. BufLen : Zeros[k] = "nul"
    BY <1>1 DEF Zeros
  <2>2. \A k \in Len(s) + 1 .. BufLen : Zeros[k] \in Item
    BY <2>1 DEF Item
  <2>3. /\ r \in Seq(Item) /\ Len(r) = BufLen - (Len(s) + 1) + 1
        /\ \A k \in 1 .. BufLen - (Len(s) + 1) + 1 : r[k] = Zeros[Len(s) + 1 + k - 1]
    BY <1>1, <2>2, SubSeqProperties
  <2> HIDE DEF r
  <2>4. 1 \in 1 .. BufLen - (Len(s) + 1) + 1 /\ Len(s) + 1 + 1 - 1 \in Len(s) + 1 .. BufLen
    BY <1>1
  <2>5. r[1] = "nul"
    BY <2>1, <2>3, <2>4
  <2>6. Len(r) > 0
    BY <1>1, <2>3
  <2> QED BY <2>3, <2>5, <2>6
<1>3. Overwritten(Zeros, s) = b
  BY DEF Overwritten
<1> HIDE DEF r
<1>4. /\ b \in Seq(Item) /\ b \o <<>> = b /\ SubSeq(b, 1, Len(s)) = s
      /\ b[Len(s) + 1] = "nul" /\ Len(s) + 1 \in 1 .. Len(b)
  BY <1>1, <1>2
<1>5. CString(b) = s
  BY <1>2, CStringRight
<1> HIDE DEF b
<1>6. Contains(b, "nul")
  BY <1>4 DEF Contains
<1> QED BY <1>3, <1>4, <1>5, <1>6 DEF Written

\* A first part of what was received stays that when more is received.
LEMMA FrontKept ==
  ASSUME NEW T, NEW s \in Seq(T), NEW r \in Seq(T), NEW k \in 0 .. Len(s)
  PROVE  SubSeq(s \o r, 1, k) = SubSeq(s, 1, k) /\ SubSeq(s, 1, k) \in Seq(T)
<1>1. /\ s \o r \in Seq(T) /\ Len(s \o r) = Len(s) + Len(r)
      /\ \A i \in 1 .. Len(s) : (s \o r)[i] = s[i]
      /\ Len(s) \in Nat /\ Len(r) \in Nat
  OBVIOUS
<1> DEFINE b == s \o r
<1> HIDE DEF b
<1>2. b \in Seq(T) /\ k <= Len(b) /\ Len(b) \in Nat /\ \A i \in 1 .. Len(s) : b[i] = s[i]
  BY <1>1 DEF b
<1>3. /\ SubSeq(b, 1, k) \in Seq(T) /\ Len(SubSeq(b, 1, k)) = k
      /\ \A i \in 1 .. k : SubSeq(b, 1, k)[i] = b[i]
  BY <1>2
<1>4. /\ SubSeq(s, 1, k) \in Seq(T) /\ Len(SubSeq(s, 1, k)) = k
      /\ \A i \in 1 .. k : SubSeq(s, 1, k)[i] = s[i]
  BY <1>1
<1>5. SubSeq(b, 1, k) = SubSeq(s, 1, k)
  <2>1. \A i \in 1 .. k : b[i] = s[i]
    BY <1>1, <1>2
  <2> QED BY <1>3, <1>4, <2>1, SeqEqual
<1> QED BY <1>4, <1>5 DEF b

\* A receive in time writes what follows the head.
LEMMA WrittenInFile ==
  ASSUME InFile, NetRight, NEW s \in Seq(Item), Len(s) > 0, Parsed(s), got' = got \o s,
         early' = (IF HasEnd(got) THEN early ELSE Len(got)),
         file' = file \o (IF HasEnd(s) THEN AfterEnd(s) ELSE s)
  PROVE  InFile'
<1>1. /\ got \in Seq(Item) /\ Len(got) \in Nat /\ early \in 0 .. Len(got)
      /\ Len(got \o s) = Len(got) + Len(s) /\ got \o s \in Seq(Item) /\ Len(s) \in Nat
  BY DEF NetRight
<1>2. CASE HasEnd(got)
  <2>1. PICK k \in Kept : file = SubSeq(got, 1, k) \o AfterEnd(got)
    BY <1>2 DEF InFile
  <2>2. ~HasEnd(s) /\ file' = file \o s /\ early' = early
    BY <1>2 DEF Parsed
  <2>3. HasEnd(got') /\ AfterEnd(got') = AfterEnd(got) \o s
    BY <1>1, <1>2, AfterEndAppend
  <2>4. AfterEnd(got) \in Seq(Item) /\ Len(AfterEnd(got)) \in 0 .. Len(got)
    BY <1>1, <1>2, AfterEndItems
  <2>5. k \in 0 .. Len(got) /\ k \in Kept'
    <3>1. Len(AfterEnd(got) \o s) = Len(AfterEnd(got)) + Len(s)
      BY <2>4
    <3>2. Len(got') = Len(got) + Len(s) /\ Len(AfterEnd(got')) = Len(AfterEnd(got)) + Len(s)
      BY <1>1, <2>3, <3>1
    <3> DEFINE a == Len(AfterEnd(got))
               b == Len(AfterEnd(got'))
               g == Len(got)
    <3>3. g \in Nat /\ a \in 0 .. g /\ Len(s) \in Nat /\ b = a + Len(s) /\ early \in 0 .. g
      BY <1>1, <2>4, <3>2
    <3>4. /\ k \in (IF early = 0 THEN {0} ELSE {early, g - a})
          /\ Kept' = (IF early = 0 THEN {0} ELSE {early, (g + Len(s)) - b})
      BY <2>2, <3>2 DEF Kept
    <3> HIDE DEF a, b, g
    <3>5. k \in 0 .. g /\ (g + Len(s)) - b = g - a
      BY <3>3, <3>4
    <3>6. k \in Kept'
      BY <3>4, <3>5, Zenon
    <3> QED BY <3>5, <3>6 DEF g
  <2>6. SubSeq(got', 1, k) = SubSeq(got, 1, k) /\ SubSeq(got, 1, k) \in Seq(Item)
    BY <1>1, <2>5, FrontKept
  <2>7. (SubSeq(got, 1, k) \o AfterEnd(got)) \o s = SubSeq(got, 1, k) \o (AfterEnd(got) \o s)
    <3> DEFINE f == SubSeq(got, 1, k)
               a == AfterEnd(got)
    <3>1. f \in Seq(Item) /\ a \in Seq(Item)
      BY <2>4, <2>6
    <3> HIDE DEF f, a
    <3>2. (f \o a) \o s = f \o (a \o s)
      BY <3>1, ConcatAssociative
    <3> QED BY <3>2 DEF f, a
  <2>8. file' = SubSeq(got', 1, k) \o AfterEnd(got')
    BY <2>1, <2>2, <2>3, <2>6, <2>7
  <2> QED BY <2>3, <2>5, <2>8 DEF InFile
<1>3. CASE ~HasEnd(got)
  <2>1. file = got /\ early' = Len(got)
    BY <1>3 DEF InFile
  <2>2. CASE HasEnd(s)
    <3>1. HasEnd(got') /\ AfterEnd(got') = AfterEnd(s) /\ file' = got \o AfterEnd(s)
      BY <1>1, <2>1, <2>2, EndBehind DEF Parsed
    <3>2. SubSeq(got', 1, Len(got)) = got
      <4>1. SubSeq(got', 1, Len(got)) = SubSeq(got, 1, Len(got))
        BY <1>1, FrontKept
      <4> QED BY <1>1, <4>1
    <3>3. Len(got) \in Kept'
      BY <2>1 DEF Kept
    <3> QED BY <3>1, <3>2, <3>3 DEF InFile
  <2>3. CASE ~HasEnd(s) /\ HasEnd(got')
    <3>1. file' = got'
      BY <2>1, <2>3
    <3>2. got' = SubSeq(got', 1, Len(got') - Len(AfterEnd(got'))) \o AfterEnd(got')
      <4>1. got' \in Seq(Item) /\ HasEnd(got')
        BY <1>1, <2>3
      <4> QED BY <4>1, HeadAndBody
    <3>3. early' # 0
      <4>1. ASSUME Len(got) = 0 PROVE FALSE
        <5>1. got = <<>>
          BY <1>1, <4>1
        <5>2. got' = s
          BY <5>1
        <5> QED BY <2>3, <5>2
      <4> QED BY <2>1, <4>1
    <3>4. Len(got') - Len(AfterEnd(got')) \in Kept'
      BY <3>3 DEF Kept
    <3> QED BY <2>3, <3>1, <3>2, <3>4 DEF InFile
  <2>4. CASE ~HasEnd(s) /\ ~HasEnd(got')
    BY <2>1, <2>4 DEF InFile
  <2> QED BY <2>2, <2>3, <2>4
<1> QED BY <1>2, <1>3

\* A receive, in time or not.
LEMMA ReceivedRight ==
  ASSUME FileInv, pc = "recv", RecvData, UNCHANGED <<reply, sent>>
  PROVE  FileInv'
<1>1. BufLen \in Nat /\ BufLen > 0
  BY SizesAssumption
<1>2. NetRight /\ pipe \in Seq(Item) /\ pipe # <<>>
  BY DEF FileInv, NetRight, RecvData
<1>3. PICK n \in 0 .. Len(pipe) : Taken(BufLen) = SubSeq(pipe, 1, n) /\ n > 0
  BY <1>1, <1>2, TakenRight
<1> DEFINE s == SubSeq(pipe, 1, n)
<1>4. s \in Seq(Item) /\ Len(s) > 0
  BY <1>2, <1>3
<1>5. /\ pipe' = SubSeq(pipe, Len(s) + 1, Len(pipe))
      /\ rbuf' = Overwritten(rbuf, s)
      /\ IF status THEN Received(s) ELSE missed' = TRUE /\ UNCHANGED <<got, early, plain>>
      /\ pc' = "select"
      /\ \E others \in IF Contains(rbuf', "nul") THEN {<<>>} ELSE Beyond :
           file' = IF status THEN file \o Written(rbuf', Len(s), others) ELSE file
  BY <1>3 DEF RecvData
<1>6. NetRight'
  <2>1. CASE status
    BY <1>2, <1>5, <2>1, NetTaken DEF Received
  <2>2. CASE ~status
    BY <1>2, <1>5, <2>2, NetMissed
  <2> QED BY <2>1, <2>2
<1> HIDE DEF s
<1>7. ASSUME plain' PROVE InFile'
  <2>1. CASE status
    <3>1. plain /\ Parsed(s) /\ rbuf = Zeros /\ InFile /\ Received(s)
      BY <1>5, <1>7, <2>1 DEF FileInv, FileRight, Received
    <3>2. Len(s) < BufLen /\ ~Contains(s, "nul")
      BY <3>1 DEF Parsed
    <3>3. file' = file \o (IF HasEnd(s) THEN AfterEnd(s) ELSE s)
      BY <1>4, <1>5, <2>1, <3>1, <3>2, WrittenRight
    <3> QED BY <1>2, <1>4, <3>1, <3>3, WrittenInFile DEF Received
  <2>2. CASE ~status
    <3>1. InFile /\ UNCHANGED <<got, early, file>>
      BY <1>5, <1>7, <2>2 DEF FileInv, FileRight
    <3> QED BY <3>1 DEF InFile, Kept
  <2> QED BY <2>1, <2>2
<1>8. FileRight' /\ NothingYet'
  BY <1>5, <1>7 DEF FileRight, NothingYet, Done
<1> QED BY <1>6, <1>8 DEF FileInv

\* Every step of the request keeps the file right.
LEMMA FileRequest ==
  ASSUME FileInv, Request
  PROVE  FileInv'
<1>0. NetRight /\ NothingYet /\ FileRight
  BY DEF FileInv
<1>1. CASE Resolve
  <2>1. NetRight'
    BY <1>0, <1>1, NetFresh DEF Resolve, NetRight
  <2>2. NothingYet' /\ FileRight'
    BY <1>1 DEF Resolve, Return, NothingYet, FileRight, Done, InFile, Kept
  <2> QED BY <2>1, <2>2 DEF FileInv
<1>2. CASE Socket
  <2>1. NetRight'
    BY <1>0, <1>2, NetKept DEF Socket, Return, net, past
  <2>2. NothingYet' /\ FileRight'
    BY <1>0, <1>2 DEF Socket, Return, net, past, NothingYet, FileRight, Done, InFile, Kept
  <2> QED BY <2>1, <2>2 DEF FileInv
<1>3. CASE SocketHttps
  <2>1. NetRight'
    BY <1>0, <1>3, NetKept DEF SocketHttps, Return, net, past
  <2>2. NothingYet' /\ FileRight'
    BY <1>0, <1>3 DEF SocketHttps, Return, net, past, NothingYet, FileRight, Done, InFile, Kept
  <2> QED BY <2>1, <2>2 DEF FileInv
<1>4. CASE Connect
  <2>1. NetRight'
    <3>1. CASE UNCHANGED net
      BY <1>0, <1>4, <3>1, NetKept DEF Connect, AtOnce, net, past
    <3>2. CASE Connected
      <4>1. pipe = <<>> /\ got = <<>> /\ sent = 0 /\ early = 0
        BY <1>0, <1>4 DEF Connect, At, AtOnce, Connected, Return, net, past, NothingYet, NetRight
      <4>2. pipe' = <<>> /\ got' = <<>> /\ sent' = 0 /\ early' = 0 /\ reply' \in Seq(Item)
        BY <1>4, <3>2, <4>1, RepliesAssumption DEF Connect, At, AtOnce, Connected, Return, net, past, Connected, Item
      <4> QED BY <4>2, NetFresh
    <3> QED BY <1>4, <3>1, <3>2 DEF Connect, At, AtOnce, Connected, Return, net, past
  <2>2. NothingYet' /\ FileRight'
    BY <1>0, <1>4 DEF Connect, At, AtOnce, Connected, Return, net, past, NothingYet, FileRight, Done, InFile, Kept
  <2> QED BY <2>1, <2>2 DEF FileInv
<1>5. CASE Connecting
  <2>1. NetRight'
    <3>1. CASE UNCHANGED net
      BY <1>0, <1>5, <3>1, NetKept DEF Connecting, Connected, Return, net, past
    <3>2. CASE Connected
      <4>1. pipe = <<>> /\ got = <<>> /\ sent = 0 /\ early = 0
        BY <1>0, <1>5 DEF Connecting, Connected, Return, net, past, NothingYet, NetRight
      <4>2. pipe' = <<>> /\ got' = <<>> /\ sent' = 0 /\ early' = 0 /\ reply' \in Seq(Item)
        BY <1>5, <3>2, <4>1, RepliesAssumption DEF Connecting, Connected, Return, Connected, past, Item
      <4> QED BY <4>2, NetFresh
    <3> QED BY <1>5, <3>1, <3>2 DEF Connecting, Connected, Return, net, past
  <2>2. NothingYet' /\ FileRight'
    BY <1>0, <1>5 DEF Connecting, Connected, Return, net, past, NothingYet, FileRight, Done, InFile, Kept
  <2> QED BY <2>1, <2>2 DEF FileInv
<1>6. CASE ConnectHttps
  <2>1. NetRight'
    <3>1. CASE UNCHANGED net
      BY <1>0, <1>6, <3>1, NetKept DEF ConnectHttps, Connected, Return, net, past
    <3>2. CASE Connected
      <4>1. pipe = <<>> /\ got = <<>> /\ sent = 0 /\ early = 0
        BY <1>0, <1>6 DEF ConnectHttps, Connected, Return, net, past, NothingYet, NetRight
      <4>2. pipe' = <<>> /\ got' = <<>> /\ sent' = 0 /\ early' = 0 /\ reply' \in Seq(Item)
        BY <1>6, <3>2, <4>1, RepliesAssumption DEF ConnectHttps, Connected, Return, Connected, past, Item
      <4> QED BY <4>2, NetFresh
    <3> QED BY <1>6, <3>1, <3>2 DEF ConnectHttps, Connected, Return, net, past
  <2>2. NothingYet' /\ FileRight'
    BY <1>0, <1>6 DEF ConnectHttps, Connected, Return, net, past, NothingYet, FileRight, Done, InFile, Kept
  <2> QED BY <2>1, <2>2 DEF FileInv
<1>7. CASE Send
  <2>1. NetRight'
    BY <1>0, <1>7, NetKept DEF Send, Return, net, past
  <2>2. NothingYet' /\ FileRight'
    BY <1>0, <1>7 DEF Send, Return, net, past, NothingYet, FileRight, Done, InFile, Kept
  <2> QED BY <2>1, <2>2 DEF FileInv
<1>8. CASE SendHttps
  <2>1. NetRight'
    BY <1>0, <1>8, NetKept DEF SendHttps, OpenThen, Return, net, past
  <2>2. NothingYet' /\ FileRight'
    BY <1>0, <1>8 DEF SendHttps, OpenThen, Return, net, past, NothingYet, FileRight, Done, InFile, Kept
  <2> QED BY <2>1, <2>2 DEF FileInv
<1>9. CASE Open
  <2>1. NetRight'
    BY <1>0, <1>9, NetKept DEF Open, OpenThen, Return, net, past
  <2>2. NothingYet' /\ FileRight'
    <3>1. CASE file' = <<>>
      <4>1. got' = <<>> /\ ~HasEnd(<<>>)
        BY <1>0, <1>9 DEF Open, past, NothingYet, HasEnd
      <4>2. InFile'
        BY <3>1, <4>1 DEF InFile
      <4> QED BY <1>0, <1>9, <4>2 DEF Open, OpenThen, Return, net, past, NothingYet, FileRight, Done
    <3>2. CASE file' # <<>>
      BY <1>0, <1>9, <3>2 DEF Open, OpenThen, Return, net, past, NothingYet, FileRight, Done
    <3> QED BY <3>1, <3>2
  <2> QED BY <2>1, <2>2 DEF FileInv
<1>10. CASE Select
  <2>1. NetRight'
    BY <1>0, <1>10, NetKept DEF Select, At, net, past
  <2>2. NothingYet' /\ FileRight'
    BY <1>0, <1>10 DEF Select, At, net, past, NothingYet, FileRight, Done, InFile, Kept
  <2> QED BY <2>1, <2>2 DEF FileInv
<1>11. CASE Recv
  <2>1. pc = "recv" /\ UNCHANGED <<proto, status, reply, sent>>
    BY <1>11 DEF Recv
  <2>2. CASE RecvData
    BY <2>1, <2>2, ReceivedRight
  <2>3. CASE RecvNothing
    <3>1. NetRight'
      BY <1>0, <2>1, <2>3, NetKept DEF RecvNothing, past
    <3>2. NothingYet' /\ FileRight'
      BY <1>0, <2>1, <2>3 DEF RecvNothing, Return, past, NothingYet, FileRight, Done, InFile, Kept
    <3> QED BY <3>1, <3>2 DEF FileInv
  <2> QED BY <1>11, <2>2, <2>3 DEF Recv
<1>12. CASE ReadData
  <2>1. BufLen - 1 \in Nat /\ pipe \in Seq(Item)
    BY <1>0, SizesAssumption DEF NetRight
  <2>2. PICK n \in 0 .. Len(pipe) : Taken(BufLen - 1) = SubSeq(pipe, 1, n)
    BY <2>1, TakenRight
  <2>3. NetRight'
    BY <1>0, <1>12, <2>2, NetTaken DEF ReadData
  <2>4. NothingYet' /\ FileRight'
    BY <1>12 DEF ReadData, NothingYet, FileRight, Done, InFile, Kept
  <2> QED BY <2>3, <2>4 DEF FileInv
<1>13. CASE ReadNothing
  <2>1. NetRight'
    BY <1>0, <1>13, NetKept DEF ReadNothing, Return, net, past
  <2>2. NothingYet' /\ FileRight'
    BY <1>0, <1>13 DEF ReadNothing, Return, net, past, NothingYet, FileRight, Done, InFile, Kept
  <2> QED BY <2>1, <2>2 DEF FileInv
<1> QED
  BY <1>1, <1>2, <1>3, <1>4, <1>5, <1>6, <1>7, <1>8, <1>9, <1>10, <1>11, <1>12, <1>13
  DEF Request

\* Nothing is in the file before the first request, and the other side does not
\* write it.
LEMMA FileNext == (Init => FileInv) /\ (FileInv /\ [Next]_vars => FileInv')
<1>1. Init => FileInv
  <2> SUFFICES ASSUME Init PROVE FileInv
    OBVIOUS
  <2>1. /\ got \in Seq(Item) /\ pipe \in Seq(Item) /\ reply \in Seq(Item)
        /\ Len(got) = 0 /\ Len(pipe) = 0 /\ Len(reply) = 0 /\ sent = 0 /\ early = 0
    BY DEF Init
  <2>2. NetRight
    BY <2>1 DEF NetRight, Straight
  <2> QED BY <2>2 DEF Init, FileInv, NothingYet, FileRight, Done, InFile, Kept
<1>2. ASSUME FileInv, [Next]_vars PROVE FileInv'
  <2>1. CASE Request
    BY <1>2, <2>1, FileRequest
  <2>2. CASE Serve
    <3>1. NetRight'
      BY <1>2, <2>2, NetServe DEF FileInv
    <3>2. NothingYet' /\ FileRight'
      BY <1>2, <2>2 DEF FileInv, Serve, Talking, client, past, NothingYet, FileRight, Done, InFile, Kept
    <3> QED BY <3>1, <3>2 DEF FileInv
  <2>3. CASE Hangup \/ UNCHANGED vars
    <3>1. UNCHANGED <<client, reply, sent, pipe, past>>
      BY <2>3 DEF Hangup, vars, net
    <3>2. NetRight'
      BY <1>2, <3>1, NetKept DEF FileInv, past
    <3>3. NothingYet' /\ FileRight'
      BY <1>2, <3>1 DEF FileInv, client, past, NothingYet, FileRight, Done, InFile, Kept
    <3> QED BY <3>2, <3>3 DEF FileInv
  <2> QED BY <1>2, <2>1, <2>2, <2>3 DEF Next
<1> QED BY <1>1, <1>2

\* However an HTTP reply is cut into receives (the head too), and whenever
\* select times out, the file socket_http_get_file writes is what was received
\* in time, without the head or its last piece; and a request that succeeds, and
\* received nothing after a timeout, received all the server sent: for every
\* size of the buffer, and every reply without zeros and further blank lines, as
\* long as no receive fills the buffer (plain).
THEOREM BodyIsKept == Spec => []FileIsBody
<1>1. FileInv => FileIsBody
  <2> SUFFICES ASSUME FileInv PROVE FileIsBody
    OBVIOUS
  <2>1. ASSUME Done, ~missed PROVE got = SubSeq(reply, 1, sent)
    <3>1. /\ got \in Seq(Item) /\ reply \in Seq(Item) /\ pipe = <<>> /\ Straight
          /\ Len(got) \in Nat /\ Len(reply) \in Nat /\ sent \in 0 .. Len(reply)
          /\ \A k \in 1 .. Len(got) : got[k] = reply[k]
      BY <2>1 DEF FileInv, NetRight, FileRight, Straight
    <3>2. sent = Len(got) /\ sent <= Len(reply)
      <4>1. Len(pipe) = 0
        BY <3>1
      <4> QED BY <3>1, <4>1 DEF Straight
    <3> DEFINE all == SubSeq(reply, 1, sent)
    <3>3. /\ all \in Seq(Item) /\ Len(all) = Len(got)
          /\ \A k \in 1 .. Len(got) : all[k] = reply[k]
      BY <3>1, <3>2
    <3> HIDE DEF all
    <3>4. got = all
      BY <3>1, <3>3, SeqEqual
    <3> QED BY <3>4 DEF all
  <2>2. (pc \in {"select", "recv"} \/ Done) /\ plain => InFile
    BY DEF FileInv, FileRight
  <2> QED BY <2>1, <2>2 DEF FileIsBody, Done
<1>2. Init => FileInv
  BY FileNext
<1>3. FileInv /\ [Next]_vars => FileInv'
  BY FileNext
<1> QED BY <1>1, <1>2, <1>3, PTL DEF Spec
=============================================================================
