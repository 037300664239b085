---------------------------- MODULE ServerChoice ----------------------------
(***************************************************************************)
(* speedtest_test_lowest_latency: how the speed test finds its server.  It *)
(* downloads a configuration file, whose first line for the client gives a *)
(* position, and the list of servers, keeps the nearest ones in an array   *)
(* of NearestNum slots, fetches latency.txt from each of them and takes    *)
(* the slot with the lowest latency.  The three files are written to /tmp  *)
(* and read back from there, so what an earlier fetch left there counts.   *)
(*                                                                         *)
(* A file holds one of a few kinds of content.  Distances are given for    *)
(* the client's position and for (0, 0), the position of a configuration   *)
(* without client line.                                                    *)
(***************************************************************************)
EXTENDS Integers, Sequences, FiniteSets

CONSTANTS
  Server,     (* the servers of the list                                   *)
  List,       (* the list of servers, in the file's order                  *)
  Dist,       (* calc_distance from "client" and from "zero"               *)
  NearestNum, (* NEAREST_SERVERS_NUM                                       *)
  Times       (* the latencies that can be measured                        *)

Slots   == 1 .. NearestNum
Content == {"good", "other", "empty"}
Failed  == -1
NoFile  == -1

ASSUME ListAssumption == List \in Seq(Server)
ASSUME DistAssumption == Dist \in [{"client", "zero"} -> [Server -> Nat]]
ASSUME NumAssumption  == NearestNum \in Nat \ {0}
ASSUME TimeAssumption == Times \subseteq Nat

VARIABLES
  phase,     (* where the search is                                        *)
  config,    (* the configuration file in /tmp                             *)
  listing,   (* how many servers the list file in /tmp holds, or NoFile    *)
  pos,       (* the position read from the configuration                   *)
  row,       (* the lines of the list read so far                          *)
  nearest,   (* nearest_servers: the slots in use, in order                *)
  latfile,   (* latency.txt in /tmp                                        *)
  line,      (* the buffer latency.txt is read into                        *)
  probed,    (* the slots tried so far                                     *)
  latency,   (* nearest_servers[i].latency                                 *)
  best       (* best_server_index, or 0                                    *)

files == <<config, listing, latfile>>
choiceVars == <<phase, files, pos, row, nearest, line, probed, latency, best>>

ChoiceInit ==
  /\ phase = "idle"
  /\ config \in {"absent", "good"}
  /\ listing \in {NoFile, Len(List)}
  /\ latfile = "absent"
  /\ pos = "zero" /\ row = 0 /\ nearest = <<>>
  /\ line = "empty" /\ probed = 0
  /\ latency = [k \in Slots |-> Failed]
  /\ best = 0

\* What socket_http_get_file can do to a file that holds old: it is not called
\* when the name cannot be resolved, it fails before it opens the file, or it
\* empties the file and writes what it receives, until the end or an error.
Get(old, contents) ==
  {<<1, old>>, <<0, old>>} \cup ({0, 1} \X contents)

-----------------------------------------------------------------------------
Start ==
  /\ phase = "idle"
  /\ phase' = "config"
  /\ pos' = "zero" /\ row' = 0 /\ nearest' = <<>>
  /\ line' = "empty" /\ probed' = 0
  /\ latency' = [k \in Slots |-> Failed]
  /\ best' = 0
  /\ UNCHANGED files

FetchConfig ==
  /\ phase = "config"
  /\ \E r \in Get(config, Content) :
       /\ config' = r[2]
       /\ phase' = IF r[1] = 0 THEN "failed" ELSE "list"
  /\ UNCHANGED <<listing, latfile, pos, row, nearest, line, probed, latency, best>>

\* The list, and the position from the configuration; a list cut short is a
\* prefix of it.
FetchList ==
  /\ phase = "list"
  /\ \E r \in Get(listing, 0 .. Len(List)) :
       /\ listing' = r[2]
       /\ phase' = IF r[1] = 0 THEN "failed" ELSE "nearest"
  /\ pos' = IF config = "good" THEN "client" ELSE "zero"
  /\ UNCHANGED <<config, latfile, row, nearest, line, probed, latency, best>>

\* Mutant: the first slot that is nearer.
PlaceFarther(s) ==
  CHOOSE i \in 1 .. Len(nearest) + 1 :
    /\ i <= Len(nearest) => Dist[pos][s] >= Dist[pos][nearest[i]]
    /\ \A m \in 1 .. i - 1 : Dist[pos][nearest[m]] > Dist[pos][s]

\* The slot of a server: before the first one that is not nearer.
Place(s) ==
  CHOOSE i \in 1 .. Len(nearest) + 1 :
    /\ i <= Len(nearest) => Dist[pos][s] <= Dist[pos][nearest[i]]
    /\ \A m \in 1 .. i - 1 : Dist[pos][nearest[m]] < Dist[pos][s]

\* Mutant: the last slot is not dropped.
InsertedTooMany(s) ==
  LET i == Place(s)
  IN SubSeq(nearest, 1, i - 1) \o <<s>> \o SubSeq(nearest, i, Len(nearest))

\* The slots from there on move by one, and the last one is dropped.
Inserted(s) ==
  LET i == Place(s)
      all == SubSeq(nearest, 1, i - 1) \o <<s>> \o SubSeq(nearest, i, Len(nearest))
  IN IF Len(all) <= NearestNum THEN all ELSE SubSeq(all, 1, NearestNum)

ReadServer ==
  /\ phase = "nearest" /\ row < listing
  /\ row' = row + 1
  /\ nearest' = Inserted(List[row + 1])
  /\ UNCHANGED <<phase, files, pos, line, probed, latency, best>>

EndOfList ==
  /\ phase = "nearest" /\ row >= listing
  /\ phase' = IF row = 0 THEN "failed" ELSE "probe"
  /\ UNCHANGED <<files, pos, row, nearest, line, probed, latency, best>>

\* One slot: latency.txt is fetched, read and removed.  An empty file leaves
\* the line of the slot before in the buffer.  A slot not in use has no name
\* to resolve.
Probe ==
  /\ phase = "probe" /\ probed < NearestNum
  /\ LET k == probed + 1 IN
       \E r \in IF k <= Len(nearest) THEN Get(latfile, Content) ELSE {<<1, latfile>>} :
       \E t \in Times :
         /\ line' = IF r[2] \in {"good", "other"} THEN r[2] ELSE line
         /\ latency' = [latency EXCEPT ![k] =
                          IF r[2] # "absent" /\ line' = "good" THEN t ELSE Failed]
  /\ latfile' = "absent"
  /\ probed' = probed + 1
  /\ UNCHANGED <<phase, config, listing, pos, row, nearest, best>>

\* Mutant: a slot without latency counts as a fast one.
LowestFailed ==
  LET low[k \in Slots] == IF k = 1 THEN 1
                          ELSE IF latency[k] < latency[low[k - 1]] THEN k
                          ELSE low[k - 1]
  IN low[NearestNum]

\* The loop that selects: slot 1 whatever its latency is, then every slot with
\* a lower one.
LowestUpTo[k \in Slots] ==
  IF k = 1 THEN 1
  ELSE IF latency[k] < latency[LowestUpTo[k - 1]] /\ latency[k] # Failed THEN k
  ELSE LowestUpTo[k - 1]

Lowest == LowestUpTo[NearestNum]

Select ==
  /\ phase = "probe" /\ probed = NearestNum
  /\ best' = Lowest
  /\ phase' = "chosen"
  /\ UNCHANGED <<files, pos, row, nearest, line, probed, latency>>

Search == Start \/ FetchConfig \/ FetchList \/ ReadServer \/ EndOfList \/ Probe \/ Select

-----------------------------------------------------------------------------
ChoiceType ==
  /\ phase \in {"idle", "config", "list", "nearest", "probe", "chosen", "failed"}
  /\ config \in Content \cup {"absent"} /\ latfile \in Content \cup {"absent"}
  /\ listing \in NoFile .. Len(List)
  /\ pos \in {"client", "zero"}
  /\ row \in 0 .. Len(List) /\ nearest \in Seq(Server) /\ Len(nearest) <= NearestNum
  /\ line \in Content
  /\ probed \in 0 .. NearestNum
  /\ latency \in [Slots -> Times \cup {Failed}]
  /\ best \in Slots \cup {0}

InNearest(s) == \E k \in 1 .. Len(nearest) : nearest[k] = s

\* The array holds the nearest of the servers read so far, nearest first: it is
\* sorted, full as soon as there are enough servers, and no server outside is
\* nearer than one inside.
NearestRight ==
  /\ Len(nearest) = (IF row < NearestNum THEN row ELSE NearestNum)
  /\ \A k, m \in 1 .. Len(nearest) :
       k < m => Dist[pos][nearest[k]] <= Dist[pos][nearest[m]]
  /\ \A n \in 1 .. row : ~InNearest(List[n]) =>
       \A k \in 1 .. Len(nearest) : Dist[pos][nearest[k]] <= Dist[pos][List[n]]

\* When slot 1 has a latency, the slot chosen has the lowest of all.
LowestWhenFirstHas ==
  phase = "chosen" /\ latency[1] # Failed =>
    /\ latency[best] # Failed
    /\ \A k \in Slots : latency[k] # Failed => latency[best] <= latency[k]
=============================================================================
