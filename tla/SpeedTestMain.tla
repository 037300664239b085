--------------------------- MODULE SpeedTestMain ---------------------------
(***************************************************************************)
(* main of SpeedTest/main.c: the options, the tests they ask for, and each *)
(* test up to the server it is run on.  The transfer itself is the module  *)
(* SpeedTest, whose Plans are the sequences of tests run here.             *)
(***************************************************************************)
EXTENDS ServerChoice

CONSTANT Argvs  (* the command lines, without the program's name *)

Options == {"--help", "--server", "--thread", "--upload_testing",
            "--download_testing", "HTTP", "HTTPS", "host", "4"}

atoi(s) == IF s = "4" THEN 4 ELSE 0

ASSUME ArgvAssumption == Argvs \subseteq Seq(Options)

VARIABLES
  argv,      (* the arguments                                              *)
  i,         (* main's loop index                                          *)
  at,        (* where main is                                              *)
  protocol,  (* the file-scope variables the options set                   *)
  number_of_thread, perform_server_url, m_test_only_upload, m_test_only_download,
  tests,     (* the tests still to run; the head may be under way          *)
  ran        (* history: the operation and the server of each transfer     *)

optVars  == <<protocol, number_of_thread, perform_server_url, m_test_only_upload,
              m_test_only_download>>
mainVars == <<argv, i, at, optVars, tests, ran>>
vars     == <<mainVars, choiceVars>>

Init ==
  /\ ChoiceInit
  /\ argv \in Argvs
  /\ i = 1 /\ at = "args"
  /\ protocol = "HTTP"
  /\ number_of_thread = 10 /\ perform_server_url = FALSE
  /\ m_test_only_upload = FALSE /\ m_test_only_download = FALSE
  /\ tests = <<>> /\ ran = <<>>

-----------------------------------------------------------------------------
\* Without arguments: upload, then download.
NoArguments ==
  /\ at = "args" /\ argv = <<>>
  /\ tests' = <<"UPLOAD", "DOWNLOAD">> /\ at' = "run"
  /\ UNCHANGED <<argv, i, optVars, ran, choiceVars>>

\* --help, or the second of the two exclusive options: main returns.
Rejected ==
  \/ argv[i] = "--help"
  \/ argv[i] = "--upload_testing" /\ m_test_only_download
  \/ argv[i] = "--download_testing" /\ m_test_only_upload

StopAtArgument ==
  /\ at = "args" /\ i <= Len(argv) /\ Rejected
  /\ at' = "done"
  /\ UNCHANGED <<argv, i, optVars, tests, ran, choiceVars>>

SetOption ==
  /\ perform_server_url' = (perform_server_url \/ (argv[i] = "--server" /\ i < Len(argv)))
  /\ number_of_thread' = IF argv[i] = "--thread" /\ i < Len(argv) THEN atoi(argv[i + 1])
                         ELSE number_of_thread
  /\ m_test_only_upload' = (m_test_only_upload \/ argv[i] = "--upload_testing")
  /\ m_test_only_download' = (m_test_only_download \/ argv[i] = "--download_testing")
  /\ protocol' = IF argv[i] \in {"HTTP", "HTTPS"} THEN argv[i] ELSE protocol
  /\ i' = i + 1

\* Any other argument; the value after an option is looked at as an option too.
TakeArgument ==
  /\ at = "args" /\ i <= Len(argv) /\ ~Rejected
  /\ SetOption
  /\ UNCHANGED <<argv, at, tests, ran, choiceVars>>

\* Mutant: the exclusive options are forgotten.
DispatchBoth ==
  /\ at = "args" /\ argv # <<>> /\ i = Len(argv) + 1
  /\ tests' = <<"DOWNLOAD", "UPLOAD">>
  /\ at' = "run"
  /\ UNCHANGED <<argv, i, optVars, ran, choiceVars>>

\* With upload only, operation is set to download as well (main.c:218).
Dispatch ==
  /\ at = "args" /\ argv # <<>> /\ i = Len(argv) + 1
  /\ tests' = IF m_test_only_download \/ m_test_only_upload THEN <<"DOWNLOAD">>
              ELSE <<"DOWNLOAD", "UPLOAD">>
  /\ at' = "run"
  /\ UNCHANGED <<argv, i, optVars, ran, choiceVars>>

-----------------------------------------------------------------------------
NextTest == tests' = Tail(tests)

\* The transfer is refused when it is given no thread.
Transfer(s) == IF number_of_thread = 0 THEN ran ELSE Append(ran, <<Head(tests), s>>)

NoServer == "none"

\* st_utilities_get_server_through_domain_name: the name given resolves to a
\* server, for either protocol, or it does not.
ServerThroughName == {"named", NoServer}

\* speedtest_test_domain_name: without a server the test is given up.
RunNamed ==
  /\ at = "run" /\ tests # <<>> /\ perform_server_url
  /\ NextTest
  /\ \E s \in ServerThroughName : ran' = IF s = NoServer THEN ran ELSE Transfer(s)
  /\ UNCHANGED <<argv, i, at, optVars, choiceVars>>

\* speedtest_test_lowest_latency: the search ...
RunSearch ==
  /\ at = "run" /\ tests # <<>> /\ ~perform_server_url
  /\ Search
  /\ UNCHANGED mainVars

\* ... then the transfer, or nothing when it failed.
RunChosen ==
  /\ at = "run" /\ tests # <<>> /\ phase \in {"chosen", "failed"}
  /\ NextTest
  /\ ran' = IF phase = "chosen" THEN Transfer("found") ELSE ran
  /\ phase' = "idle"
  /\ UNCHANGED <<argv, i, at, optVars, files, pos, row, nearest, line, probed, latency,
                 best>>

Return ==
  /\ at = "run" /\ tests = <<>>
  /\ at' = "done"
  /\ UNCHANGED <<argv, i, optVars, tests, ran, choiceVars>>

Next == \/ NoArguments \/ StopAtArgument \/ TakeArgument \/ Dispatch
        \/ RunNamed \/ RunSearch \/ RunChosen \/ Return

Spec == Init /\ [][Next]_vars

-----------------------------------------------------------------------------
Ops == {ran[n][1] : n \in 1 .. Len(ran)}

Given(o) == \E n \in 1 .. Len(argv) : argv[n] = o

TypeOK ==
  /\ ChoiceType
  /\ argv \in Argvs /\ i \in 1 .. Len(argv) + 1
  /\ at \in {"args", "run", "done"}
  /\ protocol \in {"HTTP", "HTTPS"} /\ number_of_thread \in Nat
  /\ {perform_server_url, m_test_only_upload, m_test_only_download} \subseteq BOOLEAN
  /\ tests \in Seq({"UPLOAD", "DOWNLOAD"})
  /\ ran \in Seq({"UPLOAD", "DOWNLOAD"} \X {"named", "found"})

\* No option makes more tests run than its text allows, in whatever order the
\* options stand: none after --help or after the two contradicting options, one
\* at most after either of them, a download only after --download_testing, each
\* operation once, and the named server only after --server.  What the text of
\* --upload_testing says of the operation does not hold and is left out: "Run
\* only upload testing" (main.c:69), and main runs a download (main.c:218).
TestsLimited ==
  /\ Given("--help") \/ (Given("--upload_testing") /\ Given("--download_testing"))
       => ran = <<>>
  /\ Given("--upload_testing") => Len(ran) <= 1
  /\ Given("--download_testing") => Ops \subseteq {"DOWNLOAD"}
  /\ \A n \in 1 .. Len(ran) : ran[n][2] = "named" => Given("--server")
  /\ \A n, m \in 1 .. Len(ran) : n < m => ran[n][1] # ran[m][1]
=============================================================================
