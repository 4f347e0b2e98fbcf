------------------------------- MODULE TestRig -------------------------------
(***************************************************************************)
(* performTest of src/testRig.c: it starts a server and clients, makes     *)
(* some of the clients send a message, kills everybody and compares the    *)
(* numbers of log entries with what it expects.  It waits for nothing but  *)
(* the clock, so that each of its sleeps is a race: the other processes    *)
(* may be anywhere when it goes on.                                        *)
(*                                                                         *)
(* The server and the clients are what GroupServer and ChatClient show of  *)
(* them, in TEST mode, in the few steps that matter to the logs.           *)
(***************************************************************************)
EXTENDS Integers, FiniteSets

CONSTANT Tests  \* the arguments <<groupCount, userCount, simultaneousUsers>>

ASSUME TestAssumption ==
  \A t \in Tests :
    /\ t \in (Nat \ {0}) \X (Nat \ {0}) \X (Nat \ {0})
    /\ t[3] <= t[2]

VARIABLES test,      \* the arguments of this run
          rerun,     \* the logs of an earlier run with the same name exist
          pc, n,     \* performTest: what it does next, its loop index
          verdict    \* the complaints it has printed

VARIABLES server,    \* the server process
          serverLog, \* entries in its log
          msg,       \* where the message of each client is
          todo       \* whom a delivery loop has still to write it to

VARIABLES cl,        \* the client processes
          log,       \* entries in each one's log
          inbox,     \* messages (their authors) each has not read yet
          reset,     \* its connection was reset
          got        \* history: messages it has logged

rig == <<test, rerun, pc, n, verdict>>
servers == <<server, serverLog, msg, todo>>
clients == <<cl, log, inbox, reset, got>>
vars == <<rig, servers, clients>>

groupCount == test[1]
userCount == test[2]
simultaneousUsers == test[3]

MISSING == -1        \* the log file does not exist

\* connections[i][j], and the order of the loops over them.
Clients == (0 .. groupCount - 1) \X (0 .. userCount - 1)
Nth(k, width) == <<k \div width, k % width>>
Speakers == {c \in Clients : c[2] < simultaneousUsers}
Others(c) == {d \in Clients : d[1] = c[1] /\ d # c}

TypeOK ==
  /\ test \in Tests /\ rerun \in BOOLEAN
  /\ pc \in {"start", "fork", "signal", "kill", "killall", "report", "done",
             "crashed", "stuck", "aborted"}
  /\ n \in 0 .. Cardinality(Clients)
  /\ verdict \subseteq {"not delivered", "dropped"}
  /\ server \in {"none", "forked", "logging", "up", "gone"}
  /\ serverLog \in Nat \cup {MISSING}
  /\ server \in {"logging", "up"} => serverLog \in Nat
  /\ msg \in [Clients -> {"none", "socket", "queue", "loop", "done", "lost"}]
  /\ todo \in [Clients -> SUBSET Clients]
  /\ cl \in [Clients -> {"none", "forked", "opened", "handling", "joined",
                         "astray", "gone"}]
  /\ log \in [Clients -> Nat \cup {MISSING}]
  /\ \A c \in Clients : cl[c] \in {"handling", "joined"} => log[c] \in Nat
  /\ inbox \in [Clients -> SUBSET Clients]
  /\ reset \in [Clients -> BOOLEAN]
  /\ got \in [Clients -> SUBSET Clients]

\* An earlier run, if there was one, lost nothing.
Init ==
  /\ test \in Tests
  /\ rerun \in BOOLEAN
  /\ pc = "start" /\ n = 0 /\ verdict = {}
  /\ server = "none"
  /\ serverLog = IF rerun THEN groupCount * simultaneousUsers ELSE MISSING
  /\ msg = [c \in Clients |-> "none"]
  /\ todo = [c \in Clients |-> {}]
  /\ cl = [c \in Clients |-> "none"]
  /\ log = [c \in Clients |-> IF rerun THEN Cardinality(Others(c) \cap Speakers)
                                       ELSE MISSING]
  /\ inbox = [c \in Clients |-> {}]
  /\ reset = [c \in Clients |-> FALSE]
  /\ got = [c \in Clients |-> {}]

\* O_CREAT is missing, and with it the file.
Opened_NoCreate(entries) == entries

\* open(.., O_APPEND | O_CREAT).
Opened(entries) == IF entries = MISSING THEN 0 ELSE entries

-----------------------------------------------------------------------------
(* performTest.                                                             *)

\* createServer.
StartServer ==
  /\ pc = "start" /\ pc' = "fork"
  /\ server' = "forked"
  /\ UNCHANGED <<test, rerun, n, verdict, serverLog, msg, todo, clients>>

\* createClient, every 20 ms.
Fork ==
  /\ pc = "fork"
  /\ cl' = [cl EXCEPT ![Nth(n, userCount)] = "forked"]
  /\ IF n + 1 < Cardinality(Clients) THEN n' = n + 1 /\ pc' = pc
                                     ELSE n' = 0 /\ pc' = "signal"
  /\ UNCHANGED <<test, rerun, verdict, servers, log, inbox, reset, got>>

\* What SIGUSR1 does to client c: it sends a message once it has joined.  The
\* signal ends it before the handler is there, or, by SIGPIPE, before it is
\* connected; in between, the handler writes to the terminal, or ahead of the
\* join request, so that the server takes the message for the request.
Signalled(c) ==
  \/ /\ cl[c] = "joined"
     /\ msg' = [msg EXCEPT ![c] = IF server = "up" THEN "socket" ELSE "lost"]
     /\ UNCHANGED cl
  \/ /\ cl[c] \in {"forked", "opened", "handling"}
     /\ cl' = [cl EXCEPT ![c] = "gone"]
     /\ UNCHANGED msg
  \/ /\ cl[c] = "handling" /\ server = "up"
     /\ cl' = [cl EXCEPT ![c] = "astray"]
     /\ UNCHANGED msg
  \/ /\ cl[c] \in {"handling", "gone", "astray"}
     /\ UNCHANGED <<cl, msg>>

\* kill(connections[i][j], SIGUSR1), after a second.
SendSignal ==
  /\ pc = "signal"
  /\ Signalled(Nth(n, simultaneousUsers))
  /\ IF n + 1 < Cardinality(Speakers) THEN n' = n + 1 /\ pc' = pc
                                      ELSE n' = 0 /\ pc' = "kill"
  /\ UNCHANGED <<test, rerun, verdict, server, serverLog, todo, log, inbox,
                 reset, got>>

\* The kernel resets the connections on which there is data unread.
ServerEnds ==
  /\ server' = "gone"
  /\ reset' = [c \in Clients |-> msg[c] = "socket"]
  /\ msg' = [c \in Clients |-> IF msg[c] \in {"socket", "queue", "loop"}
                                 THEN "lost" ELSE msg[c]]
  /\ todo' = [c \in Clients |-> {}]
  /\ UNCHANGED serverLog

\* kill(serverPid, SIGKILL), after another second.
KillServer ==
  /\ pc = "kill" /\ pc' = "killall"
  /\ ServerEnds
  /\ UNCHANGED <<test, rerun, n, verdict, cl, log, inbox, got>>

\* SIGKILL to every client, after a third.
KillClients ==
  /\ pc = "killall" /\ pc' = "report"
  /\ cl' = [c \in Clients |-> "gone"]
  /\ UNCHANGED <<test, rerun, n, verdict, servers, log, inbox, reset, got>>

\* All entries of the clients' logs, as <<client, number in its log>>.
LogEntries == UNION {{c} \X (1 .. log[c]) : c \in Clients}

Entries == Cardinality(LogEntries)

\* The author is counted among those who get its message.
Expected_WithAuthor == groupCount * simultaneousUsers * userCount

\* Entries the clients should have logged together.
Expected == groupCount * simultaneousUsers * (userCount - 1)

\* Only the server's log is compared.
Report_ServerOnly ==
  /\ pc = "report"
  /\ IF serverLog = MISSING \/ \E c \in Clients : log[c] = MISSING
       THEN pc' = "stuck" /\ UNCHANGED verdict
       ELSE /\ verdict' = IF serverLog # simultaneousUsers
                            THEN {"not delivered"} ELSE {}
            /\ pc' = IF serverLog = 0 \/ Entries = 0 THEN "crashed"
                                                     ELSE "done"
  /\ UNCHANGED <<test, rerun, n, servers, clients>>

\* The logs are read and compared; an average of nothing divides by zero.
\* Without a log file open and read fail, and the loop on read never ends.
Report ==
  /\ pc = "report"
  /\ IF serverLog = MISSING \/ \E c \in Clients : log[c] = MISSING
       THEN pc' = "stuck" /\ UNCHANGED verdict
       ELSE /\ verdict' =
                 {v \in {"not delivered", "dropped"} :
                    CASE v = "not delivered" -> serverLog # simultaneousUsers
                      [] v = "dropped" -> Entries # Expected}
            /\ pc' = IF serverLog = 0 \/ Entries = 0 THEN "crashed"
                                                     ELSE "done"
  /\ UNCHANGED <<test, rerun, n, servers, clients>>

\* killTest: SIGINT, answered Y, once the server's process id is known.
Abort ==
  /\ pc \in {"fork", "signal", "kill", "killall", "report"}
  /\ pc' = "aborted"
  /\ ServerEnds
  /\ UNCHANGED <<test, rerun, n, verdict, cl, log, inbox, got>>

-----------------------------------------------------------------------------
(* The server.                                                              *)

\* It opens its log, then binds and listens, unless the port is taken.
ServerStarts ==
  /\ \/ server = "forked" /\ server' = "logging"
        /\ serverLog' = Opened(serverLog)
     \/ server = "logging" /\ server' \in {"up", "gone"}
        /\ UNCHANGED serverLog
  /\ UNCHANGED <<rig, msg, todo, clients>>

\* From the socket to the queue.
ServerReads(c) ==
  /\ msg[c] = "socket"
  /\ msg' = [msg EXCEPT ![c] = "queue"]
  /\ UNCHANGED <<rig, server, serverLog, todo, clients>>

\* The delivery loop runs over who is in the group.
Pop(c) ==
  /\ msg[c] = "queue"
  /\ msg' = [msg EXCEPT ![c] = "loop"]
  /\ todo' = [todo EXCEPT ![c] = {d \in Others(c) : cl[d] = "joined"}]
  /\ UNCHANGED <<rig, server, serverLog, clients>>

WriteTo(c, d) ==
  /\ d \in todo[c]
  /\ todo' = [todo EXCEPT ![c] = @ \ {d}]
  /\ inbox' = [inbox EXCEPT ![d] = @ \cup {c}]
  /\ UNCHANGED <<rig, server, serverLog, msg, cl, log, reset, got>>

\* The loop has ended: one entry in the server's log.
Delivered(c) ==
  /\ msg[c] = "loop" /\ todo[c] = {}
  /\ msg' = [msg EXCEPT ![c] = "done"]
  /\ serverLog' = serverLog + 1
  /\ UNCHANGED <<rig, server, todo, clients>>

-----------------------------------------------------------------------------
(* A client.                                                                *)

\* It opens its log, then installs its handlers.
ClientStarts(c) ==
  /\ \/ cl[c] = "forked" /\ cl' = [cl EXCEPT ![c] = "opened"]
        /\ log' = [log EXCEPT ![c] = Opened(@)]
     \/ cl[c] = "opened" /\ cl' = [cl EXCEPT ![c] = "handling"]
        /\ UNCHANGED log
  /\ UNCHANGED <<rig, servers, inbox, reset, got>>

\* Until the server listens, connect fails and the client ends.
ClientJoins(c) ==
  /\ cl[c] = "handling"
  /\ cl' = [cl EXCEPT ![c] = IF server = "up" THEN "joined" ELSE "gone"]
  /\ UNCHANGED <<rig, servers, log, inbox, reset, got>>

\* One entry for each message.
ClientLogs(c) ==
  /\ cl[c] = "joined"
  /\ \E m \in inbox[c] :
       /\ inbox' = [inbox EXCEPT ![c] = @ \ {m}]
       /\ got' = [got EXCEPT ![c] = @ \cup {m}]
  /\ log' = [log EXCEPT ![c] = @ + 1]
  /\ UNCHANGED <<rig, servers, cl, reset>>

\* The end of the connection goes unnoticed.
ClientEnds_IgnoresEnd(c) ==
  /\ cl[c] \in {"joined", "astray"} /\ server = "gone" /\ inbox[c] = {}
  /\ reset[c] /\ reset' = [reset EXCEPT ![c] = FALSE]
  /\ log' = [log EXCEPT ![c] = @ + 1]
  /\ UNCHANGED <<rig, servers, cl, inbox, got>>

\* The server has gone.  A reset makes read fail once, which counts as a
\* message; after that, or without it, read returns 0.
ClientEnds(c) ==
  /\ cl[c] \in {"joined", "astray"} /\ server = "gone" /\ inbox[c] = {}
  /\ IF reset[c] THEN /\ reset' = [reset EXCEPT ![c] = FALSE]
                      /\ log' = [log EXCEPT ![c] = @ + 1]
                      /\ UNCHANGED cl
                 ELSE /\ cl' = [cl EXCEPT ![c] = "gone"]
                      /\ UNCHANGED <<reset, log>>
  /\ UNCHANGED <<rig, servers, inbox, got>>

-----------------------------------------------------------------------------

Rig ==
  \/ StartServer \/ Fork \/ SendSignal \/ KillServer \/ KillClients \/ Report

Server(c) ==
  \/ ServerReads(c) \/ Pop(c) \/ Delivered(c)
  \/ \E d \in Clients : WriteTo(c, d)

Client(c) == ClientStarts(c) \/ ClientJoins(c) \/ ClientLogs(c) \/ ClientEnds(c)

Next ==
  \/ Rig \/ Abort \/ ServerStarts
  \/ \E c \in Clients : Server(c) \/ Client(c)

Spec == Init /\ [][Next]_vars

\* The sleeps end and the clients run on.
Fairness ==
  /\ WF_vars(Rig)
  /\ \A c \in UNION {(0 .. t[1] - 1) \X (0 .. t[2] - 1) : t \in Tests} :
       WF_vars(c \in Clients /\ Client(c))

FairSpec == Spec /\ Fairness

-----------------------------------------------------------------------------
(* Properties.                                                              *)

Reported == pc \in {"done", "crashed"}

Silent == Reported /\ verdict = {}

\* Every client has logged every message of the others in its group.
AllDelivered ==
  \A c \in Clients : got[c] = Others(c) \cap Speakers

\* README.md:39 "also detects any dropped messages": a run with one group
\* that prints no complaint has delivered everything.  If the logs of an
\* earlier run were there, which open(.., O_APPEND) keeps, silence means that
\* this run's server has delivered nothing at all.
SilenceIsTrue ==
  Silent /\ groupCount = 1 =>
    IF rerun THEN \A c \in Clients : msg[c] # "done" ELSE AllDelivered

\* testRig.c:286: the entries of the server's log are compared with the number
\* of clients that talk in one group.  When everything arrived on fresh logs,
\* the run is silent if there is one group, and always complains, of the
\* server only, if there are more.
ComplaintIsTrue ==
  Reported /\ AllDelivered /\ ~rerun /\ server = "gone"
    /\ (\A c \in Speakers : msg[c] = "done")
    => verdict = IF groupCount = 1 THEN {} ELSE {"not delivered"}

\* README.md:63 "tests were failing sometimes by not successfully closing
\* servers and clients": once the rig has ended, also by SIGINT, no process it
\* has started is left, whatever each was at.
NobodyLeft ==
  pc \in {"done", "crashed", "stuck", "aborted"}
    ~> (server = "gone" /\ \A c \in Clients : cl[c] \in {"none", "gone"})
=============================================================================
