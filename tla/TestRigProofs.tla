--------------------------- MODULE TestRigProofs -----------------------------
(***************************************************************************)
(* Theorems about TestRig, for any numbers of groups, users and speakers:  *)
(* its types, and what the complaints of the rig, or its silence, say of   *)
(* the run.                                                                *)
(***************************************************************************)
EXTENDS TestRig, FiniteSetTheorems, FunctionTheorems, TLAPS

-----------------------------------------------------------------------------
(* The invariant.                                                           *)

\* The types of TypeOK; a message in the server needs a server, and there is
\* none before the rig has made one.
Tables ==
  /\ test \in Tests /\ rerun \in BOOLEAN
  /\ pc \in {"start", "fork", "signal", "kill", "killall", "report", "done",
             "crashed", "stuck", "aborted"}
  /\ verdict \subseteq {"not delivered", "dropped"}
  /\ server \in {"none", "forked", "logging", "up", "gone"}
  /\ msg \in [Clients -> {"none", "socket", "queue", "loop", "done", "lost"}]
  /\ todo \in [Clients -> SUBSET Clients]
  /\ cl \in [Clients -> {"none", "forked", "opened", "handling", "joined",
                         "astray", "gone"}]
  /\ inbox \in [Clients -> SUBSET Clients]
  /\ reset \in [Clients -> BOOLEAN]
  /\ got \in [Clients -> SUBSET Clients]
  /\ \A c \in Clients : msg[c] \in {"socket", "queue", "loop"} => server = "up"
  /\ pc = "start" => server = "none"

\* Who has opened its log has one.
Logs ==
  /\ serverLog \in Nat \cup {MISSING}
  /\ server \in {"logging", "up"} => serverLog \in Nat
  /\ log \in [Clients -> Nat \cup {MISSING}]
  /\ \A c \in Clients :
       cl[c] \in {"opened", "handling", "joined", "astray"} => log[c] \in Nat

\* The loops of the rig stay within their tables.
Loops ==
  /\ n \in 0 .. Cardinality(Clients)
  /\ pc = "start" => n = 0
  /\ pc = "fork" => n < Cardinality(Clients)
  /\ pc = "signal" => n < Cardinality(Speakers)

TInv == Tables /\ Logs /\ Loops

\* Only speakers send, and each is told to once.
SignalInv ==
  /\ \A c \in Clients : msg[c] # "none" => c \in Speakers
  /\ pc \in {"start", "fork"} => \A c \in Clients : msg[c] = "none"
  /\ pc = "signal" =>
       \A k \in n .. Cardinality(Speakers) - 1 :
         msg[Nth(k, simultaneousUsers)] = "none"

\* A message is written once to each client of the group, and never to its
\* author.
LoopInv ==
  /\ \A c \in Clients : todo[c] # {} => msg[c] = "loop"
  /\ \A c \in Clients : todo[c] \subseteq Others(c)
  /\ \A c, d \in Clients :
       c \in got[d] \cup inbox[d] =>
         d \in Others(c) /\ d \notin todo[c] /\ msg[c] \in {"loop", "done", "lost"}
  /\ \A d \in Clients : got[d] \cap inbox[d] = {}

\* On fresh logs, a client's has an entry for each message it got, and one
\* more if its own message was lost in a connection that was reset.
ClientLogInv ==
  ~rerun =>
    \A c \in Clients :
      /\ log[c] = MISSING => got[c] = {}
      /\ log[c] # MISSING =>
           \/ log[c] = Cardinality(got[c])
           \/ log[c] = Cardinality(got[c]) + 1 /\ msg[c] = "lost" /\ ~reset[c]
      /\ reset[c] => msg[c] = "lost"

Done == {c \in Clients : msg[c] = "done"}

\* The server's log has an entry for each message delivered, after those of
\* an earlier run.
ServerLogInv ==
  /\ serverLog = MISSING => ~rerun /\ Done = {}
  /\ serverLog # MISSING =>
       serverLog = (IF rerun THEN groupCount * simultaneousUsers ELSE 0)
                     + Cardinality(Done)

\* What the rig reports on does not change any more.
ReportInv ==
  /\ pc \in {"killall", "report", "done", "crashed", "stuck"} => server = "gone"
  /\ pc \in {"report", "done", "crashed", "stuck"} =>
       \A c \in Clients : cl[c] = "gone"
  /\ Reported =>
       /\ serverLog # MISSING /\ \A c \in Clients : log[c] # MISSING
       /\ "not delivered" \in verdict <=> serverLog # simultaneousUsers
       /\ "dropped" \in verdict <=> Entries # Expected

IInv ==
  TInv /\ SignalInv /\ LoopInv /\ ClientLogInv /\ ServerLogInv /\ ReportInv

-----------------------------------------------------------------------------
(* The arguments, and the order in which clients are started and told.      *)

LEMMA Arguments ==
    ASSUME test \in Tests
    PROVE  /\ groupCount \in Nat \ {0} /\ userCount \in Nat \ {0}
           /\ simultaneousUsers \in Nat \ {0}
           /\ simultaneousUsers <= userCount
<1>1. /\ test \in (Nat \ {0}) \X (Nat \ {0}) \X (Nat \ {0})
      /\ test[3] <= test[2]
  BY TestAssumption
<1>2. QED
  BY <1>1 DEF groupCount, userCount, simultaneousUsers

LEMMA SpeakersAre ==
    ASSUME test \in Tests
    PROVE  Speakers = (0 .. groupCount - 1) \X (0 .. simultaneousUsers - 1)
<1>1. ASSUME NEW i \in 0 .. userCount - 1
      PROVE  i < simultaneousUsers <=> i \in 0 .. simultaneousUsers - 1
  BY Arguments
<1>2. 0 .. simultaneousUsers - 1 \subseteq 0 .. userCount - 1
  BY Arguments
<1>3. QED
  BY <1>1, <1>2 DEF Speakers, Clients

LEMMA Grid ==
    ASSUME NEW g \in Nat \ {0}, NEW w \in Nat \ {0}
    PROVE  /\ IsFiniteSet((0 .. g - 1) \X (0 .. w - 1))
           /\ Cardinality((0 .. g - 1) \X (0 .. w - 1)) = g * w
<1>1. IsFiniteSet(0 .. g - 1) /\ Cardinality(0 .. g - 1) = g
  BY FS_Interval
<1>2. IsFiniteSet(0 .. w - 1) /\ Cardinality(0 .. w - 1) = w
  BY FS_Interval
<1>3. QED
  BY <1>1, <1>2, FS_Product

LEMMA Counts ==
    ASSUME test \in Tests
    PROVE  /\ IsFiniteSet(Clients) /\ IsFiniteSet(Speakers)
           /\ Cardinality(Clients) = groupCount * userCount
           /\ Cardinality(Speakers) = groupCount * simultaneousUsers
           /\ Cardinality(Clients) \in Nat \ {0}
           /\ Cardinality(Speakers) \in Nat \ {0}
           /\ Speakers \subseteq Clients
           /\ Cardinality(Speakers) <= Cardinality(Clients)
<1>1. /\ IsFiniteSet(Clients) /\ Cardinality(Clients) = groupCount * userCount
  BY Arguments, Grid DEF Clients
<1>2. /\ IsFiniteSet(Speakers)
      /\ Cardinality(Speakers) = groupCount * simultaneousUsers
  BY Arguments, Grid, SpeakersAre
<1>3. /\ groupCount * userCount \in Nat \ {0}
      /\ groupCount * simultaneousUsers \in Nat \ {0}
  BY Arguments
<1>4. Speakers \subseteq Clients
  BY DEF Speakers
<1>5. QED
  BY <1>1, <1>2, <1>3, <1>4, FS_Subset

\* The k-th pair of a grid of w columns is in it, if k counts below its size.
LEMMA NthInGrid ==
    ASSUME NEW g \in Nat \ {0}, NEW w \in Nat \ {0}, NEW k \in 0 .. g * w - 1
    PROVE  Nth(k, w) \in (0 .. g - 1) \X (0 .. w - 1)
<1>1. k \div w \in Nat /\ k % w \in 0 .. w - 1 /\ k = w * (k \div w) + (k % w)
  OBVIOUS
<1>2. k \div w <= g - 1
  <2>1. SUFFICES ASSUME k \div w >= g PROVE FALSE
    BY <1>1
  <2>2. w * (k \div w) >= w * g
    BY <1>1, <2>1
  <2>3. g * w = w * g /\ w * g \in Nat
    OBVIOUS
  <2>4. QED
    BY <1>1, <2>2, <2>3
<1>3. QED
  BY <1>1, <1>2 DEF Nth

\* No pair comes twice.
LEMMA NthOnce ==
    ASSUME NEW w \in Nat \ {0}, NEW j \in Nat, NEW k \in Nat,
           Nth(j, w) = Nth(k, w)
    PROVE  j = k
<1>1. j \div w = k \div w /\ j % w = k % w
  BY DEF Nth
<1>2. j = w * (j \div w) + (j % w) /\ k = w * (k \div w) + (k % w)
  OBVIOUS
<1>3. QED
  BY <1>1, <1>2

LEMMA NthClient ==
    ASSUME test \in Tests, n \in Nat, n < Cardinality(Clients)
    PROVE  Nth(n, userCount) \in Clients
<1>1. n \in 0 .. groupCount * userCount - 1
  BY Counts
<1>2. QED
  BY <1>1, Arguments, NthInGrid DEF Clients

LEMMA NthSpeaker ==
    ASSUME test \in Tests, n \in Nat, n < Cardinality(Speakers)
    PROVE  Nth(n, simultaneousUsers) \in Speakers
<1>1. n \in 0 .. groupCount * simultaneousUsers - 1
  BY Counts
<1>2. QED
  BY <1>1, Arguments, NthInGrid, SpeakersAre

\* The arguments do not change, and nothing that depends on them alone.
LEMMA SameTest ==
    ASSUME test' = test
    PROVE  /\ groupCount' = groupCount /\ userCount' = userCount
           /\ simultaneousUsers' = simultaneousUsers
           /\ Clients' = Clients /\ Speakers' = Speakers /\ Expected' = Expected
           /\ \A c : Others(c)' = Others(c)
  BY DEF groupCount, userCount, simultaneousUsers, Clients, Speakers, Expected,
         Others

\* Those in its group who send it something: finitely many.
LEMMA AuthorsFinite ==
    ASSUME test \in Tests, NEW c
    PROVE  /\ IsFiniteSet(Others(c) \cap Speakers)
           /\ Cardinality(Others(c) \cap Speakers) \in Nat
<1>1. IsFiniteSet(Others(c) \cap Speakers)
  BY Counts, FS_Intersection
<1>2. QED
  BY <1>1, FS_CardinalityType

-----------------------------------------------------------------------------
(* Types.                                                                   *)

LEMMA TInvTypeOK == TInv => TypeOK
  BY DEF TInv, Tables, Logs, Loops, TypeOK

LEMMA InitType == Init => TInv
<1>1. SUFFICES ASSUME Init PROVE TInv
  OBVIOUS
<1>2. test \in Tests /\ rerun \in BOOLEAN
  BY <1>1 DEF Init
<1>3. Loops
  BY <1>1, <1>2, Counts DEF Init, Loops
<1>4. log \in [Clients -> Nat \cup {MISSING}]
  BY <1>1, <1>2, AuthorsFinite DEF Init
<1>5. serverLog \in Nat \cup {MISSING}
  BY <1>1, <1>2, Counts, Arguments DEF Init
<1>6. Tables
  BY <1>1, <1>2 DEF Init, Tables
<1>7. Logs
  BY <1>1, <1>4, <1>5 DEF Init, Logs
<1>8. QED
  BY <1>3, <1>6, <1>7 DEF TInv

LEMMA RigTypes == ASSUME TInv, Rig \/ Abort PROVE TInv'
<1> USE DEF rig, servers, clients
<1>1. test' = test
  BY DEF Rig, Abort, StartServer, Fork, SendSignal, KillServer, KillClients,
         Report
<1>2. /\ test \in Tests /\ n \in Nat /\ Cardinality(Clients) \in Nat \ {0}
      /\ Cardinality(Speakers) \in Nat \ {0}
      /\ Cardinality(Speakers) <= Cardinality(Clients)
  <2>1. test \in Tests
    BY DEF TInv, Tables
  <2>2. Cardinality(Clients) \in Nat /\ n \in 0 .. Cardinality(Clients)
    BY <2>1, Counts DEF TInv, Loops
  <2>3. QED
    BY <2>1, <2>2, Counts
<1>3. Clients' = Clients /\ Speakers' = Speakers
  BY <1>1, SameTest
<1>4. CASE StartServer
  <2>1. Tables' /\ Logs'
    BY <1>1, <1>3, <1>4 DEF StartServer, TInv, Tables, Logs
  <2>2. Loops'
    BY <1>2, <1>3, <1>4 DEF StartServer, TInv, Loops
  <2>3. QED
    BY <2>1, <2>2 DEF TInv
<1>5. CASE Fork
  <2>1. Nth(n, userCount) \in Clients
    BY <1>2, <1>5, NthClient DEF Fork, TInv, Loops
  <2>2. Tables' /\ Logs'
    BY <1>1, <1>3, <1>5, <2>1 DEF Fork, TInv, Tables, Logs
  <2>3. Loops'
    BY <1>2, <1>3, <1>5 DEF Fork, TInv, Loops
  <2>4. QED
    BY <2>2, <2>3 DEF TInv
<1>6. CASE SendSignal
  <2>1. Nth(n, simultaneousUsers) \in Clients
    BY <1>2, <1>6, NthSpeaker, Counts DEF SendSignal, TInv, Loops
  <2> DEFINE c == Nth(n, simultaneousUsers)
  <2> HIDE DEF c
  <2>2. c \in Clients /\ Signalled(c)
    BY <1>6, <2>1 DEF SendSignal, c
  <2>3. Tables' /\ Logs'
    BY <1>1, <1>3, <1>6, <2>2 DEF SendSignal, Signalled, TInv, Tables, Logs
  <2>4. Loops'
    BY <1>2, <1>3, <1>6 DEF SendSignal, TInv, Loops
  <2>5. QED
    BY <2>3, <2>4 DEF TInv
<1>7. CASE KillServer \/ Abort
  <2>1. Tables' /\ Logs'
    BY <1>1, <1>3, <1>7 DEF KillServer, Abort, ServerEnds, TInv, Tables, Logs
  <2>2. Loops'
    BY <1>2, <1>3, <1>7 DEF KillServer, Abort, TInv, Loops
  <2>3. QED
    BY <2>1, <2>2 DEF TInv
<1>8. CASE KillClients
  <2>1. Tables' /\ Logs'
    BY <1>1, <1>3, <1>8 DEF KillClients, TInv, Tables, Logs
  <2>2. Loops'
    BY <1>2, <1>3, <1>8 DEF KillClients, TInv, Loops
  <2>3. QED
    BY <2>1, <2>2 DEF TInv
<1>9. CASE Report
  <2>1. Tables' /\ Logs'
    BY <1>1, <1>3, <1>9 DEF Report, TInv, Tables, Logs
  <2>2. Loops'
    BY <1>2, <1>3, <1>9 DEF Report, TInv, Loops
  <2>3. QED
    BY <2>1, <2>2 DEF TInv
<1>10. QED
  BY <1>4, <1>5, <1>6, <1>7, <1>8, <1>9 DEF Rig

LEMMA ServerTypes ==
    ASSUME TInv, ServerStarts \/ \E c \in Clients : Server(c)
    PROVE  TInv'
<1> USE DEF rig, clients
<1>1. test' = test /\ pc' = pc /\ n' = n /\ log' = log /\ cl' = cl
  BY DEF ServerStarts, Server, ServerReads, Pop, Delivered, WriteTo
<1>2. Clients' = Clients /\ Speakers' = Speakers
  BY <1>1, SameTest
<1>3. Loops'
  BY <1>1, <1>2 DEF TInv, Loops
<1>4. CASE ServerStarts
  <2>1. Tables'
    BY <1>1, <1>2, <1>4 DEF ServerStarts, TInv, Tables
  <2>2. Opened(serverLog) \in Nat
    BY DEF Opened, TInv, Logs, MISSING
  <2>3. Logs'
    BY <1>1, <1>2, <1>4, <2>2 DEF ServerStarts, TInv, Tables, Logs
  <2>4. QED
    BY <1>3, <2>1, <2>3 DEF TInv
<1>5. ASSUME NEW c \in Clients, ServerReads(c) PROVE TInv'
  BY <1>1, <1>2, <1>3, <1>5 DEF ServerReads, TInv, Tables, Logs
<1>6. ASSUME NEW c \in Clients, Pop(c) PROVE TInv'
  <2>1. {d \in Others(c) : cl[d] = "joined"} \in SUBSET Clients
    BY DEF Others
  <2>2. QED
    BY <1>1, <1>2, <1>3, <1>6, <2>1 DEF Pop, TInv, Tables, Logs
<1>7. ASSUME NEW c \in Clients, Delivered(c) PROVE TInv'
  <2>1. server = "up"
    BY <1>7 DEF Delivered, TInv, Tables
  <2>2. serverLog \in Nat /\ serverLog' \in Nat
    BY <1>7, <2>1 DEF Delivered, TInv, Logs
  <2>3. Tables'
    BY <1>1, <1>2, <1>7 DEF Delivered, TInv, Tables
  <2>4. Logs'
    BY <1>1, <1>2, <2>2 DEF TInv, Logs
  <2>5. QED
    BY <1>3, <2>3, <2>4 DEF TInv
<1>8. ASSUME NEW c \in Clients, NEW d \in Clients, WriteTo(c, d) PROVE TInv'
  BY <1>1, <1>2, <1>3, <1>8 DEF WriteTo, TInv, Tables, Logs
<1>9. QED
  BY <1>4, <1>5, <1>6, <1>7, <1>8 DEF Server

\* A client logs something.
LEMMA OneMore ==
    ASSUME TInv, NEW c \in Clients, log' = [log EXCEPT ![c] = log[c] + 1],
           log[c] + 1 \in Nat, cl' = cl, server' = server,
           serverLog' = serverLog, Clients' = Clients
    PROVE  Logs'
<1> DEFINE k == log[c] + 1
<1> HIDE DEF k
<1>1. k \in Nat /\ log' = [log EXCEPT ![c] = k]
  BY DEF k
<1>2. log' \in [Clients -> Nat \cup {MISSING}]
  BY <1>1 DEF TInv, Logs
<1>3. \A d \in Clients : log'[d] = IF d = c THEN k ELSE log[d]
  BY <1>1 DEF TInv, Logs
<1>4. QED
  BY <1>1, <1>2, <1>3 DEF TInv, Logs

LEMMA ClientTypes == ASSUME TInv, NEW c \in Clients, Client(c) PROVE TInv'
<1> USE DEF rig, servers
<1>1. /\ test' = test /\ pc' = pc /\ n' = n /\ server' = server
      /\ serverLog' = serverLog
  BY DEF Client, ClientStarts, ClientJoins, ClientLogs, ClientEnds
<1>2. Clients' = Clients /\ Speakers' = Speakers
  BY <1>1, SameTest
<1>3. Loops'
  BY <1>1, <1>2 DEF TInv, Loops
<1>4. Tables'
  <2>1. CASE ClientStarts(c) \/ ClientJoins(c)
    BY <1>1, <1>2, <2>1 DEF ClientStarts, ClientJoins, TInv, Tables
  <2>2. CASE ClientLogs(c)
    <3>1. PICK m \in inbox[c] :
            /\ inbox' = [inbox EXCEPT ![c] = @ \ {m}]
            /\ got' = [got EXCEPT ![c] = @ \cup {m}]
      BY <2>2 DEF ClientLogs
    <3>2. m \in Clients
      BY DEF TInv, Tables
    <3>3. /\ inbox' \in [Clients -> SUBSET Clients]
          /\ got' \in [Clients -> SUBSET Clients]
      BY <3>1, <3>2 DEF TInv, Tables
    <3>4. QED
      BY <1>1, <1>2, <2>2, <3>3 DEF ClientLogs, TInv, Tables
  <2>3. CASE ClientEnds(c)
    BY <1>1, <1>2, <2>3 DEF ClientEnds, TInv, Tables
  <2>4. QED
    BY <2>1, <2>2, <2>3 DEF Client
<1>5. log[c] \in Nat \cup {MISSING} /\ Opened(log[c]) \in Nat
  BY DEF Opened, TInv, Logs, MISSING
<1>6. cl[c] \in {"joined", "astray"} => log[c] + 1 \in Nat
  BY DEF TInv, Logs
<1>7. Logs'
  <2>1. CASE ClientStarts(c)
    <3>1. PICK e \in Nat : e = Opened(log[c])
      BY <1>5
    <3>2. CASE cl[c] = "forked"
      <4>1. cl' = [cl EXCEPT ![c] = "opened"] /\ log' = [log EXCEPT ![c] = e]
        BY <2>1, <3>1, <3>2 DEF ClientStarts
      <4>2. \A d \in Clients : /\ log'[d] = IF d = c THEN e ELSE log[d]
                               /\ d # c => cl'[d] = cl[d]
        BY <4>1 DEF TInv, Tables, Logs
      <4>3. log' \in [Clients -> Nat \cup {MISSING}]
        BY <3>1, <4>1 DEF TInv, Logs
      <4>4. QED
        BY <1>1, <1>2, <4>2, <4>3 DEF TInv, Logs
    <3>3. CASE cl[c] # "forked"
      BY <1>1, <1>2, <2>1, <3>3 DEF ClientStarts, TInv, Tables, Logs
    <3>4. QED
      BY <3>2, <3>3
  <2>4. CASE ClientJoins(c)
    BY <1>1, <1>2, <1>5, <2>4 DEF ClientJoins, TInv, Tables, Logs
  <2>2. CASE ClientLogs(c)
    <3>1. cl' = cl /\ log' = [log EXCEPT ![c] = log[c] + 1] /\ log[c] + 1 \in Nat
      BY <1>6, <2>2 DEF ClientLogs
    <3>2. QED
      BY <1>1, <1>2, <3>1, OneMore
  <2>3. CASE ClientEnds(c)
    <3>1. CASE log' = log
      BY <1>1, <1>2, <2>3, <3>1 DEF ClientEnds, TInv, Tables, Logs
    <3>2. CASE log' # log
      <4>1. /\ cl' = cl /\ log' = [log EXCEPT ![c] = log[c] + 1]
            /\ log[c] + 1 \in Nat
        BY <1>6, <2>3, <3>2 DEF ClientEnds
      <4>2. QED
        BY <1>1, <1>2, <4>1, OneMore
    <3>3. QED
      BY <3>1, <3>2
  <2>5. QED
    BY <2>1, <2>2, <2>3, <2>4 DEF Client
<1>8. QED
  BY <1>3, <1>4, <1>7 DEF TInv

LEMMA NextType == TInv /\ [Next]_vars => TInv'
<1>1. SUFFICES ASSUME TInv, [Next]_vars PROVE TInv'
  OBVIOUS
<1>2. CASE UNCHANGED vars
  <2>1. Clients' = Clients /\ Speakers' = Speakers
    BY <1>2, SameTest DEF vars, rig
  <2>2. QED
    BY <1>1, <1>2, <2>1
    DEF TInv, Tables, Logs, Loops, vars, rig, servers, clients
<1>3. CASE Next
  BY <1>1, <1>3, RigTypes, ServerTypes, ClientTypes DEF Next
<1>4. QED
  BY <1>1, <1>2, <1>3

\* The types of the rig, the server and the clients hold in every reachable
\* state; the loops of performTest stay inside connections (testRig.c:145-210).
THEOREM TypeCorrect == Spec => []TypeOK
<1>1. Spec => []TInv
  BY InitType, NextType, PTL DEF Spec
<1>2. QED
  BY <1>1, TInvTypeOK, PTL

-----------------------------------------------------------------------------
(* Each speaker is told to speak once.                                      *)

LEMMA InitSignal == Init => SignalInv
<1>1. SUFFICES ASSUME Init PROVE SignalInv
  OBVIOUS
<1>2. \A c \in Clients : msg[c] = "none"
  BY <1>1 DEF Init
<1>3. pc = "start"
  BY <1>1 DEF Init
<1>4. QED
  BY <1>2, <1>3 DEF SignalInv

\* Who has not been told to speak has not spoken: other actions keep that.
LEMMA SignalKept ==
    ASSUME TInv, SignalInv, test' = test,
           \A c \in Clients : msg[c] = "none" <=> msg'[c] = "none",
           \/ pc' = pc /\ n' = n
           \/ pc = "start" /\ pc' = "fork"
           \/ pc = "fork" /\ pc' = "fork"
           \/ pc' \notin {"start", "fork", "signal"}
    PROVE  SignalInv'
<1>1. /\ Clients' = Clients /\ Speakers' = Speakers
      /\ simultaneousUsers' = simultaneousUsers
  BY SameTest
<1>2. test \in Tests
  BY DEF TInv, Tables
<1>3. ASSUME pc' = "signal"
      PROVE  \A k \in n' .. Cardinality(Speakers) - 1 :
               msg'[Nth(k, simultaneousUsers)] = "none"
  <2>1. pc = "signal" /\ n' = n /\ n \in Nat
    BY <1>2, <1>3, Counts DEF TInv, Loops
  <2>2. ASSUME NEW k \in n .. Cardinality(Speakers) - 1
        PROVE  msg'[Nth(k, simultaneousUsers)] = "none"
    <3>1. k \in 0 .. groupCount * simultaneousUsers - 1
      BY <1>2, <2>1, Counts
    <3>2. Nth(k, simultaneousUsers) \in Clients
      BY <1>2, <3>1, Arguments, NthInGrid, SpeakersAre, Counts
    <3>3. QED
      BY <2>1, <3>2 DEF SignalInv
  <2>3. QED
    BY <2>1, <2>2
<1>4. \A c \in Clients : msg'[c] # "none" => c \in Speakers
  BY DEF SignalInv
<1>5. pc' \in {"start", "fork"} => \A c \in Clients : msg'[c] = "none"
  BY DEF SignalInv
<1>6. SignalInv' <=>
        /\ \A c \in Clients : msg'[c] # "none" => c \in Speakers
        /\ pc' \in {"start", "fork"} => \A c \in Clients : msg'[c] = "none"
        /\ pc' = "signal" =>
             \A k \in n' .. Cardinality(Speakers) - 1 :
               msg'[Nth(k, simultaneousUsers)] = "none"
  BY <1>1 DEF SignalInv, Nth
<1>7. QED
  BY <1>3, <1>4, <1>5, <1>6

\* kill(.., SIGUSR1) in the n-th round: to a client that has not spoken.
LEMMA ToldOnce ==
    ASSUME TInv, SignalInv, SendSignal
    PROVE  \E c \in Speakers :
             /\ c \in Clients /\ Signalled(c) /\ msg[c] = "none"
             /\ c = Nth(n, simultaneousUsers)
<1>1. test \in Tests /\ n \in Nat /\ n < Cardinality(Speakers)
  <2>1. test \in Tests
    BY DEF TInv, Tables
  <2>2. QED
    BY <2>1, Counts DEF TInv, Loops, SendSignal
<1>2. Nth(n, simultaneousUsers) \in Speakers
  BY <1>1, NthSpeaker
<1>3. n \in n .. Cardinality(Speakers) - 1
  BY <1>1, Counts
<1>4. msg[Nth(n, simultaneousUsers)] = "none"
  BY <1>3 DEF SignalInv, SendSignal
<1>5. QED
  BY <1>1, <1>2, <1>4, Counts DEF SendSignal

LEMMA ToldSignal == ASSUME TInv, SignalInv, SendSignal PROVE SignalInv'
<1>1. PICK c \in Speakers :
        /\ c \in Clients /\ Signalled(c) /\ msg[c] = "none"
        /\ c = Nth(n, simultaneousUsers)
  BY ToldOnce
<1>2. test' = test /\ pc = "signal"
  BY DEF SendSignal
<1>3. \A d \in Clients : d # c => msg'[d] = msg[d]
  BY <1>1 DEF Signalled, TInv, Tables
<1>4. CASE pc' = "signal"
  <2>1. n' = n + 1 /\ n \in Nat /\ test \in Tests
    <3>1. test \in Tests
      BY DEF TInv, Tables
    <3>2. n \in Nat
      BY <3>1, Counts DEF TInv, Loops
    <3>3. QED
      BY <1>2, <1>4, <3>1, <3>2 DEF SendSignal
  <2>2. ASSUME NEW k \in n + 1 .. Cardinality(Speakers) - 1
        PROVE  msg'[Nth(k, simultaneousUsers)] = "none"
    <3>1. k \in 0 .. groupCount * simultaneousUsers - 1
          /\ k \in n .. Cardinality(Speakers) - 1 /\ k # n /\ k \in Nat
      BY <2>1, Counts
    <3>2. Nth(k, simultaneousUsers) \in Clients
      BY <2>1, <3>1, Arguments, NthInGrid, SpeakersAre, Counts
    <3>3. Nth(k, simultaneousUsers) # c
      BY <1>1, <2>1, <3>1, NthOnce, Arguments
    <3>4. msg[Nth(k, simultaneousUsers)] = "none"
      BY <1>2, <3>1 DEF SignalInv
    <3>5. QED
      BY <1>3, <3>2, <3>3, <3>4
  <2>3. /\ Clients' = Clients /\ Speakers' = Speakers
        /\ simultaneousUsers' = simultaneousUsers
    BY <1>2, SameTest
  <2>4. \A d \in Clients : msg'[d] # "none" => d \in Speakers
    BY <1>1, <1>3 DEF SignalInv
  <2>5. SignalInv' <=>
          /\ \A d \in Clients : msg'[d] # "none" => d \in Speakers
          /\ pc' \in {"start", "fork"} => \A d \in Clients : msg'[d] = "none"
          /\ pc' = "signal" =>
               \A k \in n' .. Cardinality(Speakers) - 1 :
                 msg'[Nth(k, simultaneousUsers)] = "none"
    BY <2>3 DEF SignalInv, Nth
  <2>6. QED
    BY <1>4, <2>1, <2>2, <2>4, <2>5
<1>5. CASE pc' # "signal"
  <2>1. pc' = "kill"
    BY <1>2, <1>5 DEF SendSignal
  <2>2. \A d \in Clients : msg'[d] # "none" => d \in Speakers
    BY <1>1, <1>3 DEF SignalInv
  <2>3. QED
    BY <1>2, <2>1, <2>2, SameTest DEF SignalInv
<1>6. QED
  BY <1>4, <1>5

LEMMA NextSignal == TInv /\ SignalInv /\ [Next]_vars => SignalInv'
<1>1. SUFFICES ASSUME TInv, SignalInv, [Next]_vars PROVE SignalInv'
  OBVIOUS
<1> USE DEF rig, servers, clients
<1>2. CASE SendSignal
  BY <1>1, <1>2, ToldSignal
<1>3. CASE Fork
  <2>1. test' = test /\ msg' = msg /\ pc = "fork"
    BY <1>3 DEF Fork
  <2>2. CASE pc' = "fork"
    BY <1>1, <2>1, <2>2, SignalKept
  <2>3. CASE pc' # "fork"
    <3>1. pc' = "signal" /\ n' = 0
      BY <1>3, <2>3 DEF Fork
    <3>2. \A c \in Clients : msg'[c] = "none"
      BY <1>1, <2>1 DEF SignalInv
    <3>3. /\ Clients' = Clients /\ Speakers' = Speakers
          /\ simultaneousUsers' = simultaneousUsers /\ test \in Tests
      BY <1>1, <2>1, SameTest DEF TInv, Tables
    <3>4. \A k \in 0 .. Cardinality(Speakers) - 1 :
            Nth(k, simultaneousUsers) \in Clients
      <4>1. TAKE k \in 0 .. Cardinality(Speakers) - 1
      <4>2. k \in 0 .. groupCount * simultaneousUsers - 1
        BY <3>3, Counts
      <4>3. QED
        BY <3>3, <4>2, Arguments, NthInGrid, SpeakersAre, Counts
    <3>5. SignalInv' <=>
            /\ \A d \in Clients : msg'[d] # "none" => d \in Speakers
            /\ pc' \in {"start", "fork"} => \A d \in Clients : msg'[d] = "none"
            /\ pc' = "signal" =>
                 \A k \in n' .. Cardinality(Speakers) - 1 :
                   msg'[Nth(k, simultaneousUsers)] = "none"
      BY <3>3 DEF SignalInv, Nth
    <3>6. QED
      BY <3>1, <3>2, <3>4, <3>5
  <2>4. QED
    BY <2>2, <2>3
<1>4. CASE StartServer \/ KillClients \/ Report
  <2>1. /\ test' = test /\ msg' = msg
        /\ \/ pc' \notin {"start", "fork", "signal"}
           \/ pc = "start" /\ pc' = "fork"
    BY <1>4 DEF StartServer, KillClients, Report
  <2>2. QED
    BY <1>1, <2>1, SignalKept
<1>5. CASE KillServer \/ Abort
  <2>1. /\ test' = test /\ pc' \in {"killall", "aborted"}
        /\ \A c \in Clients : msg[c] = "none" <=> msg'[c] = "none"
    BY <1>5 DEF KillServer, Abort, ServerEnds
  <2>2. QED
    BY <1>1, <2>1, SignalKept
<1>6. CASE ServerStarts \/ UNCHANGED vars \/ \E c \in Clients : Client(c)
  <2>1. test' = test /\ msg' = msg /\ pc' = pc /\ n' = n
    BY <1>6 DEF ServerStarts, vars, Client, ClientStarts, ClientJoins,
                ClientLogs, ClientEnds
  <2>2. QED
    BY <1>1, <2>1, SignalKept
<1>7. ASSUME NEW c \in Clients, Server(c) PROVE SignalInv'
  <2>1. /\ test' = test /\ pc' = pc /\ n' = n
        /\ \A d \in Clients : msg[d] = "none" <=> msg'[d] = "none"
    BY <1>1, <1>7
    DEF Server, ServerReads, Pop, Delivered, WriteTo, TInv, Tables
  <2>2. QED
    BY <1>1, <2>1, SignalKept
<1>8. QED
  BY <1>1, <1>2, <1>3, <1>4, <1>5, <1>6, <1>7 DEF Next, Rig

-----------------------------------------------------------------------------
(* Each message reaches each log once.                                      *)

LEMMA InitLoop == Init => LoopInv
  BY DEF Init, LoopInv

\* Messages move on, and no loop writes.
LEMMA LoopKept ==
    ASSUME LoopInv, test' = test, todo' = todo, got' = got, inbox' = inbox,
           \A c \in Clients :
             \/ msg'[c] = msg[c]
             \/ msg[c] \notin {"loop", "done", "lost"}
             \/ todo[c] = {} /\ msg'[c] = "done"
    PROVE  LoopInv'
<1>1. Clients' = Clients /\ \A c : Others(c)' = Others(c)
  BY SameTest
<1>2. QED
  BY <1>1 DEF LoopInv

LEMMA NextLoop == TInv /\ SignalInv /\ LoopInv /\ [Next]_vars => LoopInv'
<1>1. SUFFICES ASSUME TInv, SignalInv, LoopInv, [Next]_vars PROVE LoopInv'
  OBVIOUS
<1> USE DEF rig, servers, clients
<1>2. CASE StartServer \/ Fork \/ KillClients \/ Report \/ ServerStarts
           \/ UNCHANGED vars
  <2>1. test' = test /\ todo' = todo /\ got' = got /\ inbox' = inbox
        /\ msg' = msg
    BY <1>2 DEF StartServer, Fork, KillClients, Report, ServerStarts, vars
  <2>2. QED
    BY <1>1, <2>1, LoopKept
<1>3. CASE SendSignal
  <2>1. PICK c \in Speakers : c \in Clients /\ Signalled(c) /\ msg[c] = "none"
    BY <1>1, <1>3, ToldOnce
  <2>2. \A d \in Clients : d # c => msg'[d] = msg[d]
    BY <1>1, <2>1 DEF Signalled, TInv, Tables
  <2>3. test' = test /\ todo' = todo /\ got' = got /\ inbox' = inbox
    BY <1>3 DEF SendSignal
  <2>4. QED
    BY <1>1, <2>1, <2>2, <2>3, LoopKept
<1>4. CASE KillServer \/ Abort
  <2>1. /\ test' = test /\ got' = got /\ inbox' = inbox
        /\ \A c \in Clients : todo'[c] = {}
        /\ \A c \in Clients : msg'[c] = IF msg[c] \in {"socket", "queue", "loop"}
                                          THEN "lost" ELSE msg[c]
    BY <1>4 DEF KillServer, Abort, ServerEnds
  <2>2. Clients' = Clients /\ \A c : Others(c)' = Others(c)
    BY <2>1, SameTest
  <2>3. QED
    BY <1>1, <2>1, <2>2 DEF LoopInv
<1>5. ASSUME NEW c \in Clients, ServerReads(c) \/ Delivered(c) PROVE LoopInv'
  <2>1. /\ test' = test /\ todo' = todo /\ got' = got /\ inbox' = inbox
        /\ \A d \in Clients : d # c => msg'[d] = msg[d]
    BY <1>1, <1>5 DEF ServerReads, Delivered, TInv, Tables
  <2>2. msg[c] = "socket" \/ (todo[c] = {} /\ msg'[c] = "done")
    BY <1>1, <1>5 DEF ServerReads, Delivered, TInv, Tables
  <2>3. QED
    BY <1>1, <2>1, <2>2, LoopKept
<1>6. ASSUME NEW c \in Clients, Pop(c) PROVE LoopInv'
  <2>1. /\ test' = test /\ got' = got /\ inbox' = inbox
        /\ msg[c] = "queue" /\ msg'[c] = "loop" /\ todo'[c] \subseteq Others(c)
        /\ \A d \in Clients : d # c => msg'[d] = msg[d] /\ todo'[d] = todo[d]
    BY <1>1, <1>6 DEF Pop, TInv, Tables
  <2>2. Clients' = Clients /\ \A d : Others(d)' = Others(d)
    BY <2>1, SameTest
  <2>3. \A d \in Clients : todo'[d] # {} => msg'[d] = "loop"
    BY <1>1, <2>1 DEF LoopInv
  <2>4. \A d \in Clients : todo'[d] \subseteq Others(d)
    BY <1>1, <2>1 DEF LoopInv
  <2>5. \A e, d \in Clients :
          e \in got[d] \cup inbox[d] =>
            d \in Others(e) /\ d \notin todo'[e]
            /\ msg'[e] \in {"loop", "done", "lost"}
    BY <1>1, <2>1 DEF LoopInv
  <2>6. QED
    BY <1>1, <2>1, <2>2, <2>3, <2>4, <2>5 DEF LoopInv
<1>7. ASSUME NEW c \in Clients, NEW d \in Clients, WriteTo(c, d) PROVE LoopInv'
  <2>1. /\ test' = test /\ got' = got /\ msg' = msg
        /\ d \in todo[c] /\ todo'[c] = todo[c] \ {d}
        /\ inbox'[d] = inbox[d] \cup {c}
        /\ \A e \in Clients : e # c => todo'[e] = todo[e]
        /\ \A e \in Clients : e # d => inbox'[e] = inbox[e]
    BY <1>1, <1>7 DEF WriteTo, TInv, Tables
  <2>2. Clients' = Clients /\ \A e : Others(e)' = Others(e)
    BY <2>1, SameTest
  <2>3. msg[c] = "loop" /\ d \in Others(c)
    BY <1>1, <2>1 DEF LoopInv
  <2>4. \A e \in Clients : todo'[e] # {} => msg'[e] = "loop"
    BY <1>1, <2>1 DEF LoopInv
  <2>5. \A e \in Clients : todo'[e] \subseteq Others(e)
    BY <1>1, <2>1 DEF LoopInv
  <2>6. \A e, f \in Clients :
          e \in got[f] \cup inbox'[f] =>
            f \in Others(e) /\ f \notin todo'[e]
            /\ msg'[e] \in {"loop", "done", "lost"}
    BY <1>1, <2>1, <2>3 DEF LoopInv
  <2>7. \A f \in Clients : got[f] \cap inbox'[f] = {}
    BY <1>1, <2>1 DEF LoopInv
  <2>8. QED
    BY <2>1, <2>2, <2>4, <2>5, <2>6, <2>7 DEF LoopInv
<1>8. ASSUME NEW c \in Clients, Client(c) PROVE LoopInv'
  <2>1. test' = test /\ msg' = msg /\ todo' = todo
    BY <1>8 DEF Client, ClientStarts, ClientJoins, ClientLogs, ClientEnds
  <2>2. CASE ~ClientLogs(c)
    <3>1. got' = got /\ inbox' = inbox
      BY <1>8, <2>2 DEF Client, ClientStarts, ClientJoins, ClientEnds
    <3>2. QED
      BY <1>1, <2>1, <3>1, LoopKept
  <2>3. CASE ClientLogs(c)
    <3>1. PICK m \in inbox[c] :
            /\ inbox'[c] = inbox[c] \ {m} /\ got'[c] = got[c] \cup {m}
            /\ \A d \in Clients : d # c => inbox'[d] = inbox[d] /\ got'[d] = got[d]
      BY <1>1, <2>3 DEF ClientLogs, TInv, Tables
    <3>2. \A d \in Clients : got'[d] \cup inbox'[d] = got[d] \cup inbox[d]
                             /\ got'[d] \cap inbox'[d] = {}
      BY <1>1, <3>1 DEF LoopInv
    <3>3. Clients' = Clients /\ \A e : Others(e)' = Others(e)
      BY <2>1, SameTest
    <3>4. QED
      BY <1>1, <2>1, <3>2, <3>3 DEF LoopInv
  <2>4. QED
    BY <2>2, <2>3
<1>9. QED
  BY <1>1, <1>2, <1>3, <1>4, <1>5, <1>6, <1>7, <1>8 DEF Next, Rig, Server

-----------------------------------------------------------------------------
(* The entries of the clients' logs.                                        *)

\* A client has got finitely many messages.
LEMMA GotFinite ==
    ASSUME TInv, NEW c \in Clients
    PROVE  IsFiniteSet(got[c]) /\ Cardinality(got[c]) \in Nat
<1>1. test \in Tests /\ got[c] \in SUBSET Clients
  BY DEF TInv, Tables
<1>2. IsFiniteSet(got[c])
  BY <1>1, Counts, FS_Subset
<1>3. QED
  BY <1>2, FS_CardinalityType

LEMMA InitClientLog == Init => ClientLogInv
<1>1. ASSUME Init, ~rerun, NEW c \in Clients
      PROVE  log[c] = MISSING /\ got[c] = {} /\ ~reset[c]
  BY <1>1 DEF Init
<1>2. QED
  BY <1>1 DEF ClientLogInv

\* Nobody's log changes; a message in a connection that is reset is lost.
LEMMA ClientLogKept ==
    ASSUME TInv, ClientLogInv, test' = test, rerun' = rerun, log' = log,
           got' = got,
           \A c \in Clients :
             /\ msg[c] = "lost" => msg'[c] = "lost"
             /\ reset'[c] => msg'[c] = "lost"
             /\ reset'[c] /\ ~reset[c] => msg[c] # "lost"
    PROVE  ClientLogInv'
<1>1. Clients' = Clients
  BY SameTest
<1>2. QED
  BY <1>1 DEF ClientLogInv, TInv, Tables

LEMMA NextClientLog ==
    TInv /\ SignalInv /\ LoopInv /\ ClientLogInv /\ [Next]_vars => ClientLogInv'
<1>1. SUFFICES ASSUME TInv, SignalInv, LoopInv, ClientLogInv, [Next]_vars
               PROVE  ClientLogInv'
  OBVIOUS
<1>2. CASE rerun'
  BY <1>2 DEF ClientLogInv
<1>3. CASE ~rerun'
  <2> USE DEF rig, servers, clients
  <2>1. CASE StartServer \/ Fork \/ KillClients \/ Report \/ ServerStarts
             \/ UNCHANGED vars
    <3>1. test' = test /\ rerun' = rerun /\ log' = log /\ got' = got
          /\ msg' = msg /\ reset' = reset
      BY <2>1 DEF StartServer, Fork, KillClients, Report, ServerStarts, vars
    <3>2. Clients' = Clients
      BY <3>1, SameTest
    <3>3. QED
      BY <1>1, <3>1, <3>2 DEF ClientLogInv
  <2>2. CASE SendSignal
    <3>1. PICK c \in Speakers : c \in Clients /\ Signalled(c) /\ msg[c] = "none"
      BY <1>1, <2>2, ToldOnce
    <3>2. \A d \in Clients : d # c => msg'[d] = msg[d]
      BY <1>1, <3>1 DEF Signalled, TInv, Tables
    <3>3. test' = test /\ rerun' = rerun /\ log' = log /\ got' = got
          /\ reset' = reset
      BY <2>2 DEF SendSignal
    <3>4. Clients' = Clients /\ ~rerun
      BY <1>3, <3>3, SameTest
    <3>5. \A d \in Clients : msg[d] = "lost" => msg'[d] = "lost"
      BY <3>1, <3>2
    <3>6. QED
      BY <1>1, <3>3, <3>4, <3>5 DEF ClientLogInv
  <2>3. CASE KillServer \/ Abort
    <3>1. /\ test' = test /\ rerun' = rerun /\ log' = log /\ got' = got
          /\ \A c \in Clients : reset'[c] = (msg[c] = "socket")
          /\ \A c \in Clients : msg'[c] = IF msg[c] \in {"socket", "queue", "loop"}
                                            THEN "lost" ELSE msg[c]
      BY <2>3 DEF KillServer, Abort, ServerEnds
    <3>2. QED
      BY <1>1, <3>1, ClientLogKept
  <2>4. ASSUME NEW c \in Clients, Server(c) PROVE ClientLogInv'
    <3>1. test' = test /\ rerun' = rerun /\ log' = log /\ got' = got
          /\ reset' = reset
      BY <2>4 DEF Server, ServerReads, Pop, Delivered, WriteTo
    <3>2. \A d \in Clients : msg[d] = "lost" => msg'[d] = "lost"
      BY <1>1, <2>4 DEF Server, ServerReads, Pop, Delivered, WriteTo, TInv,
                        Tables
    <3>3. Clients' = Clients /\ ~rerun
      BY <1>3, <3>1, SameTest
    <3>4. QED
      BY <1>1, <3>1, <3>2, <3>3 DEF ClientLogInv
  <2>5. ASSUME NEW c \in Clients, Client(c) PROVE ClientLogInv'
    <3>1. /\ test' = test /\ rerun' = rerun /\ msg' = msg
          /\ \A d \in Clients : d # c => log'[d] = log[d] /\ got'[d] = got[d]
                                         /\ reset'[d] = reset[d]
      BY <1>1, <2>5 DEF Client, ClientStarts, ClientJoins, ClientLogs,
                        ClientEnds, TInv, Tables, Logs
    <3>2. Clients' = Clients /\ ~rerun
      BY <1>3, <3>1, SameTest
    <3>3. /\ IsFiniteSet(got[c]) /\ Cardinality(got[c]) \in Nat
          /\ log[c] \in Nat \cup {MISSING} /\ MISSING \notin Nat
      BY <1>1, GotFinite DEF TInv, Logs, MISSING
    <3> DEFINE Right(l, g, r) ==
          /\ l = MISSING => g = {}
          /\ l # MISSING => \/ l = Cardinality(g)
                            \/ l = Cardinality(g) + 1 /\ msg[c] = "lost" /\ ~r
          /\ r => msg[c] = "lost"
    <3>4. Right(log[c], got[c], reset[c])
      BY <1>1, <3>2 DEF ClientLogInv
    <3>5. Right(log'[c], got'[c], reset'[c])
      <4>1. CASE ClientStarts(c)
        <5>1. got' = got /\ reset' = reset
              /\ log'[c] \in {log[c], Opened(log[c])}
          BY <1>1, <4>1 DEF ClientStarts, TInv, Logs
        <5>2. Opened(log[c]) # MISSING
          BY <3>3 DEF Opened
        <5>3. log[c] = MISSING => Opened(log[c]) = Cardinality(got[c])
          BY <3>4, FS_EmptySet DEF Opened
        <5>4. log[c] # MISSING => Opened(log[c]) = log[c]
          BY DEF Opened
        <5>5. QED
          BY <3>4, <5>1, <5>2, <5>3, <5>4
      <4>2. CASE ClientJoins(c)
        BY <3>4, <4>2 DEF ClientJoins
      <4>3. CASE ClientLogs(c)
        <5>1. PICK m \in inbox[c] : got'[c] = got[c] \cup {m}
          BY <1>1, <4>3 DEF ClientLogs, TInv, Tables
        <5>2. m \notin got[c]
          BY <1>1 DEF LoopInv
        <5>3. Cardinality(got'[c]) = Cardinality(got[c]) + 1
          BY <3>3, <5>1, <5>2, FS_AddElement
        <5>4. log[c] \in Nat /\ log'[c] = log[c] + 1 /\ reset' = reset
          BY <1>1, <4>3 DEF ClientLogs, TInv, Tables, Logs
        <5>5. log[c] # MISSING /\ log'[c] # MISSING
          BY <3>3, <5>4
        <5>6. QED
          BY <3>3, <3>4, <5>3, <5>4, <5>5
      <4>4. CASE ClientEnds(c)
        <5>1. CASE reset[c]
          <6>1. log[c] \in Nat /\ log'[c] = log[c] + 1 /\ ~reset'[c]
                /\ got' = got
            BY <1>1, <4>4, <5>1 DEF ClientEnds, TInv, Tables, Logs
          <6>2. log[c] = Cardinality(got[c]) /\ msg[c] = "lost"
            BY <3>3, <3>4, <5>1, <6>1
          <6>3. log'[c] # MISSING
            BY <3>3, <6>1
          <6>4. QED
            BY <6>1, <6>2, <6>3
        <5>2. CASE ~reset[c]
          BY <3>4, <4>4, <5>2 DEF ClientEnds
        <5>3. QED
          BY <5>1, <5>2
      <4>5. QED
        BY <2>5, <4>1, <4>2, <4>3, <4>4 DEF Client
    <3>6. QED
      BY <1>1, <3>1, <3>2, <3>5 DEF ClientLogInv
  <2>6. QED
    BY <1>1, <2>1, <2>2, <2>3, <2>4, <2>5 DEF Next, Rig
<1>4. QED
  BY <1>2, <1>3

-----------------------------------------------------------------------------
(* The entries of the server's log.                                         *)

LEMMA DoneFinite ==
    ASSUME TInv
    PROVE  IsFiniteSet(Done) /\ Cardinality(Done) \in Nat
<1>1. test \in Tests /\ Done \in SUBSET Clients
  BY DEF TInv, Tables, Done
<1>2. IsFiniteSet(Done)
  BY <1>1, Counts, FS_Subset
<1>3. QED
  BY <1>2, FS_CardinalityType

\* What the server's log has when the rig starts.
LEMMA EarlierEntries ==
    ASSUME TInv
    PROVE  (IF rerun THEN groupCount * simultaneousUsers ELSE 0) \in Nat
<1>1. groupCount \in Nat /\ simultaneousUsers \in Nat
  BY Arguments DEF TInv, Tables
<1>2. QED
  BY <1>1

LEMMA InitServerLog == Init => ServerLogInv
<1>1. SUFFICES ASSUME Init PROVE ServerLogInv
  OBVIOUS
<1>2. Done = {}
  BY <1>1 DEF Init, Done
<1>3. groupCount \in Nat /\ simultaneousUsers \in Nat
  BY <1>1, Arguments DEF Init
<1>4. groupCount * simultaneousUsers \in Nat
  BY <1>3
<1>5. CASE rerun
  BY <1>1, <1>2, <1>4, <1>5, FS_EmptySet DEF Init, ServerLogInv, MISSING
<1>6. CASE ~rerun
  BY <1>1, <1>2, <1>6 DEF Init, ServerLogInv
<1>7. QED
  BY <1>5, <1>6

LEMMA NextServerLog ==
    TInv /\ SignalInv /\ ServerLogInv /\ [Next]_vars => ServerLogInv'
<1>1. SUFFICES ASSUME TInv, SignalInv, ServerLogInv, [Next]_vars
               PROVE  ServerLogInv'
  OBVIOUS
<1> USE DEF rig, servers, clients
<1>2. test' = test /\ rerun' = rerun
  BY <1>1
  DEF Next, Rig, StartServer, Fork, SendSignal, KillServer, KillClients, Report,
      Abort, ServerStarts, Server, ServerReads, Pop, Delivered, WriteTo, Client,
      ClientStarts, ClientJoins, ClientLogs, ClientEnds, vars
<1>3. /\ Clients' = Clients /\ groupCount' = groupCount
      /\ simultaneousUsers' = simultaneousUsers
  BY <1>2, SameTest
<1>4. ASSUME serverLog' = serverLog,
             \A c \in Clients : msg[c] = "done" <=> msg'[c] = "done"
      PROVE  ServerLogInv'
  <2>1. Done' = Done
    BY <1>3, <1>4 DEF Done
  <2>2. QED
    BY <1>1, <1>2, <1>3, <1>4, <2>1 DEF ServerLogInv
<1>5. CASE StartServer \/ Fork \/ KillClients \/ Report \/ UNCHANGED vars
           \/ \E c \in Clients : Client(c)
  <2>1. serverLog' = serverLog /\ msg' = msg
    BY <1>5 DEF StartServer, Fork, KillClients, Report, Client, ClientStarts,
                ClientJoins, ClientLogs, ClientEnds, vars
  <2>2. QED
    BY <1>4, <2>1
<1>6. CASE SendSignal
  <2>1. PICK c \in Speakers : c \in Clients /\ Signalled(c) /\ msg[c] = "none"
    BY <1>1, <1>6, ToldOnce
  <2>2. \A d \in Clients : msg[d] = "done" <=> msg'[d] = "done"
    BY <1>1, <2>1 DEF Signalled, TInv, Tables
  <2>3. QED
    BY <1>4, <1>6, <2>2 DEF SendSignal
<1>7. CASE KillServer \/ Abort
  <2>1. serverLog' = serverLog
        /\ \A c \in Clients : msg[c] = "done" <=> msg'[c] = "done"
    BY <1>7 DEF KillServer, Abort, ServerEnds
  <2>2. QED
    BY <1>4, <2>1
<1>8. CASE ServerStarts
  <2>1. msg' = msg /\ Done' = Done
    BY <1>3, <1>8 DEF ServerStarts, Done
  <2>2. serverLog' \in {serverLog, Opened(serverLog)}
    BY <1>8 DEF ServerStarts
  <2>3. CASE serverLog = MISSING
    <3>1. ~rerun /\ Done = {}
      BY <1>1, <2>3 DEF ServerLogInv
    <3>2. serverLog' = MISSING \/ serverLog' = 0 + Cardinality(Done)
      BY <2>2, <2>3, <3>1, FS_EmptySet DEF Opened
    <3>3. Cardinality(Done) \in Nat
      BY <1>1, DoneFinite
    <3>4. QED
      BY <1>2, <2>1, <3>1, <3>2, <3>3 DEF ServerLogInv, MISSING
  <2>4. CASE serverLog # MISSING
    <3>1. serverLog' = serverLog
      BY <2>2, <2>4 DEF Opened
    <3>2. QED
      BY <1>4, <2>1, <3>1
  <2>5. QED
    BY <2>3, <2>4
<1>9. ASSUME NEW c \in Clients, Server(c) PROVE ServerLogInv'
  <2>1. CASE Delivered(c)
    <3>1. server = "up" /\ serverLog \in Nat /\ serverLog' = serverLog + 1
          /\ msg[c] = "loop"
      BY <1>1, <2>1 DEF Delivered, TInv, Tables, Logs
    <3>2. Done' = Done \cup {c} /\ c \notin Done
      BY <1>1, <1>3, <2>1 DEF Delivered, Done, TInv, Tables
    <3>3. /\ Cardinality(Done') = Cardinality(Done) + 1
          /\ Cardinality(Done) \in Nat
      BY <1>1, <3>2, DoneFinite, FS_AddElement
    <3> DEFINE base == IF rerun THEN groupCount * simultaneousUsers ELSE 0
    <3>4. base \in Nat /\ base' = base
      BY <1>1, <1>2, <1>3, EarlierEntries
    <3>5. serverLog # MISSING /\ serverLog' # MISSING
      BY <3>1 DEF MISSING
    <3>6. serverLog = base + Cardinality(Done)
      BY <1>1, <3>5 DEF ServerLogInv
    <3> HIDE DEF base
    <3>7. serverLog' = base' + Cardinality(Done')
      BY <3>1, <3>3, <3>4, <3>6
    <3>8. QED
      BY <3>5, <3>7 DEF ServerLogInv, base
  <2>2. CASE ~Delivered(c)
    <3>1. serverLog' = serverLog
          /\ \A d \in Clients : msg[d] = "done" <=> msg'[d] = "done"
      BY <1>1, <1>9, <2>2 DEF Server, ServerReads, Pop, WriteTo, TInv, Tables
    <3>2. QED
      BY <1>4, <3>1
  <2>3. QED
    BY <2>1, <2>2
<1>10. QED
  BY <1>1, <1>4, <1>5, <1>6, <1>7, <1>8, <1>9 DEF Next, Rig

-----------------------------------------------------------------------------
(* What the rig reports on has stopped.                                     *)

LEMMA InitReport == Init => ReportInv
  BY DEF Init, ReportInv, Reported

LEMMA NextReport == TInv /\ ReportInv /\ [Next]_vars => ReportInv'
<1>1. SUFFICES ASSUME TInv, ReportInv, [Next]_vars PROVE ReportInv'
  OBVIOUS
<1> USE DEF rig, servers, clients
<1>2. test' = test
  BY <1>1
  DEF Next, Rig, StartServer, Fork, SendSignal, KillServer, KillClients, Report,
      Abort, ServerStarts, Server, ServerReads, Pop, Delivered, WriteTo, Client,
      ClientStarts, ClientJoins, ClientLogs, ClientEnds, vars
<1>3. /\ Clients' = Clients /\ simultaneousUsers' = simultaneousUsers
      /\ Expected' = Expected
  BY <1>2, SameTest
<1>4. ASSUME log' = log PROVE Entries' = Entries
  BY <1>3, <1>4 DEF Entries, LogEntries
<1>5. CASE StartServer \/ Fork \/ SendSignal \/ Abort
  BY <1>5 DEF StartServer, Fork, SendSignal, Abort, ReportInv, Reported
<1>6. CASE KillServer
  BY <1>6 DEF KillServer, ServerEnds, ReportInv, Reported
<1>7. CASE KillClients
  BY <1>1, <1>3, <1>7 DEF KillClients, ReportInv, Reported
<1>8. CASE Report
  <2>1. /\ pc = "report" /\ server' = server /\ cl' = cl /\ log' = log
        /\ serverLog' = serverLog /\ pc' \in {"stuck", "crashed", "done"}
    BY <1>8 DEF Report
  <2>2. CASE serverLog = MISSING \/ \E c \in Clients : log[c] = MISSING
    <3>1. pc' = "stuck"
      BY <1>8, <2>2 DEF Report
    <3>2. QED
      BY <1>1, <1>3, <2>1, <3>1 DEF ReportInv, Reported
  <2>3. CASE ~(serverLog = MISSING \/ \E c \in Clients : log[c] = MISSING)
    <3>1. verdict' = {v \in {"not delivered", "dropped"} :
                        CASE v = "not delivered" -> serverLog # simultaneousUsers
                          [] v = "dropped" -> Entries # Expected}
      BY <1>8, <2>3 DEF Report
    <3>2. "not delivered" \in verdict' <=> serverLog # simultaneousUsers
      BY <3>1
    <3>3. "dropped" \in verdict' <=> Entries # Expected
      BY <3>1
    <3>4. server = "gone" /\ \A c \in Clients : cl[c] = "gone"
      BY <1>1, <2>1 DEF ReportInv
    <3>5. QED
      BY <1>3, <1>4, <2>1, <2>3, <3>2, <3>3, <3>4 DEF ReportInv, Reported
  <2>4. QED
    BY <2>2, <2>3
<1>9. CASE ServerStarts
  <2>1. server # "gone" /\ pc' = pc
    BY <1>9 DEF ServerStarts
  <2>2. pc \notin {"killall", "report", "done", "crashed", "stuck"}
    BY <1>1, <2>1 DEF ReportInv
  <2>3. QED
    BY <2>1, <2>2 DEF ReportInv, Reported
<1>10. ASSUME NEW c \in Clients, Server(c) PROVE ReportInv'
  <2>1. /\ pc' = pc /\ verdict' = verdict /\ cl' = cl /\ log' = log
        /\ server' = server
        /\ server = "up" \/ serverLog' = serverLog
    BY <1>1, <1>10
    DEF Server, ServerReads, Pop, Delivered, WriteTo, TInv, Tables
  <2>2. Reported => serverLog' = serverLog
    BY <1>1, <2>1 DEF ReportInv, Reported
  <2>3. QED
    BY <1>1, <1>3, <1>4, <2>1, <2>2 DEF ReportInv, Reported
<1>11. ASSUME NEW c \in Clients, Client(c) PROVE ReportInv'
  <2>1. /\ pc' = pc /\ server' = server /\ cl[c] # "gone"
    BY <1>11 DEF Client, ClientStarts, ClientJoins, ClientLogs, ClientEnds
  <2>2. pc \notin {"report", "done", "crashed", "stuck"}
    BY <1>1, <2>1 DEF ReportInv
  <2>3. QED
    BY <1>1, <2>1, <2>2 DEF ReportInv, Reported
<1>12. CASE UNCHANGED vars
  <2>1. /\ pc' = pc /\ verdict' = verdict /\ cl' = cl /\ log' = log
        /\ server' = server /\ serverLog' = serverLog
    BY <1>12 DEF vars
  <2>2. QED
    BY <1>1, <1>3, <1>4, <2>1 DEF ReportInv, Reported
<1>13. QED
  BY <1>1, <1>5, <1>6, <1>7, <1>8, <1>9, <1>10, <1>11, <1>12 DEF Next, Rig

LEMMA Invariant == Spec => []IInv
<1>1. Init => IInv
  BY InitType, InitSignal, InitLoop, InitClientLog, InitServerLog, InitReport
  DEF IInv
<1>2. IInv /\ [Next]_vars => IInv'
  BY NextType, NextSignal, NextLoop, NextClientLog, NextServerLog, NextReport
  DEF IInv
<1>3. QED
  BY <1>1, <1>2, PTL DEF Spec

-----------------------------------------------------------------------------
(* Counting.                                                                *)

\* All entries of the logs l, as pairs of a client and a number.
EntriesOf(C, l) == UNION {{c} \X (1 .. l[c]) : c \in C}

\* All that was got, as pairs of a client and an author.
Received(C, g) == UNION {{c} \X g[c] : c \in C}

\* As many entries in each log as messages got: as many of both in all.
LEMMA SameEntries ==
    ASSUME NEW C, IsFiniteSet(C), NEW l, NEW g,
           \A c \in C : /\ g[c] \subseteq C /\ IsFiniteSet(g[c])
                        /\ l[c] = Cardinality(g[c])
    PROVE  Cardinality(EntriesOf(C, l)) = Cardinality(Received(C, g))
<1> DEFINE A == EntriesOf(C, l)
           B == Received(C, g)
           nth == [c \in C |-> CHOOSE f : f \in Bijection(1 .. l[c], g[c])]
           h == [p \in A |-> <<p[1], nth[p[1]][p[2]]>>]
<1>1. \A c \in C : nth[c] \in Bijection(1 .. l[c], g[c])
  <2>1. ASSUME NEW c \in C PROVE nth[c] \in Bijection(1 .. l[c], g[c])
    <3>1. \E f : f \in Bijection(1 .. l[c], g[c])
      BY FS_CardinalityType DEF ExistsBijection
    <3>2. QED
      BY <3>1, Zenon
  <2>2. QED
    BY <2>1
<1> HIDE DEF nth
<1>2. \A c \in C : /\ nth[c] \in [1 .. l[c] -> g[c]]
                   /\ \A i, j \in 1 .. l[c] : nth[c][i] = nth[c][j] => i = j
                   /\ \A m \in g[c] : \E i \in 1 .. l[c] : nth[c][i] = m
  <2>1. TAKE c \in C
  <2>2. nth[c] \in Bijection(1 .. l[c], g[c])
    BY <1>1
  <2>3. QED
    BY <2>2 DEF Bijection, Injection, Surjection, IsInjective
<1>3. \A p : p \in A <=> \E c \in C : \E i \in 1 .. l[c] : p = <<c, i>>
  BY DEF EntriesOf
<1>4. \A p : p \in B <=> \E c \in C : \E m \in g[c] : p = <<c, m>>
  BY DEF Received
<1> HIDE DEF A, B
<1>5. \A c \in C : \A i \in 1 .. l[c] : h[<<c, i>>] = <<c, nth[c][i]>>
  BY <1>3
<1>6. DOMAIN h = A /\ h = [p \in A |-> h[p]]
  OBVIOUS
<1> HIDE DEF h
<1>7. h \in [A -> B]
  <2>1. ASSUME NEW p \in A PROVE h[p] \in B
    <3>1. PICK c \in C : \E i \in 1 .. l[c] : p = <<c, i>>
      BY <1>3
    <3>2. PICK i \in 1 .. l[c] : p = <<c, i>>
      BY <3>1
    <3>3. nth[c][i] \in g[c]
      BY <1>2
    <3>4. h[p] = <<c, nth[c][i]>>
      BY <1>5, <3>2
    <3>5. QED
      BY <1>4, <3>3, <3>4
  <2>2. QED
    BY <1>6, <2>1
<1>8. ASSUME NEW p \in A, NEW q \in A, h[p] = h[q] PROVE p = q
  <2>1. PICK c \in C : \E i \in 1 .. l[c] : p = <<c, i>>
    BY <1>3
  <2>2. PICK i \in 1 .. l[c] : p = <<c, i>>
    BY <2>1
  <2>3. PICK d \in C : \E j \in 1 .. l[d] : q = <<d, j>>
    BY <1>3
  <2>4. PICK j \in 1 .. l[d] : q = <<d, j>>
    BY <2>3
  <2>5. h[p] = <<c, nth[c][i]>> /\ h[q] = <<d, nth[d][j]>>
    BY <1>5, <2>2, <2>4
  <2>6. c = d /\ nth[c][i] = nth[d][j]
    <3>1. <<c, nth[c][i]>> = <<d, nth[d][j]>>
      BY <1>8, <2>5, Zenon
    <3>2. QED
      BY <3>1
  <2>7. i = j
    <3>1. j \in 1 .. l[c] /\ nth[c][i] = nth[c][j]
      BY <2>6
    <3>2. QED
      BY <1>2, <3>1
  <2>8. QED
    BY <2>2, <2>4, <2>6, <2>7
<1>9. ASSUME NEW q \in B PROVE \E p \in A : h[p] = q
  <2>1. PICK c \in C : \E m \in g[c] : q = <<c, m>>
    BY <1>4
  <2>2. PICK m \in g[c] : q = <<c, m>>
    BY <2>1
  <2>3. PICK i \in 1 .. l[c] : nth[c][i] = m
    BY <1>2
  <2>4. <<c, i>> \in A /\ h[<<c, i>>] = q
    BY <1>3, <1>5, <2>2, <2>3
  <2>5. QED
    BY <2>4
<1>10. h \in Bijection(A, B)
  BY <1>7, <1>8, <1>9, Fun_IsBij
<1>11. ExistsBijection(B, A)
  BY <1>10, Fun_ExistsBijSymmetric DEF ExistsBijection
<1>12. IsFiniteSet(B)
  <2>1. IsFiniteSet(C \X C)
    BY FS_Product
  <2>2. B \subseteq C \X C
    BY <1>4
  <2>3. QED
    BY <2>1, <2>2, FS_Subset
<1>13. Cardinality(A) = Cardinality(B)
  BY <1>11, <1>12, FS_Bijection
<1>14. QED
  BY <1>13 DEF A, B

\* Who should get what: the pairs of a client and an author in its group.
Due == UNION {{c} \X (Others(c) \cap Speakers) : c \in Clients}

LEMMA DueCount ==
    ASSUME test \in Tests
    PROVE  IsFiniteSet(Due) /\ Cardinality(Due) = Expected
<1> DEFINE G == 0 .. groupCount - 1
           U == 0 .. userCount - 1
           S == 0 .. simultaneousUsers - 1
           P == {p \in Clients \X Speakers : p[1][1] = p[2][1]}
           D == {p \in Clients \X Speakers : p[1] = p[2]}
<1>1. Clients = G \X U /\ Speakers = G \X S /\ Speakers \subseteq Clients
  BY SpeakersAre, Counts DEF Clients
<1>2. IsFiniteSet(P) /\ Cardinality(P) = Cardinality(Clients) * simultaneousUsers
  <2> DEFINE f == [p \in Clients \X S |-> <<p[1], <<p[1][1], p[2]>>>>]
  <2>1. IsFiniteSet(S) /\ Cardinality(S) = simultaneousUsers
    <3>1. simultaneousUsers \in Nat \ {0}
      BY Arguments
    <3>2. 0 \in Int /\ simultaneousUsers - 1 \in Int
          /\ ~(0 > simultaneousUsers - 1)
          /\ simultaneousUsers - 1 - 0 + 1 = simultaneousUsers
      BY <3>1
    <3>3. QED
      BY <3>2, FS_Interval
  <2>2. /\ IsFiniteSet(Clients \X S)
        /\ Cardinality(Clients \X S) = Cardinality(Clients) * simultaneousUsers
    BY <2>1, Counts, FS_Product
  <2>3. f \in [Clients \X S -> P]
    <3>1. ASSUME NEW p \in Clients \X S
          PROVE  <<p[1], <<p[1][1], p[2]>>>> \in P
      BY <1>1
    <3>2. QED
      BY <3>1
  <2>4. \A p, q \in Clients \X S : f[p] = f[q] => p = q
    OBVIOUS
  <2>5. \A q \in P : \E p \in Clients \X S : f[p] = q
    <3>1. TAKE q \in P
    <3>2. /\ <<q[1], q[2][2]>> \in Clients \X S
          /\ q = <<q[1], <<q[1][1], q[2][2]>>>>
      BY <1>1
    <3>3. QED
      BY <3>2
  <2> HIDE DEF f
  <2>6. f \in Bijection(Clients \X S, P)
    BY <2>3, <2>4, <2>5, Fun_IsBij
  <2>7. QED
    BY <2>2, <2>6, FS_Bijection DEF ExistsBijection
<1>3. IsFiniteSet(D) /\ Cardinality(D) = Cardinality(Speakers)
  <2> DEFINE f == [c \in Speakers |-> <<c, c>>]
  <2>1. f \in [Speakers -> D]
    BY <1>1
  <2>2. \A c, d \in Speakers : f[c] = f[d] => c = d
    OBVIOUS
  <2>3. \A q \in D : \E c \in Speakers : f[c] = q
    OBVIOUS
  <2> HIDE DEF f
  <2>4. f \in Bijection(Speakers, D)
    BY <2>1, <2>2, <2>3, Fun_IsBij
  <2>5. QED
    BY <2>4, Counts, FS_Bijection DEF ExistsBijection
<1>4. Due = P \ D
  BY <1>1 DEF Due, Others
<1>5. D \subseteq P /\ P \cap D = D
  OBVIOUS
<1> HIDE DEF P, D
<1>6. IsFiniteSet(Due)
      /\ Cardinality(Due) = Cardinality(P) - Cardinality(P \cap D)
  BY <1>2, <1>4, FS_Difference
<1>7. Cardinality(Due) = groupCount * userCount * simultaneousUsers
                           - groupCount * simultaneousUsers
  BY <1>2, <1>3, <1>5, <1>6, Counts
<1>8. \A a, b, c \in Nat : a * b * c - a * c = a * c * (b - 1)
  OBVIOUS
<1>9. QED
  BY <1>6, <1>7, <1>8, Arguments DEF Expected

\* All speakers' messages have been delivered, the logs are fresh and there:
\* they have an entry for each message that was got.
LEMMA FreshEntries ==
    ASSUME IInv, ~rerun, \A c \in Clients : log[c] # MISSING,
           \A c \in Speakers : msg[c] = "done"
    PROVE  Entries = Cardinality(Received(Clients, got))
<1>1. test \in Tests /\ got \in [Clients -> SUBSET Clients]
  BY DEF IInv, TInv, Tables
<1>2. \A c \in Clients : msg[c] # "lost"
  BY DEF IInv, SignalInv
<1>3. \A c \in Clients : log[c] = Cardinality(got[c])
  BY <1>2 DEF IInv, ClientLogInv
<1>4. \A c \in Clients : got[c] \subseteq Clients /\ IsFiniteSet(got[c])
  BY <1>1, GotFinite DEF IInv
<1>5. IsFiniteSet(Clients)
  BY <1>1, Counts
<1>6. \A c \in Clients : /\ got[c] \subseteq Clients /\ IsFiniteSet(got[c])
                         /\ log[c] = Cardinality(got[c])
  BY <1>3, <1>4
<1>7. Cardinality(EntriesOf(Clients, log)) = Cardinality(Received(Clients, got))
  BY <1>5, <1>6, SameEntries
<1>8. QED
  BY <1>7 DEF Entries, LogEntries, EntriesOf

\* Nobody gets what it should not.
LEMMA GotIsDue ==
    ASSUME IInv
    PROVE  \A c \in Clients : got[c] \subseteq Others(c) \cap Speakers
<1>1. ASSUME NEW d \in Clients, NEW c \in got[d]
      PROVE  c \in Others(d) \cap Speakers
  <2>1. c \in Clients
    BY DEF IInv, TInv, Tables
  <2>2. d \in Others(c) /\ msg[c] \in {"loop", "done", "lost"}
    BY <2>1 DEF IInv, LoopInv
  <2>3. c \in Speakers
    BY <2>1, <2>2 DEF IInv, SignalInv
  <2>4. QED
    BY <2>1, <2>2, <2>3 DEF Others
<1>2. QED
  BY <1>1

LEMMA SilenceInv == IInv => SilenceIsTrue
<1>1. SUFFICES ASSUME IInv, Silent, groupCount = 1
               PROVE  IF rerun THEN \A c \in Clients : msg[c] # "done"
                               ELSE AllDelivered
  BY DEF SilenceIsTrue
<1>2. /\ serverLog = simultaneousUsers /\ Entries = Expected
      /\ serverLog # MISSING /\ \A c \in Clients : log[c] # MISSING
  BY <1>1 DEF IInv, ReportInv, Silent
<1>3. /\ test \in Tests /\ simultaneousUsers \in Nat
      /\ IsFiniteSet(Done) /\ Cardinality(Done) \in Nat
  BY <1>1, DoneFinite, Arguments DEF IInv, TInv, Tables
<1>4. CASE rerun
  <2>1. serverLog = 1 * simultaneousUsers + Cardinality(Done)
    BY <1>1, <1>2, <1>4 DEF IInv, ServerLogInv
  <2>2. Cardinality(Done) = 0
    BY <1>2, <1>3, <2>1
  <2>3. Done = {}
    BY <1>3, <2>2, FS_EmptySet
  <2>4. QED
    BY <1>4, <2>3 DEF Done
<1>5. CASE ~rerun
  <2>1. Cardinality(Done) = Cardinality(Speakers)
    <3>1. serverLog = 0 + Cardinality(Done)
      BY <1>1, <1>2, <1>5 DEF IInv, ServerLogInv
    <3>2. Cardinality(Speakers) = 1 * simultaneousUsers
      BY <1>1, <1>3, Counts
    <3>3. Cardinality(Done) = simultaneousUsers
      BY <1>2, <1>3, <3>1
    <3>4. Cardinality(Speakers) = simultaneousUsers
      BY <1>3, <3>2
    <3>5. QED
      BY <3>3, <3>4
  <2>2. Done \subseteq Speakers
    BY <1>1 DEF Done, IInv, SignalInv
  <2>3. Done = Speakers
    BY <1>3, <2>1, <2>2, Counts, FS_Subset
  <2>4. \A c \in Speakers : msg[c] = "done"
    BY <2>3 DEF Done
  <2> DEFINE Got == Received(Clients, got)
  <2>5. Cardinality(Got) = Cardinality(Due)
    BY <1>1, <1>2, <1>3, <1>5, <2>4, FreshEntries, DueCount
  <2>6. Got \subseteq Due
    BY <1>1, GotIsDue DEF Due, Received
  <2>7. Got = Due
    BY <1>3, <2>5, <2>6, DueCount, FS_Subset
  <2>8. ASSUME NEW d \in Clients, NEW c \in Others(d) \cap Speakers
        PROVE  c \in got[d]
    <3>1. <<d, c>> \in Due
      BY DEF Due
    <3>2. QED
      BY <2>7, <3>1 DEF Received
  <2>9. QED
    BY <1>1, <1>5, <2>8, GotIsDue DEF AllDelivered
<1>6. QED
  BY <1>4, <1>5

LEMMA ComplaintInv == IInv => ComplaintIsTrue
<1>1. SUFFICES ASSUME IInv, Reported, AllDelivered, ~rerun,
                      \A c \in Speakers : msg[c] = "done"
               PROVE  verdict = IF groupCount = 1 THEN {} ELSE {"not delivered"}
  BY DEF ComplaintIsTrue
<1>2. /\ serverLog # MISSING /\ \A c \in Clients : log[c] # MISSING
      /\ "not delivered" \in verdict <=> serverLog # simultaneousUsers
      /\ "dropped" \in verdict <=> Entries # Expected
      /\ verdict \subseteq {"not delivered", "dropped"}
  BY <1>1 DEF IInv, ReportInv, TInv, Tables
<1>3. test \in Tests /\ groupCount \in Nat \ {0}
      /\ simultaneousUsers \in Nat \ {0}
  BY <1>1, Arguments DEF IInv, TInv, Tables
<1>4. Entries = Expected
  <2>1. Received(Clients, got) = Due
    BY <1>1 DEF AllDelivered, Due, Received
  <2>2. QED
    BY <1>1, <1>2, <1>3, <2>1, FreshEntries, DueCount
<1>5. serverLog = groupCount * simultaneousUsers
  <2>1. Done = Speakers
    BY <1>1, <1>3, Counts DEF Done, IInv, SignalInv
  <2>2. serverLog = 0 + Cardinality(Done)
    BY <1>1, <1>2 DEF IInv, ServerLogInv
  <2>3. groupCount * simultaneousUsers \in Nat
    BY <1>3
  <2>4. QED
    BY <1>3, <2>1, <2>2, <2>3, Counts
<1>6. serverLog = simultaneousUsers <=> groupCount = 1
  <2>1. \A a, b \in Nat \ {0} : a * b = b <=> a = 1
    OBVIOUS
  <2>2. QED
    BY <1>3, <1>5, <2>1
<1>7. QED
  BY <1>2, <1>4, <1>6

\* README.md:39, for any numbers of groups, users and speakers: with one group
\* and no complaint, every client has logged every message meant for it; or,
\* if it appended to the logs of an earlier run, nothing at all was delivered
\* (testRig.c:264-291).
THEOREM SilenceMeansDelivered == Spec => []SilenceIsTrue
  BY Invariant, SilenceInv, PTL

\* Whoever made the server or the clients slow, or ended them: when everything
\* has arrived on fresh logs, the rig complains exactly if there is more than
\* one group, and of the server's log only (testRig.c:286).
THEOREM ComplaintsAreTrue == Spec => []ComplaintIsTrue
  BY Invariant, ComplaintInv, PTL
=============================================================================
