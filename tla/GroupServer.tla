----------------------------- MODULE GroupServer -----------------------------
(***************************************************************************)
(* The server of src/server.c and the clients of src/client.c that talk to *)
(* it: how a client joins a group, how a message travels from a client     *)
(* through its connection_handler thread, the message queue and a          *)
(* messageDeliver thread to the group's other members, and what happens    *)
(* when a client leaves.                                                   *)
(*                                                                         *)
(* A client is identified with its socket and with the handler thread that *)
(* serves it: the server creates one per connection and never closes a     *)
(* socket, so no descriptor is used twice.  The queue is the bounded FIFO  *)
(* buffer that MessageQueue implements.  One action is what a thread does  *)
(* between two points where another thread's steps could matter to it; in  *)
(* particular messageDeliver reads connectionCount and connections without *)
(* any lock, so each of its looks and each handler's store is a step.      *)
(***************************************************************************)
EXTENDS Integers, Sequences, FiniteSets

CONSTANTS Clients,            \* client processes, each connecting once
          Consumers,          \* messageDeliver threads
          GroupNames,         \* the group names clients ask for
          MAX_GROUPS,
          MAX_GROUP_SIZE,
          MESSAGE_QUEUE_SIZE,
          MaxSends,           \* bound: the messages one client sends
          SOCKET_BUFFER,      \* bound: writes a socket holds unread
          NoName,             \* the empty string, content of zeroed memory
          NoThread,           \* newConnectionLock's holder when it is free
          Nobody              \* the author of a message no client wrote

ASSUME SizeAssumption ==
  /\ MAX_GROUPS \in Nat /\ MAX_GROUP_SIZE \in Nat \ {0}
  /\ MESSAGE_QUEUE_SIZE \in Nat \ {0}
  /\ MaxSends \in Nat /\ SOCKET_BUFFER \in Nat \ {0}

ASSUME NameAssumption ==
  /\ IsFiniteSet(GroupNames) /\ NoName \notin GroupNames
  /\ Cardinality(GroupNames) < MAX_GROUPS

ASSUME ClientAssumption ==
  /\ IsFiniteSet(Clients) /\ Cardinality(Clients) <= MAX_GROUP_SIZE
  /\ {NoThread, Nobody} \cap Clients = {}

STDIN == 0   \* what a slot nobody has written holds: a file descriptor, too
LEFT == -1   \* what the handler of a departed client writes

NoGroup == -1  \* flag is still 1: no group of that name was found

ASSUME DescriptorAssumption == {STDIN, LEFT} \cap Clients = {}

Groups == 0 .. MAX_GROUPS - 1

\* The first two members of JoinResponse and of Message, in this order.
Head8 == [id : Nat, groupId : Nat]

\* struct Message; from stands for name and text.
Message == [from : Clients \cup {Nobody}, id : Nat, groupId : Nat]

\* A local of a thread whose stack is a fresh mapping: all zero.
ZeroMessage == [from |-> Nobody, id |-> 0, groupId |-> 0]

VARIABLES groupCount, groupNames, connectionCount,
          connections,       \* the slots of all groups, row after row
          newConnectionLock  \* holder of the mutex

registry ==
  <<groupCount, groupNames, connectionCount, connections, newConnectionLock>>

VARIABLES hpc,               \* connection_handler: what it does next
          request, groupId, id, message   \* and its locals

handler == <<hpc, request, groupId, id, message>>

VARIABLES messageQueue,      \* the messages stored, oldest first
          cpc,               \* messageDeliver: what it does next
          cmsg, i,           \* its locals message and i
          owed               \* history: clients its loop has still to reach

consumer == <<cpc, cmsg, i, owed>>

VARIABLES sock,              \* state of each connection, as the server has it
          joinRequest,       \* the JoinRequest on its way to the server
          toServer, toClient \* what is on its way, in order

sockets == <<sock, joinRequest, toServer, toClient>>

VARIABLES cl,                \* client: what it does next
          myId, myGroup,     \* the ids it puts in its messages
          nsent,             \* how many it has sent
          inserted,          \* history: how many its handler has enqueued
          running            \* the server process is alive

client == <<cl, myId, myGroup, nsent>>

vars == <<registry, handler, messageQueue, consumer, sockets, client,
          inserted, running>>

Slot(g, n) == g * MAX_GROUP_SIZE + n

AllSlots == 0 .. MAX_GROUPS * MAX_GROUP_SIZE - 1

Queue == INSTANCE BoundedBuffer WITH Messages <- Message,
                                     Capacity <- MESSAGE_QUEUE_SIZE,
                                     buffer <- messageQueue

HandlerStates == {"none", "request", "find", "assign", "store", "reply",
                  "read", "insert", "done"}

\* In the group's table: the slot is filled and not given up.
Registered(c) == hpc[c] \in {"reply", "read", "insert"}

\* The handler has its ids.
Assigned(c) == hpc[c] \in {"store", "reply", "read", "insert", "done"}

RegistryTypeOK ==
  /\ groupCount \in Nat
  /\ groupNames \in [Groups -> GroupNames \cup {NoName}]
  /\ connectionCount \in [Groups -> Nat]
  /\ connections \in [AllSlots -> Clients \cup {STDIN, LEFT}]
  /\ newConnectionLock \in Clients \cup {NoThread}

HandlerTypeOK ==
  /\ hpc \in [Clients -> HandlerStates]
  /\ request \in [Clients -> GroupNames \cup {NoName}]
  /\ groupId \in [Clients -> Nat \cup {NoGroup}]
  /\ id \in [Clients -> Nat]
  /\ message \in [Clients -> Message]
  /\ inserted \in [Clients -> Nat]
  /\ \A c \in Clients : Assigned(c) => groupId[c] \in Nat

DeliveryTypeOK ==
  /\ messageQueue \in Seq(Message)
  /\ cpc \in [Consumers -> {"pop", "scan", "write"}]
  /\ cmsg \in [Consumers -> Message]
  /\ i \in [Consumers -> Nat]
  /\ owed \in [Consumers -> SUBSET Clients]

SocketTypeOK ==
  /\ sock \in [Clients -> {"none", "open", "fin", "rst", "dead"}]
  /\ joinRequest \in [Clients -> GroupNames \cup {NoName}]
  /\ toServer \in [Clients -> Seq(Message)]
  /\ toClient \in [Clients -> Seq(Head8)]
  /\ running \in BOOLEAN

ClientTypeOK ==
  /\ cl \in [Clients -> {"off", "connected", "joining", "chatting", "gone"}]
  /\ myId \in [Clients -> Nat]
  /\ myGroup \in [Clients -> Nat]
  /\ nsent \in [Clients -> 0 .. MaxSends]

TypeOK ==
  /\ RegistryTypeOK
  /\ HandlerTypeOK
  /\ DeliveryTypeOK
  /\ SocketTypeOK
  /\ ClientTypeOK

Init ==
  /\ groupCount = 0
  /\ groupNames = [g \in Groups |-> NoName]
  /\ connectionCount = [g \in Groups |-> 0]
  /\ connections = [s \in AllSlots |-> STDIN]
  /\ newConnectionLock = NoThread
  /\ hpc = [c \in Clients |-> "none"]
  /\ request = [c \in Clients |-> NoName]
  /\ groupId = [c \in Clients |-> NoGroup]
  /\ id = [c \in Clients |-> 0]
  /\ message = [c \in Clients |-> ZeroMessage]
  /\ messageQueue = <<>>
  /\ cpc = [k \in Consumers |-> "pop"]
  /\ cmsg = [k \in Consumers |-> ZeroMessage]
  /\ i = [k \in Consumers |-> 0]
  /\ owed = [k \in Consumers |-> {}]
  /\ sock = [c \in Clients |-> "none"]
  /\ joinRequest = [c \in Clients |-> NoName]
  /\ toServer = [c \in Clients |-> <<>>]
  /\ toClient = [c \in Clients |-> <<>>]
  /\ cl = [c \in Clients |-> "off"]
  /\ myId = [c \in Clients |-> 0]
  /\ myGroup = [c \in Clients |-> 0]
  /\ nsent = [c \in Clients |-> 0]
  /\ inserted = [c \in Clients |-> 0]
  /\ running = TRUE

\* Nothing happens any more once the server process has ended.
ClientStep(c, from, to) ==
  /\ running
  /\ cl[c] = from
  /\ cl' = [cl EXCEPT ![c] = to]

HandlerStep(c, from, to) ==
  /\ running
  /\ hpc[c] = from
  /\ hpc' = [hpc EXCEPT ![c] = to]

LoopStep(k, from, to) ==
  /\ running
  /\ cpc[k] = from
  /\ cpc' = [cpc EXCEPT ![k] = to]

-----------------------------------------------------------------------------
(* TCP, as the kernel of the server's host shows it.  A socket is open,    *)
(* "fin" (the client closed: reads end, writes are accepted and provoke a  *)
(* reset), "rst" (reset: the next call fails once) or "dead" (reads end,   *)
(* writes raise SIGPIPE, which the server does not handle).                *)

\* write(fd, ..), where the head of what is written is h.
SocketWrite(c, h) ==
  \/ /\ sock[c] = "open"
     /\ Len(toClient[c]) < SOCKET_BUFFER
     /\ toClient' = [toClient EXCEPT ![c] = Append(@, h)]
     /\ UNCHANGED <<sock, running>>
  \/ /\ sock[c] = "fin"
     /\ \E s \in {"fin", "dead"} : sock' = [sock EXCEPT ![c] = s]
     /\ UNCHANGED <<toClient, running>>
  \/ /\ sock[c] = "rst"
     /\ sock' = [sock EXCEPT ![c] = "dead"]
     /\ UNCHANGED <<toClient, running>>
  \/ /\ sock[c] = "dead"
     /\ running' = FALSE
     /\ UNCHANGED <<sock, toClient>>

-----------------------------------------------------------------------------
(* The client.                                                              *)

\* connect(): the listen backlog takes the connection before accept does.
Connect(c) ==
  /\ ClientStep(c, "off", "connected")
  /\ sock' = [sock EXCEPT ![c] = "open"]
  /\ UNCHANGED <<registry, handler, messageQueue, consumer, joinRequest,
                 toServer, toClient, myId, myGroup, nsent, inserted, running>>

SendJoin(c) ==
  /\ ClientStep(c, "connected", "joining")
  /\ \E n \in GroupNames : joinRequest' = [joinRequest EXCEPT ![c] = n]
  /\ UNCHANGED <<registry, handler, messageQueue, consumer, sock, toServer,
                 toClient, myId, myGroup, nsent, inserted, running>>

\* read(sd, &response, ..): the first eight bytes, whatever they belong to.
ReadResponse(c) ==
  /\ ClientStep(c, "joining", "chatting")
  /\ toClient[c] # <<>>
  /\ myId' = [myId EXCEPT ![c] = Head(toClient[c]).id]
  /\ myGroup' = [myGroup EXCEPT ![c] = Head(toClient[c]).groupId]
  /\ toClient' = [toClient EXCEPT ![c] = Tail(@)]
  /\ UNCHANGED <<registry, handler, messageQueue, consumer, sock, joinRequest,
                 toServer, nsent, inserted, running>>

\* The hello message and the user's lines.
Send(c) ==
  /\ ClientStep(c, "chatting", "chatting")
  /\ nsent[c] < MaxSends
  /\ nsent' = [nsent EXCEPT ![c] = @ + 1]
  /\ toServer' = [toServer EXCEPT ![c] =
       Append(@, [from |-> c, id |-> myId[c], groupId |-> myGroup[c]])]
  /\ UNCHANGED <<registry, handler, messageQueue, consumer, sock, joinRequest,
                 toClient, myId, myGroup, inserted, running>>

\* The receiver thread prints and measures; neither changes what is modelled.
Receive(c) ==
  /\ ClientStep(c, "chatting", "chatting")
  /\ toClient[c] # <<>>
  /\ toClient' = [toClient EXCEPT ![c] = Tail(@)]
  /\ UNCHANGED <<registry, handler, messageQueue, consumer, sock, joinRequest,
                 toServer, myId, myGroup, nsent, inserted, running>>

\* The process ends.  Closing with unread data resets the connection; data
\* still under way meets a closed socket, and the reset comes a little later.
Exit(c) ==
  /\ \E from \in {"connected", "joining", "chatting"} :
       ClientStep(c, from, "gone")
  /\ \E s \in IF toClient[c] = <<>> THEN {"fin"} ELSE {"rst", "fin", "dead"} :
       sock' = [sock EXCEPT ![c] = s]
  /\ toClient' = [toClient EXCEPT ![c] = <<>>]
  /\ UNCHANGED <<registry, handler, messageQueue, consumer, joinRequest,
                 toServer, myId, myGroup, nsent, inserted, running>>

-----------------------------------------------------------------------------
(* main: accept a connection and create its handler thread.                 *)

Accept(c) ==
  /\ HandlerStep(c, "none", "request")
  /\ sock[c] # "none"
  /\ UNCHANGED <<registry, request, groupId, id, message, messageQueue,
                 consumer, sockets, client, inserted, running>>

-----------------------------------------------------------------------------
(* connection_handler.                                                      *)

\* A client that left before it asked: read returns 0, which nobody tests,
\* and request keeps the zeros of its stack.
ReadRequest(c) ==
  /\ HandlerStep(c, "request", "find")
  /\ joinRequest[c] # NoName \/ sock[c] # "open"
  /\ request' = [request EXCEPT ![c] = joinRequest[c]]
  /\ joinRequest' = [joinRequest EXCEPT ![c] = NoName]
  /\ UNCHANGED <<registry, groupId, id, message, messageQueue, consumer, sock,
                 toServer, toClient, client, inserted, running>>

\* The groups of that name among the first groupCount.
Matching(n) == {g \in Groups : g < groupCount /\ groupNames[g] = n}

\* Where the search stops.
FirstMatch(n) ==
  IF Matching(n) = {} THEN {NoGroup}
  ELSE {g \in Matching(n) : \A h \in Matching(n) : g <= h}

\* The lock is taken only once the search has failed.
FindGroup_NoLock(c) ==
  /\ HandlerStep(c, "find", "assign")
  /\ \E g \in FirstMatch(request[c]) : groupId' = [groupId EXCEPT ![c] = g]
  /\ UNCHANGED <<registry, request, id, message, messageQueue,
                 consumer, sockets, client, inserted, running>>

\* Take newConnectionLock and look the name up: the first match, if any.
FindGroup(c) ==
  /\ HandlerStep(c, "find", "assign")
  /\ newConnectionLock = NoThread
  /\ newConnectionLock' = c
  /\ \E g \in FirstMatch(request[c]) : groupId' = [groupId EXCEPT ![c] = g]
  /\ UNCHANGED <<groupCount, groupNames, connectionCount, connections, request,
                 id, message, messageQueue, consumer, sockets, client,
                 inserted, running>>

\* The new group's number stays a local of the branch: groupId = i is missing.
AssignId_ForgetsGroup(c) ==
  LET new == groupId[c] = NoGroup
      g == IF new THEN groupCount ELSE groupId[c]
  IN /\ HandlerStep(c, "assign", "store")
     /\ groupCount' = IF new THEN groupCount + 1 ELSE groupCount
     /\ groupNames' = IF new THEN [groupNames EXCEPT ![g] = request[c]]
                             ELSE groupNames
     /\ id' = [id EXCEPT ![c] = connectionCount[g]]
     /\ connectionCount' = [connectionCount EXCEPT ![g] = @ + 1]
     /\ UNCHANGED <<connections, newConnectionLock, request, groupId, message,
                    messageQueue, consumer, sockets, client, inserted,
                    running>>

\* Append the group if it was not found; the id is the old connectionCount.
AssignId(c) ==
  LET new == groupId[c] = NoGroup
      g == IF new THEN groupCount ELSE groupId[c]
  IN /\ HandlerStep(c, "assign", "store")
     /\ groupCount' = IF new THEN groupCount + 1 ELSE groupCount
     /\ groupNames' = IF new THEN [groupNames EXCEPT ![g] = request[c]]
                             ELSE groupNames
     /\ groupId' = [groupId EXCEPT ![c] = g]
     /\ id' = [id EXCEPT ![c] = connectionCount[g]]
     /\ connectionCount' = [connectionCount EXCEPT ![g] = @ + 1]
     /\ UNCHANGED <<connections, newConnectionLock, request, message,
                    messageQueue, consumer, sockets, client, inserted,
                    running>>

\* Returns from the critical section without unlocking.
StoreConnection_NoUnlock(c) ==
  /\ HandlerStep(c, "store", "reply")
  /\ connections' = [connections EXCEPT ![Slot(groupId[c], id[c])] = c]
  /\ UNCHANGED <<groupCount, groupNames, connectionCount, newConnectionLock,
                 request, groupId, id, message, messageQueue, consumer,
                 sockets, client, inserted, running>>

\* connections[groupId][id] = nsfd, and unlock.
StoreConnection(c) ==
  /\ HandlerStep(c, "store", "reply")
  /\ connections' = [connections EXCEPT ![Slot(groupId[c], id[c])] = c]
  /\ newConnectionLock' = NoThread
  /\ UNCHANGED <<groupCount, groupNames, connectionCount, request, groupId, id,
                 message, messageQueue, consumer, sockets, client, inserted,
                 running>>

\* The response names the youngest group, read after the unlock.
Reply_YoungestGroup(c) ==
  /\ HandlerStep(c, "reply", "read")
  /\ SocketWrite(c, [id |-> id[c], groupId |-> groupCount - 1])
  /\ UNCHANGED <<registry, request, groupId, id, message, messageQueue,
                 consumer, joinRequest, toServer, client, inserted>>

Reply(c) ==
  /\ HandlerStep(c, "reply", "read")
  /\ SocketWrite(c, [id |-> id[c], groupId |-> groupId[c]])
  /\ UNCHANGED <<registry, request, groupId, id, message, messageQueue,
                 consumer, joinRequest, toServer, client, inserted>>

ReadMessage(c) ==
  /\ HandlerStep(c, "read", "insert")
  /\ toServer[c] # <<>>
  /\ message' = [message EXCEPT ![c] = Head(toServer[c])]
  /\ toServer' = [toServer EXCEPT ![c] = Tail(@)]
  /\ UNCHANGED <<registry, request, groupId, id, messageQueue, consumer, sock,
                 joinRequest, toClient, client, inserted, running>>

\* The thread returns on an error, past the line that gives the slot up.
ReadReset_Returns(c) ==
  /\ HandlerStep(c, "read", "done")
  /\ toServer[c] = <<>>
  /\ sock[c] = "rst"
  /\ sock' = [sock EXCEPT ![c] = "dead"]
  /\ UNCHANGED <<registry, request, groupId, id, message, messageQueue,
                 consumer, joinRequest, toServer, toClient, client, inserted,
                 running>>

\* read fails with ECONNRESET: -1 is true, and message is what it was.
ReadReset(c) ==
  /\ HandlerStep(c, "read", "insert")
  /\ toServer[c] = <<>>
  /\ sock[c] = "rst"
  /\ sock' = [sock EXCEPT ![c] = "dead"]
  /\ UNCHANGED <<registry, request, groupId, id, message, messageQueue,
                 consumer, joinRequest, toServer, toClient, client, inserted,
                 running>>

\* MessageQueue shows how: the thread waits while the queue is full.
Insert(c) ==
  /\ HandlerStep(c, "insert", "read")
  /\ Queue!Put(message[c])
  /\ inserted' = [inserted EXCEPT ![c] = @ + 1]
  /\ UNCHANGED <<registry, request, groupId, id, message, consumer, sockets,
                 client, running>>

\* A departed client's id goes to the next one who joins.
Leave_Recycles(c) ==
  /\ HandlerStep(c, "read", "done")
  /\ toServer[c] = <<>>
  /\ sock[c] \in {"fin", "dead"}
  /\ connections' = [connections EXCEPT ![Slot(groupId[c], id[c])] = LEFT]
  /\ connectionCount' = [connectionCount EXCEPT ![groupId[c]] = @ - 1]
  /\ owed' = [k \in Consumers |-> owed[k] \ {c}]
  /\ UNCHANGED <<groupCount, groupNames, newConnectionLock,
                 request, groupId, id, message, messageQueue, cpc, cmsg, i,
                 sockets, client, inserted, running>>

\* The hang-up is noticed before what was sent ahead of it is read.
Leave_AtOnce(c) ==
  /\ HandlerStep(c, "read", "done")
  /\ sock[c] \in {"fin", "dead"}
  /\ connections' = [connections EXCEPT ![Slot(groupId[c], id[c])] = LEFT]
  /\ owed' = [k \in Consumers |-> owed[k] \ {c}]
  /\ UNCHANGED <<groupCount, groupNames, connectionCount, newConnectionLock,
                 request, groupId, id, message, messageQueue, cpc, cmsg, i,
                 sockets, client, inserted, running>>

\* read returns 0: the slot is given up, without newConnectionLock, and the
\* thread ends.  Neither the socket nor the id is ever used again.
Leave(c) ==
  /\ HandlerStep(c, "read", "done")
  /\ toServer[c] = <<>>
  /\ sock[c] \in {"fin", "dead"}
  /\ connections' = [connections EXCEPT ![Slot(groupId[c], id[c])] = LEFT]
  /\ owed' = [k \in Consumers |-> owed[k] \ {c}]
  /\ UNCHANGED <<groupCount, groupNames, connectionCount, newConnectionLock,
                 request, groupId, id, message, messageQueue, cpc, cmsg, i,
                 sockets, client, inserted, running>>

-----------------------------------------------------------------------------
(* messageDeliver.                                                          *)

\* Pop a message and start the loop over its group.
Pop(k) ==
  /\ LoopStep(k, "pop", "scan")
  /\ Queue!Get
  /\ LET m == Head(messageQueue) IN
       /\ cmsg' = [cmsg EXCEPT ![k] = m]
       /\ owed' = [owed EXCEPT ![k] =
            {c \in Clients : Registered(c) /\ groupId[c] = m.groupId
                                           /\ id[c] # m.id}]
  /\ i' = [i EXCEPT ![k] = 0]
  /\ UNCHANGED <<registry, handler, sockets, client, inserted, running>>

\* The slot the loop of thread k has come to.
Current(k) == connections[Slot(cmsg[k].groupId, i[k])]

\* The last slot of the group is forgotten.
More_OffByOne(k) == i[k] + 1 < connectionCount[cmsg[k].groupId]

More(k) == i[k] < connectionCount[cmsg[k].groupId]

\* A continue in the loop's body that jumps over the increment.
Skip_Continue(k) ==
  /\ LoopStep(k, "scan", "scan")
  /\ More(k)
  /\ Current(k) = LEFT \/ i[k] = cmsg[k].id
  /\ i' = i
  /\ UNCHANGED <<registry, handler, messageQueue, cmsg, owed, sockets,
                 client, inserted, running>>

\* Nobody is there any more, or it is the author's slot.
Skip(k) ==
  /\ LoopStep(k, "scan", "scan")
  /\ More(k)
  /\ Current(k) = LEFT \/ i[k] = cmsg[k].id
  /\ i' = [i EXCEPT ![k] = @ + 1]
  /\ UNCHANGED <<registry, handler, messageQueue, cmsg, owed, sockets,
                 client, inserted, running>>

Take(k) ==
  /\ LoopStep(k, "scan", "write")
  /\ More(k)
  /\ Current(k) # LEFT /\ i[k] # cmsg[k].id
  /\ UNCHANGED <<registry, handler, messageQueue, cmsg, i, owed, sockets,
                 client, inserted, running>>

\* The slot is read again for the call.  A descriptor that is not a client's
\* (-1, or 0: the standard input) changes nothing that is modelled.
Write(k) ==
  /\ LoopStep(k, "write", "scan")
  /\ IF Current(k) \in Clients
       THEN SocketWrite(Current(k), [id |-> cmsg[k].id,
                                     groupId |-> cmsg[k].groupId])
       ELSE UNCHANGED <<sock, toClient, running>>
  /\ i' = [i EXCEPT ![k] = @ + 1]
  /\ owed' = [owed EXCEPT ![k] = @ \ {Current(k)}]
  /\ UNCHANGED <<registry, handler, messageQueue, cmsg, joinRequest, toServer,
                 client, inserted>>

\* The loop ends; the locals are dead until the next pop.
Finish(k) ==
  /\ LoopStep(k, "scan", "pop")
  /\ ~More(k)
  /\ cmsg' = [cmsg EXCEPT ![k] = ZeroMessage]
  /\ i' = [i EXCEPT ![k] = 0]
  /\ UNCHANGED <<registry, handler, messageQueue, owed, sockets, client,
                 inserted, running>>

-----------------------------------------------------------------------------

Client(c) ==
  Connect(c) \/ SendJoin(c) \/ ReadResponse(c) \/ Send(c) \/ Receive(c)
    \/ Exit(c)

Handler(c) ==
  Accept(c) \/ ReadRequest(c) \/ FindGroup(c) \/ AssignId(c)
    \/ StoreConnection(c) \/ Reply(c) \/ ReadMessage(c) \/ ReadReset(c)
    \/ Insert(c) \/ Leave(c)

Consumer(k) == Pop(k) \/ Skip(k) \/ Take(k) \/ Write(k) \/ Finish(k)

Next ==
  \/ \E c \in Clients : Client(c) \/ Handler(c)
  \/ \E k \in Consumers : Consumer(k)

Spec == Init /\ [][Next]_vars

(***************************************************************************)
(* The server's threads keep running, and so do a client's first read and  *)
(* its receiver thread, which read whatever comes.  Weak fairness is       *)
(* enough for the mutex and for the full queue: each handler takes         *)
(* newConnectionLock once and the messages are finitely many, so that both *)
(* stay free in the end.  When a client connects, sends or leaves is up to *)
(* its user.                                                               *)
(***************************************************************************)
Fairness ==
  /\ \A c \in Clients :
       WF_vars(Handler(c)) /\ WF_vars(ReadResponse(c) \/ Receive(c))
  /\ \A k \in Consumers : WF_vars(Consumer(k))

FairSpec == Spec /\ Fairness

-----------------------------------------------------------------------------
(* Properties.                                                              *)

\* From the moment a handler has stored its client's socket until it gives
\* the slot up, that slot is this client's: whoever joins or leaves meanwhile,
\* no other handler overwrites or clears it.
SlotOwnership ==
  \A c \in Clients :
    Registered(c) => connections[Slot(groupId[c], id[c])] = c

\* Two clients are in the same group exactly when they asked for the same
\* name, also when they ask at the same time for a group that does not exist.
GroupsAreByName ==
  \A c, d \in Clients :
    Assigned(c) /\ Assigned(d)
      => (groupId[c] = groupId[d] <=> request[c] = request[d])

\* A message a client wrote is only ever written to clients who asked for the
\* group its author asked for, although it carries a group id that the author
\* took from the first bytes it received and that the server never checks.
GroupIsolation ==
  \A k \in Consumers :
    cpc[k] = "write" /\ Current(k) \in Clients /\ cmsg[k].from \in Clients
      => request[Current(k)] = request[cmsg[k].from]

\* The delivery loop passes over nobody: when it ends, every client that was
\* in the group when the message was popped has been written to or has been
\* found gone, although joins and leaves change the table under the loop.
FanOutComplete ==
  \A k \in Consumers : cpc[k] = "pop" \/ ~More(k) => owed[k] = {}

\* Everything that was sent is delivered in the end: again and again the
\* queue is empty and no delivery loop is under way, whatever handlers and
\* consumers wait for (a full queue, a client that does not read).
Drained ==
  []<>(running => messageQueue = <<>> /\ \A k \in Consumers : cpc[k] = "pop")

InTable(c) == \E s \in AllSlots : connections[s] = c

\* A client that has left does not stay in its group's table: its handler
\* gets through what the client had sent, notices and clears the slot.
LeaversForgotten ==
  \A c \in Clients :
    cl[c] = "gone" /\ InTable(c) ~> (running => ~InTable(c))

\* What a client has sent is enqueued in the end, also if it leaves at once.
SentIsEnqueued ==
  \A c \in Clients :
    inserted[c] < nsent[c] ~> (running => inserted[c] >= nsent[c])

\* A client that asks to join gets an answer, unless it gives up.
JoinAnswered ==
  \A c \in Clients : cl[c] = "joining" ~> (running => cl[c] # "joining")

\* README.md:48 "Mutex locking is used when assigning group and user id to
\* ensure thread safety": messageDeliver never writes to a slot that has been
\* counted but not stored yet, and so holds 0, the standard input.
NoStrayWrite == \A k \in Consumers : cpc[k] = "write" => Current(k) # STDIN

\* server.c:215 "Reply to client about the new connection": the ids a client
\* takes from its first read are those its handler assigned.
AdoptsAssignedId ==
  \A c \in Clients :
    cl[c] = "chatting" => myId[c] = id[c] /\ myGroup[c] = groupId[c]

\* README.md:51 "When a client sends a message to server, the server enqueues
\* the message": each message once, and none that was not sent.
EnqueuedOnce == \A c \in Clients : inserted[c] <= nsent[c]

\* README.md:42 "All programs do appropriate error handling [...] and handles
\* exits gracefully": no client's departure ends the server.
ServerOutlivesClients == running
=============================================================================
