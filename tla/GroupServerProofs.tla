-------------------------- MODULE GroupServerProofs --------------------------
(***************************************************************************)
(* Theorems about GroupServer for any finite set of clients, any consumers *)
(* and any table sizes the assumptions allow.                              *)
(*                                                                         *)
(* The inductive invariant has three parts.  TypeOK bounds nothing; that   *)
(* every index the handlers use exists is shown from RegistryInv: distinct *)
(* group names and unique ids are injections from what is in use to the    *)
(* names and to the clients, so a handler that is about to create a group  *)
(* or to count an id finds room for it (RoomForGroup, RoomForMember).      *)
(* SlotsTrue says that the table of connections and the handlers' ids are  *)
(* two views of the same relation; it needs Slot to be injective on what   *)
(* is in use (SlotInjective, OwnSlot).                                     *)
(*                                                                         *)
(* What is delivered comes on top of it: messages stay in the group of     *)
(* their author, and a delivery loop passes over nobody.  The first rests  *)
(* on following group ids around: from the table to the client (HeadsOwn:  *)
(* all that is on its way to a client begins with its own group), into     *)
(* what the client stamps on its messages (IdsAdopted), through the        *)
(* sockets and the queue to the loops (MessagesAuthentic), and from there  *)
(* back to the table.  The second rests on who is owed a message having an *)
(* index the loop has not passed yet (OwedAhead).                          *)
(***************************************************************************)
EXTENDS GroupServer, FiniteSetTheorems, SequenceTheorems, TLAPS

-----------------------------------------------------------------------------
(* The inductive invariant.                                                 *)

\* A handler is between look-up and store iff it holds newConnectionLock.
LockHolder ==
  \A c \in Clients : hpc[c] \in {"assign", "store"} <=> newConnectionLock = c

UsedGroups == 0 .. groupCount - 1

\* No name twice, so no more groups than names.
NamesDistinct ==
  /\ groupCount <= MAX_GROUPS
  /\ \A g, h \in UsedGroups : groupNames[g] = groupNames[h] => g = h

\* What the search found is still so when the lock's holder uses it.
SearchResult ==
  \A c \in Clients : hpc[c] = "assign" =>
    \/ groupId[c] = NoGroup /\ \A g \in UsedGroups : groupNames[g] # request[c]
    \/ groupId[c] \in UsedGroups /\ groupNames[groupId[c]] = request[c]

\* Members are in the group of their name, with an id that was counted.
MembersCounted ==
  \A c \in Clients : Assigned(c) =>
    /\ groupId[c] \in UsedGroups
    /\ groupNames[groupId[c]] = request[c]
    /\ id[c] < connectionCount[groupId[c]]

IdsUnique ==
  \A c, d \in Clients :
    Assigned(c) /\ Assigned(d) /\ groupId[c] = groupId[d] /\ id[c] = id[d]
      => c = d

\* Each id that was counted is somebody's, so no more ids than clients.
IdsUsed ==
  \A g \in Groups :
    /\ connectionCount[g] <= MAX_GROUP_SIZE
    /\ \A n \in 0 .. connectionCount[g] - 1 :
         \E c \in Clients : Assigned(c) /\ groupId[c] = g /\ id[c] = n

RegistryInv ==
  /\ LockHolder /\ NamesDistinct /\ SearchResult
  /\ MembersCounted /\ IdsUnique /\ IdsUsed

-----------------------------------------------------------------------------
(* The tables are large enough: every index the handlers use exists.        *)

\* A name that is not among the used groups leaves room for its group.
LEMMA RoomForGroup ==
  ASSUME TypeOK, NamesDistinct, NEW n \in GroupNames \cup {NoName},
         \A g \in UsedGroups : groupNames[g] # n
  PROVE  groupCount \in Groups
<1> DEFINE Names == (GroupNames \cup {NoName}) \ {n}
           f == [g \in UsedGroups |-> groupNames[g]]
<1>1. groupCount \in Nat /\ groupCount <= MAX_GROUPS /\ MAX_GROUPS \in Nat
      /\ groupNames \in [Groups -> GroupNames \cup {NoName}]
  BY SizeAssumption DEF TypeOK, RegistryTypeOK, NamesDistinct
<1>2. IsFiniteSet(Names) /\ Cardinality(Names) = Cardinality(GroupNames)
      /\ Cardinality(GroupNames) \in Nat
  <2> DEFINE All == GroupNames \cup {NoName}
  <2>1. IsFiniteSet(GroupNames) /\ Cardinality(GroupNames) \in Nat
    BY NameAssumption, FS_CardinalityType
  <2>2. IsFiniteSet(All) /\ Cardinality(All) = Cardinality(GroupNames) + 1
    BY <2>1, NameAssumption, FS_AddElement
  <2>3. n \in All
    OBVIOUS
  <2> HIDE DEF All
  <2>4. IsFiniteSet(All \ {n}) /\ Cardinality(All \ {n}) = Cardinality(All) - 1
    BY <2>2, <2>3, FS_RemoveElement
  <2> QED
    BY <2>1, <2>2, <2>4 DEF All
<1>3. f \in Injection(UsedGroups, Names)
  <2>1. f \in [UsedGroups -> Names]
    BY <1>1 DEF UsedGroups, Groups
  <2>2. \A g, h \in UsedGroups : f[g] = f[h] => g = h
    BY DEF NamesDistinct
  <2> QED
    BY <2>1, <2>2 DEF Injection, IsInjective
<1>4. Cardinality(UsedGroups) <= Cardinality(Names)
  <2> HIDE DEF Names, f
  <2> QED
    BY <1>2, <1>3, FS_Injection
<1>5. Cardinality(UsedGroups) = groupCount
  BY <1>1, FS_Interval DEF UsedGroups
<1> QED
  BY <1>1, <1>2, <1>4, <1>5, NameAssumption DEF Groups

\* As long as a client has no id, a row has room for one.
LEMMA RoomForMember ==
  ASSUME TypeOK, IdsUsed, NEW c \in Clients, ~Assigned(c), NEW g \in Groups
  PROVE  connectionCount[g] < MAX_GROUP_SIZE
<1> DEFINE Ids == 0 .. connectionCount[g] - 1
           Others == Clients \ {c}
           Owner(n, d) == Assigned(d) /\ groupId[d] = g /\ id[d] = n
           f == [n \in Ids |-> CHOOSE d \in Clients : Owner(n, d)]
<1>1. connectionCount[g] \in Nat
  BY DEF TypeOK, RegistryTypeOK
<1>2. \A n \in Ids : f[n] \in Clients /\ Owner(n, f[n])
  BY DEF IdsUsed
<1>3. f \in Injection(Ids, Others)
  <2>1. f = [n \in Ids |-> f[n]]
    OBVIOUS
  <2> HIDE DEF f
  <2>2. \A n \in Ids : f[n] \in Others /\ id[f[n]] = n
    BY <1>2
  <2>3. f \in [Ids -> Others]
    BY <2>1, <2>2
  <2>4. \A n, m \in Ids : f[n] = f[m] => n = m
    BY <2>2
  <2> QED
    BY <2>3, <2>4 DEF Injection, IsInjective
<1>4. IsFiniteSet(Others) /\ Cardinality(Others) = Cardinality(Clients) - 1
      /\ Cardinality(Clients) \in Nat
  BY ClientAssumption, FS_RemoveElement, FS_CardinalityType
<1>5. Cardinality(Ids) <= Cardinality(Others)
  <2> HIDE DEF Ids, Others, f
  <2> QED
    BY <1>3, <1>4, FS_Injection
<1>6. Cardinality(Ids) = connectionCount[g]
  BY <1>1, FS_Interval
<1> QED
  BY <1>1, <1>4, <1>5, <1>6, ClientAssumption, SizeAssumption

\* The group a handler is about to use.
Target(c) == IF groupId[c] = NoGroup THEN groupCount ELSE groupId[c]

LEMMA TargetExists ==
  ASSUME TypeOK, RegistryInv, NEW c \in Clients, hpc[c] = "assign"
  PROVE  /\ Target(c) \in Groups
         /\ connectionCount[Target(c)] < MAX_GROUP_SIZE
         /\ connectionCount[Target(c)] \in Nat
<1>1. Target(c) \in Groups
  <2>1. CASE groupId[c] = NoGroup
    <3>1. \A g \in UsedGroups : groupNames[g] # request[c]
      BY <2>1, SizeAssumption DEF RegistryInv, SearchResult, UsedGroups, NoGroup
    <3>2. request[c] \in GroupNames \cup {NoName}
      BY DEF TypeOK, HandlerTypeOK
    <3> QED
      BY <2>1, <3>1, <3>2, RoomForGroup DEF RegistryInv, Target
  <2>2. CASE groupId[c] # NoGroup
    BY <2>2, SizeAssumption
       DEF RegistryInv, SearchResult, NamesDistinct, UsedGroups, Groups,
           Target, TypeOK, RegistryTypeOK
  <2> QED
    BY <2>1, <2>2
<1>2. ~Assigned(c)
  BY DEF Assigned
<1> QED
  BY <1>1, <1>2, RoomForMember DEF RegistryInv, TypeOK, RegistryTypeOK

-----------------------------------------------------------------------------
(* Type correctness.                                                        *)

LEMMA InitTypeOK == Init => TypeOK
BY SizeAssumption
   DEF Init, TypeOK, RegistryTypeOK, HandlerTypeOK, DeliveryTypeOK,
       SocketTypeOK, ClientTypeOK, HandlerStates, Message, ZeroMessage,
       Assigned

\* The zeroed local is a message.
LEMMA ZeroIsMessage == ZeroMessage \in Message
BY DEF ZeroMessage, Message

\* A write to a socket adds to what is on its way or changes its state.
LEMMA WriteTypeOK ==
  ASSUME SocketTypeOK, NEW c \in Clients, NEW h \in Head8, SocketWrite(c, h),
         UNCHANGED <<joinRequest, toServer>>
  PROVE  SocketTypeOK'
<1>1. Append(toClient[c], h) \in Seq(Head8)
  BY AppendProperties DEF SocketTypeOK
<1>2. toClient' \in [Clients -> Seq(Head8)]
  BY <1>1 DEF SocketWrite, SocketTypeOK
<1>3. sock' \in [Clients -> {"none", "open", "fin", "rst", "dead"}]
  BY DEF SocketWrite, SocketTypeOK
<1>4. running' \in BOOLEAN
  BY DEF SocketWrite, SocketTypeOK
<1> QED
  BY <1>2, <1>3, <1>4 DEF SocketTypeOK

\* The parts of the type invariant depend on the variables they name.
LEMMA TypeUnchanged ==
  /\ RegistryTypeOK /\ UNCHANGED registry => RegistryTypeOK'
  /\ HandlerTypeOK /\ UNCHANGED <<handler, inserted>> => HandlerTypeOK'
  /\ DeliveryTypeOK /\ UNCHANGED <<messageQueue, consumer>> => DeliveryTypeOK'
  /\ SocketTypeOK /\ UNCHANGED <<sockets, running>> => SocketTypeOK'
  /\ ClientTypeOK /\ UNCHANGED client => ClientTypeOK'
<1>1. RegistryTypeOK /\ UNCHANGED registry => RegistryTypeOK'
  BY DEF RegistryTypeOK, registry
<1>2. HandlerTypeOK /\ UNCHANGED <<handler, inserted>> => HandlerTypeOK'
  BY DEF HandlerTypeOK, handler, Assigned
<1>3. DeliveryTypeOK /\ UNCHANGED <<messageQueue, consumer>> => DeliveryTypeOK'
  BY DEF DeliveryTypeOK, consumer
<1>4. SocketTypeOK /\ UNCHANGED <<sockets, running>> => SocketTypeOK'
  BY DEF SocketTypeOK, sockets
<1>5. ClientTypeOK /\ UNCHANGED client => ClientTypeOK'
  BY DEF ClientTypeOK, client
<1> QED
  BY <1>1, <1>2, <1>3, <1>4, <1>5

LEMMA StepTypeOK == TypeOK /\ RegistryInv /\ [Next]_vars => TypeOK'
<1> SUFFICES ASSUME TypeOK, RegistryInv, [Next]_vars PROVE TypeOK'
  OBVIOUS
<1>a. /\ RegistryTypeOK /\ HandlerTypeOK /\ DeliveryTypeOK
      /\ SocketTypeOK /\ ClientTypeOK
  BY DEF TypeOK
<1>1. ASSUME NEW c \in Clients, Client(c) PROVE TypeOK'
  <2>1. RegistryTypeOK' /\ HandlerTypeOK' /\ DeliveryTypeOK'
    <3>1. UNCHANGED <<registry, handler, inserted, messageQueue, consumer>>
      BY <1>1
         DEF Client, Connect, SendJoin, ReadResponse, Send, Receive, Exit
    <3> QED
      BY <3>1, <1>a, TypeUnchanged
  <2>2. SocketTypeOK' /\ ClientTypeOK'
    <3> USE DEF SocketTypeOK, ClientTypeOK, ClientStep
    <3>1. CASE Connect(c)
      BY <3>1, <1>a DEF Connect
    <3>2. CASE SendJoin(c)
      BY <3>2, <1>a DEF SendJoin
    <3>3. CASE ReadResponse(c)
      <4>1. Head(toClient[c]) \in Head8 /\ Tail(toClient[c]) \in Seq(Head8)
        BY <3>3, <1>a, HeadTailProperties DEF ReadResponse
      <4> QED
        BY <3>3, <4>1, <1>a DEF ReadResponse, Head8
    <3>4. CASE Send(c)
      <4> DEFINE m == [from |-> c, id |-> myId[c], groupId |-> myGroup[c]]
      <4>1. m \in Message
        BY <1>a DEF Message
      <4>2. Append(toServer[c], m) \in Seq(Message)
        BY <4>1, <1>a, AppendProperties
      <4>3. nsent[c] + 1 \in 0 .. MaxSends
        BY <3>4, <1>a, SizeAssumption DEF Send
      <4> HIDE DEF m
      <4>4. nsent' = [nsent EXCEPT ![c] = nsent[c] + 1]
            /\ toServer' = [toServer EXCEPT ![c] = Append(toServer[c], m)]
        BY <3>4 DEF Send, m
      <4> QED
        BY <3>4, <4>2, <4>3, <4>4, <1>a DEF Send
    <3>5. CASE Receive(c)
      <4>1. Tail(toClient[c]) \in Seq(Head8)
        BY <3>5, <1>a, HeadTailProperties DEF Receive
      <4> QED
        BY <3>5, <4>1, <1>a DEF Receive
    <3>6. CASE Exit(c)
      BY <3>6, <1>a DEF Exit
    <3> QED
      BY <1>1, <3>1, <3>2, <3>3, <3>4, <3>5, <3>6 DEF Client
  <2> QED
    BY <2>1, <2>2 DEF TypeOK
<1>2. ASSUME NEW c \in Clients, Handler(c) PROVE TypeOK'
  <2>1. ClientTypeOK'
    <3>1. UNCHANGED client
      BY <1>2 DEF Handler, Accept, ReadRequest, FindGroup, AssignId,
           StoreConnection, Reply, ReadMessage, ReadReset, Insert, Leave
    <3> QED
      BY <3>1, <1>a, TypeUnchanged
  <2>2. RegistryTypeOK'
    <3> USE <1>a DEF RegistryTypeOK
    <3>1. CASE FindGroup(c)
      BY <3>1 DEF FindGroup
    <3>2. CASE AssignId(c)
      <4>1. Target(c) \in Groups /\ connectionCount[Target(c)] \in Nat
        BY <3>2, TargetExists DEF AssignId, HandlerStep
      <4> QED
        BY <3>2, <4>1, SizeAssumption
           DEF AssignId, HandlerTypeOK, Target, Groups
    <3>3. CASE StoreConnection(c)
      BY <3>3 DEF StoreConnection
    <3>4. CASE Leave(c)
      BY <3>4 DEF Leave
    <3>5. CASE UNCHANGED registry
      BY <3>5, TypeUnchanged
    <3> QED
      BY <1>2, <3>1, <3>2, <3>3, <3>4, <3>5
         DEF Handler, Accept, ReadRequest, Reply, ReadMessage, ReadReset,
             Insert
  <2>3. HandlerTypeOK'
    <3> USE <1>a DEF HandlerTypeOK, HandlerStep, HandlerStates, Assigned
    <3>1. CASE Accept(c)
      BY <3>1 DEF Accept
    <3>2. CASE ReadRequest(c)
      BY <3>2 DEF ReadRequest, SocketTypeOK
    <3>3. CASE FindGroup(c)
      BY <3>3, SizeAssumption DEF FindGroup, FirstMatch, Matching, Groups
    <3>4. CASE AssignId(c)
      <4>1. Target(c) \in Groups /\ connectionCount[Target(c)] \in Nat
        BY <3>4, TargetExists DEF AssignId
      <4>2. groupId' = [groupId EXCEPT ![c] = Target(c)]
            /\ id' = [id EXCEPT ![c] = connectionCount[Target(c)]]
        BY <3>4 DEF AssignId, Target
      <4> QED
        BY <3>4, <4>1, <4>2, SizeAssumption DEF AssignId, Groups
    <3>5. CASE StoreConnection(c)
      BY <3>5 DEF StoreConnection
    <3>6. CASE Reply(c)
      BY <3>6 DEF Reply
    <3>7. CASE ReadMessage(c)
      BY <3>7, HeadTailProperties DEF ReadMessage, SocketTypeOK
    <3>8. CASE ReadReset(c)
      BY <3>8 DEF ReadReset
    <3>9. CASE Insert(c)
      BY <3>9 DEF Insert
    <3>10. CASE Leave(c)
      BY <3>10 DEF Leave
    <3> QED
      BY <1>2, <3>1, <3>2, <3>3, <3>4, <3>5, <3>6, <3>7, <3>8, <3>9, <3>10
         DEF Handler
  <2>4. DeliveryTypeOK'
    <3> USE <1>a DEF DeliveryTypeOK
    <3>1. CASE Insert(c)
      BY <3>1, AppendProperties
         DEF Insert, Queue!Put, HandlerTypeOK, consumer
    <3>2. CASE Leave(c)
      BY <3>2 DEF Leave
    <3>3. CASE UNCHANGED <<messageQueue, consumer>>
      BY <3>3, TypeUnchanged
    <3> QED
      BY <1>2, <3>1, <3>2, <3>3
         DEF Handler, Accept, ReadRequest, FindGroup, AssignId,
             StoreConnection, Reply, ReadMessage, ReadReset
  <2>5. SocketTypeOK'
    <3> USE <1>a DEF SocketTypeOK
    <3>1. CASE ReadRequest(c)
      BY <3>1 DEF ReadRequest
    <3>2. CASE Reply(c)
      <4>1. [id |-> id[c], groupId |-> groupId[c]] \in Head8
        BY <3>2, <1>a DEF Reply, HandlerStep, Head8, HandlerTypeOK, Assigned
      <4> QED
        BY <3>2, <4>1, WriteTypeOK DEF Reply
    <3>3. CASE ReadMessage(c)
      <4>1. Tail(toServer[c]) \in Seq(Message)
        BY <3>3, HeadTailProperties DEF ReadMessage
      <4> QED
        BY <3>3, <4>1 DEF ReadMessage
    <3>4. CASE ReadReset(c)
      BY <3>4 DEF ReadReset
    <3>5. CASE UNCHANGED <<sockets, running>>
      BY <3>5, TypeUnchanged
    <3> QED
      BY <1>2, <3>1, <3>2, <3>3, <3>4, <3>5
         DEF Handler, Accept, FindGroup, AssignId, StoreConnection, Insert,
             Leave
  <2> QED
    BY <2>1, <2>2, <2>3, <2>4, <2>5 DEF TypeOK
<1>3. ASSUME NEW k \in Consumers, Consumer(k) PROVE TypeOK'
  <2>1. RegistryTypeOK' /\ HandlerTypeOK' /\ ClientTypeOK'
    <3>1. UNCHANGED <<registry, handler, inserted, client>>
      BY <1>3 DEF Consumer, Pop, Skip, Take, Write, Finish
    <3> QED
      BY <3>1, <1>a, TypeUnchanged
  <2>2. DeliveryTypeOK'
    <3> USE <1>a DEF DeliveryTypeOK, LoopStep
    <3>1. CASE Pop(k)
      BY <3>1, HeadTailProperties DEF Pop, Queue!Get
    <3>2. CASE Skip(k)
      BY <3>2 DEF Skip
    <3>3. CASE Take(k)
      BY <3>3 DEF Take
    <3>4. CASE Write(k)
      BY <3>4 DEF Write
    <3>5. CASE Finish(k)
      BY <3>5, ZeroIsMessage DEF Finish
    <3> QED
      BY <1>3, <3>1, <3>2, <3>3, <3>4, <3>5 DEF Consumer
  <2>3. SocketTypeOK'
    <3>1. CASE Write(k)
      <4>1. [id |-> cmsg[k].id, groupId |-> cmsg[k].groupId] \in Head8
        BY <1>a DEF DeliveryTypeOK, Message, Head8
      <4> QED
        BY <3>1, <4>1, <1>a, WriteTypeOK DEF Write, SocketTypeOK
    <3>2. CASE UNCHANGED <<sockets, running>>
      BY <3>2, <1>a, TypeUnchanged
    <3> QED
      BY <1>3, <3>1, <3>2 DEF Consumer, Pop, Skip, Take, Finish
  <2> QED
    BY <2>1, <2>2, <2>3 DEF TypeOK
<1>4. CASE UNCHANGED vars
  BY <1>4, <1>a, TypeUnchanged DEF vars, TypeOK
<1> QED
  BY <1>1, <1>2, <1>3, <1>4 DEF Next

-----------------------------------------------------------------------------
(* The registry.                                                            *)

LEMMA InitRegistry == Init => RegistryInv
BY SizeAssumption, ClientAssumption
   DEF Init, RegistryInv, LockHolder, NamesDistinct, SearchResult,
       MembersCounted, IdsUnique, IdsUsed, UsedGroups, Assigned, Groups

\* A step that leaves the tables alone and moves no handler into, out of or
\* through the critical section.
LEMMA RegistryUnchanged ==
  ASSUME RegistryInv,
         UNCHANGED <<groupCount, groupNames, connectionCount,
                     newConnectionLock, groupId, id>>,
         \A c \in Clients :
           /\ Assigned(c)' <=> Assigned(c)
           /\ hpc'[c] \in {"assign", "store"} <=> hpc[c] \in {"assign", "store"}
           /\ hpc'[c] = "assign" => hpc[c] = "assign"
           /\ request'[c] = request[c] \/ hpc'[c] = "find"
  PROVE  RegistryInv'
<1> USE DEF RegistryInv
<1>1. LockHolder'
  BY DEF LockHolder
<1>2. NamesDistinct'
  BY DEF NamesDistinct, UsedGroups
<1>3. SearchResult'
  BY DEF SearchResult, UsedGroups
<1>4. MembersCounted'
  BY DEF MembersCounted, UsedGroups, Assigned
<1>5. IdsUnique'
  BY DEF IdsUnique
<1>6. IdsUsed'
  BY DEF IdsUsed
<1> QED
  BY <1>1, <1>2, <1>3, <1>4, <1>5, <1>6

LEMMA AssignKeepsRegistry ==
  ASSUME TypeOK, RegistryInv, NEW c \in Clients, AssignId(c)
  PROVE  RegistryInv'
<1> DEFINE g == Target(c)
           new == groupId[c] = NoGroup
<1>1. /\ g \in Groups /\ connectionCount[g] \in Nat
      /\ connectionCount[g] < MAX_GROUP_SIZE
  BY TargetExists DEF AssignId, HandlerStep
<1>2. /\ hpc[c] = "assign" /\ hpc' = [hpc EXCEPT ![c] = "store"]
      /\ groupCount' = IF new THEN groupCount + 1 ELSE groupCount
      /\ groupNames' = IF new THEN [groupNames EXCEPT ![g] = request[c]]
                              ELSE groupNames
      /\ groupId' = [groupId EXCEPT ![c] = g]
      /\ id' = [id EXCEPT ![c] = connectionCount[g]]
      /\ connectionCount' = [connectionCount EXCEPT ![g] = connectionCount[g] + 1]
      /\ UNCHANGED <<newConnectionLock, request>>
  BY DEF AssignId, HandlerStep, Target
<1>3. /\ hpc \in [Clients -> HandlerStates]
      /\ groupId \in [Clients -> Nat \cup {NoGroup}]
      /\ id \in [Clients -> Nat]
      /\ groupCount \in Nat
      /\ groupNames \in [Groups -> GroupNames \cup {NoName}]
      /\ connectionCount \in [Groups -> Nat]
      /\ MAX_GROUPS \in Nat
  BY SizeAssumption DEF TypeOK, RegistryTypeOK, HandlerTypeOK
<1>4. /\ new => g = groupCount /\ \A h \in UsedGroups : groupNames[h] # request[c]
      /\ ~new => g \in UsedGroups /\ groupNames[g] = request[c]
  BY <1>2, <1>3 DEF RegistryInv, SearchResult, Target, UsedGroups, NoGroup
<1>5. /\ ~Assigned(c) /\ Assigned(c)'
      /\ \A d \in Clients \ {c} :
           /\ Assigned(d)' <=> Assigned(d)
           /\ hpc'[d] = hpc[d] /\ groupId'[d] = groupId[d] /\ id'[d] = id[d]
  BY <1>2, <1>3 DEF Assigned
<1>6. groupId'[c] = g /\ id'[c] = connectionCount[g] /\ hpc'[c] = "store"
  BY <1>2, <1>3
<1>7. /\ UsedGroups \subseteq UsedGroups' /\ UsedGroups' \subseteq Groups
      /\ g \in UsedGroups' /\ groupNames'[g] = request[c]
      /\ \A h \in UsedGroups : groupNames'[h] = groupNames[h]
      /\ UsedGroups \subseteq Groups
  BY <1>1, <1>2, <1>3, <1>4 DEF UsedGroups, Groups, RegistryInv, NamesDistinct
<1>8. \A h \in UsedGroups' : h \in UsedGroups \/ (new /\ h = g)
  BY <1>2, <1>3, <1>4 DEF UsedGroups
<1>9. \A h \in Groups :
        /\ h # g => connectionCount'[h] = connectionCount[h]
        /\ connectionCount'[g] = connectionCount[g] + 1
  BY <1>1, <1>2, <1>3
<1> HIDE DEF g, new
<1>10. LockHolder'
  BY <1>2, <1>5, <1>6 DEF RegistryInv, LockHolder
<1>11. NamesDistinct'
  <2>1. groupCount' <= MAX_GROUPS
    BY <1>1, <1>2, <1>3, <1>4 DEF RegistryInv, NamesDistinct, Groups
  <2>2. \A h, j \in UsedGroups' : groupNames'[h] = groupNames'[j] => h = j
    BY <1>4, <1>7, <1>8 DEF RegistryInv, NamesDistinct
  <2> QED
    BY <2>1, <2>2 DEF NamesDistinct
<1>12. SearchResult'
  \* c holds the lock: nobody else is between look-up and store.
  BY <1>2, <1>5, <1>6 DEF RegistryInv, LockHolder, SearchResult
<1>13. MembersCounted'
  <2> SUFFICES ASSUME NEW d \in Clients, Assigned(d)'
               PROVE  /\ groupId'[d] \in UsedGroups'
                      /\ groupNames'[groupId'[d]] = request'[d]
                      /\ id'[d] < connectionCount'[groupId'[d]]
    BY DEF MembersCounted
  <2>1. CASE d = c
    BY <2>1, <1>1, <1>2, <1>6, <1>7, <1>9
  <2>2. CASE d # c
    <3>1. /\ Assigned(d) /\ groupId'[d] = groupId[d] /\ id'[d] = id[d]
          /\ request'[d] = request[d]
      BY <2>2, <1>2, <1>5
    <3>2. /\ groupId[d] \in UsedGroups /\ groupNames[groupId[d]] = request[d]
          /\ id[d] < connectionCount[groupId[d]]
      BY <3>1 DEF RegistryInv, MembersCounted
    <3>3. connectionCount[groupId[d]] <= connectionCount'[groupId[d]]
          /\ connectionCount[groupId[d]] \in Nat
          /\ connectionCount'[groupId[d]] \in Nat /\ id[d] \in Nat
      BY <3>2, <1>1, <1>3, <1>7, <1>9
    <3> QED
      BY <3>1, <3>2, <3>3, <1>7
  <2> QED
    BY <2>1, <2>2
<1>14. IdsUnique'
  <2>1. \A d \in Clients \ {c} :
          Assigned(d) /\ groupId[d] = g => id[d] < connectionCount[g]
    BY DEF RegistryInv, MembersCounted
  <2>2. \A d \in Clients \ {c} :
          Assigned(d) /\ groupId[d] = g => id[d] # connectionCount[g]
    BY <2>1, <1>1, <1>3
  <2> QED
    BY <2>2, <1>5, <1>6 DEF RegistryInv, IdsUnique
<1>15. IdsUsed'
  <2> SUFFICES ASSUME NEW h \in Groups
               PROVE  /\ connectionCount'[h] <= MAX_GROUP_SIZE
                      /\ \A n \in 0 .. connectionCount'[h] - 1 :
                           \E d \in Clients :
                             Assigned(d)' /\ groupId'[d] = h /\ id'[d] = n
    BY DEF IdsUsed
  <2>1. connectionCount'[h] <= MAX_GROUP_SIZE
    BY <1>1, <1>9, SizeAssumption DEF RegistryInv, IdsUsed
  <2>2. ASSUME NEW n \in 0 .. connectionCount'[h] - 1
        PROVE  \E d \in Clients : Assigned(d)' /\ groupId'[d] = h /\ id'[d] = n
    <3>1. CASE h = g /\ n = connectionCount[g]
      BY <3>1, <1>5, <1>6
    <3>2. CASE ~(h = g /\ n = connectionCount[g])
      <4>1. n \in 0 .. connectionCount[h] - 1
        BY <3>2, <2>2, <1>1, <1>3, <1>9
      <4>2. PICK d \in Clients : Assigned(d) /\ groupId[d] = h /\ id[d] = n
        BY <4>1 DEF RegistryInv, IdsUsed
      <4> QED
        BY <4>2, <1>5
    <3> QED
      BY <3>1, <3>2
  <2> QED
    BY <2>1, <2>2
<1> QED
  BY <1>10, <1>11, <1>12, <1>13, <1>14, <1>15 DEF RegistryInv

LEMMA StepRegistry == TypeOK /\ RegistryInv /\ [Next]_vars => RegistryInv'
<1> SUFFICES ASSUME TypeOK, RegistryInv, [Next]_vars PROVE RegistryInv'
  OBVIOUS
<1>a. /\ hpc \in [Clients -> HandlerStates]
      /\ request \in [Clients -> GroupNames \cup {NoName}]
      /\ groupId \in [Clients -> Nat \cup {NoGroup}]
  BY DEF TypeOK, HandlerTypeOK
<1>1. CASE UNCHANGED <<registry, handler>>
  BY <1>1, RegistryUnchanged DEF registry, handler, Assigned
<1>2. ASSUME NEW c \in Clients, Handler(c) PROVE RegistryInv'
  <2> USE DEF HandlerStep
  <2>1. CASE FindGroup(c)
    <3>1. /\ hpc[c] = "find" /\ hpc' = [hpc EXCEPT ![c] = "assign"]
          /\ newConnectionLock = NoThread /\ newConnectionLock' = c
          /\ UNCHANGED <<groupCount, groupNames, connectionCount, request, id>>
      BY <2>1 DEF FindGroup
    <3>2. PICK g \in FirstMatch(request[c]) : groupId' = [groupId EXCEPT ![c] = g]
      BY <2>1 DEF FindGroup
    <3>3. \A d \in Clients :
            /\ Assigned(d)' <=> Assigned(d)
            /\ d # c => groupId'[d] = groupId[d]
      BY <3>1, <3>2, <1>a DEF Assigned
    <3>4. ~Assigned(c)
      BY <3>1 DEF Assigned
    <3>5. LockHolder'
      BY <3>1, <1>a, ClientAssumption DEF RegistryInv, LockHolder
    <3>6. NamesDistinct'
      BY <3>1 DEF RegistryInv, NamesDistinct, UsedGroups
    <3>7. SearchResult'
      <4>1. \A d \in Clients : d # c => hpc'[d] # "assign"
        BY <3>1, <1>a, ClientAssumption DEF RegistryInv, LockHolder
      <4>2. \/ g = NoGroup /\ \A h \in UsedGroups : groupNames[h] # request[c]
            \/ g \in UsedGroups /\ groupNames[g] = request[c]
        <5>1. Matching(request[c])
                = {h \in UsedGroups : groupNames[h] = request[c]}
          BY SizeAssumption
             DEF Matching, UsedGroups, Groups, RegistryInv, NamesDistinct,
                 TypeOK, RegistryTypeOK
        <5>2. CASE Matching(request[c]) = {}
          BY <3>2, <5>1, <5>2 DEF FirstMatch
        <5>3. CASE Matching(request[c]) # {}
          BY <3>2, <5>1, <5>3 DEF FirstMatch
        <5> QED
          BY <5>2, <5>3
      <4>3. groupId'[c] = g
        BY <3>2, <1>a
      <4> QED
        BY <3>1, <4>1, <4>2, <4>3 DEF SearchResult, UsedGroups
    <3>8. MembersCounted'
      BY <3>1, <3>3, <3>4 DEF RegistryInv, MembersCounted, UsedGroups
    <3>9. IdsUnique'
      BY <3>1, <3>3, <3>4 DEF RegistryInv, IdsUnique
    <3>10. IdsUsed'
      BY <3>1, <3>3, <3>4 DEF RegistryInv, IdsUsed
    <3> QED
      BY <3>5, <3>6, <3>7, <3>8, <3>9, <3>10 DEF RegistryInv
  <2>2. CASE AssignId(c)
    BY <2>2, AssignKeepsRegistry
  <2>3. CASE StoreConnection(c)
    <3>1. /\ hpc[c] = "store" /\ hpc' = [hpc EXCEPT ![c] = "reply"]
          /\ newConnectionLock' = NoThread
          /\ UNCHANGED <<groupCount, groupNames, connectionCount, groupId, id,
                         request>>
      BY <2>3 DEF StoreConnection
    <3>2. \A d \in Clients : Assigned(d)' <=> Assigned(d)
      BY <3>1, <1>a DEF Assigned
    <3>3. LockHolder'
      BY <3>1, <1>a, ClientAssumption DEF RegistryInv, LockHolder
    <3>4. NamesDistinct' /\ SearchResult'
      BY <3>1, <1>a DEF RegistryInv, NamesDistinct, SearchResult, UsedGroups
    <3>5. MembersCounted' /\ IdsUnique' /\ IdsUsed'
      BY <3>1, <3>2
         DEF RegistryInv, MembersCounted, IdsUnique, IdsUsed, UsedGroups
    <3> QED
      BY <3>3, <3>4, <3>5 DEF RegistryInv
  <2>4. CASE ReadRequest(c)
    BY <2>4, <1>a, RegistryUnchanged DEF ReadRequest, registry, Assigned
  <2>5. CASE Leave(c)
    BY <2>5, <1>a, RegistryUnchanged DEF Leave, Assigned
  <2>6. CASE Accept(c) \/ Reply(c) \/ ReadMessage(c) \/ ReadReset(c) \/ Insert(c)
    BY <2>6, <1>a, RegistryUnchanged
       DEF Accept, Reply, ReadMessage, ReadReset, Insert, registry, Assigned
  <2> QED
    BY <1>2, <2>1, <2>2, <2>3, <2>4, <2>5, <2>6 DEF Handler
<1>3. ASSUME NEW c \in Clients, Client(c) PROVE RegistryInv'
  <2>1. UNCHANGED <<registry, handler>>
    BY <1>3 DEF Client, Connect, SendJoin, ReadResponse, Send, Receive, Exit
  <2> QED
    BY <2>1, <1>1
<1>4. ASSUME NEW k \in Consumers, Consumer(k) PROVE RegistryInv'
  <2>1. UNCHANGED <<registry, handler>>
    BY <1>4 DEF Consumer, Pop, Skip, Take, Write, Finish
  <2> QED
    BY <2>1, <1>1
<1>5. CASE UNCHANGED vars
  BY <1>5, <1>1 DEF vars
<1> QED
  BY <1>2, <1>3, <1>4, <1>5 DEF Next

\* Every variable keeps its type; the bounds on groups and ids are part of
\* what makes it so.
THEOREM TypeCorrect == Spec => []TypeOK
<1>1. TypeOK /\ RegistryInv /\ [Next]_vars => TypeOK' /\ RegistryInv'
  BY StepTypeOK, StepRegistry
<1> QED
  BY <1>1, InitTypeOK, InitRegistry, PTL DEF Spec

-----------------------------------------------------------------------------
(* Slots.                                                                   *)

\* Rows do not overlap as long as ids stay below MAX_GROUP_SIZE.
LEMMA SlotInjective ==
  ASSUME NEW g \in Groups, NEW h \in Groups,
         NEW n \in 0 .. MAX_GROUP_SIZE - 1, NEW m \in 0 .. MAX_GROUP_SIZE - 1
  PROVE  /\ Slot(g, n) \in AllSlots
         /\ Slot(g, n) = Slot(h, m) => g = h /\ n = m
<1> DEFINE M == MAX_GROUP_SIZE
<1>1. /\ M \in Nat \ {0} /\ MAX_GROUPS \in Nat
      /\ g \in 0 .. MAX_GROUPS - 1 /\ h \in 0 .. MAX_GROUPS - 1
      /\ n \in 0 .. M - 1 /\ m \in 0 .. M - 1
  BY SizeAssumption DEF Groups
<1> HIDE DEF M
\* A later row begins after the earlier one has ended.
<1>2. ASSUME NEW x \in Nat, NEW y \in Nat, x < y
      PROVE  x * M + M <= y * M /\ x * M \in Nat /\ y * M \in Nat
  <2>1. y - x - 1 \in Nat
    BY <1>2
  <2>2. y * M = x * M + M + (y - x - 1) * M
    BY <1>1, <1>2, <2>1
  <2>3. (y - x - 1) * M \in Nat /\ x * M \in Nat /\ y * M \in Nat
    BY <1>1, <2>1
  <2> QED
    BY <1>1, <2>2, <2>3
<1>3. g * M + n \in 0 .. MAX_GROUPS * M - 1
  BY <1>1, <1>2
<1>4. g * M + n = h * M + m => g = h /\ n = m
  <2>1. CASE g < h
    BY <1>1, <1>2, <2>1
  <2>2. CASE h < g
    BY <1>1, <1>2, <2>2
  <2>3. CASE g = h
    <3>1. g * M \in Nat
      BY <1>1
    <3> QED
      BY <1>1, <2>3, <3>1
  <2> QED
    BY <1>1, <2>1, <2>2, <2>3
<1> QED
  BY <1>3, <1>4 DEF Slot, AllSlots, M

\* A slot with a client in it is the one that client was given.
SlotsTrue ==
  /\ SlotOwnership
  /\ \A s \in AllSlots, c \in Clients :
       connections[s] = c => Registered(c) /\ s = Slot(groupId[c], id[c])

\* Every client with ids has a slot of its own in the tables.
LEMMA OwnSlot ==
  ASSUME TypeOK, RegistryInv, NEW c \in Clients, Assigned(c)
  PROVE  /\ groupId[c] \in Groups
         /\ id[c] \in 0 .. MAX_GROUP_SIZE - 1
         /\ Slot(groupId[c], id[c]) \in AllSlots
         /\ \A d \in Clients :
              Assigned(d) /\ Slot(groupId[c], id[c]) = Slot(groupId[d], id[d])
                => c = d
<1>1. \A d \in Clients : Assigned(d) =>
        groupId[d] \in Groups /\ id[d] \in 0 .. MAX_GROUP_SIZE - 1
  <2> SUFFICES ASSUME NEW d \in Clients, Assigned(d)
               PROVE  groupId[d] \in Groups /\ id[d] \in 0 .. MAX_GROUP_SIZE - 1
    OBVIOUS
  <2>1. groupId[d] \in UsedGroups /\ id[d] < connectionCount[groupId[d]]
    BY DEF RegistryInv, MembersCounted
  <2>2. groupCount \in Nat /\ groupCount <= MAX_GROUPS /\ id[d] \in Nat
        /\ MAX_GROUPS \in Nat /\ MAX_GROUP_SIZE \in Nat
    BY SizeAssumption
       DEF RegistryInv, NamesDistinct, TypeOK, RegistryTypeOK, HandlerTypeOK
  <2>3. groupId[d] \in Groups
    BY <2>1, <2>2 DEF UsedGroups, Groups
  <2>4. connectionCount[groupId[d]] <= MAX_GROUP_SIZE
        /\ connectionCount[groupId[d]] \in Nat
    BY <2>3 DEF RegistryInv, IdsUsed, TypeOK, RegistryTypeOK
  <2> QED
    BY <2>1, <2>2, <2>3, <2>4
<1>2. \A d \in Clients :
        Assigned(d) /\ Slot(groupId[c], id[c]) = Slot(groupId[d], id[d])
          => c = d
  BY <1>1, SlotInjective DEF RegistryInv, IdsUnique
<1> QED
  BY <1>1, <1>2, SlotInjective

LEMMA InitSlots == Init => SlotsTrue
BY DescriptorAssumption DEF Init, SlotsTrue, SlotOwnership, Registered

LEMMA StepSlots ==
  TypeOK /\ RegistryInv /\ SlotsTrue /\ [Next]_vars => SlotsTrue'
<1> SUFFICES ASSUME TypeOK, RegistryInv, SlotsTrue, [Next]_vars
             PROVE  SlotsTrue'
  OBVIOUS
<1> USE DEF SlotsTrue, SlotOwnership
<1>a. /\ hpc \in [Clients -> HandlerStates]
      /\ groupId \in [Clients -> Nat \cup {NoGroup}] /\ id \in [Clients -> Nat]
      /\ connections \in [AllSlots -> Clients \cup {STDIN, LEFT}]
  BY DEF TypeOK, HandlerTypeOK, RegistryTypeOK
<1>b. \A c \in Clients : Registered(c) => Assigned(c)
  BY DEF Registered, Assigned
<1>1. ASSUME UNCHANGED <<connections, groupId, id>>,
             \A c \in Clients : Registered(c)' <=> Registered(c)
      PROVE  SlotsTrue'
  BY <1>1, <1>a
<1>2. CASE UNCHANGED <<registry, handler>>
  BY <1>1, <1>2 DEF registry, handler, Registered
<1>3. ASSUME NEW c \in Clients, Handler(c) PROVE SlotsTrue'
  <2> USE DEF HandlerStep
  <2>1. CASE FindGroup(c) \/ AssignId(c)
    \* Whoever has no slot yet may change its ids.
    <3>1. /\ UNCHANGED connections
          /\ \A d \in Clients :
               /\ Registered(d)' <=> Registered(d)
               /\ Registered(d) => groupId'[d] = groupId[d] /\ id'[d] = id[d]
      BY <2>1, <1>a DEF FindGroup, AssignId, Registered
    <3> QED
      BY <3>1, <1>a
  <2>2. CASE StoreConnection(c)
    <3> DEFINE s == Slot(groupId[c], id[c])
    <3>1. /\ Assigned(c) /\ ~Registered(c) /\ Registered(c)'
          /\ connections' = [connections EXCEPT ![s] = c]
          /\ UNCHANGED <<groupId, id>>
          /\ \A d \in Clients \ {c} : Registered(d)' <=> Registered(d)
      BY <2>2, <1>a DEF StoreConnection, Assigned, Registered
    <3>2. /\ s \in AllSlots
          /\ \A d \in Clients : Assigned(d) /\ s = Slot(groupId[d], id[d]) => c = d
      BY <3>1, OwnSlot
    <3> HIDE DEF s
    <3>3. \A d \in Clients :
            Registered(d)' => connections'[Slot(groupId[d], id[d])] = d
      <4> SUFFICES ASSUME NEW d \in Clients, Registered(d)'
                   PROVE  connections'[Slot(groupId[d], id[d])] = d
        OBVIOUS
      <4>1. CASE d = c
        BY <4>1, <3>1, <3>2, <1>a DEF s
      <4>2. CASE d # c
        BY <4>2, <3>1, <3>2, <1>a, <1>b, OwnSlot
      <4> QED
        BY <4>1, <4>2
    <3>4. \A t \in AllSlots, d \in Clients : connections'[t] = d =>
            Registered(d)' /\ t = Slot(groupId[d], id[d])
      <4> SUFFICES ASSUME NEW t \in AllSlots, NEW d \in Clients,
                          connections'[t] = d
                   PROVE  Registered(d)' /\ t = Slot(groupId[d], id[d])
        OBVIOUS
      <4>1. CASE t = s
        BY <4>1, <3>1, <3>2, <1>a DEF s
      <4>2. CASE t # s
        <5>1. connections'[t] = connections[t]
          BY <4>2, <3>1, <1>a
        <5>2. Registered(d) /\ t = Slot(groupId[d], id[d])
          BY <5>1
        <5> QED
          BY <5>2, <3>1
      <4> QED
        BY <4>1, <4>2
    <3> QED
      BY <3>1, <3>3, <3>4
  <2>3. CASE Leave(c)
    <3> DEFINE s == Slot(groupId[c], id[c])
    <3>1. /\ Registered(c) /\ ~Registered(c)'
          /\ connections' = [connections EXCEPT ![s] = LEFT]
          /\ UNCHANGED <<groupId, id>>
          /\ \A d \in Clients \ {c} : Registered(d)' <=> Registered(d)
      BY <2>3, <1>a DEF Leave, Registered
    <3>2. /\ s \in AllSlots
          /\ \A d \in Clients : Assigned(d) /\ s = Slot(groupId[d], id[d]) => c = d
      BY <3>1, <1>b, OwnSlot
    <3> HIDE DEF s
    <3>3. \A d \in Clients :
            Registered(d)' => connections'[Slot(groupId[d], id[d])] = d
      <4> SUFFICES ASSUME NEW d \in Clients, Registered(d)'
                   PROVE  connections'[Slot(groupId[d], id[d])] = d
        OBVIOUS
      <4>1. d # c /\ Registered(d) /\ Assigned(d)
        BY <3>1, <1>b
      <4>2. Slot(groupId[d], id[d]) # s /\ Slot(groupId[d], id[d]) \in AllSlots
        BY <4>1, <3>2, OwnSlot
      <4> QED
        BY <4>1, <4>2, <3>1, <1>a
    <3>4. \A t \in AllSlots, d \in Clients : connections'[t] = d =>
            Registered(d)' /\ t = Slot(groupId[d], id[d])
      <4> SUFFICES ASSUME NEW t \in AllSlots, NEW d \in Clients,
                          connections'[t] = d
                   PROVE  Registered(d)' /\ t = Slot(groupId[d], id[d])
        OBVIOUS
      <4>1. t # s
        BY <3>1, <1>a, DescriptorAssumption
      <4>2. connections'[t] = connections[t]
        BY <4>1, <3>1, <1>a
      <4>3. Registered(d) /\ t = Slot(groupId[d], id[d])
        BY <4>2
      <4>4. d # c
        BY <4>1, <4>3 DEF s
      <4> QED
        BY <4>3, <4>4, <3>1
    <3> QED
      BY <3>1, <3>3, <3>4
  <2>4. CASE \/ Accept(c) \/ ReadRequest(c) \/ Reply(c) \/ ReadMessage(c)
             \/ ReadReset(c) \/ Insert(c)
    BY <2>4, <1>a, <1>1
       DEF Accept, ReadRequest, Reply, ReadMessage, ReadReset, Insert,
           registry, Registered
  <2> QED
    BY <1>3, <2>1, <2>2, <2>3, <2>4 DEF Handler
<1>4. ASSUME NEW c \in Clients, Client(c) PROVE SlotsTrue'
  <2>1. UNCHANGED <<registry, handler>>
    BY <1>4 DEF Client, Connect, SendJoin, ReadResponse, Send, Receive, Exit
  <2> QED
    BY <2>1, <1>2
<1>5. ASSUME NEW k \in Consumers, Consumer(k) PROVE SlotsTrue'
  <2>1. UNCHANGED <<registry, handler>>
    BY <1>5 DEF Consumer, Pop, Skip, Take, Write, Finish
  <2> QED
    BY <2>1, <1>2
<1>6. CASE UNCHANGED vars
  BY <1>6, <1>2 DEF vars
<1> QED
  BY <1>3, <1>4, <1>5, <1>6 DEF Next

\* However many clients join and leave at once, a stored socket is neither
\* overwritten by another join nor cleared by another departure (server.c:199,
\* 211 and 243).
THEOREM SlotsOwned == Spec => []SlotOwnership
<1>1. TypeOK /\ RegistryInv /\ [Next]_vars => TypeOK' /\ RegistryInv'
  BY StepTypeOK, StepRegistry
<1>2. SlotsTrue => SlotOwnership
  BY DEF SlotsTrue
<1> QED
  BY <1>1, <1>2, InitTypeOK, InitRegistry, InitSlots, StepSlots, PTL DEF Spec

\* newConnectionLock spans the search and the creation, so that simultaneous
\* joins of a new name make one group of it (server.c:193-213).
THEOREM GroupsFollowNames == Spec => []GroupsAreByName
<1>1. TypeOK /\ RegistryInv /\ [Next]_vars => TypeOK' /\ RegistryInv'
  BY StepTypeOK, StepRegistry
<1>2. RegistryInv => GroupsAreByName
  BY DEF RegistryInv, NamesDistinct, MembersCounted, GroupsAreByName
<1> QED
  BY <1>1, <1>2, InitTypeOK, InitRegistry, PTL DEF Spec
-----------------------------------------------------------------------------
(* What no step takes back.                                                 *)

\* Ids are given once, and counts only grow.
IdsKept ==
  /\ \A c \in Clients : Assigned(c) =>
       Assigned(c)' /\ groupId'[c] = groupId[c] /\ id'[c] = id[c]
  /\ \A g \in Groups : connectionCount'[g] >= connectionCount[g]

LEMMA StepKeepsIds == TypeOK /\ RegistryInv /\ [Next]_vars => IdsKept
<1> SUFFICES ASSUME TypeOK, RegistryInv, [Next]_vars PROVE IdsKept
  OBVIOUS
<1>a. /\ hpc \in [Clients -> HandlerStates]
      /\ groupId \in [Clients -> Nat \cup {NoGroup}] /\ id \in [Clients -> Nat]
      /\ connectionCount \in [Groups -> Nat]
  BY DEF TypeOK, HandlerTypeOK, RegistryTypeOK
<1>1. CASE UNCHANGED <<registry, handler>>
  BY <1>1, <1>a DEF IdsKept, registry, handler, Assigned
<1>2. ASSUME NEW c \in Clients, Handler(c) PROVE IdsKept
  <2> USE DEF HandlerStep
  <2>1. CASE FindGroup(c)
    BY <2>1, <1>a DEF FindGroup, IdsKept, Assigned
  <2>2. CASE AssignId(c)
    <3>1. Target(c) \in Groups
      BY <2>2, TargetExists DEF AssignId
    <3>2. connectionCount' =
            [connectionCount EXCEPT ![Target(c)] = connectionCount[Target(c)] + 1]
      BY <2>2 DEF AssignId, Target
    <3>3. \A g \in Groups : connectionCount'[g] >= connectionCount[g]
      BY <3>1, <3>2, <1>a
    <3>4. \A d \in Clients : Assigned(d) =>
            Assigned(d)' /\ groupId'[d] = groupId[d] /\ id'[d] = id[d]
      BY <2>2, <1>a DEF AssignId, Assigned
    <3> QED
      BY <3>3, <3>4 DEF IdsKept
  <2>3. CASE \/ Accept(c) \/ ReadRequest(c) \/ StoreConnection(c) \/ Reply(c)
             \/ ReadMessage(c) \/ ReadReset(c) \/ Insert(c) \/ Leave(c)
    BY <2>3, <1>a
       DEF Accept, ReadRequest, StoreConnection, Reply, ReadMessage, ReadReset,
           Insert, Leave, registry, IdsKept, Assigned
  <2> QED
    BY <1>2, <2>1, <2>2, <2>3 DEF Handler
<1>3. ASSUME NEW c \in Clients, Client(c) PROVE IdsKept
  <2>1. UNCHANGED <<registry, handler>>
    BY <1>3 DEF Client, Connect, SendJoin, ReadResponse, Send, Receive, Exit
  <2> QED
    BY <2>1, <1>1
<1>4. ASSUME NEW k \in Consumers, Consumer(k) PROVE IdsKept
  <2>1. UNCHANGED <<registry, handler>>
    BY <1>4 DEF Consumer, Pop, Skip, Take, Write, Finish
  <2> QED
    BY <2>1, <1>1
<1>5. CASE UNCHANGED vars
  BY <1>5, <1>1 DEF vars
<1> QED
  BY <1>2, <1>3, <1>4, <1>5 DEF Next

-----------------------------------------------------------------------------
(* Sequences.                                                               *)

LEMMA AppendRange ==
  ASSUME NEW S, NEW s \in Seq(S), NEW e \in S
  PROVE  Range(Append(s, e)) = Range(s) \cup {e}
<1>1. Append(s, e) = s \o <<e>> /\ <<e>> \in Seq(S)
  BY AppendIsConcat
<1>2. Range(<<e>>) = {e}
  BY DEF Range
<1>3. Range(s \o <<e>>) = Range(s) \cup Range(<<e>>)
  BY <1>1, RangeConcatenation
<1> QED
  BY <1>1, <1>2, <1>3

LEMMA TailRange ==
  ASSUME NEW S, NEW s \in Seq(S), s # <<>>
  PROVE  Head(s) \in Range(s) /\ Range(Tail(s)) \subseteq Range(s)
<1>1. /\ Head(s) = s[1] /\ Len(s) \in Nat \ {0}
      /\ Tail(s) \in Seq(S) /\ Len(Tail(s)) = Len(s) - 1
      /\ \A n \in 1 .. Len(Tail(s)) : Tail(s)[n] = s[n + 1]
  BY HeadTailProperties, EmptySeq, LenProperties
<1>2. Range(s) = {s[n] : n \in 1 .. Len(s)}
      /\ Range(Tail(s)) = {Tail(s)[n] : n \in 1 .. Len(Tail(s))}
  BY <1>1, RangeEquality
<1> QED
  BY <1>1, <1>2

-----------------------------------------------------------------------------
(* Where group ids travel.                                                  *)

\* A message under way is for the group of the client that wrote it.
Authentic(m) ==
  /\ m.groupId \in Groups
  /\ m.from \in Clients => Assigned(m.from) /\ m.groupId = groupId[m.from]

\* In a socket, in a handler's local, in the queue or in a delivery loop.
InTransit ==
  (UNION {Range(toServer[c]) : c \in Clients})
    \cup {message[c] : c \in Clients}
    \cup Range(messageQueue)
    \cup {cmsg[k] : k \in Consumers}

MessagesAuthentic == \A m \in InTransit : Authentic(m)

HeadsOwn ==
  \A c \in Clients : \A h \in Range(toClient[c]) :
    Assigned(c) /\ h.groupId = groupId[c]

IdsAdopted ==
  \A c \in Clients :
    cl[c] = "chatting" => Assigned(c) /\ myGroup[c] = groupId[c]

\* A loop that is about to write is still inside its group's row.
LoopInside == \A k \in Consumers : cpc[k] = "write" => More(k)

TrafficInv == MessagesAuthentic /\ HeadsOwn /\ IdsAdopted /\ LoopInside

\* Group 0 exists in the tables, whether or not it is in use.
LEMMA ZeroAuthentic == Authentic(ZeroMessage)
<1>1. MAX_GROUPS \in Nat \ {0}
  BY SizeAssumption, NameAssumption, FS_CardinalityType
<1> QED
  BY <1>1, ClientAssumption DEF Authentic, ZeroMessage, Groups

\* A loop indexes the tables with a group that exists.
LEMMA LoopMessage ==
  ASSUME TrafficInv, NEW k \in Consumers
  PROVE  cmsg[k].groupId \in Groups
<1>1. cmsg[k] \in InTransit
  BY DEF InTransit
<1> QED
  BY <1>1 DEF TrafficInv, MessagesAuthentic, Authentic

LEMMA InitTraffic == Init => TrafficInv
<1> SUFFICES ASSUME Init PROVE TrafficInv
  OBVIOUS
<1>1. Range(<<>>) = {}
  BY DEF Range
<1>2. ASSUME NEW m \in InTransit PROVE m = ZeroMessage
  <2>1. /\ \A c \in Clients : toServer[c] = <<>> /\ message[c] = ZeroMessage
        /\ \A k \in Consumers : cmsg[k] = ZeroMessage
        /\ messageQueue = <<>>
    BY DEF Init
  <2> QED
    BY <1>1, <1>2, <2>1 DEF InTransit
<1>3. MessagesAuthentic
  BY <1>2, ZeroAuthentic DEF MessagesAuthentic
<1>4. HeadsOwn /\ IdsAdopted /\ LoopInside
  BY <1>1 DEF Init, HeadsOwn, IdsAdopted, LoopInside
<1> QED
  BY <1>3, <1>4 DEF TrafficInv

\* What a step leaves alone stays as it should be, since ids are kept.
LEMMA TrafficKept ==
  ASSUME TypeOK, IdsKept, TrafficInv
  PROVE  /\ \A m : Authentic(m) => Authentic(m)'
         /\ InTransit' \subseteq InTransit \cup {ZeroMessage}
              => MessagesAuthentic'
         /\ (\A c \in Clients : Range(toClient'[c]) \subseteq Range(toClient[c]))
              => HeadsOwn'
         /\ (\A c \in Clients : cl'[c] = "chatting" =>
               cl[c] = "chatting" /\ myGroup'[c] = myGroup[c]) => IdsAdopted'
<1>1. \A m : Authentic(m) => Authentic(m)'
  BY DEF IdsKept, Authentic
<1>2. ASSUME InTransit' \subseteq InTransit \cup {ZeroMessage}
      PROVE  MessagesAuthentic'
  BY <1>1, <1>2, ZeroAuthentic DEF TrafficInv, MessagesAuthentic
<1>3. ASSUME \A c \in Clients : Range(toClient'[c]) \subseteq Range(toClient[c])
      PROVE  HeadsOwn'
  BY <1>3 DEF TrafficInv, HeadsOwn, IdsKept
<1>4. ASSUME \A c \in Clients : cl'[c] = "chatting" =>
               cl[c] = "chatting" /\ myGroup'[c] = myGroup[c]
      PROVE  IdsAdopted'
  BY <1>4 DEF TrafficInv, IdsAdopted, IdsKept
<1> QED
  BY <1>1, <1>2, <1>3, <1>4

\* Counts only grow, so a loop that has not moved is still inside.
LEMMA LoopKept ==
  ASSUME TypeOK, TypeOK', IdsKept, TrafficInv, NEW k \in Consumers,
         cmsg'[k] = cmsg[k], i'[k] = i[k], More(k)
  PROVE  More(k)'
<1> DEFINE g == cmsg[k].groupId
<1>1. g \in Groups /\ cmsg'[k].groupId = g
  BY LoopMessage
<1>2. /\ connectionCount[g] \in Nat /\ i[k] \in Nat
      /\ connectionCount'[g] >= connectionCount[g]
  BY <1>1 DEF IdsKept, TypeOK, RegistryTypeOK, DeliveryTypeOK
<1>3. connectionCount'[g] \in Nat
  BY <1>1 DEF TypeOK, RegistryTypeOK
<1> HIDE DEF g
<1> QED
  BY <1>1, <1>2, <1>3 DEF More, g

\* A client a loop has come to is a member of the message's group, and the
\* only one with that index; and it is there as long as it is a member.
LEMMA LoopFindsMember ==
  ASSUME TypeOK, RegistryInv, SlotsTrue, TrafficInv, NEW k \in Consumers,
         More(k), NEW d \in Clients
  PROVE  /\ Current(k) = d => Registered(d) /\ groupId[d] = cmsg[k].groupId
         /\ Registered(d) /\ groupId[d] = cmsg[k].groupId /\ id[d] = i[k]
              => Current(k) = d
<1>1. cmsg[k].groupId \in Groups
  BY LoopMessage
<1>2. i[k] \in 0 .. MAX_GROUP_SIZE - 1
  BY <1>1, SizeAssumption
     DEF More, RegistryInv, IdsUsed, TypeOK, RegistryTypeOK, DeliveryTypeOK
<1>3. Slot(cmsg[k].groupId, i[k]) \in AllSlots
  BY <1>1, <1>2, SlotInjective
<1>4. ASSUME Current(k) = d
      PROVE  Registered(d) /\ groupId[d] = cmsg[k].groupId
  <2>1. Registered(d) /\ Slot(cmsg[k].groupId, i[k]) = Slot(groupId[d], id[d])
    BY <1>3, <1>4 DEF Current, SlotsTrue
  <2>2. groupId[d] \in Groups /\ id[d] \in 0 .. MAX_GROUP_SIZE - 1
    BY <2>1, OwnSlot DEF Registered, Assigned
  <2> QED
    BY <1>1, <1>2, <2>1, <2>2, SlotInjective
<1>5. Registered(d) /\ groupId[d] = cmsg[k].groupId /\ id[d] = i[k]
        => Current(k) = d
  BY DEF Current, SlotsTrue, SlotOwnership
<1> QED
  BY <1>4, <1>5

\* A handler or a loop that writes its own group's id to a member.
LEMMA WriteKeepsHeads ==
  ASSUME TypeOK, IdsKept, TrafficInv, NEW c \in Clients, NEW h \in Head8,
         Assigned(c), h.groupId = groupId[c], SocketWrite(c, h)
  PROVE  HeadsOwn'
<1>1. CASE UNCHANGED toClient
  BY <1>1, TrafficKept
<1>2. CASE toClient' = [toClient EXCEPT ![c] = Append(toClient[c], h)]
  <2>1. Range(Append(toClient[c], h)) = Range(toClient[c]) \cup {h}
    BY AppendRange DEF TypeOK, SocketTypeOK
  <2>2. \A d \in Clients :
          toClient'[d] = IF d = c THEN Append(toClient[c], h) ELSE toClient[d]
    BY <1>2 DEF TypeOK, SocketTypeOK
  <2> QED
    BY <2>1, <2>2 DEF TrafficInv, HeadsOwn, IdsKept
<1> QED
  BY <1>1, <1>2 DEF SocketWrite

LEMMA StepTraffic ==
  TypeOK /\ RegistryInv /\ SlotsTrue /\ TrafficInv /\ [Next]_vars
    => TrafficInv'
<1> SUFFICES ASSUME TypeOK, RegistryInv, SlotsTrue, TrafficInv, [Next]_vars
             PROVE  TrafficInv'
  OBVIOUS
<1>a. IdsKept /\ TypeOK'
  BY StepKeepsIds, StepTypeOK
<1>b. /\ cl \in [Clients -> {"off", "connected", "joining", "chatting", "gone"}]
      /\ toClient \in [Clients -> Seq(Head8)]
      /\ toServer \in [Clients -> Seq(Message)]
      /\ messageQueue \in Seq(Message)
      /\ message \in [Clients -> Message]
      /\ myGroup \in [Clients -> Nat]
      /\ cpc \in [Consumers -> {"pop", "scan", "write"}]
      /\ cmsg \in [Consumers -> Message] /\ i \in [Consumers -> Nat]
  BY DEF TypeOK, ClientTypeOK, SocketTypeOK, HandlerTypeOK, DeliveryTypeOK
<1>c. UNCHANGED <<toServer, message, messageQueue, cmsg>> => MessagesAuthentic'
  BY <1>a, TrafficKept DEF InTransit
<1>d. UNCHANGED toClient => HeadsOwn'
  BY <1>a, TrafficKept
<1>e. UNCHANGED <<cl, myGroup>> => IdsAdopted'
  BY <1>a, TrafficKept
<1>f. UNCHANGED <<cpc, cmsg, i>> => LoopInside'
  BY <1>a, LoopKept DEF TrafficInv, LoopInside
<1>1. ASSUME NEW c \in Clients, Client(c) PROVE TrafficInv'
  <2> USE DEF ClientStep
  <2>1. LoopInside'
    BY <1>1, <1>f
       DEF Client, Connect, SendJoin, ReadResponse, Send, Receive, Exit, consumer
  <2>2. CASE Connect(c) \/ SendJoin(c)
    <3>1. UNCHANGED <<toServer, message, messageQueue, cmsg, toClient>>
      BY <2>2 DEF Connect, SendJoin, handler, consumer
    <3>2. IdsAdopted'
      BY <2>2, <1>a, <1>b, TrafficKept DEF Connect, SendJoin
    <3> QED
      BY <2>1, <3>1, <3>2, <1>c, <1>d DEF TrafficInv
  <2>3. CASE ReadResponse(c)
    \* The first bytes on the socket, whosever they are, begin with c's group.
    <3>1. UNCHANGED <<toServer, message, messageQueue, cmsg>>
      BY <2>3 DEF ReadResponse, handler, consumer
    <3>2. /\ Head(toClient[c]) \in Range(toClient[c])
          /\ Range(Tail(toClient[c])) \subseteq Range(toClient[c])
      BY <2>3, <1>b, TailRange DEF ReadResponse
    <3>3. HeadsOwn'
      BY <2>3, <3>2, <1>a, <1>b, TrafficKept DEF ReadResponse
    <3>4. Assigned(c)' /\ myGroup'[c] = groupId'[c]
      BY <2>3, <3>2, <1>a, <1>b
         DEF ReadResponse, TrafficInv, HeadsOwn, IdsKept
    <3>5. \A d \in Clients \ {c} : cl'[d] = cl[d] /\ myGroup'[d] = myGroup[d]
      BY <2>3, <1>b DEF ReadResponse
    <3>6. IdsAdopted'
      BY <3>4, <3>5, <1>a DEF TrafficInv, IdsAdopted, IdsKept
    <3> QED
      BY <2>1, <3>1, <3>3, <3>6, <1>c DEF TrafficInv
  <2>4. CASE Send(c)
    <3> DEFINE m == [from |-> c, id |-> myId[c], groupId |-> myGroup[c]]
    <3>1. Assigned(c) /\ myGroup[c] = groupId[c]
      BY <2>4 DEF Send, TrafficInv, IdsAdopted
    <3>2. Authentic(m)
      BY <3>1, OwnSlot DEF Authentic
    <3>3. m \in Message
      BY DEF Message, TypeOK, ClientTypeOK
    <3>4. toServer' = [toServer EXCEPT ![c] = Append(toServer[c], m)]
          /\ UNCHANGED <<message, messageQueue, cmsg, toClient>>
      BY <2>4 DEF Send, handler, consumer
    <3> HIDE DEF m
    <3>5. Range(toServer'[c]) = Range(toServer[c]) \cup {m}
          /\ \A d \in Clients \ {c} : toServer'[d] = toServer[d]
      BY <3>3, <3>4, <1>b, AppendRange
    <3>6. InTransit' \subseteq InTransit \cup {m}
      BY <3>4, <3>5 DEF InTransit
    <3>7. MessagesAuthentic'
      BY <3>2, <3>6, <1>a, TrafficKept DEF TrafficInv, MessagesAuthentic
    <3>8. IdsAdopted'
      BY <2>4, <1>a, <1>b, TrafficKept DEF Send
    <3> QED
      BY <2>1, <3>4, <3>7, <3>8, <1>d DEF TrafficInv
  <2>5. CASE Receive(c)
    <3>1. UNCHANGED <<toServer, message, messageQueue, cmsg>>
      BY <2>5 DEF Receive, handler, consumer
    <3>2. Range(Tail(toClient[c])) \subseteq Range(toClient[c])
      BY <2>5, <1>b, TailRange DEF Receive
    <3>3. HeadsOwn'
      BY <2>5, <3>2, <1>a, <1>b, TrafficKept DEF Receive
    <3>4. IdsAdopted'
      BY <2>5, <1>a, <1>b, TrafficKept DEF Receive
    <3> QED
      BY <2>1, <3>1, <3>3, <3>4, <1>c DEF TrafficInv
  <2>6. CASE Exit(c)
    <3>1. UNCHANGED <<toServer, message, messageQueue, cmsg>>
      BY <2>6 DEF Exit, handler, consumer
    <3>2. Range(<<>>) = {}
      BY DEF Range
    <3>3. HeadsOwn'
      BY <2>6, <3>2, <1>a, <1>b, TrafficKept DEF Exit
    <3>4. IdsAdopted'
      BY <2>6, <1>a, <1>b, TrafficKept DEF Exit
    <3> QED
      BY <2>1, <3>1, <3>3, <3>4, <1>c DEF TrafficInv
  <2> QED
    BY <1>1, <2>2, <2>3, <2>4, <2>5, <2>6 DEF Client
<1>2. ASSUME NEW c \in Clients, Handler(c) PROVE TrafficInv'
  <2> USE DEF HandlerStep
  <2>1. LoopInside' /\ IdsAdopted'
    <3>1. UNCHANGED <<cpc, cmsg, i, cl, myGroup>>
      BY <1>2
         DEF Handler, Accept, ReadRequest, FindGroup, AssignId,
             StoreConnection, Reply, ReadMessage, ReadReset, Insert, Leave,
             consumer, client
    <3> QED
      BY <3>1, <1>e, <1>f
  <2>2. CASE Reply(c)
    <3> DEFINE h == [id |-> id[c], groupId |-> groupId[c]]
    <3>1. Assigned(c) /\ SocketWrite(c, h)
          /\ UNCHANGED <<toServer, message, messageQueue, cmsg>>
      BY <2>2 DEF Reply, Assigned, consumer
    <3>2. h \in Head8
      BY <3>1 DEF Head8, TypeOK, HandlerTypeOK
    <3>3. HeadsOwn'
      BY <3>1, <3>2, <1>a, WriteKeepsHeads
    <3> QED
      BY <2>1, <3>1, <3>3, <1>c DEF TrafficInv
  <2>3. CASE ReadMessage(c)
    <3>1. UNCHANGED <<messageQueue, cmsg, toClient>>
          /\ toServer' = [toServer EXCEPT ![c] = Tail(toServer[c])]
          /\ message' = [message EXCEPT ![c] = Head(toServer[c])]
      BY <2>3 DEF ReadMessage, consumer
    <3>2. /\ Head(toServer[c]) \in Range(toServer[c])
          /\ Range(Tail(toServer[c])) \subseteq Range(toServer[c])
      BY <2>3, <1>b, TailRange DEF ReadMessage
    <3>3. \A d \in Clients :
            /\ Range(toServer'[d]) \subseteq Range(toServer[d])
            /\ message'[d] \in Range(toServer[d]) \cup {message[d]}
      BY <3>1, <3>2, <1>b
    <3>4. InTransit' \subseteq InTransit
      BY <3>1, <3>3 DEF InTransit
    <3> QED
      BY <2>1, <3>1, <3>4, <1>a, <1>d, TrafficKept DEF TrafficInv
  <2>4. CASE Insert(c)
    <3>1. UNCHANGED <<toServer, message, cmsg, toClient>>
          /\ messageQueue' = Append(messageQueue, message[c])
      BY <2>4 DEF Insert, Queue!Put, consumer, sockets
    <3>2. Range(messageQueue') = Range(messageQueue) \cup {message[c]}
      BY <3>1, <1>b, AppendRange
    <3>3. InTransit' \subseteq InTransit
      BY <3>1, <3>2 DEF InTransit
    <3> QED
      BY <2>1, <3>1, <3>3, <1>a, <1>d, TrafficKept DEF TrafficInv
  <2>5. CASE \/ Accept(c) \/ ReadRequest(c) \/ FindGroup(c) \/ AssignId(c)
             \/ StoreConnection(c) \/ ReadReset(c) \/ Leave(c)
    <3>1. UNCHANGED <<toServer, message, messageQueue, cmsg, toClient>>
      BY <2>5
         DEF Accept, ReadRequest, FindGroup, AssignId, StoreConnection,
             ReadReset, Leave, consumer, sockets
    <3> QED
      BY <2>1, <3>1, <1>c, <1>d DEF TrafficInv
  <2> QED
    BY <1>2, <2>2, <2>3, <2>4, <2>5 DEF Handler
<1>3. ASSUME NEW k \in Consumers, Consumer(k) PROVE TrafficInv'
  <2> USE DEF LoopStep
  <2>1. UNCHANGED <<cl, myGroup, toServer, message>> /\ IdsAdopted'
    <3>1. UNCHANGED <<cl, myGroup, toServer, message>>
      BY <1>3 DEF Consumer, Pop, Skip, Take, Write, Finish, client, handler,
                  sockets
    <3> QED
      BY <3>1, <1>e
  <2>2. ASSUME UNCHANGED <<messageQueue, cmsg>>
        PROVE  MessagesAuthentic'
    BY <2>1, <2>2, <1>c
  \* A thread that is not about to write is of no concern.
  <2>3. ASSUME cpc'[k] # "write",
               \A l \in Consumers \ {k} :
                 cpc'[l] = cpc[l] /\ cmsg'[l] = cmsg[l] /\ i'[l] = i[l]
        PROVE  LoopInside'
    BY <2>3, <1>a, LoopKept DEF TrafficInv, LoopInside
  <2>4. CASE Pop(k)
    <3>1. /\ cmsg' = [cmsg EXCEPT ![k] = Head(messageQueue)]
          /\ messageQueue # <<>> /\ messageQueue' = Tail(messageQueue)
          /\ UNCHANGED toClient
      BY <2>4 DEF Pop, Queue!Get, sockets
    <3>2. /\ Head(messageQueue) \in Range(messageQueue)
          /\ Range(messageQueue') \subseteq Range(messageQueue)
      BY <3>1, <1>b, TailRange
    <3>3. \A l \in Consumers : cmsg'[l] \in Range(messageQueue) \cup {cmsg[l]}
      BY <3>1, <3>2, <1>b
    <3>4. InTransit' \subseteq InTransit
      BY <2>1, <3>2, <3>3 DEF InTransit
    <3>5. LoopInside'
      BY <2>3, <2>4, <1>b DEF Pop
    <3> QED
      BY <2>1, <3>1, <3>4, <3>5, <1>a, <1>d, TrafficKept DEF TrafficInv
  <2>5. CASE Skip(k)
    <3>1. LoopInside'
      BY <2>3, <2>5, <1>b DEF Skip
    <3> QED
      BY <2>1, <2>2, <2>5, <3>1, <1>d DEF Skip, TrafficInv, sockets
  <2>6. CASE Take(k)
    <3>1. /\ More(k) /\ UNCHANGED <<cmsg, i>>
          /\ \A l \in Consumers \ {k} : cpc'[l] = cpc[l]
      BY <2>6, <1>b DEF Take
    <3>2. LoopInside'
      BY <3>1, <1>a, LoopKept DEF TrafficInv, LoopInside
    <3> QED
      BY <2>1, <2>2, <2>6, <3>2, <1>d DEF Take, TrafficInv, sockets
  <2>7. CASE Write(k)
    <3>1. LoopInside'
      BY <2>3, <2>7, <1>b DEF Write
    <3>2. HeadsOwn'
      <4> DEFINE d == Current(k)
                 h == [id |-> cmsg[k].id, groupId |-> cmsg[k].groupId]
      <4>1. CASE d \in Clients
        <5>1. More(k)
          BY <2>7 DEF Write, TrafficInv, LoopInside
        <5>2. Assigned(d) /\ groupId[d] = cmsg[k].groupId
          BY <4>1, <5>1, LoopFindsMember DEF Registered, Assigned
        <5>3. h \in Head8
          BY <1>b DEF Head8, Message
        <5>4. SocketWrite(d, h)
          BY <2>7, <4>1 DEF Write
        <5> HIDE DEF d
        <5> QED
          BY <4>1, <5>2, <5>3, <5>4, <1>a, WriteKeepsHeads
      <4>2. CASE d \notin Clients
        BY <2>7, <4>2, <1>d DEF Write
      <4> QED
        BY <4>1, <4>2
    <3> QED
      BY <2>1, <2>2, <2>7, <3>1, <3>2 DEF Write, TrafficInv
  <2>8. CASE Finish(k)
    <3>1. LoopInside'
      BY <2>3, <2>8, <1>b DEF Finish
    <3>2. cmsg' = [cmsg EXCEPT ![k] = ZeroMessage]
          /\ UNCHANGED <<messageQueue, toClient>>
      BY <2>8 DEF Finish, sockets
    <3>3. \A l \in Consumers : cmsg'[l] \in {ZeroMessage, cmsg[l]}
      BY <3>2, <1>b
    <3>4. InTransit' \subseteq InTransit \cup {ZeroMessage}
      BY <2>1, <3>2, <3>3 DEF InTransit
    <3> QED
      BY <2>1, <3>1, <3>2, <3>4, <1>a, <1>d, TrafficKept DEF TrafficInv
  <2> QED
    BY <1>3, <2>4, <2>5, <2>6, <2>7, <2>8 DEF Consumer
<1>4. CASE UNCHANGED vars
  BY <1>4, <1>c, <1>d, <1>e, <1>f
     DEF vars, handler, consumer, sockets, client, TrafficInv
<1> QED
  BY <1>1, <1>2, <1>3, <1>4 DEF Next

\* The tables, and what holds of every step of the system.
TablesInv == TypeOK /\ RegistryInv /\ SlotsTrue

LEMMA InitTables == Init => TablesInv
BY InitTypeOK, InitRegistry, InitSlots DEF TablesInv

LEMMA StepTables == TablesInv /\ [Next]_vars => TablesInv'
BY StepTypeOK, StepRegistry, StepSlots DEF TablesInv

\* What a loop writes reaches only clients who asked for the group its author
\* asked for, although the server takes the group from the message as it came
\* and the client took it from whatever came first (server.c:264-266,
\* client.c:90-107).
THEOREM MessagesStayInGroup == Spec => []GroupIsolation
<1>1. TablesInv /\ TrafficInv => GroupIsolation
  <2> SUFFICES ASSUME TablesInv, TrafficInv, NEW k \in Consumers,
                      cpc[k] = "write", NEW d \in Clients, Current(k) = d,
                      cmsg[k].from \in Clients
               PROVE  request[d] = request[cmsg[k].from]
    BY DEF GroupIsolation
  <2>1. Assigned(d) /\ groupId[d] = cmsg[k].groupId
    BY LoopFindsMember
       DEF TablesInv, TrafficInv, LoopInside, Registered, Assigned
  <2>2. Authentic(cmsg[k])
    BY DEF TrafficInv, MessagesAuthentic, InTransit
  <2>3. Assigned(cmsg[k].from) /\ groupId[cmsg[k].from] = groupId[d]
    BY <2>1, <2>2 DEF Authentic
  <2> QED
    BY <2>1, <2>3 DEF TablesInv, RegistryInv, MembersCounted
<1>2. TablesInv /\ TrafficInv /\ [Next]_vars => TrafficInv'
  BY StepTraffic DEF TablesInv
<1> QED
  BY <1>1, <1>2, InitTables, StepTables, InitTraffic, PTL DEF Spec

-----------------------------------------------------------------------------
(* Whom a loop has still to reach.                                          *)

\* They are in the table, at an index the loop has not passed.
OwedAhead ==
  \A k \in Consumers : \A d \in owed[k] :
    /\ cpc[k] # "pop"
    /\ Registered(d)
    /\ groupId[d] = cmsg[k].groupId
    /\ id[d] >= i[k] /\ id[d] # cmsg[k].id

LEMMA InitOwed == Init => OwedAhead
BY DEF Init, OwedAhead

\* A loop at its end owes nobody: an index in use is below the count.
LEMMA NobodyLeft ==
  ASSUME TablesInv, OwedAhead, NEW k \in Consumers, ~More(k)
  PROVE  owed[k] = {}
<1> SUFFICES ASSUME NEW d \in owed[k] PROVE FALSE
  OBVIOUS
<1>1. d \in Clients /\ i[k] \in Nat
  BY DEF TablesInv, TypeOK, DeliveryTypeOK
<1>2. Assigned(d) /\ groupId[d] = cmsg[k].groupId /\ id[d] >= i[k]
  BY DEF OwedAhead, Registered, Assigned
<1>3. id[d] < connectionCount[groupId[d]]
      /\ id[d] \in Nat /\ connectionCount[groupId[d]] \in Nat
  BY <1>1, <1>2, OwnSlot
     DEF TablesInv, RegistryInv, MembersCounted, TypeOK, RegistryTypeOK
<1>4. i[k] < connectionCount[cmsg[k].groupId]
  BY <1>1, <1>2, <1>3
<1> QED
  BY <1>4 DEF More

LEMMA StepOwed ==
  TablesInv /\ TrafficInv /\ OwedAhead /\ [Next]_vars => OwedAhead'
<1> SUFFICES ASSUME TablesInv, TrafficInv, OwedAhead, [Next]_vars
             PROVE  OwedAhead'
  OBVIOUS
<1>a. TypeOK /\ RegistryInv /\ SlotsTrue /\ IdsKept
  BY StepKeepsIds DEF TablesInv
<1>b. /\ hpc \in [Clients -> HandlerStates]
      /\ owed \in [Consumers -> SUBSET Clients]
      /\ cpc \in [Consumers -> {"pop", "scan", "write"}]
      /\ cmsg \in [Consumers -> Message] /\ i \in [Consumers -> Nat]
      /\ id \in [Clients -> Nat]
  BY <1>a DEF TypeOK, HandlerTypeOK, DeliveryTypeOK
<1>c. \A d \in Clients : Registered(d) => Assigned(d)
  BY DEF Registered, Assigned
\* A loop that stands still goes on owing only those who stay.
<1>1. ASSUME UNCHANGED <<cpc, cmsg, i>>,
             \A k \in Consumers : \A d \in owed'[k] :
               d \in owed[k] /\ (Registered(d) => Registered(d)')
      PROVE  OwedAhead'
  BY <1>1, <1>a, <1>b, <1>c DEF OwedAhead, IdsKept
<1>2. ASSUME NEW c \in Clients, Handler(c) PROVE OwedAhead'
  <2> USE DEF HandlerStep
  <2>1. CASE Leave(c)
    <3>1. UNCHANGED <<cpc, cmsg, i>>
          /\ \A k \in Consumers : owed'[k] = owed[k] \ {c}
      BY <2>1 DEF Leave
    <3>2. \A d \in Clients \ {c} : Registered(d) => Registered(d)'
      BY <2>1, <1>b DEF Leave, Registered
    <3> QED
      BY <3>1, <3>2, <1>1, <1>b
  <2>2. CASE ~Leave(c)
    <3>1. UNCHANGED <<cpc, cmsg, i, owed>>
          /\ \A d \in Clients : Registered(d) => Registered(d)'
      BY <1>2, <2>2, <1>b
         DEF Handler, Accept, ReadRequest, FindGroup, AssignId,
             StoreConnection, Reply, ReadMessage, ReadReset, Insert,
             consumer, Registered
    <3> QED
      BY <3>1, <1>1, <1>b
  <2> QED
    BY <2>1, <2>2
<1>3. ASSUME NEW c \in Clients, Client(c) PROVE OwedAhead'
  <2>1. UNCHANGED <<consumer, handler>>
    BY <1>3 DEF Client, Connect, SendJoin, ReadResponse, Send, Receive, Exit
  <2> QED
    BY <2>1, <1>1 DEF consumer, handler, Registered
<1>4. ASSUME NEW k \in Consumers, Consumer(k) PROVE OwedAhead'
  <2> USE DEF LoopStep
  <2>1. UNCHANGED <<hpc, groupId, id>>
    BY <1>4 DEF Consumer, Pop, Skip, Take, Write, Finish, handler
  <2>2. \A l \in Consumers \ {k} :
          cpc'[l] = cpc[l] /\ cmsg'[l] = cmsg[l] /\ i'[l] = i[l]
            /\ owed'[l] = owed[l]
    BY <1>4, <1>b DEF Consumer, Pop, Skip, Take, Write, Finish
  <2>3. \A d \in Clients : Registered(d)' <=> Registered(d)
    BY <2>1 DEF Registered
  <2> DEFINE Ahead(l, d) ==
               /\ cpc'[l] # "pop"
               /\ Registered(d)
               /\ groupId[d] = cmsg'[l].groupId
               /\ id[d] >= i'[l] /\ id[d] # cmsg'[l].id
  \* It is enough to look at the thread that moves.
  <2>4. SUFFICES ASSUME NEW d \in owed'[k] PROVE Ahead(k, d)
    <3>1. \A l \in Consumers : owed'[l] \subseteq Clients
      BY StepTypeOK, <1>a DEF TypeOK, DeliveryTypeOK
    <3>2. ASSUME NEW l \in Consumers \ {k}, NEW d \in owed'[l]
          PROVE  Ahead(l, d)
      BY <2>2, <3>2 DEF OwedAhead
    <3>3. (\A l \in Consumers : \A d \in owed'[l] : Ahead(l, d)) => OwedAhead'
      BY <2>1, <2>3, <3>1 DEF OwedAhead
    <3> QED
      BY <3>2, <3>3
  <2>5. CASE Pop(k)
    <3> DEFINE m == Head(messageQueue)
    <3>1. cpc'[k] = "scan" /\ cmsg'[k] = m /\ i'[k] = 0
      BY <2>5, <1>b DEF Pop
    <3>2. d \in Clients /\ Registered(d) /\ groupId[d] = m.groupId
          /\ id[d] # m.id
      BY <2>5, <2>4, <1>b DEF Pop
    <3> QED
      BY <3>1, <3>2, <1>b
  <2>6. CASE Skip(k)
    \* The slot passed over is not d's: d's is filled and not the author's.
    <3>1. d \in Clients /\ d \in owed[k] /\ cpc'[k] = "scan"
          /\ cmsg'[k] = cmsg[k] /\ i'[k] = i[k] + 1
      BY <2>6, <1>b DEF Skip
    <3>2. Registered(d) /\ groupId[d] = cmsg[k].groupId
          /\ id[d] >= i[k] /\ id[d] # cmsg[k].id
      BY <3>1 DEF OwedAhead
    <3>3. id[d] # i[k]
      <4>1. SUFFICES ASSUME id[d] = i[k] PROVE FALSE
        OBVIOUS
      <4>2. Current(k) = d
        BY <2>6, <3>1, <3>2, <4>1, <1>a, LoopFindsMember DEF Skip
      <4> QED
        BY <2>6, <3>1, <3>2, <4>1, <4>2, DescriptorAssumption DEF Skip
    <3> QED
      BY <3>1, <3>2, <3>3, <1>b
  <2>7. CASE Take(k)
    BY <2>4, <2>7, <1>b DEF Take, OwedAhead
  <2>8. CASE Write(k)
    \* The slot written to was d's only if d is owed nothing any more.
    <3>1. d \in Clients /\ d \in owed[k] /\ d # Current(k)
          /\ cpc'[k] = "scan" /\ cmsg'[k] = cmsg[k] /\ i'[k] = i[k] + 1
      BY <2>8, <1>b DEF Write
    <3>2. Registered(d) /\ groupId[d] = cmsg[k].groupId
          /\ id[d] >= i[k] /\ id[d] # cmsg[k].id
      BY <3>1 DEF OwedAhead
    <3>3. More(k)
      BY <2>8 DEF Write, TrafficInv, LoopInside
    <3>4. id[d] # i[k]
      BY <3>1, <3>2, <3>3, <1>a, LoopFindsMember
    <3> QED
      BY <3>1, <3>2, <3>4, <1>b
  <2>9. CASE Finish(k)
    <3>1. owed[k] = {} /\ owed'[k] = owed[k]
      BY <2>9, NobodyLeft DEF Finish
    <3> QED
      BY <3>1, <2>4
  <2> QED
    BY <1>4, <2>5, <2>6, <2>7, <2>8, <2>9 DEF Consumer
<1>5. CASE UNCHANGED vars
  BY <1>5, <1>1 DEF vars, consumer, handler, Registered
<1> QED
  BY <1>2, <1>3, <1>4, <1>5 DEF Next

\* Whoever is in the group when a message is popped is written to or leaves
\* before the loop ends, for any number of joins and departures that change
\* the table under the loop (server.c:264-268).
THEOREM LoopPassesNobody == Spec => []FanOutComplete
<1>1. TablesInv /\ OwedAhead => FanOutComplete
  <2> SUFFICES ASSUME TablesInv, OwedAhead, NEW k \in Consumers,
                      cpc[k] = "pop" \/ ~More(k)
               PROVE  owed[k] = {}
    BY DEF FanOutComplete
  <2>1. CASE cpc[k] = "pop"
    BY <2>1 DEF OwedAhead
  <2>2. CASE ~More(k)
    BY <2>2, NobodyLeft
  <2> QED
    BY <2>1, <2>2
<1>2. TablesInv /\ TrafficInv /\ [Next]_vars => TrafficInv'
  BY StepTraffic DEF TablesInv
<1> QED
  BY <1>1, <1>2, InitTables, StepTables, InitTraffic, InitOwed, StepOwed, PTL
     DEF Spec
=============================================================================
