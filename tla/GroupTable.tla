----------------------------- MODULE GroupTable ------------------------------
(***************************************************************************)
(* The tables of src/server.c and their limits.  GroupServer looks at the  *)
(* interleavings of joins, deliveries and departures within the limits;    *)
(* here each of them is one step, and what happens beyond the limits is    *)
(* what the code does, which compares none of its counters with the size   *)
(* of a table: a group's row runs on into the next one, and what lies      *)
(* outside the tables is overwritten.                                      *)
(***************************************************************************)
EXTENDS Integers, FiniteSets

CONSTANTS Clients,         \* connections ever made
          GroupNames,
          MAX_GROUPS,
          MAX_GROUP_SIZE,
          MAX_CLIENTS,
          NoName,          \* the empty string
          Nobody           \* the author of no message

ASSUME SizeAssumption ==
  /\ MAX_GROUPS \in Nat \ {0}
  /\ MAX_GROUP_SIZE \in Nat \ {0}
  /\ MAX_CLIENTS \in Nat

STDIN == 0
LEFT == -1

ASSUME NameAssumption ==
  /\ NoName \notin GroupNames
  /\ {STDIN, LEFT, Nobody} \cap Clients = {}

Groups == 0 .. MAX_GROUPS - 1

Slot(g, n) == g * MAX_GROUP_SIZE + n

AllSlots == 0 .. MAX_GROUPS * MAX_GROUP_SIZE - 1

VARIABLES groupCount, groupNames, connectionCount,
          connections,     \* the slots of all groups, row after row
          clientCount,     \* connections accepted so far
          wild,            \* something outside the tables was overwritten
          st,              \* the connection: "off", "in" or "left"
          request,         \* the name its client asked for
          groupId, id,     \* what its handler assigned to it
          last             \* history: the last message, see GroupChat

tables == <<groupCount, groupNames, connectionCount, connections>>

conns == <<st, request, groupId, id>>

vars == <<tables, clientCount, wild, conns, last>>

TypeOK ==
  /\ groupCount \in 0 .. MAX_GROUPS
  /\ groupNames \in [Groups -> GroupNames \cup {NoName}]
  /\ connectionCount \in [Groups -> Nat]
  /\ connections \in [AllSlots -> Clients \cup {STDIN, LEFT}]
  /\ clientCount \in 0 .. MAX_CLIENTS
  /\ wild \in BOOLEAN
  /\ st \in [Clients -> {"off", "in", "left"}]
  /\ request \in [Clients -> GroupNames \cup {NoName}]
  /\ groupId \in [Clients -> Groups]
  /\ id \in [Clients -> Nat]
  /\ last \in [from : Clients \cup {Nobody}, to : SUBSET Clients]

Init ==
  /\ groupCount = 0
  /\ groupNames = [g \in Groups |-> NoName]
  /\ connectionCount = [g \in Groups |-> 0]
  /\ connections = [s \in AllSlots |-> STDIN]
  /\ clientCount = 0
  /\ wild = FALSE
  /\ st = [c \in Clients |-> "off"]
  /\ request = [c \in Clients |-> NoName]
  /\ groupId = [c \in Clients |-> 0]
  /\ id = [c \in Clients |-> 0]
  /\ last = [from |-> Nobody, to |-> {}]

Members(n) == {c \in Clients : st[c] = "in" /\ request[c] = n}

-----------------------------------------------------------------------------

Matching(n) == {g \in Groups : g < groupCount /\ groupNames[g] = n}

\* The group of that name; a new one if there is none.
GroupOf(n) ==
  IF Matching(n) = {} THEN groupCount
  ELSE CHOOSE g \in Matching(n) : \A h \in Matching(n) : g <= h

\* A join for n writes into the tables and nowhere else.
Fits(n) ==
  /\ clientCount < MAX_CLIENTS
  /\ GroupOf(n) \in Groups
  /\ Slot(GroupOf(n), connectionCount[GroupOf(n)]) \in AllSlots

\* groupCount++ in the search for the name as well.
Join_CountsAlways(c, n) ==
  LET g == GroupOf(n)
      k == connectionCount[g]
  IN /\ ~wild /\ st[c] = "off"
     /\ Fits(n)
     /\ clientCount' = clientCount + 1
     /\ groupCount' = groupCount + 1
     /\ groupNames' = [groupNames EXCEPT ![g] = n]
     /\ connectionCount' = [connectionCount EXCEPT ![g] = k + 1]
     /\ connections' = [connections EXCEPT ![Slot(g, k)] = c]
     /\ st' = [st EXCEPT ![c] = "in"]
     /\ request' = [request EXCEPT ![c] = n]
     /\ groupId' = [groupId EXCEPT ![c] = g]
     /\ id' = [id EXCEPT ![c] = k]
     /\ UNCHANGED <<wild, last>>

\* accept, and connection_handler up to its reply.
Join(c, n) ==
  LET g == GroupOf(n)
      k == connectionCount[g]
  IN /\ ~wild /\ st[c] = "off"
     /\ Fits(n)
     /\ clientCount' = clientCount + 1
     /\ groupCount' = IF g = groupCount THEN g + 1 ELSE groupCount
     /\ groupNames' = [groupNames EXCEPT ![g] = n]
     /\ connectionCount' = [connectionCount EXCEPT ![g] = k + 1]
     /\ connections' = [connections EXCEPT ![Slot(g, k)] = c]
     /\ st' = [st EXCEPT ![c] = "in"]
     /\ request' = [request EXCEPT ![c] = n]
     /\ groupId' = [groupId EXCEPT ![c] = g]
     /\ id' = [id EXCEPT ![c] = k]
     /\ UNCHANGED <<wild, last>>

\* One that does not fit writes to memory that belongs to something else;
\* what follows is not modelled.
JoinOutside(c, n) ==
  /\ ~wild /\ st[c] = "off"
  /\ ~Fits(n)
  /\ wild' = TRUE
  /\ UNCHANGED <<tables, clientCount, conns, last>>

\* Departed members' slots are not told apart.
Reached_Departed(g, k) ==
  {connections[Slot(g, j)] : j \in 0 .. connectionCount[g] - 1 \ {k}}

\* Whom messageDeliver writes a message of group g with author's id k to.
Reached(g, k) ==
  {connections[Slot(g, j)] : j \in 0 .. connectionCount[g] - 1 \ {k}} \ {LEFT}

\* A message of c, from the handler's read to the end of messageDeliver's loop.
Say(c) ==
  /\ ~wild /\ st[c] = "in"
  /\ last' = [from |-> c, to |-> Reached(groupId[c], id[c])]
  /\ UNCHANGED <<tables, clientCount, wild, conns>>

\* The departing member's place is given to the next one who joins.
Leave_Recycles(c) ==
  /\ ~wild /\ st[c] = "in"
  /\ connections' = [connections EXCEPT ![Slot(groupId[c], id[c])] = LEFT]
  /\ connectionCount' = [connectionCount EXCEPT ![groupId[c]] = @ - 1]
  /\ st' = [st EXCEPT ![c] = "left"]
  /\ UNCHANGED <<groupCount, groupNames, clientCount, wild,
                 request, groupId, id, last>>

\* read has returned 0.
Leave(c) ==
  /\ ~wild /\ st[c] = "in"
  /\ connections' = [connections EXCEPT ![Slot(groupId[c], id[c])] = LEFT]
  /\ st' = [st EXCEPT ![c] = "left"]
  /\ UNCHANGED <<groupCount, groupNames, connectionCount, clientCount, wild,
                 request, groupId, id, last>>

Next == \E c \in Clients :
          \/ \E n \in GroupNames : Join(c, n) \/ JoinOutside(c, n)
          \/ Say(c)
          \/ Leave(c)

Spec == Init /\ [][Next]_vars

-----------------------------------------------------------------------------
(* Properties.                                                              *)

\* Every row still has its own slots.
RowsKept == \A g \in Groups : connectionCount[g] <= MAX_GROUP_SIZE

\* Who is in the row of the group of name n.
Seated(n) ==
  UNION {{connections[Slot(g, j)] : j \in 0 .. connectionCount[g] - 1} \ {LEFT}
           : g \in Matching(n)}

\* The map from names to members that the arrays stand for.
Table == [n \in GroupNames |-> Seated(n)]

Chat == INSTANCE GroupChat WITH members <- Table

\* As long as no row is used up, the arrays are a map from names to sets of
\* members (README.md:27): a join adds the client to its name's group and to
\* no other, a departure takes it out, and messageDeliver's loop writes a
\* message to exactly the other members.
ImplementsChat ==
  Chat!Init /\ [][RowsKept' => Chat!Next]_<<Table, last>>

\* No row before g's has been filled so far that it reaches into g's, and g's
\* own does not reach beyond its end.
Untouched(g) ==
  /\ connectionCount[g] <= MAX_GROUP_SIZE
  /\ \A h \in Groups :
       h < g => connectionCount[h] <= (g - h) * MAX_GROUP_SIZE

\* A row that runs over (server.c:198, no test against MAX_GROUP_SIZE) harms
\* its own group and the groups created later whose rows it reaches: in every
\* other one a message would still reach exactly the other members, whoever
\* joins and leaves in the damaged ones.
DamageStaysAbove ==
  \A c \in Clients :
    ~wild /\ st[c] = "in" /\ Untouched(groupId[c])
      => Reached(groupId[c], id[c]) = Members(request[c]) \ {c}
=============================================================================
