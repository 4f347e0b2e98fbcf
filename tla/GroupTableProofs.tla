-------------------------- MODULE GroupTableProofs ---------------------------
(***************************************************************************)
(* Proofs about GroupTable, for any number of connections and names and    *)
(* any size of the tables: type correctness, DamageStaysAbove, and that    *)
(* the tables implement GroupChat as long as no row is used up.            *)
(*                                                                         *)
(* The inductive invariant relates the three places that say where a       *)
(* client sits: its handler's groupId and id, the row of its group, and    *)
(* the counters.  Everybody who ever joined has a seat of his own below    *)
(* the counter of his row, and nobody else has been given one; what the    *)
(* seat holds is only known in rows that no other row has reached.         *)
(***************************************************************************)
EXTENDS GroupTable, TLAPS

-----------------------------------------------------------------------------
(* The inductive invariant.                                                 *)

Joined(c) == st[c] # "off"

\* A client is in the group of the name it asked for, below its counter.
SeatsBelow ==
  \A c \in Clients : Joined(c) =>
    /\ groupId[c] < groupCount
    /\ groupNames[groupId[c]] = request[c]
    /\ request[c] \in GroupNames
    /\ id[c] < connectionCount[groupId[c]]

\* No name has two rows.
NamesDiffer ==
  \A g, h \in Groups :
    g < groupCount /\ h < groupCount /\ groupNames[g] = groupNames[h] => g = h

\* No two clients have one seat.
SeatsDiffer ==
  \A c, d \in Clients :
    Joined(c) /\ Joined(d) /\ groupId[c] = groupId[d] /\ id[c] = id[d] => c = d

\* Every seat below the counter was given to somebody, and lies in the table.
SeatsGiven ==
  \A g \in Groups : \A j \in Nat : j < connectionCount[g] =>
    /\ Slot(g, j) \in AllSlots
    /\ connections[Slot(g, j)] # STDIN
    /\ \E c \in Clients : Joined(c) /\ groupId[c] = g /\ id[c] = j

\* What the seats of an untouched row hold.
SeatsHold ==
  \A c \in Clients : Joined(c) /\ Untouched(groupId[c]) =>
    connections[Slot(groupId[c], id[c])] = IF st[c] = "in" THEN c ELSE LEFT

IInv == TypeOK /\ SeatsBelow /\ NamesDiffer /\ SeatsDiffer /\ SeatsGiven /\ SeatsHold

-----------------------------------------------------------------------------
(* Where the seats lie.                                                     *)

\* Rows do not overlap where the lower one has not run over: seat k of row g
\* is not seat i of a row h that neither runs over nor is reached.
LEMMA SlotsDiffer ==
  ASSUME NEW g \in Groups, NEW h \in Groups, NEW k \in Nat, NEW i \in Nat,
         g = h => k # i,
         g < h => k < (h - g) * MAX_GROUP_SIZE,
         i < MAX_GROUP_SIZE
  PROVE  Slot(g, k) # Slot(h, i)
<1> DEFINE S == MAX_GROUP_SIZE
<1>0. S \in Nat /\ g \in Nat /\ h \in Nat
  BY SizeAssumption DEF Groups
<1>1. CASE g = h
  <2>1. g * S \in Nat
    BY <1>0
  <2>2. Slot(g, k) = g * S + k /\ Slot(h, i) = g * S + i
    BY <1>1 DEF Slot
  <2> QED
    BY <2>1, <2>2, <1>1
<1>2. CASE g < h
  <2>1. (h - g) * S = h * S - g * S
    BY <1>0
  <2>2. g * S \in Nat /\ h * S \in Nat
    BY <1>0
  <2>3. k < h * S - g * S
    BY <2>1, <1>2
  <2>4. Slot(g, k) = g * S + k /\ Slot(h, i) = h * S + i
    BY DEF Slot
  <2> HIDE DEF S
  <2> QED
    BY <2>2, <2>3, <2>4
<1>3. CASE h < g
  <2>1. (h + 1) * S <= g * S
    <3>1. PICK d \in Nat : g = h + 1 + d
      <4>1. g - h - 1 \in Nat /\ g = h + 1 + (g - h - 1)
        BY <1>0, <1>3
      <4> QED
        BY <4>1
    <3>2. g * S = (h + 1) * S + d * S /\ d * S \in Nat
      BY <3>1, <1>0
    <3>3. (h + 1) * S \in Nat /\ g * S \in Nat
      BY <1>0
    <3> QED
      BY <3>2, <3>3
  <2>2. (h + 1) * S = h * S + S
    BY <1>0
  <2>3. g * S \in Nat /\ h * S \in Nat
    BY <1>0
  <2>4. Slot(g, k) = g * S + k /\ Slot(h, i) = h * S + i
    BY DEF Slot
  <2>5. i < S
    OBVIOUS
  <2> HIDE DEF S
  <2> QED
    BY <2>1, <2>2, <2>3, <2>4, <2>5, <1>0
<1> QED
  BY <1>0, <1>1, <1>2, <1>3

\* As names differ there is at most one row to find.
LEMMA GroupOfFound ==
  ASSUME TypeOK, NamesDiffer, NEW n, Matching(n) # {}
  PROVE  GroupOf(n) \in Matching(n)
<1>1. PICK g \in Matching(n) : TRUE
  OBVIOUS
<1>2. \A h \in Matching(n) : h = g
  BY <1>1 DEF Matching, NamesDiffer
<1>3. g <= g
  BY SizeAssumption DEF Matching, Groups
<1>4. \E x \in Matching(n) : \A h \in Matching(n) : x <= h
  BY <1>1, <1>2, <1>3
<1> QED
  BY <1>4 DEF GroupOf

\* The row a join writes to: an old one of that name or the next new one.
LEMMA JoinRow ==
  ASSUME TypeOK, NamesDiffer, NEW n \in GroupNames, NEW g, g = GroupOf(n), g \in Groups
  PROVE  \/ g < groupCount /\ groupNames[g] = n
         \/ g = groupCount /\ \A h \in Groups : h < groupCount => groupNames[h] # n
<1>1. CASE Matching(n) = {}
  BY <1>1 DEF GroupOf, Matching
<1>2. CASE Matching(n) # {}
  BY <1>2, GroupOfFound DEF Matching
<1> QED
  BY <1>1, <1>2

-----------------------------------------------------------------------------
(* IInv is inductive.                                                       *)

LEMMA InitIInv == Init => IInv
<1> SUFFICES ASSUME Init PROVE IInv
  OBVIOUS
<1>0. MAX_GROUPS \in Nat \ {0} /\ MAX_CLIENTS \in Nat /\ 0 \in Groups
  BY SizeAssumption DEF Groups
<1>1. TypeOK
  <2>1. last \in [from : Clients \cup {Nobody}, to : SUBSET Clients]
    BY DEF Init
  <2>2. /\ groupCount \in 0 .. MAX_GROUPS /\ clientCount \in 0 .. MAX_CLIENTS
        /\ groupId \in [Clients -> Groups]
    BY <1>0 DEF Init
  <2> QED
    BY <2>1, <2>2 DEF Init, TypeOK
<1>2. SeatsBelow /\ SeatsDiffer /\ SeatsHold
  BY DEF Init, SeatsBelow, SeatsDiffer, SeatsHold, Joined
<1>3. NamesDiffer /\ SeatsGiven
  BY <1>0 DEF Init, NamesDiffer, SeatsGiven, Groups
<1> QED
  BY <1>1, <1>2, <1>3 DEF IInv

\* A message goes to clients only.
LEMMA ReachedType ==
  ASSUME IInv, NEW c \in Clients
  PROVE  Reached(groupId[c], id[c]) \subseteq Clients
<1> SUFFICES ASSUME NEW x \in Reached(groupId[c], id[c]) PROVE x \in Clients
  OBVIOUS
<1>1. groupId[c] \in Groups /\ connectionCount[groupId[c]] \in Nat
  BY DEF IInv, TypeOK
<1>2. PICK j \in 0 .. connectionCount[groupId[c]] - 1 : x = connections[Slot(groupId[c], j)]
  BY DEF Reached
<1>3. j \in Nat /\ j < connectionCount[groupId[c]]
  BY <1>1
<1>4. Slot(groupId[c], j) \in AllSlots /\ x # STDIN
  BY <1>1, <1>2, <1>3 DEF IInv, SeatsGiven
<1> QED
  BY <1>2, <1>4 DEF IInv, TypeOK, Reached

LEMMA JoinIInv ==
  ASSUME IInv, NEW c \in Clients, NEW n \in GroupNames, Join(c, n)
  PROVE  IInv'
<1> DEFINE g == GroupOf(n)
           k == connectionCount[g]
<1>0. /\ g \in Groups /\ k \in Nat /\ Slot(g, k) \in AllSlots /\ clientCount < MAX_CLIENTS
      /\ st[c] = "off"
      /\ groupCount' = IF g = groupCount THEN g + 1 ELSE groupCount
      /\ groupNames' = [groupNames EXCEPT ![g] = n]
      /\ connectionCount' = [connectionCount EXCEPT ![g] = k + 1]
      /\ connections' = [connections EXCEPT ![Slot(g, k)] = c]
      /\ st' = [st EXCEPT ![c] = "in"]
      /\ request' = [request EXCEPT ![c] = n]
      /\ groupId' = [groupId EXCEPT ![c] = g]
      /\ id' = [id EXCEPT ![c] = k]
      /\ clientCount' = clientCount + 1 /\ wild' = wild /\ last' = last
  BY DEF Join, Fits, IInv, TypeOK
<1>1. \/ g < groupCount /\ groupNames[g] = n
      \/ g = groupCount /\ \A h \in Groups : h < groupCount => groupNames[h] # n
  BY <1>0, JoinRow DEF IInv
<1> HIDE DEF g, k
<1>2. Groups \subseteq Nat /\ MAX_GROUPS \in Nat /\ \A h \in Groups : h < MAX_GROUPS
  BY SizeAssumption DEF Groups
<1>3. groupCount \in 0 .. MAX_GROUPS /\ groupCount' \in 0 .. MAX_GROUPS /\ groupCount <= groupCount'
      /\ g < groupCount' /\ groupCount \in Nat /\ groupCount' \in Nat /\ g \in Nat
  BY <1>0, <1>1, <1>2 DEF IInv, TypeOK
<1>4. TypeOK'
  <2>1. clientCount' \in 0 .. MAX_CLIENTS
    BY <1>0, SizeAssumption DEF IInv, TypeOK
  <2> QED
    BY <2>1, <1>0, <1>3 DEF IInv, TypeOK
<1>5. \A h \in Groups : connectionCount'[h] = IF h = g THEN k + 1 ELSE connectionCount[h]
  BY <1>0 DEF IInv, TypeOK
<1>6. \A d \in Clients : Joined(d)' <=> Joined(d) \/ d = c
  BY <1>0 DEF IInv, TypeOK, Joined
<1>7. /\ groupId'[c] = g /\ id'[c] = k /\ request'[c] = n /\ st'[c] = "in"
      /\ \A d \in Clients \ {c} : groupId'[d] = groupId[d] /\ id'[d] = id[d]
                                    /\ request'[d] = request[d] /\ st'[d] = st[d]
  BY <1>0 DEF IInv, TypeOK
<1>8. connectionCount[g] = k /\ \A h \in Groups : connectionCount[h] \in Nat
  BY <1>0 DEF IInv, TypeOK, k
<1>9. \A d \in Clients \ {c} : Joined(d) =>
        /\ groupId[d] \in Groups /\ groupId[d] < groupCount /\ id[d] \in Nat
        /\ groupNames[groupId[d]] = request[d] /\ request[d] \in GroupNames
        /\ id[d] < connectionCount[groupId[d]]
  BY DEF IInv, TypeOK, SeatsBelow
<1>10. \A h \in Groups : h < groupCount' =>
         groupNames'[h] = IF h = g THEN n ELSE groupNames[h]
  BY <1>0 DEF IInv, TypeOK
<1>11. \A h \in Groups : h < groupCount' /\ h # g => h < groupCount
  BY <1>0, <1>1, <1>2, <1>3
<1>12. SeatsBelow'
  <2> SUFFICES ASSUME NEW d \in Clients, Joined(d)'
               PROVE  /\ groupId'[d] < groupCount'
                      /\ groupNames'[groupId'[d]] = request'[d]
                      /\ request'[d] \in GroupNames
                      /\ id'[d] < connectionCount'[groupId'[d]]
    BY DEF SeatsBelow
  <2>1. CASE d = c
    BY <2>1, <1>0, <1>3, <1>5, <1>7, <1>10
  <2>2. CASE d # c
    <3>1. Joined(d)
      BY <2>2, <1>6
    <3>2. groupId[d] < groupCount' /\ groupId[d] \in Groups
      <4>1. groupId[d] \in Groups /\ groupId[d] < groupCount /\ groupId[d] \in Nat
        BY <3>1, <2>2, <1>2, <1>9
      <4> QED
        BY <4>1, <1>3
    <3>3. groupNames'[groupId[d]] = request[d]
      <4>1. CASE groupId[d] = g
        <5>1. groupNames[g] = request[d] /\ g < groupCount
          BY <4>1, <3>1, <2>2, <1>9
        <5>2. groupNames[g] = n
          BY <5>1, <1>1, <1>3
        <5>3. groupNames'[g] = n
          BY <1>0, <1>3, <1>10
        <5> QED
          BY <4>1, <5>1, <5>2, <5>3
      <4>2. CASE groupId[d] # g
        BY <4>2, <3>1, <3>2, <2>2, <1>9, <1>10
      <4> QED
        BY <4>1, <4>2
    <3>4. id[d] < connectionCount'[groupId[d]]
      BY <3>1, <3>2, <2>2, <1>5, <1>8, <1>9
    <3> QED
      BY <3>1, <3>2, <3>3, <3>4, <2>2, <1>7, <1>9
  <2> QED
    BY <2>1, <2>2
<1>13. NamesDiffer'
  <2> SUFFICES ASSUME NEW h \in Groups, NEW i \in Groups, h < groupCount', i < groupCount',
                      groupNames'[h] = groupNames'[i]
               PROVE  h = i
    BY DEF NamesDiffer
  <2>0. \A x, y \in Groups : x < groupCount /\ y < groupCount /\ groupNames[x] = groupNames[y]
          => x = y
    BY DEF IInv, NamesDiffer
  <2>1. CASE h # g /\ i # g
    BY <2>0, <2>1, <1>10, <1>11
  <2>2. CASE h = g /\ i # g
    BY <2>0, <2>2, <1>1, <1>10, <1>11
  <2>3. CASE h # g /\ i = g
    BY <2>0, <2>3, <1>1, <1>10, <1>11
  <2> QED
    BY <2>1, <2>2, <2>3
<1>14. SeatsDiffer'
  <2> SUFFICES ASSUME NEW d \in Clients, NEW e \in Clients, Joined(d)', Joined(e)',
                      groupId'[d] = groupId'[e], id'[d] = id'[e]
               PROVE  d = e
    BY DEF SeatsDiffer
  <2>1. CASE d # c /\ e # c
    BY <2>1, <1>6, <1>7 DEF IInv, SeatsDiffer
  <2>2. CASE d = c /\ e # c
    <3>1. groupId[e] = g /\ id[e] = k /\ Joined(e)
      BY <2>2, <1>6, <1>7
    <3> QED
      BY <3>1, <2>2, <1>8, <1>9
  <2>3. CASE d # c /\ e = c
    <3>1. groupId[d] = g /\ id[d] = k /\ Joined(d)
      BY <2>3, <1>6, <1>7
    <3> QED
      BY <3>1, <2>3, <1>8, <1>9
  <2> QED
    BY <2>1, <2>2, <2>3
<1>15. SeatsGiven'
  <2> SUFFICES ASSUME NEW h \in Groups, NEW j \in Nat, j < connectionCount'[h]
               PROVE  /\ Slot(h, j) \in AllSlots
                      /\ connections'[Slot(h, j)] # STDIN
                      /\ \E d \in Clients : Joined(d)' /\ groupId'[d] = h /\ id'[d] = j
    BY DEF SeatsGiven, Slot, AllSlots, STDIN
  <2>1. CASE h = g /\ j = k
    BY <2>1, <1>0, <1>6, <1>7, NameAssumption DEF IInv, TypeOK
  <2>2. CASE ~ (h = g /\ j = k)
    <3>1. j < connectionCount[h]
      BY <2>2, <1>0, <1>5, <1>8
    <3>2. /\ Slot(h, j) \in AllSlots /\ connections[Slot(h, j)] # STDIN
          /\ \E d \in Clients : Joined(d) /\ groupId[d] = h /\ id[d] = j
      BY <3>1 DEF IInv, SeatsGiven
    <3>3. connections'[Slot(h, j)] # STDIN
      BY <3>2, <1>0, NameAssumption DEF IInv, TypeOK
    <3>4. \A d \in Clients : Joined(d) => d # c
      BY <1>0 DEF Joined
    <3> QED
      BY <3>2, <3>3, <3>4, <1>6, <1>7
  <2> QED
    BY <2>1, <2>2
<1>16. SeatsHold'
  <2> SUFFICES ASSUME NEW d \in Clients, Joined(d)', Untouched(groupId[d])'
               PROVE  connections'[Slot(groupId'[d], id'[d])] = IF st'[d] = "in" THEN d ELSE LEFT
    BY DEF SeatsHold, Slot, LEFT
  <2>1. CASE d = c
    BY <2>1, <1>0, <1>7 DEF IInv, TypeOK
  <2>2. CASE d # c
    <3> DEFINE h == groupId[d]
               i == id[d]
    <3>1. Joined(d) /\ h \in Groups /\ i \in Nat /\ i < connectionCount[h]
      BY <2>2, <1>6, <1>9
    <3>2. groupId'[d] = h /\ id'[d] = i /\ st'[d] = st[d]
      BY <2>2, <1>7
    <3>3. /\ connectionCount'[h] <= MAX_GROUP_SIZE
          /\ \A x \in Groups : x < h => connectionCount'[x] <= (h - x) * MAX_GROUP_SIZE
      BY <3>2 DEF Untouched
    <3> HIDE DEF h, i
    <3>4. /\ connectionCount[h] <= MAX_GROUP_SIZE
          /\ \A x \in Groups : x < h => connectionCount[x] <= (h - x) * MAX_GROUP_SIZE
      <4>1. connectionCount[h] <= MAX_GROUP_SIZE
        BY <3>1, <3>3, <1>5, <1>8, SizeAssumption
      <4>2. ASSUME NEW x \in Groups, x < h
            PROVE  connectionCount[x] <= (h - x) * MAX_GROUP_SIZE
        <5>1. (h - x) * MAX_GROUP_SIZE \in Int
          BY <3>1, <1>2, SizeAssumption
        <5>2. connectionCount'[x] <= (h - x) * MAX_GROUP_SIZE
          BY <4>2, <3>3
        <5> QED
          BY <5>1, <5>2, <1>5, <1>8
      <4> QED
        BY <4>1, <4>2
    <3>5. Untouched(groupId[d])
      BY <3>4 DEF Untouched, h
    <3>6. connections[Slot(h, i)] = IF st[d] = "in" THEN d ELSE LEFT
      BY <3>1, <3>5 DEF IInv, SeatsHold, h, i
    <3>7. Slot(g, k) # Slot(h, i)
      <4>1. g = h => k # i
        BY <3>1, <1>8
      <4>2. g < h => k < (h - g) * MAX_GROUP_SIZE
        <5> SUFFICES ASSUME g < h PROVE k < (h - g) * MAX_GROUP_SIZE
          OBVIOUS
        <5>1. (h - g) * MAX_GROUP_SIZE \in Int
          BY <3>1, <1>0, <1>2, SizeAssumption
        <5>2. k + 1 <= (h - g) * MAX_GROUP_SIZE
          BY <3>3, <1>0, <1>5
        <5> QED
          BY <5>1, <5>2, <1>0
      <4>3. i < MAX_GROUP_SIZE
        BY <3>1, <3>4, <1>8, SizeAssumption
      <4> QED
        BY <4>1, <4>2, <4>3, <3>1, <1>0, SlotsDiffer
    <3>8. connections'[Slot(h, i)] = connections[Slot(h, i)]
      BY <3>7, <1>0 DEF IInv, TypeOK
    <3> QED
      BY <3>2, <3>6, <3>8
  <2> QED
    BY <2>1, <2>2
<1> QED
  BY <1>4, <1>12, <1>13, <1>14, <1>15, <1>16 DEF IInv

LEMMA LeaveIInv ==
  ASSUME IInv, NEW c \in Clients, Leave(c)
  PROVE  IInv'
<1> DEFINE g == groupId[c]
           k == id[c]
<1>0. /\ g \in Groups /\ k \in Nat /\ st[c] = "in" /\ Joined(c) /\ k < connectionCount[g]
      /\ connections' = [connections EXCEPT ![Slot(g, k)] = LEFT]
      /\ st' = [st EXCEPT ![c] = "left"]
      /\ UNCHANGED <<groupCount, groupNames, connectionCount, clientCount, wild,
                     request, groupId, id, last>>
  BY DEF Leave, IInv, TypeOK, SeatsBelow, Joined
<1> HIDE DEF g, k
<1>1. \A d \in Clients : Joined(d)' <=> Joined(d)
  BY <1>0 DEF IInv, TypeOK, Joined
<1>2. TypeOK'
  BY <1>0 DEF IInv, TypeOK
<1>3. SeatsBelow' /\ NamesDiffer' /\ SeatsDiffer'
  <2>1. SeatsBelow'
    BY <1>0, <1>1 DEF IInv, SeatsBelow
  <2>2. NamesDiffer'
    BY <1>0 DEF IInv, NamesDiffer
  <2>3. SeatsDiffer'
    BY <1>0, <1>1 DEF IInv, SeatsDiffer
  <2> QED
    BY <2>1, <2>2, <2>3
<1>4. SeatsGiven'
  <2> SUFFICES ASSUME NEW h \in Groups, NEW j \in Nat, j < connectionCount'[h]
               PROVE  /\ Slot(h, j) \in AllSlots
                      /\ connections'[Slot(h, j)] # STDIN
                      /\ \E d \in Clients : Joined(d)' /\ groupId'[d] = h /\ id'[d] = j
    BY DEF SeatsGiven, Slot, AllSlots, STDIN
  <2>1. /\ Slot(h, j) \in AllSlots /\ connections[Slot(h, j)] # STDIN
        /\ \E d \in Clients : Joined(d) /\ groupId[d] = h /\ id[d] = j
    BY <1>0 DEF IInv, SeatsGiven
  <2>2. LEFT # STDIN
    BY DEF LEFT, STDIN
  <2>3. connections'[Slot(h, j)] # STDIN
    BY <2>1, <2>2, <1>0 DEF IInv, TypeOK
  <2> QED
    BY <2>1, <2>3, <1>0, <1>1
<1>5. SeatsHold'
  <2> SUFFICES ASSUME NEW d \in Clients, Joined(d)', Untouched(groupId[d])'
               PROVE  connections'[Slot(groupId'[d], id'[d])] = IF st'[d] = "in" THEN d ELSE LEFT
    BY DEF SeatsHold, Slot, LEFT
  <2> DEFINE h == groupId[d]
             i == id[d]
  <2>1. /\ Joined(d) /\ h \in Groups /\ i \in Nat /\ i < connectionCount[h]
        /\ connectionCount[h] \in Nat /\ connectionCount[g] \in Nat
        /\ groupId'[d] = h /\ id'[d] = i
    BY <1>0, <1>1 DEF IInv, TypeOK, SeatsBelow
  <2>2. Untouched(h)
    BY <1>0 DEF Untouched
  <2>3. connections[Slot(h, i)] = IF st[d] = "in" THEN d ELSE LEFT
    BY <2>1, <2>2 DEF IInv, SeatsHold
  <2>4. g = h /\ i = k => d = c
    BY <2>1, <1>0 DEF IInv, SeatsDiffer, g, k
  <2> HIDE DEF h, i
  <2>5. CASE d = c
    <3>1. h = g /\ i = k
      BY <2>5 DEF g, h, i, k
    <3>2. Slot(g, k) \in AllSlots
      BY <1>0, <2>1, <3>1 DEF IInv, SeatsGiven
    <3>3. st'[d] = "left" /\ connections'[Slot(h, i)] = LEFT
      BY <2>5, <3>1, <3>2, <1>0 DEF IInv, TypeOK
    <3> QED
      BY <3>3, <2>1
  <2>6. CASE d # c
    <3>1. g = h => k # i
      BY <2>4, <2>6
    <3>2. g < h => k < (h - g) * MAX_GROUP_SIZE
      <4> SUFFICES ASSUME g < h PROVE k < (h - g) * MAX_GROUP_SIZE
        OBVIOUS
      <4>1. connectionCount[g] <= (h - g) * MAX_GROUP_SIZE
        BY <2>2, <1>0 DEF Untouched
      <4>2. (h - g) * MAX_GROUP_SIZE \in Int
        BY <2>1, <1>0, SizeAssumption DEF Groups
      <4> QED
        BY <4>1, <4>2, <2>1, <1>0
    <3>3. i < MAX_GROUP_SIZE
      BY <2>1, <2>2, SizeAssumption DEF Untouched
    <3>4. Slot(g, k) # Slot(h, i)
      BY <3>1, <3>2, <3>3, <2>1, <1>0, SlotsDiffer
    <3>5. connections'[Slot(h, i)] = connections[Slot(h, i)] /\ st'[d] = st[d]
      BY <3>4, <2>6, <1>0 DEF IInv, TypeOK
    <3> QED
      BY <3>5, <2>1, <2>3
  <2> QED
    BY <2>5, <2>6
<1> QED
  BY <1>2, <1>3, <1>4, <1>5 DEF IInv

\* The other steps leave the tables and the connections alone.
LEMMA OthersIInv ==
  ASSUME IInv, UNCHANGED <<tables, clientCount, conns>>, wild' \in BOOLEAN,
         last' \in [from : Clients \cup {Nobody}, to : SUBSET Clients]
  PROVE  IInv'
<1>1. \A c : Joined(c)' <=> Joined(c)
  BY DEF Joined, conns
<1>2. TypeOK'
  BY DEF IInv, TypeOK, tables, conns
<1>3. SeatsBelow' /\ SeatsDiffer'
  BY <1>1 DEF IInv, SeatsBelow, SeatsDiffer, tables, conns
<1>4. NamesDiffer'
  BY DEF IInv, NamesDiffer, tables
<1>5. SeatsGiven'
  BY <1>1 DEF IInv, SeatsGiven, tables, conns
<1>6. SeatsHold'
  BY <1>1 DEF IInv, SeatsHold, Untouched, tables, conns
<1> QED
  BY <1>2, <1>3, <1>4, <1>5, <1>6 DEF IInv

LEMMA NextIInv == IInv /\ [Next]_vars => IInv'
<1> SUFFICES ASSUME IInv, [Next]_vars PROVE IInv'
  OBVIOUS
<1>0. last \in [from : Clients \cup {Nobody}, to : SUBSET Clients] /\ wild \in BOOLEAN
  BY DEF IInv, TypeOK
<1>1. ASSUME NEW c \in Clients, NEW n \in GroupNames, Join(c, n) PROVE IInv'
  BY <1>1, JoinIInv
<1>2. ASSUME NEW c \in Clients, NEW n \in GroupNames, JoinOutside(c, n) PROVE IInv'
  BY <1>0, <1>2, OthersIInv DEF JoinOutside
<1>3. ASSUME NEW c \in Clients, Say(c) PROVE IInv'
  BY <1>0, <1>3, OthersIInv, ReachedType DEF Say
<1>4. ASSUME NEW c \in Clients, Leave(c) PROVE IInv'
  BY <1>4, LeaveIInv
<1>5. CASE UNCHANGED vars
  BY <1>0, <1>5, OthersIInv DEF vars
<1> QED
  BY <1>1, <1>2, <1>3, <1>4, <1>5 DEF Next

LEMMA Inductive == Spec => []IInv
<1> QED
  BY InitIInv, NextIInv, PTL DEF Spec

-----------------------------------------------------------------------------
(* The theorems.                                                            *)

\* server.c:187-219: the tables keep their types, however the names and the
\* departures fall: in particular no message is ever written to a slot that
\* no join has filled.
THEOREM TypeCorrect == Spec => []TypeOK
<1>1. IInv => TypeOK
  BY DEF IInv
<1> QED
  BY <1>1, Inductive, PTL

\* server.c:263-268: in an untouched row messageDeliver's loop meets every
\* other member and nobody else.
LEMMA ReachedOthers ==
  ASSUME IInv, NEW c \in Clients, st[c] = "in", Untouched(groupId[c])
  PROVE  Reached(groupId[c], id[c]) = Members(request[c]) \ {c}
<1> DEFINE g == groupId[c]
<1>0. /\ g \in Groups /\ id[c] \in Nat /\ connectionCount[g] \in Nat /\ Joined(c)
      /\ g < groupCount /\ groupNames[g] = request[c] /\ id[c] < connectionCount[g]
  BY DEF IInv, TypeOK, SeatsBelow, Joined
<1>1. ASSUME NEW x \in Reached(g, id[c]) PROVE x \in Members(request[c]) \ {c}
  <2>1. PICK j \in 0 .. connectionCount[g] - 1 \ {id[c]} : x = connections[Slot(g, j)]
    BY DEF Reached
  <2>2. j \in Nat /\ j < connectionCount[g] /\ j # id[c]
    BY <2>1, <1>0
  <2>3. PICK d \in Clients : Joined(d) /\ groupId[d] = g /\ id[d] = j
    BY <2>2, <1>0 DEF IInv, SeatsGiven
  <2>4. x = IF st[d] = "in" THEN d ELSE LEFT
    BY <2>1, <2>3 DEF IInv, SeatsHold
  <2>5. x = d /\ st[d] = "in"
    BY <2>4 DEF Reached
  <2>6. request[d] = request[c]
    BY <2>3, <1>0 DEF IInv, SeatsBelow
  <2> QED
    BY <2>2, <2>3, <2>5, <2>6 DEF Members
<1>2. ASSUME NEW d \in Members(request[c]) \ {c} PROVE d \in Reached(g, id[c])
  <2>1. d \in Clients /\ d # c /\ st[d] = "in" /\ request[d] = request[c] /\ Joined(d)
    BY DEF Members, Joined
  <2>2. /\ groupId[d] \in Groups /\ groupId[d] < groupCount /\ groupNames[groupId[d]] = request[d]
        /\ id[d] \in Nat /\ id[d] < connectionCount[groupId[d]]
    BY <2>1 DEF IInv, TypeOK, SeatsBelow
  <2>3. groupId[d] = g
    BY <2>1, <2>2, <1>0 DEF IInv, NamesDiffer
  <2>4. id[d] # id[c]
    BY <2>1, <2>3, <1>0 DEF IInv, SeatsDiffer
  <2>5. connections[Slot(g, id[d])] = d
    BY <2>1, <2>3 DEF IInv, SeatsHold
  <2>6. id[d] \in 0 .. connectionCount[g] - 1 \ {id[c]}
    BY <2>2, <2>3, <2>4, <1>0
  <2>7. d # LEFT
    BY <2>1, NameAssumption
  <2> QED
    BY <2>5, <2>6, <2>7 DEF Reached
<1> QED
  BY <1>1, <1>2

\* server.c:198, 263-268: a row that runs over harms itself and later groups
\* at most; a message to any other group reaches exactly its other members,
\* for tables of any size.
THEOREM DamageContained == Spec => []DamageStaysAbove
<1>1. IInv => DamageStaysAbove
  BY ReachedOthers DEF DamageStaysAbove
<1> QED
  BY <1>1, Inductive, PTL

-----------------------------------------------------------------------------
(* The refinement.                                                          *)

\* With all rows kept, none is reached by another.
LEMMA KeptUntouched ==
  ASSUME TypeOK, RowsKept, NEW g \in Groups
  PROVE  Untouched(g)
<1> SUFFICES ASSUME NEW h \in Groups, h < g
             PROVE  connectionCount[h] <= (g - h) * MAX_GROUP_SIZE
  BY DEF Untouched, RowsKept
<1>0. g \in Nat /\ h \in Nat /\ MAX_GROUP_SIZE \in Nat /\ connectionCount[h] \in Nat
      /\ connectionCount[h] <= MAX_GROUP_SIZE
  BY SizeAssumption DEF Groups, TypeOK, RowsKept
<1>1. PICK d \in Nat : g - h = d + 1
  <2>1. g - h - 1 \in Nat /\ g - h = (g - h - 1) + 1
    BY <1>0
  <2> QED
    BY <2>1
<1>2. (g - h) * MAX_GROUP_SIZE = d * MAX_GROUP_SIZE + MAX_GROUP_SIZE
  BY <1>0, <1>1
<1>3. d * MAX_GROUP_SIZE \in Nat
  BY <1>0
<1> QED
  BY <1>0, <1>2, <1>3

\* Then who sits in the row of a name is who is a member of it.
LEMMA SeatedMembers ==
  ASSUME IInv, RowsKept, NEW n \in GroupNames
  PROVE  Seated(n) = Members(n)
<1>1. ASSUME NEW x \in Seated(n) PROVE x \in Members(n)
  <2>1. PICK g \in Matching(n) :
          x \in {connections[Slot(g, j)] : j \in 0 .. connectionCount[g] - 1} \ {LEFT}
    BY DEF Seated
  <2>2. g \in Groups /\ g < groupCount /\ groupNames[g] = n /\ connectionCount[g] \in Nat
    BY DEF Matching, IInv, TypeOK
  <2>3. PICK j \in 0 .. connectionCount[g] - 1 : x = connections[Slot(g, j)]
    BY <2>1
  <2>4. PICK d \in Clients : Joined(d) /\ groupId[d] = g /\ id[d] = j
    BY <2>2, <2>3 DEF IInv, SeatsGiven
  <2>5. x = IF st[d] = "in" THEN d ELSE LEFT
    BY <2>2, <2>3, <2>4, KeptUntouched DEF IInv, SeatsHold
  <2>6. request[d] = n
    BY <2>2, <2>4 DEF IInv, SeatsBelow
  <2> QED
    BY <2>1, <2>4, <2>5, <2>6 DEF Members
<1>2. ASSUME NEW d \in Members(n) PROVE d \in Seated(n)
  <2>1. d \in Clients /\ st[d] = "in" /\ request[d] = n /\ Joined(d)
    BY DEF Members, Joined
  <2>2. /\ groupId[d] \in Groups /\ groupId[d] < groupCount /\ groupNames[groupId[d]] = n
        /\ id[d] \in Nat /\ id[d] < connectionCount[groupId[d]]
        /\ connectionCount[groupId[d]] \in Nat
    BY <2>1 DEF IInv, TypeOK, SeatsBelow
  <2>3. connections[Slot(groupId[d], id[d])] = d
    BY <2>1, <2>2, KeptUntouched DEF IInv, SeatsHold
  <2>4. groupId[d] \in Matching(n) /\ id[d] \in 0 .. connectionCount[groupId[d]] - 1 /\ d # LEFT
    BY <2>1, <2>2, NameAssumption DEF Matching
  <2> QED
    BY <2>3, <2>4 DEF Seated
<1> QED
  BY <1>1, <1>2

\* Counters only grow, so a row that is kept was kept before.
LEMMA KeptBefore ==
  ASSUME IInv, [Next]_vars, RowsKept'
  PROVE  RowsKept
<1> SUFFICES ASSUME NEW g \in Groups PROVE connectionCount[g] <= MAX_GROUP_SIZE
  BY DEF RowsKept
<1>0. connectionCount \in [Groups -> Nat] /\ connectionCount'[g] <= MAX_GROUP_SIZE
      /\ MAX_GROUP_SIZE \in Nat
  BY SizeAssumption DEF RowsKept, IInv, TypeOK
<1>1. ASSUME NEW c \in Clients, NEW n \in GroupNames, Join(c, n)
      PROVE  connectionCount[g] <= connectionCount'[g]
  <2>1. connectionCount' = [connectionCount EXCEPT ![GroupOf(n)] = connectionCount[GroupOf(n)] + 1]
        /\ GroupOf(n) \in Groups
    BY <1>1 DEF Join, Fits
  <2> QED
    BY <2>1, <1>0
<1>2. (~ \E c \in Clients, n \in GroupNames : Join(c, n)) => connectionCount' = connectionCount
  BY DEF Next, JoinOutside, Say, Leave, vars, tables
<1>3. connectionCount[g] <= connectionCount'[g]
  BY <1>0, <1>1, <1>2
<1>4. connectionCount[g] \in Nat /\ connectionCount'[g] \in Nat
  <2>1. connectionCount' \in [Groups -> Nat]
    BY NextIInv DEF IInv, TypeOK
  <2> QED
    BY <1>0, <2>1
<1> QED
  BY <1>0, <1>3, <1>4

\* A step of the tables that keeps the rows is a step of the chat.
LEMMA StepChats ==
  ASSUME IInv, IInv', [Next]_vars, RowsKept'
  PROVE  [Chat!Next]_<<Table, last>>
<1>0. RowsKept
  BY KeptBefore
<1>1. Table = [n \in GroupNames |-> Members(n)]
  BY <1>0, SeatedMembers DEF Table
<1>2. Table' = [n \in GroupNames |-> Members(n)']
  <2>1. \A n \in GroupNames : Seated(n)' = Members(n)'
    <3> SUFFICES ASSUME NEW n \in GroupNames PROVE Seated(n)' = Members(n)'
      OBVIOUS
    <3>1. IInv /\ RowsKept => Seated(n) = Members(n)
      BY SeatedMembers
    <3>2. (IInv /\ RowsKept => Seated(n) = Members(n))'
      BY SeatedMembers, PTL
    <3> QED
      BY <3>2
  <2> QED
    BY <2>1 DEF Table
<1>3. ASSUME NEW c \in Clients, NEW n \in GroupNames, Join(c, n) PROVE Chat!Join(c, n)
  <2>1. st[c] = "off" /\ st' = [st EXCEPT ![c] = "in"] /\ request' = [request EXCEPT ![c] = n]
        /\ last' = last
    BY <1>3 DEF Join
  <2>2. \A m \in GroupNames : c \notin Members(m)
    BY <2>1 DEF Members
  <2>3. \A m \in GroupNames : Members(m)' = IF m = n THEN Members(m) \cup {c} ELSE Members(m)
    BY <2>1 DEF Members, IInv, TypeOK
  <2>4. Table' = [Table EXCEPT ![n] = @ \cup {c}]
    BY <1>1, <1>2, <2>3
  <2>5. \A m \in GroupNames : c \notin Table[m]
    BY <1>1, <2>2
  <2> QED
    BY <2>1, <2>4, <2>5 DEF Chat!Join, Table
<1>4. ASSUME NEW c \in Clients, Say(c) PROVE \E n \in GroupNames : Chat!Say(c, n)
  <2>1. st[c] = "in" /\ last' = [from |-> c, to |-> Reached(groupId[c], id[c])]
        /\ UNCHANGED <<tables, conns>>
    BY <1>4 DEF Say
  <2>2. request[c] \in GroupNames /\ groupId[c] \in Groups
    BY <2>1 DEF IInv, TypeOK, SeatsBelow, Joined
  <2>3. Reached(groupId[c], id[c]) = Members(request[c]) \ {c}
    BY <2>1, <2>2, <1>0, KeptUntouched, ReachedOthers DEF IInv
  <2>4. c \in Table[request[c]] /\ Table[request[c]] = Members(request[c])
    BY <2>1, <2>2, <1>1 DEF Members
  <2>5. Table' = Table
    BY <2>1, <1>1, <1>2 DEF Members, conns
  <2>6. Chat!Say(c, request[c])
    BY <2>1, <2>3, <2>4, <2>5 DEF Chat!Say, Table
  <2> QED
    BY <2>2, <2>6
<1>5. ASSUME NEW c \in Clients, Leave(c) PROVE \E n \in GroupNames : Chat!Leave(c, n)
  <2>1. st[c] = "in" /\ st' = [st EXCEPT ![c] = "left"] /\ request' = request /\ last' = last
    BY <1>5 DEF Leave
  <2>2. request[c] \in GroupNames
    BY <2>1 DEF IInv, SeatsBelow, Joined
  <2>3. \A m \in GroupNames : Members(m)' = IF m = request[c] THEN Members(m) \ {c} ELSE Members(m)
    BY <2>1 DEF Members, IInv, TypeOK
  <2>4. Table' = [Table EXCEPT ![request[c]] = @ \ {c}]
    BY <1>1, <1>2, <2>2, <2>3
  <2>5. c \in Table[request[c]]
    BY <2>1, <2>2, <1>1 DEF Members
  <2>6. Chat!Leave(c, request[c])
    BY <2>1, <2>4, <2>5 DEF Chat!Leave, Table
  <2> QED
    BY <2>2, <2>6
<1>6. ASSUME UNCHANGED <<tables, conns, last>> PROVE UNCHANGED <<Table, last>>
  BY <1>1, <1>2, <1>6 DEF Members, conns
<1>7. ASSUME NEW c \in Clients, NEW n \in GroupNames, JoinOutside(c, n)
      PROVE  UNCHANGED <<Table, last>>
  BY <1>6, <1>7 DEF JoinOutside
<1>8. CASE UNCHANGED vars
  BY <1>6, <1>8 DEF vars
<1> QED
  BY <1>3, <1>4, <1>5, <1>7, <1>8 DEF Next, Chat!Next

LEMMA InitChats == Init => Chat!Init
<1> SUFFICES ASSUME Init PROVE Chat!Init
  OBVIOUS
<1>1. \A n \in GroupNames : Seated(n) = {}
  BY DEF Init, Seated, Matching, Groups
<1> QED
  BY <1>1 DEF Init, Chat!Init, Table

\* server.c:187-275: as long as no row is used up, the tables of the server
\* are a map from group names to members that is exactly what README.md:27
\* promises; nothing more is assumed of the sizes.
THEOREM TableIsChat == Spec => ImplementsChat
<1>1. IInv /\ IInv' /\ [Next]_vars => [RowsKept' => Chat!Next]_<<Table, last>>
  BY StepChats
<1>2. Spec => [][RowsKept' => Chat!Next]_<<Table, last>>
  BY <1>1, Inductive, PTL DEF Spec
<1>3. Spec => Chat!Init
  BY InitChats DEF Spec
<1> QED
  BY <1>2, <1>3 DEF ImplementsChat
=============================================================================
