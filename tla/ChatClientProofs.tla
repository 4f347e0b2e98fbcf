-------------------------- MODULE ChatClientProofs --------------------------
(***************************************************************************)
(* Theorems about ChatClient, for any number of rounds, signals and        *)
(* messages: its types, what the server gets first, and what becomes of    *)
(* the lines of the user.                                                  *)
(***************************************************************************)
EXTENDS ChatClient, SequenceTheorems, FiniteSetTheorems, TLAPS

-----------------------------------------------------------------------------
(* Stacks.                                                                  *)

\* A stack of handlers: at most one of each signal, and so two at most.
Stack(s) ==
  /\ s \in Seq(HandlerStates) /\ Len(s) <= 2
  /\ \A m, n \in DOMAIN s : HandlerOf(s[m]) = HandlerOf(s[n]) => m = n

\* Signal sg is being handled.
In(s, sg) == \E n \in DOMAIN s : HandlerOf(s[n]) = sg

LEMMA OneOrTwo == \A k \in Nat : k <= 2 /\ k # 0 => k \in {1, 2}
  OBVIOUS

\* The handler on top goes on to another of its steps.
LEMMA StackStep ==
    ASSUME NEW s, Stack(s), s # <<>>, NEW x \in HandlerStates,
           HandlerOf(x) = HandlerOf(Head(s))
    PROVE  /\ Stack(<<x>> \o Tail(s))
           /\ \A sg : In(<<x>> \o Tail(s), sg) => In(s, sg)
<1> DEFINE r == <<x>> \o Tail(s)
<1>0. s \in Seq(HandlerStates)
  BY Zenon DEF Stack
<1>00. Len(s) <= 2
  BY Zenon DEF Stack
<1>01. Len(s) \in Nat /\ Len(s) # 0
  BY <1>0, EmptySeq
<1>02. Len(s) \in {1, 2}
  BY <1>00, <1>01, OneOrTwo
<1>1. s \in Seq(HandlerStates) /\ Len(s) \in {1, 2} /\ Head(s) = s[1]
  BY <1>0, <1>02
<1>2. Tail(s) \in Seq(HandlerStates) /\ Len(Tail(s)) = Len(s) - 1
  BY <1>1
<1>3. r \in Seq(HandlerStates) /\ Len(r) = Len(s) /\ r[1] = x
  BY <1>1, <1>2
<1>4. \A n \in DOMAIN s : n # 1 => r[n] = s[n]
  BY <1>1, <1>2
<1>5. DOMAIN r = DOMAIN s
  BY <1>1, <1>3
<1> HIDE DEF r
<1>6. \A n \in DOMAIN r : HandlerOf(r[n]) = HandlerOf(s[n])
  BY <1>1, <1>3, <1>4, <1>5
<1>7. Stack(r)
  BY <1>1, <1>3, <1>5, <1>6 DEF Stack
<1>8. \A sg : In(r, sg) => In(s, sg)
  BY <1>5, <1>6 DEF In
<1>9. QED
  BY <1>7, <1>8 DEF r

\* The handler on top returns.
LEMMA StackReturn ==
    ASSUME NEW s, Stack(s), s # <<>>
    PROVE  /\ Stack(<<>> \o Tail(s))
           /\ \A sg : In(<<>> \o Tail(s), sg) => In(s, sg)
<1> DEFINE r == Tail(s)
<1>0. s \in Seq(HandlerStates)
  BY Zenon DEF Stack
<1>00. Len(s) <= 2
  BY Zenon DEF Stack
<1>01. Len(s) \in Nat /\ Len(s) # 0
  BY <1>0, EmptySeq
<1>1. s \in Seq(HandlerStates) /\ Len(s) \in {1, 2}
  BY <1>0, <1>00, <1>01, OneOrTwo
<1>2. r \in Seq(HandlerStates) /\ Len(r) = Len(s) - 1
  BY <1>1
<1>3. \A n \in DOMAIN r : n + 1 \in DOMAIN s /\ r[n] = s[n + 1] /\ n \in Int
  BY <1>1, <1>2
<1>4. <<>> \o Tail(s) = r
  BY <1>2
<1> HIDE DEF r
<1>5. Stack(r)
  BY <1>1, <1>2, <1>3 DEF Stack
<1>6. \A sg : In(r, sg) => In(s, sg)
  BY <1>3 DEF In
<1>7. QED
  BY <1>4, <1>5, <1>6

\* A signal that is not being handled starts its handler on top.
LEMMA StackDeliver ==
    ASSUME NEW s, Stack(s), NEW x \in HandlerStates, ~In(s, HandlerOf(x))
    PROVE  /\ Stack(<<x>> \o s)
           /\ \A sg : In(<<x>> \o s, sg) => In(s, sg) \/ sg = HandlerOf(x)
<1> DEFINE r == <<x>> \o s
<1>0. s \in Seq(HandlerStates)
  BY Zenon DEF Stack
<1>00. Len(s) <= 2
  BY Zenon DEF Stack
<1>01. Len(s) \in Nat
  BY <1>0
<1>1. s \in Seq(HandlerStates) /\ Len(s) \in {0, 1, 2}
  BY <1>0, <1>00, <1>01, OneOrTwo
<1>2. \A n \in DOMAIN s : HandlerOf(s[n]) # HandlerOf(x)
  BY DEF In
<1>3. Len(s) # 2
  <2>1. SUFFICES ASSUME Len(s) = 2 PROVE FALSE
    OBVIOUS
  <2>2. 1 \in DOMAIN s /\ 2 \in DOMAIN s
    BY <1>1, <2>1
  <2>3. HandlerOf(s[1]) # HandlerOf(s[2])
    BY <2>2 DEF Stack
  <2>4. HandlerOf(s[1]) # HandlerOf(x) /\ HandlerOf(s[2]) # HandlerOf(x)
    BY <1>2, <2>2
  <2>5. QED
    BY <2>3, <2>4 DEF HandlerOf
<1>4. r \in Seq(HandlerStates) /\ Len(r) = Len(s) + 1 /\ r[1] = x
  BY <1>1
<1>5. \A n \in DOMAIN r : n # 1 => n - 1 \in DOMAIN s /\ r[n] = s[n - 1]
  BY <1>1, <1>4
<1>6. \A n \in DOMAIN r : n \in Int
  BY <1>4
<1> HIDE DEF r
<1>7. Stack(r)
  <2>1. ASSUME NEW m \in DOMAIN r, NEW n \in DOMAIN r,
               HandlerOf(r[m]) = HandlerOf(r[n])
        PROVE  m = n
    BY <1>2, <1>4, <1>5, <1>6, <2>1 DEF Stack
  <2>2. QED
    BY <1>1, <1>3, <1>4, <2>1 DEF Stack
<1>8. \A sg : In(r, sg) => In(s, sg) \/ sg = HandlerOf(x)
  BY <1>4, <1>5 DEF In
<1>9. QED
  BY <1>7, <1>8 DEF r

-----------------------------------------------------------------------------
(* Types.                                                                   *)

\* TypeOK without what it says of stack and sent.
PlainType ==
  /\ mode \in {"TEST", "PROD"}
  /\ alive \in BOOLEAN
  /\ pc \in MainStates
  /\ ids \in 0 .. 2 /\ copying \in Texts /\ line \in 0 .. MaxRounds
  /\ message \in Message
  /\ rpc \in {"none", "read"}
  /\ handles \subseteq {"INT", "USR1"} /\ pending \subseteq {"INT", "USR1"}
  /\ sd \in {"stdin", "made", "open", "fin", "rst", "dead"}
  /\ incoming \in 0 .. MaxIncoming
  /\ handled \in 0 .. MaxSignals /\ resent \in 0 .. MaxRounds - line
  /\ early \in BOOLEAN /\ ints \in 0 .. MaxInts

StackType ==
  stack \in [Threads -> Seq(HandlerStates)] /\ \A t \in Threads : Stack(stack[t])

SentType == sent \in Seq(Message \cup {JoinRequest})

\* A signal on its way still has room in the count of those handled.
Budget ==
  /\ "USR1" \in pending => handled < MaxSignals
  /\ "INT" \in pending => ints < MaxInts

TInv == PlainType /\ StackType /\ SentType /\ Budget

LEMMA TInvTypeOK == TInv => TypeOK
<1>1. ASSUME StackType, NEW t \in Threads
      PROVE  stack[t] \in Seq(HandlerStates) /\ Len(stack[t]) <= 2
  BY <1>1, Zenon DEF StackType, Stack
<1>2. ASSUME SentType, NEW n \in DOMAIN sent
      PROVE  sent[n] \in Message \cup {JoinRequest}
  BY <1>2 DEF SentType
<1>3. QED
  BY <1>1, <1>2 DEF TInv, PlainType, TypeOK

LEMMA Bounds ==
    /\ MaxRounds \in Nat /\ MaxSignals \in Nat
    /\ MaxInts \in Nat /\ MaxIncoming \in Nat
  BY BoundAssumption

LEMMA InitType == Init => TInv
<1>1. SUFFICES ASSUME Init PROVE TInv
  OBVIOUS
<1>a. <<EMPTY, EMPTY>> \in [1 .. 2 -> Texts]
  BY DEF Texts
<1>b. message \in Message
  BY <1>1, <1>a DEF Init, Message, UNSET
<1>c. /\ line \in 0 .. MaxRounds /\ resent \in 0 .. MaxRounds - line
      /\ incoming \in 0 .. MaxIncoming
      /\ handled \in 0 .. MaxSignals /\ ints \in 0 .. MaxInts
  BY <1>1, Bounds DEF Init
<1>d. ids \in 0 .. 2 /\ copying \in Texts /\ pc \in MainStates
  BY <1>1 DEF Init, UNSET, Texts, MainStates
<1>2. PlainType
  BY <1>1, <1>b, <1>c, <1>d DEF Init, PlainType
<1>3. Stack(<<>>)
  BY DEF Stack
<1>4. stack \in [Threads -> Seq(HandlerStates)]
  BY <1>1 DEF Init
<1>5. \A t \in Threads : stack[t] = <<>>
  BY <1>1 DEF Init
<1>6. StackType
  BY <1>3, <1>4, <1>5 DEF StackType
<1>7. SentType /\ Budget
  BY <1>1 DEF Init, SentType, Budget
<1>8. QED
  BY <1>2, <1>6, <1>7 DEF TInv

\* One half of the text of a message is set.
LEMMA SetHalf ==
    ASSUME NEW m \in Message, NEW i \in 1 .. 2, NEW x \in Texts
    PROVE  /\ [m EXCEPT !.text[i] = x] \in Message
           /\ [m EXCEPT !.text[i] = x].id = m.id
           /\ [m EXCEPT !.text[i] = x].groupId = m.groupId
           /\ [m EXCEPT !.text[i] = x].name = m.name
<1>1. [m.text EXCEPT ![i] = x] \in [1 .. 2 -> Texts]
  BY DEF Message
<1>2. [m EXCEPT !.text[i] = x] = [m EXCEPT !.text = [m.text EXCEPT ![i] = x]]
  BY DEF Message
<1>3. QED
  BY <1>1, <1>2 DEF Message

LEMMA SockWriteType ==
    ASSUME TInv, NEW m \in Message \cup {JoinRequest}, SockWrite(m)
    PROVE  /\ SentType'
           /\ sd' \in {"stdin", "made", "open", "fin", "rst", "dead"}
           /\ alive' \in BOOLEAN /\ incoming' = incoming
<1>1. sd \in {"stdin", "made", "open", "fin", "rst", "dead"}
      /\ alive \in BOOLEAN
  BY DEF TInv, PlainType
<1>2. sd' \in {"stdin", "made", "open", "fin", "rst", "dead"}
      /\ alive' \in BOOLEAN /\ incoming' = incoming
  BY <1>1 DEF SockWrite
<1>3. sent' = sent \/ sent' = Append(sent, m)
  BY DEF SockWrite
<1>4. sent \in Seq(Message \cup {JoinRequest})
  BY DEF TInv, SentType
<1>5. SentType'
  BY <1>3, <1>4 DEF SentType
<1>6. QED
  BY <1>2, <1>5

\* One stack changes.
LEMMA OneStack ==
    ASSUME StackType, NEW t \in Threads, NEW s, Stack(s),
           stack' = [stack EXCEPT ![t] = s]
    PROVE  StackType'
<1>1. s \in Seq(HandlerStates)
  BY Zenon DEF Stack
<1>2. stack' \in [Threads -> Seq(HandlerStates)]
  BY <1>1 DEF StackType
<1>3. \A u \in Threads : stack'[u] = IF u = t THEN s ELSE stack[u]
  BY DEF StackType
<1>4. QED
  BY <1>2, <1>3 DEF StackType

\* What an action leaves alone keeps its type.
LEMMA Unchanged ==
    ASSUME TInv
    PROVE  /\ stack' = stack => StackType'
           /\ sent' = sent => SentType'
           /\ pending' \subseteq pending /\ handled' = handled /\ ints' = ints
                => Budget'
  BY DEF TInv, StackType, SentType, Budget

LEMMA MainTypes == ASSUME TInv, MainRuns \/ Fgets \/ EndOfInput PROVE TInv'
<1> USE DEF MainStep, local, signals, network, history
<1>0. PlainType
  BY DEF TInv
<1>1. stack' = stack /\ pending' = pending /\ handled' = handled
      /\ ints' = ints
  BY DEF MainRuns, Install, MakeSocket, Connect, SendJoin, ReadResponse,
         Spawn, SetId, Hello, Copy, Write, Fgets, EndOfInput
<1>2. StackType' /\ Budget'
  BY <1>1, Unchanged
<1>3. CASE Install
  <2>1. PlainType'
    BY <1>0, <1>3 DEF Install, PlainType, MainStates
  <2>2. QED
    BY <1>2, <1>3, <2>1, Unchanged DEF Install, TInv
<1>4. CASE MakeSocket
  <2>1. PlainType'
    BY <1>0, <1>4 DEF MakeSocket, PlainType, MainStates
  <2>2. QED
    BY <1>2, <1>4, <2>1, Unchanged DEF MakeSocket, TInv
<1>5. CASE Connect
  <2>1. PlainType'
    BY <1>0, <1>5 DEF Connect, PlainType, MainStates
  <2>2. QED
    BY <1>2, <1>5, <2>1, Unchanged DEF Connect, TInv
<1>6. CASE SendJoin
  <2>1. SockWrite(JoinRequest)
    BY <1>6 DEF SendJoin
  <2>2. /\ SentType'
        /\ sd' \in {"stdin", "made", "open", "fin", "rst", "dead"}
        /\ alive' \in BOOLEAN /\ incoming' = incoming
    BY <2>1, SockWriteType
  <2>3. PlainType'
    BY <1>0, <1>6, <2>2 DEF SendJoin, PlainType, MainStates
  <2>4. QED
    BY <1>2, <2>2, <2>3 DEF TInv
<1>7. CASE ReadResponse
  <2>1. ids' \in 0 .. 2
        /\ sd' \in {"stdin", "made", "open", "fin", "rst", "dead"}
    BY <1>0, <1>7 DEF ReadResponse, PlainType, ASSIGNED, GARBAGE
  <2>2. incoming' \in 0 .. MaxIncoming
    BY <1>0, <1>7, Bounds DEF ReadResponse, PlainType
  <2>3. PlainType'
    BY <1>0, <1>7, <2>1, <2>2 DEF ReadResponse, PlainType, MainStates
  <2>4. QED
    BY <1>2, <1>7, <2>3, Unchanged DEF ReadResponse, TInv
<1>8. CASE Spawn
  <2>1. PlainType'
    BY <1>0, <1>8 DEF Spawn, PlainType, MainStates
  <2>2. QED
    BY <1>2, <1>8, <2>1, Unchanged DEF Spawn, TInv
<1>9. CASE SetId
  <2>1. message' \in Message /\ pc' \in MainStates
    BY <1>0, <1>9 DEF SetId, PlainType, Message, MainStates
  <2>2. PlainType'
    BY <1>0, <1>9, <2>1 DEF SetId, PlainType
  <2>3. QED
    BY <1>2, <1>9, <2>2, Unchanged DEF SetId, TInv
<1>10. CASE Hello
  <2>1. PlainType'
    BY <1>0, <1>10 DEF Hello, PlainType, MainStates, Texts
  <2>2. QED
    BY <1>2, <1>10, <2>1, Unchanged DEF Hello, TInv
<1>11. CASE Copy
  <2>1. message' \in Message
    BY <1>0, <1>11, SetHalf DEF Copy, PlainType
  <2>2. PlainType'
    BY <1>0, <1>11, <2>1 DEF Copy, PlainType, MainStates
  <2>3. QED
    BY <1>2, <1>11, <2>2, Unchanged DEF Copy, TInv
<1>12. CASE Write
  <2>1. message \in Message \cup {JoinRequest} /\ SockWrite(message)
    BY <1>0, <1>12 DEF Write, PlainType
  <2>2. /\ SentType'
        /\ sd' \in {"stdin", "made", "open", "fin", "rst", "dead"}
        /\ alive' \in BOOLEAN /\ incoming' = incoming
    BY <2>1, SockWriteType
  <2>3. PlainType'
    BY <1>0, <1>12, <2>2 DEF Write, PlainType, MainStates
  <2>4. QED
    BY <1>2, <2>2, <2>3 DEF TInv
<1>13. CASE Fgets
  <2>1. line \in 0 .. MaxRounds /\ resent \in 0 .. MaxRounds - line
    BY <1>0 DEF PlainType
  <2>2. line' \in 1 .. MaxRounds /\ resent' \in 0 .. MaxRounds - line'
    BY <1>13, <2>1, Bounds DEF Fgets
  <2>3. line' \in 0 .. MaxRounds /\ copying' \in Texts
    BY <1>13, <2>2, Bounds DEF Fgets, Texts
  <2>4. PlainType'
    BY <1>0, <1>13, <2>2, <2>3 DEF Fgets, PlainType, MainStates
  <2>5. QED
    BY <1>2, <1>13, <2>4, Unchanged DEF Fgets, TInv
<1>14. CASE EndOfInput
  <2>1. line \in 0 .. MaxRounds /\ resent \in 0 .. MaxRounds - line
    BY <1>0 DEF PlainType
  <2>2. resent' \in 0 .. MaxRounds - line
    BY <1>14, <2>1, Bounds DEF EndOfInput
  <2>3. PlainType'
    BY <1>0, <1>14, <2>2 DEF EndOfInput, PlainType, MainStates
  <2>4. QED
    BY <1>2, <1>14, <2>3, Unchanged DEF EndOfInput, TInv
<1>15. QED
  BY <1>3, <1>4, <1>5, <1>6, <1>7, <1>8, <1>9, <1>10, <1>11, <1>12, <1>13,
     <1>14 DEF MainRuns

LEMMA ReceiverTypes ==
    ASSUME TInv, ReceiverRuns \/ ServerSends \/ ServerCloses
    PROVE  TInv'
<1> USE DEF ReceiverRuns, Receive, ReceiveFails, ReceiveEnd, ServerSends,
            ServerCloses, local, signals, network, history
<1>0. PlainType
  BY DEF TInv
<1>1. stack' = stack /\ pending' = pending /\ handled' = handled
      /\ ints' = ints /\ sent' = sent
  OBVIOUS
<1>2. incoming \in 0 .. MaxIncoming
  BY <1>0 DEF PlainType
<1>3. incoming' \in 0 .. MaxIncoming
  BY <1>2, Bounds
<1>4. PlainType'
  BY <1>0, <1>3 DEF PlainType
<1>5. QED
  BY <1>1, <1>4, Unchanged DEF TInv

LEMMA SignalTypes ==
    ASSUME TInv, NEW sg \in {"INT", "USR1"}, SendSignal(sg)
    PROVE  TInv'
<1> USE DEF SendSignal, local, network, history
<1>0. PlainType
  BY DEF TInv
<1>1. Budget'
  BY DEF TInv, Budget
<1>2. PlainType'
  BY <1>0 DEF PlainType
<1>3. QED
  BY <1>1, <1>2, Unchanged DEF TInv

\* The handler on top of a stack goes on, or returns.
LEMMA FrameMoves ==
    ASSUME TInv, NEW t \in Threads, NEW from, NEW x \in HandlerStates,
           HandlerOf(x) = HandlerOf(from),
           Frame(t, from, <<x>>) \/ Frame(t, from, <<>>)
    PROVE  /\ StackType'
           /\ \A u \in Threads : \A sg : In(stack'[u], sg) => In(stack[u], sg)
<1>1. StackType /\ Stack(stack[t])
  BY DEF TInv, StackType
<1>2. stack[t] # <<>> /\ Head(stack[t]) = from
  BY DEF Frame
<1>3. PICK s : /\ s = <<x>> \o Tail(stack[t]) \/ s = <<>> \o Tail(stack[t])
               /\ stack' = [stack EXCEPT ![t] = s]
  BY DEF Frame
<1>4. Stack(s) /\ \A sg : In(s, sg) => In(stack[t], sg)
  BY <1>1, <1>2, <1>3, StackStep, StackReturn, Zenon
<1>5. StackType'
  BY <1>1, <1>3, <1>4, OneStack
<1>6. \A u \in Threads : stack'[u] = IF u = t THEN s ELSE stack[u]
  BY <1>1, <1>3 DEF StackType
<1>7. QED
  BY <1>4, <1>5, <1>6

LEMMA HandlerMoves ==
    ASSUME TInv, NEW t \in Threads, HandlerRuns(t) \/ Answer(t)
    PROVE  /\ StackType'
           /\ \A u \in Threads : \A sg : In(stack'[u], sg) => In(stack[u], sg)
<1> USE DEF HandlerOf
<1>1. CASE Frame(t, "copy", <<"half">>)
  BY <1>1, FrameMoves DEF HandlerStates
<1>2. CASE Frame(t, "half", <<"write">>)
  BY <1>2, FrameMoves DEF HandlerStates
<1>3. CASE Frame(t, "write", <<>>)
  BY <1>3, FrameMoves DEF HandlerStates
<1>4. CASE Frame(t, "ask", <<"kill">>) \/ Frame(t, "ask", <<>>)
  BY <1>4, FrameMoves DEF HandlerStates
<1>5. CASE Frame(t, "kill", <<>>)
  BY <1>5, FrameMoves DEF HandlerStates
<1>6. QED
  BY <1>1, <1>2, <1>3, <1>4, <1>5
  DEF HandlerRuns, CopyHeart, WriteHeart, KillClient, Answer

LEMMA HandlerTypes ==
    ASSUME TInv, NEW t \in Threads, HandlerRuns(t) \/ Answer(t)
    PROVE  TInv'
<1> USE DEF local, network, history
<1>0. PlainType
  BY DEF TInv
<1>1. StackType'
  BY HandlerMoves
<1>2. CASE CopyHeart(t)
  <2>0. HEART \in Texts /\ message \in Message
    BY <1>0 DEF PlainType, Texts
  <2>1. message' \in Message
    BY <1>2, <2>0, SetHalf DEF CopyHeart
  <2>2. PlainType'
    BY <1>0, <1>2, <2>1 DEF CopyHeart, PlainType
  <2>3. QED
    BY <1>1, <1>2, <2>2, Unchanged DEF CopyHeart, TInv
<1>3. CASE WriteHeart(t)
  <2>1. message \in Message \cup {JoinRequest} /\ SockWrite(message)
    BY <1>0, <1>3 DEF WriteHeart, PlainType
  <2>2. /\ SentType'
        /\ sd' \in {"stdin", "made", "open", "fin", "rst", "dead"}
        /\ alive' \in BOOLEAN /\ incoming' = incoming
    BY <2>1, SockWriteType
  <2>3. PlainType'
    BY <1>0, <1>3, <2>2 DEF WriteHeart, PlainType
  <2>4. QED
    BY <1>1, <1>3, <2>2, <2>3, Unchanged DEF WriteHeart, TInv
<1>4. CASE KillClient(t)
  <2>1. PlainType'
    BY <1>0, <1>4 DEF KillClient, PlainType
  <2>2. QED
    BY <1>1, <1>4, <2>1, Unchanged DEF KillClient, TInv
<1>5. CASE Answer(t)
  <2>1. PlainType'
    BY <1>0, <1>5 DEF Answer, PlainType
  <2>2. QED
    BY <1>1, <1>5, <2>1, Unchanged DEF Answer, TInv
<1>6. QED
  BY <1>2, <1>3, <1>4, <1>5 DEF HandlerRuns

LEMMA DeliverMoves ==
    ASSUME TInv, NEW sg \in {"INT", "USR1"}, NEW t \in Threads, Deliver(sg, t)
    PROVE  /\ StackType'
           /\ \A u \in Threads : \A s :
                In(stack'[u], s) => In(stack[u], s) \/ s = sg
<1>1. CASE sg \in handles
  <2>0. mode \in {"TEST", "PROD"}
    BY DEF TInv, PlainType
  <2>1. FirstStep(sg) \in HandlerStates /\ HandlerOf(FirstStep(sg)) = sg
    <3>1. CASE sg = "USR1"
      BY <3>1 DEF FirstStep, HandlerStates, HandlerOf
    <3>2. CASE sg = "INT"
      BY <2>0, <3>2 DEF FirstStep, HandlerStates, HandlerOf
    <3>3. QED
      BY <3>1, <3>2
  <2>2. StackType /\ Stack(stack[t]) /\ ~In(stack[t], sg)
    BY DEF TInv, StackType, Deliver, Masked, In
  <2>3. PICK s : s = <<FirstStep(sg)>> \o stack[t]
                 /\ stack' = [stack EXCEPT ![t] = s]
    BY <1>1 DEF Deliver
  <2>4. Stack(s) /\ \A z : In(s, z) => In(stack[t], z) \/ z = sg
    BY <2>1, <2>2, <2>3, StackDeliver, Zenon
  <2>5. StackType'
    BY <2>2, <2>3, <2>4, OneStack
  <2>6. \A u \in Threads : stack'[u] = IF u = t THEN s ELSE stack[u]
    BY <2>2, <2>3 DEF StackType
  <2>7. QED
    BY <2>4, <2>5, <2>6
<1>2. CASE sg \notin handles
  BY <1>2, Unchanged DEF Deliver
<1>3. QED
  BY <1>1, <1>2

LEMMA DeliverTypes ==
    ASSUME TInv, NEW sg \in {"INT", "USR1"}, NEW t \in Threads, Deliver(sg, t)
    PROVE  TInv'
<1> USE DEF local, network
<1>0. PlainType /\ Budget
  BY DEF TInv
<1>1. /\ handled \in 0 .. MaxSignals /\ ints \in 0 .. MaxInts
      /\ early \in BOOLEAN
  BY <1>0 DEF PlainType
<1>2. handled' \in 0 .. MaxSignals /\ ints' \in 0 .. MaxInts
  BY <1>0, <1>1, Bounds DEF Deliver, Budget
<1>3. early' \in BOOLEAN
  BY <1>1 DEF Deliver
<1>4. alive' \in BOOLEAN
  BY <1>0 DEF Deliver, PlainType
<1>5. PlainType'
  BY <1>0, <1>2, <1>3, <1>4 DEF Deliver, PlainType
<1>6. Budget'
  BY <1>0 DEF Deliver, Budget
<1>7. QED
  BY <1>5, <1>6, DeliverMoves, Unchanged DEF Deliver, TInv

LEMMA NextType == TInv /\ [Next]_vars => TInv'
<1>1. SUFFICES ASSUME TInv, [Next]_vars PROVE TInv'
  OBVIOUS
<1>2. CASE UNCHANGED vars
  <2>1. PlainType'
    BY <1>1, <1>2 DEF TInv, PlainType, vars, local, signals, network, history
  <2>2. QED
    BY <1>1, <1>2, <2>1, Unchanged
    DEF TInv, vars, local, signals, network, history
<1>3. CASE Next
  BY <1>1, <1>3, MainTypes, ReceiverTypes, SignalTypes, HandlerTypes,
     DeliverTypes
  DEF Next, Environment, User, Delivery
<1>4. QED
  BY <1>1, <1>2, <1>3

\* Every state the client can reach has the types of TypeOK: at most one
\* handler of each signal runs on a thread (client.c:151-160).
THEOREM TypeCorrect == Spec => []TypeOK
<1>1. Spec => []TInv
  BY InitType, NextType, PTL DEF Spec
<1>2. QED
  BY <1>1, TInvTypeOK, PTL

-----------------------------------------------------------------------------
(* What the server gets first.                                              *)

\* main has set the whole message up.
Late == {"hello", "fgets", "first", "second", "write"}

\* main has not yet written the join request.
BeforeJoin == {"start", "usr1", "socket", "connect", "join"}

Complete ==
  /\ pc \in Late \cup {"groupId", "name"} => message.id = ids
  /\ pc \in Late \cup {"name"} => message.groupId = ids
  /\ pc \in Late => message.name

HandlersLate ==
  ~early => \A t \in Threads : In(stack[t], "USR1") => pc \in Late

Opened ==
  alive =>
    /\ pc = "connect" => sd # "stdin"
    /\ pc \notin BeforeJoin \ {"join"} => sd \notin {"stdin", "made"}

NoneYet ==
  ~early =>
    /\ pc \in BeforeJoin => sent = <<>>
    /\ pc \notin Late => Len(sent) <= 1

\* When the join request did not get through, nothing does any more.
Refused ==
  alive /\ pc \notin BeforeJoin /\ sent = <<>> => sd \in {"fin", "rst", "dead"}

SInv ==
  Complete /\ HandlersLate /\ Opened /\ NoneYet /\ Refused /\ SetUpFirst

LEMMA InitSetUp == Init => SInv
<1>1. SUFFICES ASSUME Init PROVE SInv
  OBVIOUS
<1>2. \A t \in Threads : stack[t] = <<>>
  BY <1>1 DEF Init
<1>3. HandlersLate
  BY <1>2 DEF HandlersLate, In
<1>4. sent = <<>> /\ pc = "start"
  BY <1>1 DEF Init
<1>5. Complete /\ Opened /\ NoneYet /\ Refused
  BY <1>4 DEF Complete, Opened, NoneYet, Refused, Late, BeforeJoin
<1>6. SetUpFirst
  BY <1>4 DEF SetUpFirst
<1>7. QED
  BY <1>3, <1>5, <1>6 DEF SInv

\* What a write can do to the socket, and to what was sent.
LEMMA SockWriteEffect ==
    ASSUME TInv, NEW m \in Message \cup {JoinRequest}, SockWrite(m)
    PROVE  /\ sent' = sent \/ sent' = Append(sent, m)
           /\ sent' = <<>> => sent = <<>>
           /\ sd \in {"fin", "rst", "dead"}
                => sd' \in {"fin", "rst", "dead"} /\ sent' = sent
           /\ alive' => alive /\ (sd' \in {"stdin", "made"} => sd' = sd)
           /\ sd = "open" => sd' = "open" /\ sent' = Append(sent, m)
           /\ sd \notin {"stdin", "made"} => sd' \notin {"stdin", "made"}
<1>1. sent \in Seq(Message \cup {JoinRequest}) /\ alive \in BOOLEAN
      /\ sd \in {"stdin", "made", "open", "fin", "rst", "dead"}
  BY DEF TInv, SentType, PlainType
<1>2. Append(sent, m) # <<>>
  BY <1>1
<1>3. QED
  BY <1>1, <1>2 DEF SockWrite

LEMMA LastOrBefore ==
    \A k \in Nat : k # 0 =>
      \A n \in 1 .. k + 1 : n \in 1 .. k \/ (n = k + 1 /\ n # 1)
  OBVIOUS

\* A message that main or a handler writes when it is set up.
LEMMA SendsMessage ==
    ASSUME TInv, SInv, ~early, alive, pc \in Late, SockWrite(message),
           ids' = ids
    PROVE  SetUpFirst'
<1>1. sent \in Seq(Message \cup {JoinRequest}) /\ message \in Message
  BY DEF TInv, SentType, PlainType
<1>2. \A n \in DOMAIN sent :
        IF n = 1 THEN sent[n] = JoinRequest
        ELSE sent[n].id = ids /\ sent[n].groupId = ids /\ sent[n].name
  BY DEF SInv, SetUpFirst
<1>3. message.id = ids /\ message.groupId = ids /\ message.name
  BY DEF SInv, Complete
<1>4. CASE sent' = sent
  BY <1>2, <1>4 DEF SetUpFirst
<1>5. CASE sent' # sent
  <2>1. sent' = Append(sent, message)
    BY <1>1, <1>5, SockWriteEffect
  <2>2. sent # <<>>
    BY <1>1, <1>5, SockWriteEffect DEF SInv, Refused, Late, BeforeJoin
  <2>3. Len(sent) \in Nat /\ Len(sent) # 0
    BY <1>1, <2>2, EmptySeq
  <2>4. DOMAIN sent = 1 .. Len(sent) /\ DOMAIN sent' = 1 .. Len(sent) + 1
    BY <1>1, <2>1
  <2>5. \A n \in 1 .. Len(sent) : sent'[n] = sent[n]
    BY <1>1, <2>1
  <2>6. sent'[Len(sent) + 1] = message
    BY <1>1, <2>1
  <2>7. \A n \in DOMAIN sent' :
          \/ n \in DOMAIN sent /\ sent'[n] = sent[n]
          \/ n # 1 /\ sent'[n] = message
    <3>1. TAKE n \in DOMAIN sent'
    <3>2. n \in 1 .. Len(sent) \/ (n = Len(sent) + 1 /\ n # 1)
      BY <2>3, <2>4, LastOrBefore, Zenon
    <3>3. QED
      BY <2>4, <2>5, <2>6, <3>2, Zenon
  <2>8. QED
    BY <1>2, <1>3, <2>7 DEF SetUpFirst
<1>6. QED
  BY <1>4, <1>5

LEMMA MainSetUp == ASSUME TInv, SInv, MainRuns \/ Fgets \/ EndOfInput PROVE SInv'
<1> USE DEF MainStep, local, signals, network, history
<1>0. /\ PlainType /\ sent \in Seq(Message \cup {JoinRequest})
      /\ message \in Message /\ alive
  BY DEF TInv, SentType, PlainType, MainRuns, Install, MakeSocket, Connect,
         SendJoin, ReadResponse, Spawn, SetId, Hello, Copy, Write, Fgets,
         EndOfInput
<1>1. stack' = stack /\ early' = early /\ (pc \in Late => pc' \in Late)
  BY DEF Late, MainRuns, Install, MakeSocket, Connect, SendJoin, ReadResponse,
         Spawn, SetId, Hello, Copy, Write, Fgets, EndOfInput
<1>2. HandlersLate'
  BY <1>1 DEF SInv, HandlersLate
<1>3. ASSUME sent' = sent, ids' = ids PROVE SetUpFirst'
  BY <1>1, <1>3 DEF SInv, SetUpFirst
<1> USE DEF Late, BeforeJoin
<1>4. CASE Install \/ MakeSocket \/ Connect \/ Spawn \/ Hello \/ Fgets
           \/ EndOfInput
  <2> USE DEF Install, MakeSocket, Connect, Spawn, Hello, Fgets, EndOfInput
  <2>1. sent' = sent /\ ids' = ids /\ message' = message
    BY <1>4
  <2>2. Complete'
    BY <1>4, <2>1 DEF SInv, Complete
  <2>3. Opened'
    BY <1>0, <1>4 DEF SInv, Opened
  <2>4. NoneYet' /\ Refused'
    BY <1>0, <1>1, <1>4, <2>1 DEF SInv, NoneYet, Refused
  <2>5. QED
    BY <1>2, <1>3, <2>1, <2>2, <2>3, <2>4 DEF SInv
<1>5. CASE SendJoin
  <2>1. SockWrite(JoinRequest) /\ pc = "join" /\ pc' = "response"
        /\ ids' = ids /\ message' = message
    BY <1>5 DEF SendJoin
  <2>2. sd \in {"open", "fin", "rst", "dead"}
    BY <1>0, <2>1 DEF SInv, Opened, PlainType
  <2>3. Complete' /\ Opened' /\ Refused'
    <3>1. Complete'
      BY <2>1 DEF Complete
    <3>2. sd' \notin {"stdin", "made"}
      BY <2>1, <2>2, SockWriteEffect
    <3>3. sent' = <<>> => sd' \in {"fin", "rst", "dead"}
      BY <1>0, <2>1, <2>2, SockWriteEffect, AppendProperties
    <3>4. QED
      BY <2>1, <3>1, <3>2, <3>3 DEF Opened, Refused
  <2>4. ASSUME ~early PROVE sent' = <<>> \/ sent' = <<JoinRequest>>
    <3>1. sent = <<>>
      BY <2>1, <2>4 DEF SInv, NoneYet
    <3>2. Append(sent, JoinRequest) = <<JoinRequest>>
      BY <3>1
    <3>3. QED
      BY <2>1, <3>1, <3>2, SockWriteEffect
  <2>5. NoneYet'
    <3>1. Len(<<>>) <= 1 /\ Len(<<JoinRequest>>) <= 1
      OBVIOUS
    <3>2. QED
      BY <1>1, <2>1, <2>4, <3>1, Zenon DEF NoneYet
  <2>6. SetUpFirst'
    BY <1>1, <2>4 DEF SetUpFirst
  <2>7. QED
    BY <1>2, <2>3, <2>5, <2>6 DEF SInv
<1>6. CASE ReadResponse
  <2>1. sent' = sent /\ pc = "response" /\ pc' = "spawn" /\ alive' = alive
    BY <1>6 DEF ReadResponse
  <2>2. Complete'
    BY <2>1 DEF Complete
  <2>3. Opened' /\ Refused'
    BY <1>0, <1>6 DEF ReadResponse, SInv, Opened, Refused
  <2>4. NoneYet'
    BY <1>1, <2>1 DEF SInv, NoneYet
  <2>5. SetUpFirst'
    <3>1. ASSUME ~early PROVE \A n \in DOMAIN sent : n = 1
      <4>1. Len(sent) <= 1 /\ Len(sent) \in Nat
        BY <1>0, <2>1, <3>1 DEF SInv, NoneYet
      <4>2. \A k \in Nat : k <= 1 => \A n \in 1 .. k : n = 1
        OBVIOUS
      <4>3. DOMAIN sent = 1 .. Len(sent)
        BY <1>0
      <4>4. QED
        BY <4>1, <4>2, <4>3, Zenon
    <3>2. QED
      BY <1>1, <2>1, <3>1 DEF SInv, SetUpFirst
  <2>6. QED
    BY <1>2, <2>2, <2>3, <2>4, <2>5 DEF SInv
<1>7. CASE SetId
  <2>1. sent' = sent /\ ids' = ids /\ sd' = sd /\ alive' = alive
    BY <1>7 DEF SetId
  <2>2. Complete'
    BY <1>0, <1>7 DEF SetId, SInv, Complete, Message
  <2>3. Opened' /\ NoneYet' /\ Refused'
    BY <1>1, <1>7, <2>1 DEF SetId, SInv, Opened, NoneYet, Refused
  <2>4. QED
    BY <1>2, <1>3, <2>1, <2>2, <2>3 DEF SInv
<1>8. CASE Copy
  <2>1. sent' = sent /\ ids' = ids /\ sd' = sd /\ alive' = alive
    BY <1>8 DEF Copy
  <2>2. copying \in Texts
    BY <1>0 DEF PlainType
  <2>3. /\ message'.id = message.id
        /\ message'.groupId = message.groupId
        /\ message'.name = message.name
    <3>1. PICK i \in 1 .. 2 : message' = [message EXCEPT !.text[i] = copying]
      BY <1>8 DEF Copy
    <3>2. QED
      BY <1>0, <2>2, <3>1, SetHalf, Zenon
  <2>4. Complete'
    BY <1>8, <2>1, <2>3 DEF Copy, SInv, Complete
  <2>5. Opened' /\ NoneYet' /\ Refused'
    BY <1>1, <1>8, <2>1 DEF Copy, SInv, Opened, NoneYet, Refused
  <2>6. QED
    BY <1>2, <1>3, <2>1, <2>4, <2>5 DEF SInv
<1>9. CASE Write
  <2>1. SockWrite(message) /\ pc = "write" /\ pc' = "fgets"
        /\ ids' = ids /\ message' = message
    BY <1>9 DEF Write
  <2>2. Complete'
    BY <2>1 DEF SInv, Complete
  <2>3. Opened' /\ Refused'
    BY <1>0, <2>1, SockWriteEffect DEF SInv, Opened, Refused
  <2>4. NoneYet'
    BY <2>1 DEF NoneYet
  <2>5. SetUpFirst'
    <3>1. CASE early
      BY <1>1, <3>1 DEF SetUpFirst
    <3>2. CASE ~early
      BY <1>0, <2>1, <3>2, SendsMessage
    <3>3. QED
      BY <3>1, <3>2
  <2>6. QED
    BY <1>2, <2>2, <2>3, <2>4, <2>5 DEF SInv
<1>10. QED
  BY <1>4, <1>5, <1>6, <1>7, <1>8, <1>9 DEF MainRuns

\* What a step of main's neighbours must keep for SInv.
LEMMA OthersSetUp ==
    ASSUME TInv, SInv, pc' = pc, ids' = ids, sent' = sent, early' = early,
           message'.id = message.id, message'.groupId = message.groupId,
           message'.name = message.name, alive' => alive,
           \A u \in Threads : In(stack'[u], "USR1") => In(stack[u], "USR1"),
           sd' \in {"stdin", "made"} => sd' = sd,
           sd \in {"fin", "rst", "dead"} => sd' \in {"fin", "rst", "dead"}
    PROVE  SInv'
<1>1. Complete' /\ HandlersLate' /\ NoneYet' /\ SetUpFirst'
  BY DEF SInv, Complete, HandlersLate, NoneYet, SetUpFirst
<1>2. Opened' /\ Refused'
  BY DEF SInv, Opened, Refused
<1>3. QED
  BY <1>1, <1>2 DEF SInv

LEMMA ReceiverSetUp ==
    ASSUME TInv, SInv,
           \/ ReceiverRuns \/ ServerSends \/ ServerCloses
           \/ \E sg \in {"INT", "USR1"} : SendSignal(sg)
    PROVE  SInv'
<1>1. /\ pc' = pc /\ ids' = ids /\ sent' = sent /\ early' = early
      /\ message' = message /\ stack' = stack /\ (alive' => alive)
      /\ (sd' \in {"stdin", "made"} => sd' = sd)
      /\ (sd \in {"fin", "rst", "dead"} => sd' \in {"fin", "rst", "dead"})
  BY DEF ReceiverRuns, Receive, ReceiveFails, ReceiveEnd, Reading, ServerSends,
         ServerCloses, SendSignal, local, signals, network, history
<1>2. QED
  BY <1>1, OthersSetUp

LEMMA DeliverSetUp ==
    ASSUME TInv, SInv, NEW sg \in {"INT", "USR1"}, NEW t \in Threads,
           Deliver(sg, t)
    PROVE  SInv'
<1> USE DEF local, network
<1>1. /\ pc' = pc /\ ids' = ids /\ sent' = sent /\ message' = message
      /\ sd' = sd /\ (alive' => alive)
  BY DEF Deliver
<1>2. \A u \in Threads :
        In(stack'[u], "USR1") => In(stack[u], "USR1") \/ sg = "USR1"
  BY DeliverMoves
<1>3. early' = early \/ (early' /\ sg = "USR1")
  BY DEF Deliver, TInv, PlainType
<1>4. CASE sg = "INT"
  <2>1. early' = early
    BY <1>3, <1>4
  <2>2. QED
    BY <1>1, <1>2, <1>4, <2>1, OthersSetUp
<1>5. CASE sg = "USR1"
  <2>1. ~early' => ~early /\ pc \in Late
    BY <1>5 DEF Deliver, Late
  <2>2. Complete' /\ Opened' /\ Refused'
    BY <1>1 DEF SInv, Complete, Opened, Refused
  <2>3. HandlersLate'
    BY <1>1, <2>1 DEF HandlersLate
  <2>4. NoneYet' /\ SetUpFirst'
    BY <1>1, <2>1 DEF SInv, NoneYet, SetUpFirst
  <2>5. QED
    BY <2>2, <2>3, <2>4 DEF SInv
<1>6. QED
  BY <1>4, <1>5

LEMMA HandlerSetUp ==
    ASSUME TInv, SInv, NEW t \in Threads, HandlerRuns(t) \/ Answer(t)
    PROVE  SInv'
<1> USE DEF local, network, history
<1>1. \A u \in Threads : In(stack'[u], "USR1") => In(stack[u], "USR1")
  BY HandlerMoves
<1>2. message \in Message /\ HEART \in Texts
  BY DEF TInv, PlainType, Texts
<1>3. CASE CopyHeart(t)
  <2>1. PICK i \in 1 .. 2 : message' = [message EXCEPT !.text[i] = HEART]
    BY <1>3 DEF CopyHeart
  <2>2. /\ message'.id = message.id
        /\ message'.groupId = message.groupId
        /\ message'.name = message.name
    BY <1>2, <2>1, SetHalf, Zenon
  <2>3. /\ pc' = pc /\ ids' = ids /\ sent' = sent /\ early' = early
        /\ sd' = sd /\ alive' = alive
    BY <1>3 DEF CopyHeart
  <2>4. QED
    BY <1>1, <2>2, <2>3, OthersSetUp
<1>4. CASE KillClient(t) \/ Answer(t)
  <2>1. /\ pc' = pc /\ ids' = ids /\ sent' = sent /\ early' = early
        /\ sd' = sd /\ (alive' => alive) /\ message' = message
    BY <1>4 DEF KillClient, Answer
  <2>2. QED
    BY <1>1, <2>1, OthersSetUp
<1>5. CASE WriteHeart(t)
  <2>1. /\ SockWrite(message) /\ alive
        /\ stack[t] # <<>> /\ Head(stack[t]) = "write"
        /\ pc' = pc /\ ids' = ids /\ early' = early /\ message' = message
    BY <1>5 DEF WriteHeart, Frame
  <2>2. In(stack[t], "USR1")
    <3>1. stack[t] \in Seq(HandlerStates)
      BY DEF TInv, StackType
    <3>2. 1 \in DOMAIN stack[t] /\ stack[t][1] = "write"
      BY <2>1, <3>1
    <3>3. QED
      BY <3>2 DEF In, HandlerOf
  <2>3. ~early => pc \in Late
    BY <2>2 DEF SInv, HandlersLate
  <2>4. Complete' /\ HandlersLate'
    BY <1>1, <2>1 DEF SInv, Complete, HandlersLate
  <2>5. Opened' /\ Refused'
    BY <1>2, <2>1, SockWriteEffect DEF SInv, Opened, Refused
  <2>6. NoneYet'
    BY <2>1, <2>3 DEF NoneYet, Late, BeforeJoin
  <2>7. SetUpFirst'
    <3>1. CASE early
      BY <2>1, <3>1 DEF SetUpFirst
    <3>2. CASE ~early
      BY <2>1, <2>3, <3>2, SendsMessage
    <3>3. QED
      BY <3>1, <3>2
  <2>8. QED
    BY <2>4, <2>5, <2>6, <2>7 DEF SInv
<1>6. QED
  BY <1>3, <1>4, <1>5 DEF HandlerRuns

LEMMA NextSetUp == TInv /\ SInv /\ [Next]_vars => SInv'
<1>1. SUFFICES ASSUME TInv, SInv, [Next]_vars PROVE SInv'
  OBVIOUS
<1>2. CASE UNCHANGED vars
  BY <1>1, <1>2, OthersSetUp DEF vars, local, signals, network, history
<1>3. CASE Next
  BY <1>1, <1>3, MainSetUp, ReceiverSetUp, DeliverSetUp, HandlerSetUp
  DEF Next, Environment, User, Delivery
<1>4. QED
  BY <1>1, <1>2, <1>3

\* Whatever the number of lines, signals and messages, and whichever thread
\* the handlers run on: unless a signal was handled before message was
\* complete, the server gets the join request first, and every message after
\* it carries the ids of the response and the name (client.c:85-109).
THEOREM JoinsFirst == Spec => []SetUpFirst
<1>1. Init => TInv /\ SInv
  BY InitType, InitSetUp
<1>2. TInv /\ SInv /\ [Next]_vars => (TInv /\ SInv)'
  BY NextType, NextSetUp
<1>3. SInv => SetUpFirst
  BY DEF SInv
<1>4. QED
  BY <1>1, <1>2, <1>3, PTL DEF Spec

-----------------------------------------------------------------------------
(* What becomes of the lines.                                               *)

\* Some handler on the stack s is at step x.
Has(s, x) == \E n \in DOMAIN s : s[n] = x

\* A run of the SIGUSR1 handler goes on on thread t,
Busy(t) == IF In(stack[t], "USR1") THEN 1 ELSE 0

\* and has still to write as many halves.
Left(t) == IF Has(stack[t], "copy") THEN 2
           ELSE IF Has(stack[t], "half") THEN 1 ELSE 0

Handling == Busy(Main) + Busy(Receiver)
Doing == Left(Main) + Left(Receiver)

Loop == {"fgets", "first", "second", "write"}

\* main's round: what it copies, and what message can hold meanwhile.
LoopInv ==
  /\ pc \notin Loop => line = 0 /\ resent = 0
  /\ pc \in {"first", "second"} => copying = IF line = 0 THEN HELLO ELSE line
  /\ message.text[1] <= line /\ message.text[2] <= line
  /\ pc = "second" => message.text[1] \in {copying, HEART}
  /\ Handling <= handled
  /\ early => handled > 0

\* A write of a line is main's, or paid for by a handler or a round without
\* a line.
CopiesInv ==
  /\ \A x \in 1 .. MaxRounds : Copies(x) + Handling <= 1 + handled + resent
  /\ \A x \in 1 .. MaxRounds :
       pc \in {"first", "second"} /\ x = line
         => Copies(x) + Handling <= handled + resent
  /\ \A x \in 1 .. MaxRounds :
       pc = "write" /\ message.text = Whole(x)
         => Copies(x) + Handling <= handled + resent
  /\ \A x \in 1 .. MaxRounds : x > line => Copies(x) = 0

\* The line main is about to write has been overwritten.
Spoilt ==
  \/ pc = "second" /\ message.text[1] # line
  \/ pc = "write" /\ message.text # Whole(line)

\* The lines that are lost or will be.
Missing ==
  {x \in 1 .. MaxRounds :
     Copies(x) = 0 /\ (x <= Written \/ (x = line /\ Spoilt))}

\* Each half a handler has written can have cost one line.
LostInv == sd = "open" => Cardinality(Missing) + Doing <= 2 * handled

\* Nobody disturbs main.
Alone == sd = "open" /\ handled = 0 /\ resent = 0

AloneInv ==
  /\ mode = "TEST" /\ line = 0 /\ resent = 0
       => pc \notin {"first", "second", "write"}
  /\ Alone =>
       /\ pc \in {"response", "spawn", "id", "groupId", "name", "hello"}
            => sent = <<JoinRequest>>
       /\ pc \in {"first", "second", "write"} /\ line = 0
            => sent = <<JoinRequest>>
       /\ pc = "second" => message.text[1] = copying
       /\ pc = "write"
            => message.text = Whole(IF line = 0 THEN HELLO ELSE line)
       /\ pc = "fgets" \/ line > 0
            => sent = Greeting \o [x \in 1 .. Written |-> Line(x)]

\* The top of a stack and what is below it.
LEMMA FirstAndRest ==
    /\ \A k \in Nat : \A n \in 1 .. k + 1 : n = 1 \/ n - 1 \in 1 .. k
    /\ \A k \in Nat : 1 \in 1 .. k + 1
    /\ \A k \in Nat : \A n \in 1 .. k : n + 1 \in 1 .. k + 1 /\ n + 1 - 1 = n
  OBVIOUS

LEMMA HasOnTop ==
    ASSUME NEW q \in Seq(HandlerStates), NEW x \in HandlerStates, NEW y
    PROVE  Has(<<x>> \o q, y) <=> y = x \/ Has(q, y)
<1> DEFINE r == <<x>> \o q
<1>1. Len(q) \in Nat /\ DOMAIN q = 1 .. Len(q)
  OBVIOUS
<1>2. r[1] = x /\ DOMAIN r = 1 .. Len(q) + 1
  OBVIOUS
<1>3. \A n \in 1 .. Len(q) + 1 : n # 1 => r[n] = q[n - 1]
  OBVIOUS
<1> HIDE DEF r
<1>4. ASSUME NEW n \in DOMAIN r, r[n] = y PROVE y = x \/ Has(q, y)
  <2>1. n \in 1 .. Len(q) + 1
    BY <1>2
  <2>2. n = 1 \/ n - 1 \in 1 .. Len(q)
    BY <1>1, <2>1, FirstAndRest, Zenon
  <2>3. CASE n = 1
    BY <1>2, <1>4, <2>3
  <2>4. CASE n # 1
    <3>1. n - 1 \in DOMAIN q
      BY <1>1, <2>2, <2>4, Zenon
    <3>2. q[n - 1] = y
      BY <1>3, <1>4, <2>1, <2>4, Zenon
    <3>3. QED
      BY <3>1, <3>2 DEF Has
  <2>5. QED
    BY <2>3, <2>4
<1>5. ASSUME y = x PROVE \E n \in DOMAIN r : r[n] = y
  BY <1>1, <1>2, <1>5, FirstAndRest, Zenon
<1>6. ASSUME NEW n \in DOMAIN q, q[n] = y PROVE \E m \in DOMAIN r : r[m] = y
  <2>1. n \in 1 .. Len(q) /\ n \in Int
    BY <1>1
  <2>2. n + 1 \in 1 .. Len(q) + 1
    BY <1>1, <2>1, FirstAndRest, Zenon
  <2>3. n + 1 # 1 /\ (n + 1) - 1 = n
    BY <2>1
  <2>4. r[n + 1] = q[n]
    <3>1. PICK m \in 1 .. Len(q) + 1 : m = n + 1
      BY <2>2, Zenon
    <3>2. m # 1 /\ m - 1 = n
      BY <2>3, <3>1, Zenon
    <3>3. r[m] = q[m - 1]
      BY <1>3, <3>2, Zenon
    <3>4. QED
      BY <3>1, <3>2, <3>3, Zenon
  <2>5. QED
    BY <1>2, <1>6, <2>2, <2>4, Zenon
<1>7. QED
  BY <1>4, <1>5, <1>6 DEF Has, r

\* Only one handler of a signal runs on a thread: none of it is below the top.
LEMMA Below ==
    ASSUME NEW s, Stack(s), s # <<>>
    PROVE  /\ Tail(s) \in Seq(HandlerStates) /\ Head(s) \in HandlerStates
           /\ s = <<Head(s)>> \o Tail(s)
           /\ ~In(Tail(s), HandlerOf(Head(s)))
<1>0. s \in Seq(HandlerStates)
  BY Zenon DEF Stack
<1>00. Len(s) <= 2
  BY Zenon DEF Stack
<1>01. Len(s) \in Nat /\ Len(s) # 0
  BY <1>0, EmptySeq
<1>02. Len(s) \in {1, 2}
  BY <1>00, <1>01, OneOrTwo
<1>1. Len(s) \in {1, 2} /\ Head(s) = s[1] /\ DOMAIN s = 1 .. Len(s)
  BY <1>0, <1>02
<1>2. Tail(s) \in Seq(HandlerStates) /\ Len(Tail(s)) = Len(s) - 1
  BY <1>0, <1>1
<1>3. \A n \in DOMAIN Tail(s) :
        /\ n + 1 \in DOMAIN s /\ Tail(s)[n] = s[n + 1] /\ n + 1 # 1
        /\ 1 \in DOMAIN s
  BY <1>0, <1>1, <1>2
<1>4. ~In(Tail(s), HandlerOf(Head(s)))
  BY <1>1, <1>3 DEF In, Stack
<1>5. Head(s) \in HandlerStates /\ s = <<Head(s)>> \o Tail(s)
  BY <1>0, <1>1, <1>2
<1>6. QED
  BY <1>2, <1>4, <1>5

\* The two counts of a thread, by what is on its stack.
LEMMA CountsAre ==
    ASSUME NEW t
    PROVE  /\ Busy(t) = IF \E y \in {"copy", "half", "write"} : Has(stack[t], y)
                          THEN 1 ELSE 0
           /\ Busy(t) \in {0, 1} /\ Left(t) \in {0, 1, 2}
           /\ Left(t) <= 2 * Busy(t)
<1>1. In(stack[t], "USR1")
        <=> \E y \in {"copy", "half", "write"} : Has(stack[t], y)
  BY DEF In, Has, HandlerOf
<1>2. QED
  BY <1>1 DEF Busy, Left

LEMMA SumsAre ==
    /\ Handling \in {0, 1, 2} /\ Doing \in 0 .. 4 /\ Doing <= 2 * Handling
    /\ \A t \in Threads : Busy(t) <= Handling
<1>1. \A t : /\ Busy(t) \in {0, 1} /\ Left(t) \in {0, 1, 2}
             /\ Left(t) <= 2 * Busy(t)
  BY CountsAre
<1>2. QED
  BY <1>1 DEF Handling, Doing, Threads

\* A thread's counts change by j and k, and so do the sums.
Change(t, j, k) ==
  /\ Busy(t)' = Busy(t) + j /\ Handling' = Handling + j
  /\ Left(t)' = Left(t) + k /\ Doing' = Doing + k

LEMMA OneCount ==
    ASSUME NEW t \in Threads, NEW u \in Threads, u # t,
           stack'[u] = stack[u]
    PROVE  \E j, k \in Int : Change(t, j, k)
<1>1. Busy(u)' = Busy(u) /\ Left(u)' = Left(u)
  BY DEF Busy, Left
<1>2. \A v : Busy(v) \in Int /\ Left(v) \in Int
  BY CountsAre
<1>3. PICK b \in Int, l \in Int : b = Busy(t)' /\ l = Left(t)'
  BY DEF Busy, Left
<1>4. PICK b0 \in Int, l0 \in Int : b0 = Busy(t) /\ l0 = Left(t)
  BY <1>2
<1>5. PICK bu \in Int, lu \in Int : bu = Busy(u) /\ lu = Left(u)
  BY <1>2
<1>6. /\ Handling = b0 + bu /\ Handling' = b + bu
      /\ Doing = l0 + lu /\ Doing' = l + lu
  <2>1. CASE t = Main /\ u = Receiver
    BY <1>1, <1>3, <1>4, <1>5, <2>1 DEF Handling, Doing
  <2>2. CASE t = Receiver /\ u = Main
    BY <1>1, <1>3, <1>4, <1>5, <2>2 DEF Handling, Doing
  <2>3. QED
    BY <2>1, <2>2 DEF Threads
<1>7. /\ b = b0 + (b - b0) /\ b + bu = (b0 + bu) + (b - b0)
      /\ l = l0 + (l - l0) /\ l + lu = (l0 + lu) + (l - l0)
  OBVIOUS
<1>8. Change(t, b - b0, l - l0)
  BY <1>3, <1>4, <1>6, <1>7, Zenon DEF Change
<1>9. b - b0 \in Int /\ l - l0 \in Int
  OBVIOUS
<1>10. QED
  BY <1>8, <1>9, Zenon

\* A step of the handler on top of a stack.
LEMMA FrameCounts ==
    ASSUME TInv, NEW t \in Threads, NEW from, NEW to,
           to = <<>> \/ (\E x \in HandlerStates : to = <<x>>),
           Frame(t, from, to)
    PROVE  \E q \in Seq(HandlerStates) :
             /\ from \in HandlerStates
             /\ ~In(q, HandlerOf(from))
             /\ \A y : Has(stack[t], y) <=> y = from \/ Has(q, y)
             /\ \A y : Has(stack'[t], y) <=> (to = <<y>> \/ Has(q, y))
             /\ \A u \in Threads : u # t => stack'[u] = stack[u]
<1>1. Stack(stack[t]) /\ stack[t] # <<>> /\ Head(stack[t]) = from
  BY DEF TInv, StackType, Frame
<1> DEFINE q == Tail(stack[t])
<1>2. /\ q \in Seq(HandlerStates) /\ from \in HandlerStates
      /\ stack[t] = <<from>> \o q /\ ~In(q, HandlerOf(from))
  BY <1>1, Below
<1>3. \A u \in Threads : stack'[u] = IF u = t THEN to \o q ELSE stack[u]
  BY DEF Frame, TInv, StackType
<1> HIDE DEF q
<1>4. \A y : Has(stack[t], y) <=> y = from \/ Has(q, y)
  BY <1>2, HasOnTop
<1>5. \A y : Has(to \o q, y) <=> (to = <<y>> \/ Has(q, y))
  <2>1. CASE to = <<>>
    <3>1. to \o q = q
      BY <1>2, <2>1
    <3>2. \A y : to # <<y>>
      BY <2>1
    <3>3. QED
      BY <3>1, <3>2
  <2>2. ASSUME NEW x \in HandlerStates, to = <<x>>
        PROVE  \A y : Has(to \o q, y) <=> (to = <<y>> \/ Has(q, y))
    <3>1. \A y : Has(<<x>> \o q, y) <=> y = x \/ Has(q, y)
      BY <1>2, HasOnTop
    <3>2. \A y : to = <<y>> <=> y = x
      BY <2>2
    <3>3. QED
      BY <2>2, <3>1, <3>2
  <2>3. QED
    BY <2>1, <2>2
<1>6. QED
  BY <1>2, <1>3, <1>4, <1>5

\* What a step of handle_my does to the counts.
LEMMA HandlerCounts ==
    ASSUME TInv, NEW t \in Threads
    PROVE  /\ Frame(t, "copy", <<"half">>) \/ Frame(t, "half", <<"write">>)
                => Handling >= 1 /\ Handling' = Handling /\ Doing' = Doing - 1
           /\ Frame(t, "write", <<>>)
                => Handling >= 1 /\ Handling' = Handling - 1 /\ Doing' = Doing
           /\ Frame(t, "ask", <<"kill">>) \/ Frame(t, "ask", <<>>)
              \/ Frame(t, "kill", <<>>)
                => Handling' = Handling /\ Doing' = Doing
<1>1. PICK u \in Threads : u # t
  BY DEF Threads, Main, Receiver
<1>2. Handling \in Int /\ Doing \in Int /\ Busy(t) <= Handling
  BY SumsAre
<1>3. ASSUME NEW from, NEW to, to = <<>> \/ (\E x \in HandlerStates : to = <<x>>),
             Frame(t, from, to)
      PROVE  /\ \E j, k \in Int : Change(t, j, k)
             /\ \E q \in Seq(HandlerStates) :
                  /\ ~In(q, HandlerOf(from))
                  /\ \A y : Has(stack[t], y) <=> y = from \/ Has(q, y)
                  /\ \A y : Has(stack'[t], y) <=> (to = <<y>> \/ Has(q, y))
  <2>1. \E q \in Seq(HandlerStates) :
          /\ ~In(q, HandlerOf(from))
          /\ \A y : Has(stack[t], y) <=> y = from \/ Has(q, y)
          /\ \A y : Has(stack'[t], y) <=> (to = <<y>> \/ Has(q, y))
          /\ \A v \in Threads : v # t => stack'[v] = stack[v]
    BY <1>3, FrameCounts
  <2>2. stack'[u] = stack[u]
    BY <1>1, <2>1
  <2>3. \E j, k \in Int : Change(t, j, k)
    BY <1>1, <2>2, OneCount
  <2>4. QED
    BY <2>1, <2>3, Zenon
<1> DEFINE Hearts == {"copy", "half", "write"}
<1>4. ASSUME NEW from \in Hearts, NEW to,
             to = <<>> \/ (\E x \in HandlerStates : to = <<x>>), Frame(t, from, to)
      PROVE  /\ \A y \in Hearts : Has(stack[t], y) <=> y = from
             /\ \A y \in Hearts : Has(stack'[t], y) <=> to = <<y>>
  <2>1. PICK q \in Seq(HandlerStates) :
          /\ ~In(q, HandlerOf(from))
          /\ \A y : Has(stack[t], y) <=> y = from \/ Has(q, y)
          /\ \A y : Has(stack'[t], y) <=> (to = <<y>> \/ Has(q, y))
    BY <1>3, <1>4, Zenon
  <2>2. \A y \in Hearts : ~Has(q, y)
    BY <2>1 DEF Has, In, HandlerOf
  <2>3. QED
    BY <2>1, <2>2
<1>5. /\ Busy(t) = IF \E y \in Hearts : Has(stack[t], y) THEN 1 ELSE 0
      /\ Busy(t)' = IF \E y \in Hearts : Has(stack'[t], y) THEN 1 ELSE 0
  BY DEF Busy, In, Has, HandlerOf
<1>6. ASSUME Frame(t, "copy", <<"half">>)
      PROVE  Handling >= 1 /\ Handling' = Handling /\ Doing' = Doing - 1
  <2>1. /\ \A y \in Hearts : Has(stack[t], y) <=> y = "copy"
        /\ \A y \in Hearts : Has(stack'[t], y) <=> <<"half">> = <<y>>
    BY <1>4, <1>6 DEF HandlerStates
  <2>2. /\ Has(stack[t], "copy") /\ Has(stack'[t], "half")
        /\ ~Has(stack'[t], "copy")
    BY <2>1
  <2>3. Busy(t) = 1 /\ Busy(t)' = 1 /\ Left(t) = 2 /\ Left(t)' = 1
    BY <1>5, <2>2 DEF Left
  <2>4. PICK j, k \in Int : Change(t, j, k)
    BY <1>3, <1>6 DEF HandlerStates
  <2>5. QED
    BY <1>2, <2>3, <2>4 DEF Change
<1>7. ASSUME Frame(t, "half", <<"write">>)
      PROVE  Handling >= 1 /\ Handling' = Handling /\ Doing' = Doing - 1
  <2>1. /\ \A y \in Hearts : Has(stack[t], y) <=> y = "half"
        /\ \A y \in Hearts : Has(stack'[t], y) <=> <<"write">> = <<y>>
    BY <1>4, <1>7 DEF HandlerStates
  <2>2. /\ Has(stack[t], "half") /\ ~Has(stack[t], "copy")
        /\ Has(stack'[t], "write") /\ ~Has(stack'[t], "copy")
        /\ ~Has(stack'[t], "half")
    BY <2>1
  <2>3. Busy(t) = 1 /\ Busy(t)' = 1 /\ Left(t) = 1 /\ Left(t)' = 0
    BY <1>5, <2>2 DEF Left
  <2>4. PICK j, k \in Int : Change(t, j, k)
    BY <1>3, <1>7 DEF HandlerStates
  <2>5. QED
    BY <1>2, <2>3, <2>4 DEF Change
<1>8. ASSUME Frame(t, "write", <<>>)
      PROVE  Handling >= 1 /\ Handling' = Handling - 1 /\ Doing' = Doing
  <2>1. /\ \A y \in Hearts : Has(stack[t], y) <=> y = "write"
        /\ \A y \in Hearts : Has(stack'[t], y) <=> <<>> = <<y>>
    BY <1>4, <1>8
  <2>2. /\ Has(stack[t], "write") /\ ~Has(stack[t], "copy")
        /\ ~Has(stack[t], "half") /\ \A y \in Hearts : ~Has(stack'[t], y)
    BY <2>1
  <2>3. Busy(t) = 1 /\ Busy(t)' = 0 /\ Left(t) = 0 /\ Left(t)' = 0
    BY <1>5, <2>2 DEF Left
  <2>4. PICK j, k \in Int : Change(t, j, k)
    BY <1>3, <1>8
  <2>5. QED
    BY <1>2, <2>3, <2>4 DEF Change
<1>9. ASSUME NEW from \in {"ask", "kill"}, NEW to \in {<<>>, <<"kill">>},
             Frame(t, from, to)
      PROVE  Handling' = Handling /\ Doing' = Doing
  <2>1. to = <<>> \/ \E x \in HandlerStates : to = <<x>>
    BY DEF HandlerStates
  <2>2. PICK q \in Seq(HandlerStates) :
          /\ \A y : Has(stack[t], y) <=> y = from \/ Has(q, y)
          /\ \A y : Has(stack'[t], y) <=> (to = <<y>> \/ Has(q, y))
    BY <1>3, <1>9, <2>1, Zenon
  <2>3. \A y \in Hearts : y # from /\ to # <<y>>
    BY <1>9
  <2>4. \A y \in Hearts : Has(stack[t], y) <=> Has(stack'[t], y)
    BY <2>2, <2>3
  <2>5. Busy(t)' = Busy(t) /\ Left(t)' = Left(t)
    BY <1>5, <2>4 DEF Left
  <2>6. Busy(t) \in Int /\ Left(t) \in Int
    BY CountsAre
  <2>7. PICK j, k \in Int : Change(t, j, k)
    BY <1>3, <1>9, <2>1, Zenon
  <2>8. QED
    BY <1>2, <2>5, <2>6, <2>7 DEF Change
<1>10. QED
  BY <1>6, <1>7, <1>8, <1>9

\* A signal is delivered.
LEMMA DeliverCounts ==
    ASSUME TInv, NEW sg \in {"INT", "USR1"}, NEW t \in Threads, Deliver(sg, t)
    PROVE  /\ sg = "INT" => Handling' = Handling /\ Doing' = Doing
           /\ sg = "USR1" => Handling' <= Handling + 1 /\ Doing' <= Doing + 2
<1>1. PICK u \in Threads : u # t
  BY DEF Threads, Main, Receiver
<1>2. Handling \in Int /\ Doing \in Int
  BY SumsAre
<1>3. CASE sg \notin handles
  <2>1. stack' = stack
    BY <1>3 DEF Deliver
  <2>2. QED
    BY <1>2, <2>1 DEF Handling, Doing, Busy, Left
<1>4. CASE sg \in handles
  <2>1. /\ stack'[t] = <<FirstStep(sg)>> \o stack[t] /\ stack'[u] = stack[u]
        /\ stack[t] \in Seq(HandlerStates) /\ mode \in {"TEST", "PROD"}
    BY <1>1, <1>4 DEF Deliver, TInv, StackType, PlainType
  <2>2. FirstStep(sg) = (IF sg = "USR1" THEN "copy"
                         ELSE IF mode = "TEST" THEN "kill" ELSE "ask")
    BY DEF FirstStep
  <2>3. FirstStep(sg) \in HandlerStates
    BY <2>2 DEF HandlerStates
  <2>4. \A y : Has(stack'[t], y) <=> y = FirstStep(sg) \/ Has(stack[t], y)
    BY <2>1, <2>3, HasOnTop
  <2>5. PICK j, k \in Int : Change(t, j, k)
    BY <1>1, <2>1, OneCount
  <2>6. /\ Busy(t) \in {0, 1} /\ Left(t) \in {0, 1, 2}
        /\ Busy(t)' \in {0, 1} /\ Left(t)' \in {0, 1, 2}
    BY CountsAre DEF Busy, Left
  <2>7. CASE sg = "INT"
    <3>1. \A y \in {"copy", "half", "write"} :
            Has(stack'[t], y) <=> Has(stack[t], y)
      BY <2>2, <2>4, <2>7
    <3>2. Busy(t)' = Busy(t) /\ Left(t)' = Left(t)
      BY <3>1 DEF Busy, Left, In, Has, HandlerOf
    <3>3. j = 0 /\ k = 0
      BY <2>5, <2>6, <3>2 DEF Change
    <3>4. QED
      BY <1>2, <2>5, <2>7, <3>3 DEF Change
  <2>8. CASE sg = "USR1"
    <3>1. j <= 1 /\ k <= 2
      BY <2>5, <2>6 DEF Change
    <3>2. QED
      BY <1>2, <2>5, <2>8, <3>1 DEF Change
  <2>9. QED
    BY <2>7, <2>8
<1>5. QED
  BY <1>3, <1>4

LInv == LoopInv /\ CopiesInv /\ LostInv /\ AloneInv

LEMMA NotJoin == \A m \in Message : m # JoinRequest
<1>1. ASSUME NEW m \in Message PROVE m # JoinRequest
  <2>1. "id" \in DOMAIN m
    BY DEF Message
  <2>2. "id" \notin DOMAIN JoinRequest
    BY DEF JoinRequest
  <2>3. QED
    BY <2>1, <2>2
<1>2. QED
  BY <1>1

\* The copies are counted.
LEMMA CopiesCount ==
    ASSUME TInv, NEW x
    PROVE  IsFiniteSet(With(x)) /\ Copies(x) \in Nat
<1>1. PICK k \in Nat : DOMAIN sent = 1 .. k
  BY DEF TInv, SentType
<1>2. With(x) \in SUBSET (1 .. k)
  BY <1>1 DEF With
<1>0. IsFiniteSet(1 .. k)
  BY FS_Interval
<1>3. IsFiniteSet(With(x))
  BY <1>0, <1>2, FS_Subset
<1>4. QED
  BY <1>3, FS_CardinalityType DEF Copies

LEMMA PastEnd ==
    /\ \A k \in Nat : k + 1 \notin 1 .. k
    /\ \A k \in Nat : \A n \in 1 .. k + 1 : n \in 1 .. k \/ n = k + 1
    /\ \A k \in Nat : k + 1 \in 1 .. k + 1 /\ 1 .. k \subseteq 1 .. k + 1
  OBVIOUS

\* A write of the message m adds a copy of its text, if it gets through.
LEMMA SockWriteCopies ==
    ASSUME TInv, NEW m \in Message \cup {JoinRequest}, SockWrite(m), NEW x
    PROVE  /\ sent' = sent => Copies(x)' = Copies(x)
           /\ m # JoinRequest /\ m.text = Whole(x) /\ sent' # sent
                => Copies(x)' = Copies(x) + 1
           /\ m = JoinRequest \/ m.text # Whole(x) => Copies(x)' = Copies(x)
<1>1. CASE sent' = sent
  <2>1. Copies(x)' = Copies(x)
    BY <1>1 DEF Copies, With
  <2>2. QED
    BY <1>1, <2>1
<1>2. CASE sent' # sent
  <2>1. sent' = Append(sent, m)
    BY <1>2, SockWriteEffect
  <2>2. sent \in Seq(Message \cup {JoinRequest})
    BY DEF TInv, SentType
  <2> DEFINE k == Len(sent)
  <2>3. k \in Nat /\ DOMAIN sent = 1 .. k /\ DOMAIN sent' = 1 .. k + 1
    BY <2>1, <2>2
  <2>4. (\A n \in 1 .. k : sent'[n] = sent[n]) /\ sent'[k + 1] = m
    BY <2>1, <2>2
  <2> HIDE DEF k
  <2>5. k + 1 \notin 1 .. k /\ k + 1 \in 1 .. k + 1
        /\ \A n : n \in 1 .. k + 1 <=> n \in 1 .. k \/ n = k + 1
    BY <2>3, PastEnd
  <2>6. With(x)' = {n \in DOMAIN sent' :
                      sent'[n] # JoinRequest /\ sent'[n].text = Whole(x)}
    BY DEF With, Whole
  <2>7. CASE m # JoinRequest /\ m.text = Whole(x)
    <3>1. With(x)' = With(x) \cup {k + 1} /\ k + 1 \notin With(x)
      BY <2>3, <2>4, <2>5, <2>6, <2>7 DEF With
    <3>2. QED
      BY <1>2, <2>7, <3>1, CopiesCount, FS_AddElement DEF Copies
  <2>8. CASE m = JoinRequest \/ m.text # Whole(x)
    <3>1. With(x)' = With(x)
      BY <2>3, <2>4, <2>5, <2>6, <2>8 DEF With
    <3>2. QED
      BY <1>2, <2>8, <3>1 DEF Copies
  <2>9. QED
    BY <2>7, <2>8
<1>3. QED
  BY <1>1, <1>2

LEMMA MissingFinite ==
    /\ IsFiniteSet(Missing) /\ Cardinality(Missing) \in Nat
    /\ IsFiniteSet(Missing') /\ Cardinality(Missing') \in Nat
<1>1. IsFiniteSet(1 .. MaxRounds)
  BY Bounds, FS_Interval
<1>2. Missing \in SUBSET (1 .. MaxRounds) /\ Missing' \in SUBSET (1 .. MaxRounds)
  BY DEF Missing
<1>3. IsFiniteSet(Missing) /\ IsFiniteSet(Missing')
  BY <1>1, <1>2, FS_Subset
<1>4. QED
  BY <1>3, FS_CardinalityType

\* Nothing is missing before the first line.
LEMMA NoLineYet ==
    ASSUME line' = 0, NEW e \in Int, NEW h \in Int, NEW d \in Int,
           handled' = e, h <= e, Doing' = d, d <= 2 * h
    PROVE  LostInv'
<1>1. Missing' = {}
  BY DEF Missing, Written, Spoilt
<1>2. Cardinality(Missing)' = 0
  BY <1>1, FS_EmptySet
<1>3. 0 + d <= 2 * e
  OBVIOUS
<1>4. QED
  BY <1>2, <1>3 DEF LostInv

\* Lines are found again, or handlers have less to do.
LEMMA LostKept ==
    ASSUME TInv, LostInv, sd' = "open" => sd = "open",
           NEW d \in Int, NEW h \in Nat, Doing' = Doing + d,
           handled' = handled + h, d <= 2 * h, Missing' \subseteq Missing
    PROVE  LostInv'
<1>1. Cardinality(Missing') <= Cardinality(Missing)
  BY MissingFinite, FS_Subset
<1>2. PICK c \in Nat, c1 \in Nat :
        c = Cardinality(Missing) /\ c1 = Cardinality(Missing')
  BY MissingFinite
<1>3. handled \in Nat /\ Doing \in Int
  BY SumsAre DEF TInv, PlainType
<1>4. c + Doing <= 2 * handled
      => c1 + (Doing + d) <= 2 * (handled + h)
  BY <1>1, <1>2, <1>3
<1>5. QED
  BY <1>2, <1>4 DEF LostInv

\* A handler spoils the line main is at.
LEMMA LostOne ==
    ASSUME TInv, LostInv, sd' = sd, Doing' = Doing - 1, handled' = handled,
           Missing' \subseteq Missing \cup {line}
    PROVE  LostInv'
<1>1. /\ IsFiniteSet(Missing \cup {line})
      /\ Cardinality(Missing \cup {line}) <= Cardinality(Missing) + 1
  BY MissingFinite, FS_AddElement
<1>2. Cardinality(Missing') <= Cardinality(Missing \cup {line})
  BY <1>1, FS_Subset
<1>3. PICK c \in Nat, c1 \in Nat, c2 \in Nat :
        /\ c = Cardinality(Missing) /\ c1 = Cardinality(Missing')
        /\ c2 = Cardinality(Missing \cup {line})
  BY <1>1, MissingFinite, FS_CardinalityType
<1>4. handled \in Nat /\ Doing \in Int
  BY SumsAre DEF TInv, PlainType
<1>5. c + Doing <= 2 * handled => c1 + (Doing - 1) <= 2 * handled
  BY <1>1, <1>2, <1>3, <1>4
<1>6. QED
  BY <1>3, <1>5 DEF LostInv

LEMMA Numbers ==
    ASSUME TInv
    PROVE  /\ handled \in Nat /\ resent \in Nat /\ line \in Nat
           /\ Handling \in Int /\ Doing \in Int
           /\ \A x : Copies(x) \in Nat
<1>1. line \in Nat /\ handled \in Nat /\ resent \in 0 .. MaxRounds - line
  BY DEF TInv, PlainType
<1>2. resent \in Nat
  BY <1>1, Bounds
<1>3. QED
  BY <1>1, <1>2, SumsAre, CopiesCount

\* The texts of message, by halves.
LEMMA TextIs ==
    ASSUME NEW m \in Message, NEW x
    PROVE  m.text = Whole(x) <=> m.text[1] = x /\ m.text[2] = x
<1>1. m.text \in [1 .. 2 -> Texts]
  BY DEF Message
<1>2. m.text[1] = x /\ m.text[2] = x => m.text = <<x, x>>
  BY <1>1
<1>3. QED
  BY <1>2 DEF Whole

LEMMA HalfIs ==
    ASSUME NEW m \in Message, NEW i \in 1 .. 2, NEW x \in Texts
    PROVE  /\ [m EXCEPT !.text[i] = x].text[i] = x
           /\ \A j \in 1 .. 2 :
                j # i => [m EXCEPT !.text[i] = x].text[j] = m.text[j]
<1>1. [m EXCEPT !.text[i] = x].text = [m.text EXCEPT ![i] = x]
  BY DEF Message
<1>2. m.text \in [1 .. 2 -> Texts]
  BY DEF Message
<1>3. QED
  BY <1>1, <1>2

\* A step that touches none of what LInv is about, but may close the socket.
LEMMA Kept ==
    ASSUME TInv, LInv, mode' = mode, ids' = ids, pc' = pc,
           copying' = copying, line' = line, message' = message,
           sent' = sent, resent' = resent, handled' = handled,
           early' = early, Handling' = Handling, Doing' = Doing,
           sd' = "open" => sd = "open"
    PROVE  LInv'
<1>1. \A x : Copies(x)' = Copies(x)
  BY DEF Copies, With
<1>2. LoopInv'
  BY DEF LInv, LoopInv
<1>3. CopiesInv'
  BY <1>1 DEF LInv, CopiesInv
<1>4. LostInv'
  BY <1>1 DEF LInv, LostInv, Missing, Written, Spoilt
<1>5. AloneInv'
  BY DEF LInv, AloneInv, Alone, Greeting, Written, Line
<1>6. QED
  BY <1>2, <1>3, <1>4, <1>5 DEF LInv

LEMMA ReceiverLines ==
    ASSUME TInv, LInv,
           \/ ReceiverRuns \/ ServerSends \/ ServerCloses
           \/ \E sg \in {"INT", "USR1"} : SendSignal(sg)
    PROVE  LInv'
<1> USE DEF ReceiverRuns, Receive, ReceiveFails, ReceiveEnd, Reading,
            ServerSends, ServerCloses, SendSignal, local, signals, network,
            history
<1>1. /\ mode' = mode /\ ids' = ids /\ pc' = pc /\ copying' = copying
      /\ line' = line /\ message' = message /\ sent' = sent
      /\ resent' = resent /\ handled' = handled /\ early' = early
      /\ stack' = stack /\ (sd' = "open" => sd = "open")
  OBVIOUS
<1>2. Handling' = Handling /\ Doing' = Doing
  BY <1>1 DEF Handling, Doing, Busy, Left
<1>3. QED
  BY <1>1, <1>2, Kept

LEMMA DeliverLines ==
    ASSUME TInv, LInv, NEW sg \in {"INT", "USR1"}, NEW t \in Threads,
           Deliver(sg, t)
    PROVE  LInv'
<1> USE DEF local, network
<1>1. /\ mode' = mode /\ ids' = ids /\ pc' = pc /\ copying' = copying
      /\ line' = line /\ message' = message /\ sent' = sent
      /\ resent' = resent /\ sd' = sd
  BY DEF Deliver
<1>2. CASE sg = "INT"
  <2>1. handled' = handled /\ early' = early
    BY <1>2 DEF Deliver
  <2>2. Handling' = Handling /\ Doing' = Doing
    BY <1>2, DeliverCounts
  <2>3. QED
    BY <1>1, <2>1, <2>2, Kept
<1>3. CASE sg = "USR1"
  <2>1. handled' = handled + 1
    BY <1>3 DEF Deliver
  <2>2. Handling' <= Handling + 1 /\ Doing' <= Doing + 2
    BY <1>3, DeliverCounts
  <2>3. PICK g \in Int, d \in Int : Handling' = g /\ Doing' = d
    BY DEF Handling, Doing, Busy, Left
  <2>4. g <= Handling + 1 /\ d <= Doing + 2
    BY <2>2, <2>3, Zenon
  <2>5. \A x : Copies(x)' = Copies(x)
    BY <1>1 DEF Copies, With
  <2>6. LoopInv'
    <3>1. g <= handled + 1 /\ handled + 1 > 0
      BY <2>4, Numbers DEF LInv, LoopInv
    <3>2. QED
      BY <1>1, <2>1, <2>3, <3>1 DEF LInv, LoopInv
  <2>7. CopiesInv'
    <3>1. ASSUME NEW x \in 1 .. MaxRounds
          PROVE  /\ Copies(x) + g <= 1 + (handled + 1) + resent
                 /\ Copies(x) + Handling <= handled + resent
                      => Copies(x) + g <= (handled + 1) + resent
      <4>1. Copies(x) + Handling <= 1 + handled + resent
        BY DEF LInv, CopiesInv
      <4>2. /\ handled \in Nat /\ resent \in Nat /\ Handling \in Int
            /\ Copies(x) \in Nat
        BY Numbers
      <4>3. QED
        BY <4>1, <4>2, <2>4
    <3>2. QED
      BY <1>1, <2>1, <2>3, <2>5, <3>1 DEF LInv, CopiesInv
  <2>8. LostInv'
    <3>1. Missing' = Missing
      BY <1>1, <2>5 DEF Missing, Written, Spoilt
    <3>2. Doing' = Doing + (d - Doing) /\ d - Doing \in Int
          /\ d - Doing <= 2 * 1
      BY <2>3, <2>4, Numbers
    <3>3. QED
      BY <1>1, <2>1, <3>1, <3>2, LostKept DEF LInv
  <2>9. AloneInv'
    <3>1. handled' # 0
      BY <2>1, Numbers
    <3>2. QED
      BY <1>1, <3>1 DEF LInv, AloneInv, Alone
  <2>10. QED
    BY <2>6, <2>7, <2>8, <2>9 DEF LInv
<1>4. QED
  BY <1>2, <1>3

\* A write on an open socket gets through, and only before the first line can
\* a write open it.
LEMMA WriteOpens ==
    ASSUME TInv, SInv, LInv, alive, NEW m \in Message \cup {JoinRequest},
           SockWrite(m), sd' = "open"
    PROVE  /\ sd = "open" \/ line = 0
           /\ sd = "open" => sent' = Append(sent, m) /\ sent' # sent
<1>1. sd \in {"made", "open"}
  BY DEF SockWrite, TInv, PlainType
<1>2. sd = "made" => line = 0
  BY DEF SInv, Opened, BeforeJoin, LInv, LoopInv, Loop
<1>3. ASSUME sd = "open" PROVE sent' = Append(sent, m) /\ sent' # sent
  <2>1. sent' = Append(sent, m)
    BY <1>3, SockWriteEffect
  <2>2. sent \in Seq(Message \cup {JoinRequest})
    BY DEF TInv, SentType
  <2>3. Append(sent, m) # sent
    BY <2>2
  <2>4. QED
    BY <2>1, <2>3
<1>4. QED
  BY <1>1, <1>2, <1>3

LEMMA CopyHeartLines ==
    ASSUME TInv, LInv, NEW t \in Threads, CopyHeart(t)
    PROVE  LInv'
<1> USE DEF local, network, history
<1>1. /\ mode' = mode /\ ids' = ids /\ pc' = pc /\ copying' = copying
      /\ line' = line /\ sent' = sent /\ resent' = resent /\ sd' = sd
      /\ handled' = handled /\ early' = early
  BY DEF CopyHeart
<1>2. Handling >= 1 /\ Handling' = Handling /\ Doing' = Doing - 1
  BY HandlerCounts DEF CopyHeart
<1>3. message \in Message /\ HEART \in Texts
  BY DEF TInv, PlainType, Texts
<1>4. PICK i \in 1 .. 2 : message' = [message EXCEPT !.text[i] = HEART]
  BY DEF CopyHeart
<1>5. message' \in Message
  BY <1>3, <1>4, SetHalf
<1>6. /\ message'.text[i] = HEART
      /\ \A j \in 1 .. 2 : j # i => message'.text[j] = message.text[j]
  BY <1>3, <1>4, HalfIs
<1>7. \A x : Copies(x)' = Copies(x)
  BY <1>1 DEF Copies, With
<1>8. \A x \in 1 .. MaxRounds : message'.text # Whole(x)
  <2>1. TAKE x \in 1 .. MaxRounds
  <2>2. x # HEART
    BY DEF HEART
  <2>3. QED
    BY <1>5, <1>6, <2>2, TextIs
<1>9. LoopInv'
  <2>1. HEART <= line
    BY Numbers DEF HEART
  <2>2. message'.text[1] <= line /\ message'.text[2] <= line
    BY <1>6, <2>1 DEF LInv, LoopInv
  <2>3. pc = "second" => message'.text[1] \in {copying, HEART}
    BY <1>6 DEF LInv, LoopInv
  <2>4. QED
    BY <1>1, <1>2, <2>2, <2>3 DEF LInv, LoopInv
<1>10. CopiesInv'
  BY <1>1, <1>2, <1>7, <1>8 DEF LInv, CopiesInv
<1>11. LostInv'
  <2>1. Missing' \subseteq Missing \cup {line}
    BY <1>1, <1>7 DEF Missing, Written
  <2>2. QED
    BY <1>1, <1>2, <2>1, LostOne DEF LInv
<1>12. AloneInv'
  <2>1. handled # 0
    BY <1>2, Numbers DEF LInv, LoopInv
  <2>2. QED
    BY <1>1, <2>1 DEF LInv, AloneInv, Alone
<1>13. QED
  BY <1>9, <1>10, <1>11, <1>12 DEF LInv

LEMMA WriteHeartLines ==
    ASSUME TInv, SInv, LInv, NEW t \in Threads, WriteHeart(t)
    PROVE  LInv'
<1> USE DEF local, network, history
<1>1. /\ mode' = mode /\ ids' = ids /\ pc' = pc /\ copying' = copying
      /\ line' = line /\ message' = message /\ resent' = resent
      /\ handled' = handled /\ early' = early /\ alive /\ SockWrite(message)
  BY DEF WriteHeart, Frame
<1>2. Handling >= 1 /\ Handling' = Handling - 1 /\ Doing' = Doing
  BY HandlerCounts DEF WriteHeart
<1>3. message \in Message /\ message # JoinRequest
  BY NotJoin DEF TInv, PlainType
<1>4. PICK g \in Int : Handling' = g /\ g = Handling - 1
  BY <1>2, Numbers
<1>5. \A x : /\ Copies(x)' = Copies(x) \/ Copies(x)' = Copies(x) + 1
             /\ message.text # Whole(x) => Copies(x)' = Copies(x)
  BY <1>1, <1>3, SockWriteCopies
<1>6. LoopInv'
  <2>1. g <= handled
    BY <1>4, Numbers DEF LInv, LoopInv
  <2>2. QED
    BY <1>1, <1>4, <2>1 DEF LInv, LoopInv
<1>7. CopiesInv'
  <2>1. ASSUME NEW x \in 1 .. MaxRounds
        PROVE  \E c \in Nat :
                 /\ Copies(x)' = c
                 /\ c + g <= Copies(x) + Handling
    <3>1. PICK c \in Nat : /\ Copies(x)' = c
                           /\ c = Copies(x) \/ c = Copies(x) + 1
      BY <1>5, Numbers
    <3>2. c + g <= Copies(x) + Handling
      BY <1>4, <3>1, Numbers
    <3>3. QED
      BY <3>1, <3>2, Zenon
  <2>2. ASSUME NEW x \in 1 .. MaxRounds, NEW k \in Int,
               Copies(x) + Handling <= k
        PROVE  Copies(x)' + Handling' <= k
    <3>1. PICK c \in Nat : /\ Copies(x)' = c
                           /\ c + g <= Copies(x) + Handling
      BY <2>1
    <3>2. c + g <= k
      BY <3>1, <2>2, <1>4, Numbers
    <3>3. QED
      BY <3>1, <3>2, <1>4
  <2>3. ASSUME NEW x \in 1 .. MaxRounds, x > line PROVE Copies(x)' = 0
    <3>1. message.text[1] <= line /\ line \in Nat
      BY Numbers DEF LInv, LoopInv
    <3>2. message.text # Whole(x)
      <4>1. SUFFICES ASSUME message.text = Whole(x) PROVE FALSE
        OBVIOUS
      <4>2. message.text[1] = x
        BY <1>3, <4>1, TextIs
      <4>3. QED
        BY <2>3, <3>1, <4>2
    <3>3. QED
      BY <1>5, <2>3, <3>2 DEF LInv, CopiesInv
  <2>4. 1 + handled + resent \in Int /\ handled + resent \in Int
    BY Numbers
  <2>5. \A x \in 1 .. MaxRounds :
          /\ Copies(x)' + Handling' <= 1 + handled + resent
          /\ pc \in {"first", "second"} /\ x = line
               => Copies(x)' + Handling' <= handled + resent
          /\ pc = "write" /\ message.text = Whole(x)
               => Copies(x)' + Handling' <= handled + resent
    BY <2>2, <2>4 DEF LInv, CopiesInv
  <2>6. QED
    BY <1>1, <2>3, <2>5 DEF CopiesInv
<1>8. LostInv'
  <2>1. SUFFICES ASSUME sd' = "open" PROVE LostInv'
    BY DEF LostInv
  <2>2. CASE sd = "open"
    <3>1. \A x \in 1 .. MaxRounds : Copies(x)' = 0 => Copies(x) = 0
      BY <1>5, Numbers
    <3>2. Missing' \subseteq Missing
      BY <1>1, <3>1 DEF Missing, Written, Spoilt
    <3>3. Doing' = Doing + 0 /\ handled' = handled + 0
      BY <1>1, <1>2, Numbers
    <3>4. QED
      BY <2>2, <3>2, <3>3, LostKept DEF LInv
  <2>3. CASE line = 0
    <3>1. /\ handled' = handled /\ Doing' = Doing
          /\ Handling <= handled /\ Doing <= 2 * Handling
      BY <1>1, <1>2, SumsAre DEF LInv, LoopInv
    <3>2. QED
      BY <1>1, <2>3, <3>1, NoLineYet, Numbers
  <2>4. QED
    BY <1>1, <1>3, <2>1, <2>2, <2>3, WriteOpens
<1>9. AloneInv'
  <2>1. handled # 0
    BY <1>2, Numbers DEF LInv, LoopInv
  <2>2. QED
    BY <1>1, <2>1 DEF LInv, AloneInv, Alone
<1>10. QED
  BY <1>6, <1>7, <1>8, <1>9 DEF LInv

LEMMA HandlerLines ==
    ASSUME TInv, SInv, LInv, NEW t \in Threads, HandlerRuns(t) \/ Answer(t)
    PROVE  LInv'
<1>1. CASE KillClient(t) \/ Answer(t)
  <2>1. /\ mode' = mode /\ ids' = ids /\ pc' = pc /\ copying' = copying
        /\ line' = line /\ message' = message /\ sent' = sent
        /\ resent' = resent /\ handled' = handled /\ early' = early
        /\ sd' = sd
    BY <1>1 DEF KillClient, Answer, local, network, history
  <2>2. Handling' = Handling /\ Doing' = Doing
    BY <1>1, HandlerCounts DEF KillClient, Answer
  <2>3. QED
    BY <2>1, <2>2, Kept
<1>2. QED
  BY <1>1, CopyHeartLines, WriteHeartLines DEF HandlerRuns

\* What no step of main but a write changes of the handlers and the lines.
LEMMA MainKeeps ==
    ASSUME TInv, MainRuns \/ Fgets \/ EndOfInput
    PROVE  /\ mode' = mode /\ handled' = handled /\ early' = early /\ alive
           /\ Handling' = Handling /\ Doing' = Doing
           /\ sent' = sent => \A x : Copies(x)' = Copies(x)
<1> USE DEF MainStep, local, signals, network, history
<1>1. /\ mode' = mode /\ handled' = handled /\ early' = early /\ alive
      /\ stack' = stack
  BY DEF MainRuns, Install, MakeSocket, Connect, SendJoin, ReadResponse,
         Spawn, SetId, Hello, Copy, Write, Fgets, EndOfInput
<1>2. Handling' = Handling /\ Doing' = Doing
  BY <1>1 DEF Handling, Doing, Busy, Left
<1>3. sent' = sent => \A x : Copies(x)' = Copies(x)
  BY DEF Copies, With
<1>4. QED
  BY <1>1, <1>2, <1>3

\* Before the first round.
LEMMA SetUpLines ==
    ASSUME TInv, SInv, LInv,
           \/ Install \/ MakeSocket \/ Connect \/ SendJoin \/ ReadResponse
           \/ Spawn \/ SetId \/ Hello
    PROVE  LInv'
<1> USE DEF MainStep, local, signals, network, history
<1>1. /\ line' = line /\ resent' = resent /\ pc \notin Loop
      /\ pc' \notin {"second", "write"}
      /\ pc' \notin Loop \/ Hello
  BY DEF Install, MakeSocket, Connect, SendJoin, ReadResponse,
         Spawn, SetId, Hello, Loop
<1>2. line = 0 /\ resent = 0
  BY <1>1 DEF LInv, LoopInv
<1>3. /\ mode' = mode /\ handled' = handled /\ early' = early /\ alive
      /\ Handling' = Handling /\ Doing' = Doing
      /\ sent' = sent => \A x : Copies(x)' = Copies(x)
  BY MainKeeps DEF MainRuns
<1>4. \A x : Copies(x)' = Copies(x)
  <2>1. CASE SendJoin
    <3>1. SockWrite(JoinRequest)
      BY <2>1 DEF SendJoin
    <3>2. QED
      BY <3>1, SockWriteCopies
  <2>2. CASE ~SendJoin
    <3>1. sent' = sent
      BY <2>2 DEF Install, MakeSocket, Connect, ReadResponse, Spawn, SetId,
                  Hello
    <3>2. QED
      BY <1>3, <3>1
  <2>3. QED
    BY <2>1, <2>2
<1>5. message'.text = message.text
  BY DEF TInv, PlainType, Message, Install, MakeSocket, Connect, SendJoin,
         ReadResponse, Spawn, SetId, Hello
<1>6. pc' = "first" => copying' = HELLO
  BY DEF Install, MakeSocket, Connect, SendJoin, ReadResponse, Spawn, SetId,
         Hello
<1>7. LoopInv'
  BY <1>1, <1>2, <1>3, <1>5, <1>6 DEF LInv, LoopInv
<1>8. CopiesInv'
  BY <1>1, <1>2, <1>3, <1>4 DEF LInv, CopiesInv
<1>9. LostInv'
  <2>1. Handling <= handled /\ Doing <= 2 * Handling
    BY SumsAre DEF LInv, LoopInv
  <2>2. QED
    BY <1>1, <1>2, <1>3, <2>1, NoLineYet, Numbers
<1>10. AloneInv'
  <2>1. mode' = "TEST" => pc' # "first"
    BY DEF Install, MakeSocket, Connect, SendJoin, ReadResponse, Spawn, SetId,
           Hello
  <2>2. ASSUME Alone'
        PROVE  /\ pc' \in {"response", "spawn", "id", "groupId", "name", "hello"}
                    => sent' = <<JoinRequest>>
               /\ pc' = "first" => sent' = <<JoinRequest>>
               /\ pc' = "fgets" => mode = "TEST" /\ sent' = <<JoinRequest>>
    <3>1. handled = 0 /\ sd' = "open"
      BY <1>3, <2>2 DEF Alone
    <3>2. ~early
      BY <3>1 DEF LInv, LoopInv
    <3>3. CASE SendJoin
      <4>1. /\ SockWrite(JoinRequest) /\ pc = "join" /\ pc' = "response"
        BY <3>3 DEF SendJoin
      <4>2. sent = <<>> /\ sd \notin {"stdin", "made"}
        BY <1>3, <3>2, <4>1 DEF SInv, NoneYet, Opened, BeforeJoin
      <4>3. sd = "open"
        BY <3>1, <4>1, <4>2 DEF SockWrite
      <4>4. sent' = Append(sent, JoinRequest)
        BY <4>1, <4>3, SockWriteEffect
      <4>5. sent' = <<JoinRequest>>
        BY <4>2, <4>4
      <4>6. QED
        BY <4>1, <4>5
    <3>4. CASE Install \/ MakeSocket \/ Connect
      BY <3>4 DEF Install, MakeSocket, Connect
    <3>5. CASE ReadResponse \/ Spawn \/ SetId \/ Hello
      <4>1. /\ sd = "open" /\ sent' = sent
            /\ pc \in {"response", "spawn", "id", "groupId", "name", "hello"}
        BY <3>1, <3>5 DEF ReadResponse, Spawn, SetId, Hello
      <4>2. sent = <<JoinRequest>>
        BY <1>2, <3>1, <4>1 DEF LInv, AloneInv, Alone
      <4>3. pc' = "fgets" => mode = "TEST"
        BY <3>5 DEF ReadResponse, Spawn, SetId, Hello
      <4>4. QED
        BY <4>1, <4>2, <4>3
    <3>6. QED
      BY <3>3, <3>4, <3>5
  <2>3. ASSUME Alone', pc' = "fgets"
        PROVE  sent' = Greeting' \o [x \in 1 .. Written' |-> Line(x)']
    <3>1. mode' = "TEST" /\ sent' = <<JoinRequest>>
      BY <1>3, <2>2, <2>3
    <3>2. Greeting' = <<JoinRequest>> /\ Written' = 0
      BY <1>1, <1>2, <2>3, <3>1 DEF Greeting, Written
    <3>3. [x \in 1 .. Written' |-> Line(x)'] = <<>>
      BY <3>2
    <3>4. QED
      BY <3>1, <3>2, <3>3
  <2>4. line' = 0 /\ ~(line' > 0)
    BY <1>1, <1>2
  <2>5. mode' = "TEST" => pc' \notin {"first", "second", "write"}
    BY <1>1, <2>1
  <2>6. ASSUME Alone'
        PROVE  /\ pc' \in {"response", "spawn", "id", "groupId", "name", "hello"}
                    => sent' = <<JoinRequest>>
               /\ pc' \in {"first", "second", "write"}
                    => sent' = <<JoinRequest>>
               /\ pc' # "second" /\ pc' # "write"
    BY <1>1, <2>2, <2>6
  <2>7. QED
    BY <2>3, <2>4, <2>5, <2>6, Zenon DEF AloneInv
<1>11. QED
  BY <1>7, <1>8, <1>9, <1>10 DEF LInv

LEMMA FgetsLines == ASSUME TInv, LInv, Fgets PROVE LInv'
<1> USE DEF MainStep, local, signals, network, history
<1>1. /\ pc = "fgets" /\ pc' = "first" /\ line' = line + 1
      /\ copying' = line + 1 /\ ids' = ids /\ message' = message
      /\ sent' = sent /\ resent' = resent /\ sd' = sd
  BY DEF Fgets
<1>2. /\ mode' = mode /\ handled' = handled /\ early' = early
      /\ Handling' = Handling /\ Doing' = Doing
      /\ \A x : Copies(x)' = Copies(x)
  BY <1>1, MainKeeps
<1>3. line \in Nat /\ line + 1 # 0 /\ (line + 1) - 1 = line
  BY Numbers
<1>4. LoopInv'
  <2>1. message.text[1] \in Int /\ message.text[2] \in Int
    BY DEF TInv, PlainType, Message, Texts, HELLO, HEART, EMPTY
  <2>2. message.text[1] <= line + 1 /\ message.text[2] <= line + 1
    BY <1>3, <2>1 DEF LInv, LoopInv
  <2>3. QED
    BY <1>1, <1>2, <1>3, <2>2 DEF LInv, LoopInv, Loop
<1>5. CopiesInv'
  <2>1. ASSUME NEW x \in 1 .. MaxRounds, x >= line + 1
        PROVE  Copies(x) = 0
    <3>1. x > line
      BY <1>3, <2>1
    <3>2. QED
      BY <3>1 DEF LInv, CopiesInv
  <2>2. ASSUME NEW x \in 1 .. MaxRounds, x = line + 1
        PROVE  Copies(x) + Handling <= handled + resent
    <3>1. Copies(x) = 0
      BY <1>3, <2>1, <2>2
    <3>2. Handling <= handled
      BY DEF LInv, LoopInv
    <3>3. QED
      BY <3>1, <3>2, Numbers
  <2>3. \A x \in 1 .. MaxRounds : x > line + 1 => x >= line + 1
    BY <1>3
  <2>4. QED
    BY <1>1, <1>2, <2>1, <2>2, <2>3 DEF LInv, CopiesInv
<1>6. LostInv'
  <2>1. Written' = line /\ Written = line /\ ~Spoilt'
    BY <1>1, <1>3 DEF Written, Spoilt
  <2>2. Missing' \subseteq Missing
    BY <1>2, <2>1 DEF Missing
  <2>3. Doing' = Doing + 0 /\ handled' = handled + 0
    BY <1>2, Numbers
  <2>4. QED
    BY <1>1, <2>2, <2>3, LostKept DEF LInv
<1>7. AloneInv'
  <2>1. Written' = line /\ Written = line
    BY <1>1, <1>3 DEF Written
  <2>2. Greeting' = Greeting /\ \A x : Line(x)' = Line(x)
    BY <1>1, <1>2 DEF Greeting, Line
  <2>3. Alone' => Alone
    BY <1>1, <1>2 DEF Alone
  <2>4. ASSUME Alone'
        PROVE  sent' = Greeting' \o [x \in 1 .. Written' |-> Line(x)']
    BY <1>1, <2>1, <2>2, <2>3, <2>4 DEF LInv, AloneInv
  <2>5. QED
    BY <1>1, <1>3, <2>4 DEF AloneInv
<1>8. QED
  BY <1>4, <1>5, <1>6, <1>7 DEF LInv

LEMMA EndOfInputLines == ASSUME TInv, LInv, EndOfInput PROVE LInv'
<1> USE DEF MainStep, local, signals, network, history
<1>1. /\ pc = "fgets" /\ pc' = "write" /\ line' = line
      /\ copying' = copying /\ ids' = ids /\ message' = message
      /\ sent' = sent /\ resent' = resent + 1 /\ sd' = sd
  BY DEF EndOfInput
<1>2. /\ mode' = mode /\ handled' = handled /\ early' = early
      /\ Handling' = Handling /\ Doing' = Doing
      /\ \A x : Copies(x)' = Copies(x)
  BY <1>1, MainKeeps
<1>3. LoopInv'
  BY <1>1, <1>2 DEF LInv, LoopInv, Loop
<1>4. CopiesInv'
  <2>1. ASSUME NEW x \in 1 .. MaxRounds
        PROVE  /\ Copies(x) + Handling <= 1 + handled + (resent + 1)
               /\ Copies(x) + Handling <= handled + (resent + 1)
    <3>1. Copies(x) + Handling <= 1 + handled + resent
      BY DEF LInv, CopiesInv
    <3>2. QED
      BY <3>1, Numbers
  <2>2. QED
    BY <1>1, <1>2, <2>1 DEF LInv, CopiesInv
<1>5. LostInv'
  <2>1. Written' = line - 1 /\ Written = line
    BY <1>1 DEF Written
  <2>2. ASSUME NEW x \in 1 .. MaxRounds, x <= line - 1 \/ x = line
        PROVE  x <= line
    BY <2>2, Numbers
  <2>3. Missing' \subseteq Missing
    BY <1>1, <1>2, <2>1, <2>2 DEF Missing
  <2>4. Doing' = Doing + 0 /\ handled' = handled + 0
    BY <1>2, Numbers
  <2>5. QED
    BY <1>1, <2>3, <2>4, LostKept DEF LInv
<1>6. AloneInv'
  <2>1. resent + 1 # 0
    BY Numbers
  <2>2. QED
    BY <1>1, <2>1 DEF AloneInv, Alone
<1>7. QED
  BY <1>3, <1>4, <1>5, <1>6 DEF LInv

LEMMA CopyLines == ASSUME TInv, LInv, Copy PROVE LInv'
<1> USE DEF MainStep, local, signals, network, history
<1>1. /\ line' = line /\ copying' = copying /\ ids' = ids
      /\ sent' = sent /\ resent' = resent /\ sd' = sd
      /\ pc \in {"first", "second"} /\ pc' \in {"second", "write"}
  BY DEF Copy
<1>2. /\ mode' = mode /\ handled' = handled /\ early' = early
      /\ Handling' = Handling /\ Doing' = Doing
      /\ \A x : Copies(x)' = Copies(x)
  BY <1>1, MainKeeps DEF MainRuns
<1>3. copying = IF line = 0 THEN HELLO ELSE line
  BY <1>1 DEF LInv, LoopInv
<1>4. message \in Message /\ copying \in Texts
  BY DEF TInv, PlainType
<1>5. PICK i \in 1 .. 2 : /\ message' = [message EXCEPT !.text[i] = copying]
                          /\ i = IF pc = "first" THEN 1 ELSE 2
                          /\ pc' = IF pc = "first" THEN "second" ELSE "write"
  BY DEF Copy
<1>6. message' \in Message
  BY <1>4, <1>5, SetHalf
<1>7. /\ message'.text[i] = copying
      /\ \A j \in 1 .. 2 : j # i => message'.text[j] = message.text[j]
  BY <1>4, <1>5, HalfIs
<1>8. \A x : message'.text = Whole(x)
               <=> message'.text[1] = x /\ message'.text[2] = x
  BY <1>6, TextIs
<1>9. pc = "second" => message'.text[1] = message.text[1]
                       /\ message'.text[2] = copying
  BY <1>5, <1>7
<1>10. pc = "first" => message'.text[1] = copying
  BY <1>5, <1>7
<1>11. copying <= line
  BY <1>3, Numbers DEF HELLO
<1>12. LoopInv'
  <2>1. message'.text[1] <= line /\ message'.text[2] <= line
    BY <1>7, <1>11 DEF LInv, LoopInv
  <2>2. pc' = "second" => message'.text[1] = copying
    BY <1>5, <1>10
  <2>3. pc' \in Loop /\ pc' # "first"
    BY <1>1 DEF Loop
  <2>4. QED
    BY <1>1, <1>2, <1>3, <2>1, <2>2, <2>3 DEF LInv, LoopInv
<1>13. CopiesInv'
  <2>1. ASSUME NEW x \in 1 .. MaxRounds, pc' = "write",
               message'.text = Whole(x)
        PROVE  x = line
    <3>0. pc = "second"
      BY <1>1, <1>5, <2>1
    <3>a. message'.text[2] = x
      BY <1>8, <2>1, Zenon
    <3>1. x = copying
      BY <1>9, <3>0, <3>a
    <3>2. x # HELLO
      BY DEF HELLO
    <3>3. QED
      BY <1>3, <3>1, <3>2
  <2>2. \A x \in 1 .. MaxRounds :
          x = line => Copies(x) + Handling <= handled + resent
    BY <1>1 DEF LInv, CopiesInv
  <2>3. QED
    BY <1>1, <1>2, <2>1, <2>2 DEF LInv, CopiesInv
<1>14. LostInv'
  <2>1. ASSUME NEW x \in 1 .. MaxRounds, x = line, Spoilt' PROVE Spoilt
    <3>1. copying = line
      BY <1>3, <2>1
    <3>2. pc = "first" => ~Spoilt'
      BY <1>5, <1>10, <3>1, <1>1 DEF Spoilt
    <3>3. pc = "second" /\ message'.text # Whole(line)
      BY <1>1, <1>5, <2>1, <3>2 DEF Spoilt, Whole
    <3>4. message.text[1] # line
      BY <1>8, <1>9, <3>1, <3>3
    <3>5. QED
      BY <3>3, <3>4 DEF Spoilt
  <2>2. Written' = Written
    BY <1>1 DEF Written
  <2>3. Missing' \subseteq Missing
    BY <1>1, <1>2, <2>1, <2>2 DEF Missing
  <2>4. Doing' = Doing + 0 /\ handled' = handled + 0
    BY <1>2, Numbers
  <2>5. QED
    BY <1>1, <2>3, <2>4, LostKept DEF LInv
<1>15. AloneInv'
  <2>1. Alone' = Alone
    BY <1>1, <1>2 DEF Alone
  <2>2. ASSUME Alone, pc' = "write"
        PROVE  message'.text = Whole(IF line = 0 THEN HELLO ELSE line)
    <3>1. pc = "second" /\ message.text[1] = copying
      BY <1>1, <1>5, <2>2 DEF LInv, AloneInv
    <3>2. QED
      BY <1>3, <1>8, <1>9, <3>1
  <2>3. pc' = "second" => message'.text[1] = copying
    BY <1>5, <1>10
  <2>4. Written' = Written /\ Greeting' = Greeting /\ \A x : Line(x)' = Line(x)
    BY <1>1, <1>2 DEF Written, Greeting, Line
  <2>5. Alone /\ line = 0 => sent = <<JoinRequest>>
    BY <1>1 DEF LInv, AloneInv
  <2>6. Alone /\ line > 0
          => sent = Greeting \o [x \in 1 .. Written |-> Line(x)]
    BY DEF LInv, AloneInv
  <2>7. ~(mode = "TEST" /\ line = 0 /\ resent = 0)
    BY <1>1 DEF LInv, AloneInv
  <2>8. Alone' /\ line' > 0
          => sent' = Greeting' \o [x \in 1 .. Written' |-> Line(x)']
    BY <1>1, <2>1, <2>4, <2>6
  <2>9. /\ mode' = "TEST" /\ line' = 0 /\ resent' = 0 => FALSE
        /\ Alone' /\ line' = 0 => sent' = <<JoinRequest>>
        /\ Alone' /\ pc' = "second" => message'.text[1] = copying'
        /\ Alone' /\ pc' = "write"
             => message'.text = Whole(IF line' = 0 THEN HELLO ELSE line')
    BY <1>1, <1>2, <2>1, <2>2, <2>3, <2>5, <2>7
  <2>10. pc' \in {"second", "write"}
    BY <1>1
  <2>11. QED
    BY <2>8, <2>9, <2>10 DEF AloneInv, Whole
<1>16. QED
  BY <1>12, <1>13, <1>14, <1>15 DEF LInv

\* A line is added to the lines.
LEMMA OneMoreLine ==
    ASSUME NEW S, NEW g \in Seq(S), NEW k \in Nat, NEW f \in [1 .. k + 1 -> S]
    PROVE  Append(g \o [x \in 1 .. k |-> f[x]], f[k + 1]) = g \o f
<1> DEFINE h == [x \in 1 .. k |-> f[x]]
           e == f[k + 1]
<1>1. k + 1 \in 1 .. k + 1 /\ \A x \in 1 .. k : x \in 1 .. k + 1
  BY FirstAndRest
<1>2. h \in Seq(S) /\ Len(h) = k /\ e \in S
  BY <1>1
<1>3. Append(h, e) = f
  <2>1. DOMAIN Append(h, e) = 1 .. k + 1 /\ DOMAIN f = 1 .. k + 1
    BY <1>2
  <2>2. \A n \in 1 .. k + 1 : Append(h, e)[n] = f[n]
    <3>1. TAKE n \in 1 .. k + 1
    <3>2. n \in 1 .. k \/ n = k + 1
      OBVIOUS
    <3>3. n \in 1 .. k => Append(h, e)[n] = f[n]
      BY <1>2
    <3>4. Append(h, e)[k + 1] = f[k + 1]
      BY <1>2
    <3>5. QED
      BY <3>2, <3>3, <3>4
  <2>3. f \in Seq(S) /\ Append(h, e) \in Seq(S)
    BY <1>2
  <2>4. Len(f) = k + 1 /\ Len(Append(h, e)) = k + 1
    BY <1>2
  <2>5. QED
    BY <2>2, <2>3, <2>4
<1> HIDE DEF h, e
<1>4. <<e>> \in Seq(S) /\ g \o h \in Seq(S)
  BY <1>2
<1>5. Append(h, e) = h \o <<e>> /\ Append(g \o h, e) = (g \o h) \o <<e>>
  BY <1>2, <1>4, AppendIsConcat
<1>6. (g \o h) \o <<e>> = g \o (h \o <<e>>)
  BY <1>2, <1>4, ConcatAssociative
<1>7. Append(g \o h, e) = g \o f
  BY <1>3, <1>5, <1>6
<1>8. QED
  BY <1>7 DEF h, e

LEMMA TwoOfThem == ASSUME NEW a, NEW b PROVE Append(<<a>>, b) = <<a, b>>
<1> DEFINE S == {a, b}
<1>1. <<a>> \in Seq(S) /\ Len(<<a>>) = 1 /\ <<a>>[1] = a
  OBVIOUS
<1>2. b \in S
  OBVIOUS
<1>3. /\ Append(<<a>>, b) \in Seq(S) /\ Len(Append(<<a>>, b)) = 2
      /\ Append(<<a>>, b)[1] = a /\ Append(<<a>>, b)[2] = b
  BY <1>1, <1>2
<1>4. /\ <<a, b>> \in Seq(S) /\ Len(<<a, b>>) = 2
      /\ <<a, b>>[1] = a /\ <<a, b>>[2] = b
  OBVIOUS
<1>5. \A n \in 1 .. 2 : n = 1 \/ n = 2
  OBVIOUS
<1>6. QED
  BY <1>3, <1>4, <1>5, SeqEqual

LEMMA MessageIs ==
    ASSUME NEW m \in Message
    PROVE  m = [id |-> m.id, groupId |-> m.groupId, name |-> m.name,
                text |-> m.text]
  BY DEF Message

\* Nobody disturbs main: what it writes is the next line, or the greeting.
LEMMA WriteAlone ==
    ASSUME TInv, SInv, LInv, Write, Alone'
    PROVE  sent' = Greeting' \o [x \in 1 .. Written' |-> Line(x)']
<1> USE DEF MainStep, local, signals, network, history
<1>1. /\ line' = line /\ ids' = ids /\ mode' = mode /\ alive
      /\ resent' = resent /\ handled' = handled /\ SockWrite(message)
      /\ pc = "write" /\ pc' = "fgets"
  BY DEF Write
<1>2. message \in Message \cup {JoinRequest} /\ message \in Message
  BY DEF TInv, PlainType
<1>3. Alone
  <2>1. sd = "open"
    <3>1. sd' = "open" /\ sd \notin {"stdin", "made"}
      BY <1>1 DEF Alone, SInv, Opened, BeforeJoin
    <3>2. QED
      BY <1>1, <3>1 DEF SockWrite
  <2>2. QED
    BY <1>1, <2>1 DEF Alone
<1>4. sent' = Append(sent, message)
  BY <1>1, <1>2, <1>3, SockWriteEffect DEF Alone
<1>5. message.text = Whole(IF line = 0 THEN HELLO ELSE line)
  BY <1>1, <1>3 DEF LInv, AloneInv
<1>6. message.id = ids /\ message.groupId = ids /\ message.name = TRUE
  BY <1>1, <1>2 DEF SInv, Complete, Late, Message
<1>7. message = Line(IF line = 0 THEN HELLO ELSE line)
  BY <1>2, <1>5, <1>6, MessageIs, Zenon DEF Line
<1>8. Greeting' = Greeting /\ Written' = line /\ \A x : Line(x)' = Line(x)
  BY <1>1 DEF Greeting, Written, Line
<1>9. CASE line = 0
  <2>1. sent = <<JoinRequest>> /\ message = Line(HELLO)
    BY <1>1, <1>3, <1>7, <1>9 DEF LInv, AloneInv
  <2>2. mode # "TEST"
    BY <1>1, <1>3, <1>9 DEF LInv, AloneInv, Alone
  <2>3. Greeting = <<JoinRequest, Line(HELLO)>>
    BY <2>2 DEF Greeting
  <2>4. sent' = Greeting
    <3>1. \A a, b : Append(<<a>>, b) = <<a, b>>
      BY TwoOfThem
    <3>2. Append(sent, message) = <<JoinRequest, Line(HELLO)>>
      BY <2>1, <3>1, Zenon
    <3>3. QED
      BY <1>4, <2>3, <3>2, Zenon
  <2>5. [x \in 1 .. Written' |-> Line(x)'] = <<>>
    BY <1>8, <1>9
  <2>6. Greeting \o <<>> = Greeting
    BY <2>3
  <2>7. QED
    BY <1>8, <2>4, <2>5, <2>6
<1>10. CASE line # 0
  <2>1. PICK k \in Nat : line = k + 1 /\ line > 0
    <3>1. line - 1 \in Nat /\ line = (line - 1) + 1 /\ line > 0
      BY <1>10, Numbers
    <3>2. QED
      BY <3>1
  <2>2. Written = k
    BY <1>1, <2>1 DEF Written
  <2>3. sent = Greeting \o [x \in 1 .. k |-> Line(x)]
    BY <1>3, <2>1, <2>2 DEF LInv, AloneInv
  <2> DEFINE S == {JoinRequest} \cup {Line(x) : x \in Int}
             f == [x \in 1 .. k + 1 |-> Line(x)]
  <2>4. f \in [1 .. k + 1 -> S]
    OBVIOUS
  <2>5. Greeting \in Seq(S)
    <3>1. JoinRequest \in S /\ Line(HELLO) \in S
      BY DEF HELLO
    <3> HIDE DEF S
    <3>2. QED
      BY <3>1 DEF Greeting
  <2>6. \A x \in 1 .. k + 1 : f[x] = Line(x)
    OBVIOUS
  <2>7. /\ k + 1 \in 1 .. k + 1
        /\ [x \in 1 .. k |-> f[x]] = [x \in 1 .. k |-> Line(x)]
    BY FirstAndRest
  <2> HIDE DEF f, S
  <2>8. Append(Greeting \o [x \in 1 .. k |-> f[x]], f[k + 1]) = Greeting \o f
    BY <2>4, <2>5, OneMoreLine
  <2>9. message = f[k + 1]
    BY <1>7, <1>10, <2>1, <2>6, <2>7
  <2>10. sent' = Greeting \o f
    BY <1>4, <2>3, <2>7, <2>8, <2>9
  <2>11. [x \in 1 .. Written' |-> Line(x)'] = f
    BY <1>8, <2>1 DEF f
  <2>12. QED
    BY <1>8, <2>10, <2>11
<1>11. QED
  BY <1>9, <1>10

LEMMA WriteLines == ASSUME TInv, SInv, LInv, Write PROVE LInv'
<1> USE DEF MainStep, local, signals, network, history
<1>1. /\ line' = line /\ copying' = copying /\ ids' = ids
      /\ message' = message /\ resent' = resent /\ SockWrite(message)
      /\ pc = "write" /\ pc' = "fgets"
  BY DEF Write
<1>2. /\ mode' = mode /\ handled' = handled /\ early' = early /\ alive
      /\ Handling' = Handling /\ Doing' = Doing
  BY MainKeeps DEF MainRuns
<1>3. message \in Message /\ message # JoinRequest
  BY NotJoin DEF TInv, PlainType
<1>4. \A x : /\ Copies(x)' = Copies(x) \/ Copies(x)' = Copies(x) + 1
             /\ message.text # Whole(x) => Copies(x)' = Copies(x)
             /\ message.text = Whole(x) /\ sent' # sent
                  => Copies(x)' = Copies(x) + 1
  BY <1>1, <1>3, SockWriteCopies
<1>5. LoopInv'
  BY <1>1, <1>2 DEF LInv, LoopInv, Loop
<1>6. CopiesInv'
  <2>1. ASSUME NEW x \in 1 .. MaxRounds
        PROVE  Copies(x)' + Handling <= 1 + handled + resent
    <3>1. CASE message.text = Whole(x)
      <4>1. Copies(x) + Handling <= handled + resent
        BY <1>1, <3>1 DEF LInv, CopiesInv
      <4>2. PICK c \in Nat : /\ Copies(x)' = c
                             /\ c = Copies(x) \/ c = Copies(x) + 1
        BY <1>4, Numbers
      <4>3. c + Handling <= 1 + handled + resent
        BY <4>1, <4>2, Numbers
      <4>4. QED
        BY <4>2, <4>3
    <3>2. CASE message.text # Whole(x)
      BY <1>4, <3>2 DEF LInv, CopiesInv
    <3>3. QED
      BY <3>1, <3>2
  <2>2. ASSUME NEW x \in 1 .. MaxRounds, x > line PROVE Copies(x)' = 0
    <3>1. message.text[1] <= line /\ line \in Nat
      BY Numbers DEF LInv, LoopInv
    <3>2. message.text # Whole(x)
      <4>1. SUFFICES ASSUME message.text = Whole(x) PROVE FALSE
        OBVIOUS
      <4>2. message.text[1] = x
        BY <1>3, <4>1, TextIs
      <4>3. QED
        BY <2>2, <3>1, <4>2
    <3>3. QED
      BY <1>4, <2>2, <3>2 DEF LInv, CopiesInv
  <2>3. QED
    BY <1>1, <1>2, <2>1, <2>2 DEF CopiesInv
<1>7. LostInv'
  <2>1. SUFFICES ASSUME sd' = "open" PROVE LostInv'
    BY DEF LostInv
  <2>2. sd = "open"
    <3>1. sd \notin {"stdin", "made"}
      BY <1>1, <1>2 DEF SInv, Opened, BeforeJoin
    <3>2. QED
      BY <1>1, <2>1, <3>1 DEF SockWrite
  <2>3. sent' # sent
    BY <1>1, <1>2, <1>3, <2>1, <2>2, WriteOpens
  <2>4. \A x \in 1 .. MaxRounds :
          Copies(x)' = 0 => Copies(x) = 0 /\ message.text # Whole(x)
    <3>1. TAKE x \in 1 .. MaxRounds
    <3>2. Copies(x) \in Nat /\ Copies(x) + 1 # 0
      BY Numbers
    <3>3. QED
      BY <1>4, <2>3, <3>2
  <2>5. Written = line - 1 /\ Written' = line
    BY <1>1 DEF Written
  <2>6. \A x \in 1 .. MaxRounds : x <= line => x <= line - 1 \/ x = line
    BY Numbers
  <2>7. message.text # Whole(line) => Spoilt
    BY <1>1 DEF Spoilt
  <2>8. ~Spoilt'
    BY <1>1 DEF Spoilt
  <2>9. Missing' \subseteq Missing
    BY <1>1, <2>4, <2>5, <2>6, <2>7, <2>8 DEF Missing
  <2>10. Doing' = Doing + 0 /\ handled' = handled + 0
    BY <1>2, Numbers
  <2>11. QED
    BY <2>1, <2>2, <2>9, <2>10, LostKept DEF LInv
<1>8. AloneInv'
  <2>1. Alone' => sent' = Greeting' \o [x \in 1 .. Written' |-> Line(x)']
    BY WriteAlone
  <2>2. QED
    BY <1>1, <2>1 DEF AloneInv
<1>9. QED
  BY <1>5, <1>6, <1>7, <1>8 DEF LInv

LEMMA NextLines == TInv /\ SInv /\ LInv /\ [Next]_vars => LInv'
<1>1. SUFFICES ASSUME TInv, SInv, LInv, [Next]_vars PROVE LInv'
  OBVIOUS
<1>2. CASE UNCHANGED vars
  <2>1. /\ mode' = mode /\ ids' = ids /\ pc' = pc /\ copying' = copying
        /\ line' = line /\ message' = message /\ sent' = sent
        /\ resent' = resent /\ handled' = handled /\ early' = early
        /\ stack' = stack /\ sd' = sd
    BY <1>2 DEF vars, local, signals, network, history
  <2>2. Handling' = Handling /\ Doing' = Doing
    BY <2>1 DEF Handling, Doing, Busy, Left
  <2>3. QED
    BY <1>1, <2>1, <2>2, Kept
<1>3. CASE MainRuns \/ Fgets \/ EndOfInput
  BY <1>1, <1>3, SetUpLines, FgetsLines, EndOfInputLines, CopyLines,
     WriteLines
  DEF MainRuns
<1>4. CASE Next
  BY <1>1, <1>3, <1>4, ReceiverLines, DeliverLines, HandlerLines
  DEF Next, Environment, User, Delivery
<1>5. QED
  BY <1>1, <1>2, <1>4

LEMMA InitLines == Init => LInv
<1>1. SUFFICES ASSUME Init PROVE LInv
  OBVIOUS
<1>2. TInv
  BY <1>1, InitType
<1>3. /\ pc = "start" /\ line = 0 /\ resent = 0 /\ handled = 0
      /\ sd = "stdin" /\ sent = <<>> /\ early = FALSE
      /\ message.text = <<EMPTY, EMPTY>>
  BY <1>1 DEF Init
<1>4. \A t \in Threads : Busy(t) = 0
  BY <1>1 DEF Init, Busy, In
<1>5. Handling = 0
  BY <1>4 DEF Handling, Threads
<1>6. \A x : Copies(x) = 0
  <2>1. \A x : With(x) = {}
    BY <1>3 DEF With
  <2>2. QED
    BY <2>1, FS_EmptySet DEF Copies
<1>7. LoopInv
  BY <1>3, <1>5 DEF LoopInv, Loop, EMPTY
<1>8. CopiesInv
  BY <1>3, <1>5, <1>6 DEF CopiesInv
<1>9. LostInv /\ AloneInv
  BY <1>3 DEF LostInv, AloneInv, Alone
<1>10. QED
  BY <1>7, <1>8, <1>9 DEF LInv

LEMMA LinesFollow == TInv /\ LInv => LinesAccounted
<1>1. SUFFICES ASSUME TInv, LInv PROVE LinesAccounted
  OBVIOUS
<1>2. ASSUME NEW x \in 1 .. MaxRounds
      PROVE  Copies(x) <= 1 + handled + resent
  <2>1. Copies(x) + Handling <= 1 + handled + resent
    BY <1>1 DEF LInv, CopiesInv
  <2>2. Handling \in {0, 1, 2}
    BY SumsAre
  <2>3. QED
    BY <1>1, <2>1, <2>2, Numbers
<1>3. ASSUME sd = "open" PROVE Cardinality(Lost) <= 2 * handled
  <2>1. Written <= line /\ line \in 0 .. MaxRounds
    BY <1>1, Numbers DEF Written, TInv, PlainType
  <2>2. Lost \subseteq Missing
    <3>1. \A x \in 1 .. Written : x \in 1 .. MaxRounds /\ x <= Written
      BY <1>1, <2>1, Bounds, Numbers DEF Written
    <3>2. QED
      BY <3>1 DEF Lost, Missing
  <2>3. Cardinality(Lost) <= Cardinality(Missing) /\ Cardinality(Lost) \in Nat
    BY <2>2, MissingFinite, FS_Subset, FS_CardinalityType
  <2>4. Cardinality(Missing) + Doing <= 2 * handled
    BY <1>1, <1>3 DEF LInv, LostInv
  <2>5. PICK c \in Nat, l \in Nat :
          c = Cardinality(Missing) /\ l = Cardinality(Lost)
    BY <2>3, MissingFinite
  <2>6. l <= 2 * handled
    BY <1>1, <2>3, <2>4, <2>5, SumsAre, Numbers
  <2>7. QED
    BY <2>5, <2>6
<1>4. ASSUME sd = "open", handled = 0, resent = 0, pc = "fgets" \/ line > 0
      PROVE  sent = Greeting \o [x \in 1 .. Written |-> Line(x)]
  BY <1>1, <1>4 DEF LInv, AloneInv, Alone
<1>5. QED
  BY <1>2, <1>3, <1>4 DEF LinesAccounted

\* Whatever the number of lines, signals and messages, and however the
\* handlers of both threads cut into main's copy and write of a line, while
\* the connection stands: a signal handler costs at most two lines, a line is
\* sent twice only by a handler or at the end of the input, and without either
\* the server gets the greeting and the lines, whole, once each and in order
\* (client.c:111-126, 151-160).
THEOREM LinesAreAccounted == Spec => []LinesAccounted
<1>1. Init => TInv /\ SInv /\ LInv
  BY InitType, InitSetUp, InitLines
<1>2. TInv /\ SInv /\ LInv /\ [Next]_vars => (TInv /\ SInv /\ LInv)'
  BY NextType, NextSetUp, NextLines
<1>3. TInv /\ LInv => LinesAccounted
  BY LinesFollow
<1>4. QED
  BY <1>1, <1>2, <1>3, PTL DEF Spec
=============================================================================
