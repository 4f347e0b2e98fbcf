----------------------------- MODULE ChatClient ------------------------------
(***************************************************************************)
(* The client process of src/client.c: the main thread, the receiver       *)
(* thread, and handle_my, which the kernel may run on either of them       *)
(* between any two instructions.  All three use the global message and     *)
(* the socket without a lock.                                              *)
(*                                                                         *)
(* A text is two halves, so that a copy that is interrupted can be seen.   *)
(* The server, the user and who sends the signals are the environment.     *)
(***************************************************************************)
EXTENDS Integers, Sequences, FiniteSets

CONSTANTS MaxRounds,   \* bound: rounds of main's loop
          MaxSignals,  \* bound: SIGUSR1 handled
          MaxInts,     \* bound: SIGINT handled
          MaxIncoming  \* bound: what the server has sent and nobody read

ASSUME BoundAssumption ==
  {MaxRounds, MaxSignals, MaxInts, MaxIncoming} \subseteq Nat

Main == "main"
Receiver == "receiver"
Threads == {Main, Receiver}

HELLO == -1          \* "I Joined the Chat"
HEART == -2          \* the text of the SIGUSR1 handler
EMPTY == 0           \* what zeroed memory holds
Texts == {HELLO, HEART, EMPTY} \cup 1 .. MaxRounds

UNSET == 0           \* ids: the global's initial value,
ASSIGNED == 1        \* what the server assigned to this client,
GARBAGE == 2         \* what a response that never came is taken for

Message == [id : 0 .. 2, groupId : 0 .. 2, name : BOOLEAN,
            text : [1 .. 2 -> Texts]]

VARIABLES mode,      \* "TEST" or "PROD"; DEV differs from PROD in printf only
          alive,     \* the process has not ended
          pc,        \* main: what it does next
          ids,       \* its locals connectionId and groupId
          copying,   \* the text it is about to copy into message
          line,      \* lines read from the standard input
          message,   \* the global
          rpc        \* the receiver thread: "none" or "read"

VARIABLES handles,   \* the signals whose handler is installed
          pending,   \* signals sent to the process and not yet delivered
          stack      \* what handle_my does next on each thread; a second
                     \* signal's handler runs on top of the first one's

VARIABLES sd,        \* the socket: see SockWrite
          incoming,  \* what the server sent and nobody read yet
          sent       \* what was written to the server, in order

VARIABLES resent,    \* history: rounds main made without a line
          early,     \* history: one was handled before message was set up
          handled,   \* history: how many were handled
          ints       \* history: how many SIGINT were handled

signals == <<handles, pending, stack>>
network == <<sd, incoming, sent>>
history == <<resent, early, handled, ints>>
local == <<mode, ids, copying, line>>
vars == <<local, alive, pc, message, rpc, signals, network, history>>

MainStates == {"start", "usr1", "socket", "connect", "join", "response",
               "spawn", "id", "groupId", "name", "hello", "fgets", "first",
               "second", "write"}

HandlerStates == {"copy", "half", "write", "ask", "kill"}

JoinRequest == [join |-> TRUE]

TypeOK ==
  /\ mode \in {"TEST", "PROD"}
  /\ alive \in BOOLEAN
  /\ pc \in MainStates
  /\ ids \in 0 .. 2 /\ copying \in Texts /\ line \in 0 .. MaxRounds
  /\ message \in Message
  /\ rpc \in {"none", "read"}
  /\ handles \subseteq {"INT", "USR1"} /\ pending \subseteq {"INT", "USR1"}
  /\ \A t \in Threads : stack[t] \in Seq(HandlerStates) /\ Len(stack[t]) <= 2
  /\ sd \in {"stdin", "made", "open", "fin", "rst", "dead"}
  /\ incoming \in 0 .. MaxIncoming
  /\ \A n \in DOMAIN sent : sent[n] \in Message \cup {JoinRequest}
  /\ handled \in 0 .. MaxSignals /\ resent \in 0 .. MaxRounds - line
  /\ early \in BOOLEAN /\ ints \in 0 .. MaxInts

Init ==
  /\ mode \in {"TEST", "PROD"}
  /\ alive = TRUE
  /\ pc = "start"
  /\ ids = UNSET /\ copying = EMPTY /\ line = 0
  /\ message = [id |-> UNSET, groupId |-> UNSET, name |-> FALSE,
                text |-> <<EMPTY, EMPTY>>]
  /\ rpc = "none"
  /\ handles = {} /\ pending = {}
  /\ stack = [t \in Threads |-> <<>>]
  /\ sd = "stdin"
  /\ incoming = 0
  /\ sent = <<>>
  /\ resent = 0 /\ early = FALSE /\ handled = 0 /\ ints = 0

-----------------------------------------------------------------------------
(* The socket, as the kernel shows it.  sd is 0 ("stdin") until socket()   *)
(* has returned; then "made", not yet connected; "open"; "fin" (the server *)
(* closed), "rst" (it reset the connection), "dead" (the next write raises *)
(* SIGPIPE).                                                               *)

SockWrite(m) ==
  /\ \/ /\ sd = "stdin"                 \* the terminal's
        /\ UNCHANGED <<sd, sent, alive>>
     \/ /\ sd = "made"                  \* SIGPIPE,
        /\ alive' = FALSE
        /\ UNCHANGED <<sd, sent>>
     \/ /\ sd \in {"made", "open"}      \* or, in connect, once it succeeds
        /\ sd' = "open"
        /\ sent' = Append(sent, m)
        /\ UNCHANGED alive
     \/ /\ sd = "fin"
        /\ sd' \in {"fin", "dead"}
        /\ UNCHANGED <<sent, alive>>
     \/ /\ sd = "rst"
        /\ sd' = "dead"
        /\ UNCHANGED <<sent, alive>>
     \/ /\ sd = "dead"
        /\ alive' = FALSE
        /\ UNCHANGED <<sd, sent>>
  /\ UNCHANGED incoming

-----------------------------------------------------------------------------
(* main.  It runs only while no handler runs on its thread.                 *)

MainStep(from, to) ==
  /\ alive /\ stack[Main] = <<>>
  /\ pc = from
  /\ pc' = to

\* signal(SIGINT, ..), then signal(SIGUSR1, ..).
Install ==
  /\ \/ MainStep("start", "usr1") /\ handles' = {"INT"}
     \/ MainStep("usr1", "socket") /\ handles' = {"INT", "USR1"}
  /\ UNCHANGED <<local, alive, message, rpc, pending, stack,
                 network, history>>

MakeSocket ==
  /\ MainStep("socket", "connect")
  /\ sd' = "made"
  /\ UNCHANGED <<local, alive, message, rpc, signals, incoming, sent,
                 history>>

\* connect(): if it fails the client ends.  A handler that waited in write
\* may have seen the connection before main does.
Connect ==
  /\ MainStep("connect", "join")
  /\ \/ sd = "made" /\ sd' = "open" /\ UNCHANGED alive
     \/ sd = "made" /\ alive' = FALSE /\ UNCHANGED sd
     \/ sd # "made" /\ UNCHANGED <<sd, alive>>
  /\ UNCHANGED <<local, message, rpc, signals, incoming, sent, history>>

SendJoin ==
  /\ MainStep("join", "response")
  /\ SockWrite(JoinRequest)
  /\ UNCHANGED <<local, message, rpc, signals, history>>

\* The result of read is not tested.
ReadResponse ==
  /\ MainStep("response", "spawn")
  /\ \/ /\ incoming > 0
        /\ incoming' = incoming - 1
        /\ ids' = ASSIGNED
        /\ UNCHANGED sd
     \/ /\ incoming = 0 /\ sd \in {"fin", "rst", "dead"}
        /\ ids' = GARBAGE
        /\ sd' = IF sd = "rst" THEN "dead" ELSE sd
        /\ UNCHANGED incoming
  /\ UNCHANGED <<mode, alive, copying, line, message, rpc, signals, sent,
                 history>>

Spawn ==
  /\ MainStep("spawn", "id")
  /\ rpc' = "read"
  /\ UNCHANGED <<local, alive, message, signals, network, history>>

\* The assignment of message.groupId is missing.
SetId_NoGroup ==
  /\ \/ MainStep("id", "groupId") /\ message' = [message EXCEPT !.id = ids]
     \/ MainStep("groupId", "name") /\ UNCHANGED message
     \/ MainStep("name", "hello") /\ message' = [message EXCEPT !.name = TRUE]
  /\ UNCHANGED <<local, alive, rpc, signals, network, history>>

\* message.id, message.groupId and message.name, in this order.
SetId ==
  /\ \/ MainStep("id", "groupId") /\ message' = [message EXCEPT !.id = ids]
     \/ MainStep("groupId", "name")
        /\ message' = [message EXCEPT !.groupId = ids]
     \/ MainStep("name", "hello") /\ message' = [message EXCEPT !.name = TRUE]
  /\ UNCHANGED <<local, alive, rpc, signals, network, history>>

Hello ==
  /\ IF mode = "TEST"
       THEN MainStep("hello", "fgets") /\ UNCHANGED copying
       ELSE MainStep("hello", "first") /\ copying' = HELLO
  /\ UNCHANGED <<mode, ids, line, alive, message, rpc, signals, network,
                 history>>

\* A line has come; fgets copies it into message next.
Fgets ==
  /\ MainStep("fgets", "first")
  /\ line + resent < MaxRounds
  /\ line' = line + 1
  /\ copying' = line'
  /\ UNCHANGED <<mode, ids, alive, message, rpc, signals, network, history>>

\* The input ends: fgets fails, which nobody tests, and what message holds is
\* sent again.
EndOfInput ==
  /\ MainStep("fgets", "write")
  /\ line + resent < MaxRounds
  /\ resent' = resent + 1
  /\ UNCHANGED <<local, alive, message, rpc, signals, network, early,
                 handled, ints>>

\* fgets is told that the buffer is half as long as it is.
Copy_HalfSize ==
  /\ \/ MainStep("first", "second")
        /\ message' = [message EXCEPT !.text[1] = copying]
     \/ MainStep("second", "write") /\ UNCHANGED message
  /\ UNCHANGED <<local, alive, rpc, signals, network, history>>

\* strcpy of the hello text, or fgets' copy of the line.
Copy ==
  /\ \/ MainStep("first", "second")
        /\ message' = [message EXCEPT !.text[1] = copying]
     \/ MainStep("second", "write")
        /\ message' = [message EXCEPT !.text[2] = copying]
  /\ UNCHANGED <<local, alive, rpc, signals, network, history>>

Write ==
  /\ MainStep("write", "fgets")
  /\ SockWrite(message)
  /\ UNCHANGED <<local, message, rpc, signals, history>>

-----------------------------------------------------------------------------
(* The receiver thread, connection_handler.                                 *)

Reading == alive /\ rpc = "read" /\ stack[Receiver] = <<>>

\* A read that does not wait for a message.
Receive_NoWait ==
  /\ Reading
  /\ incoming' = incoming - 1
  /\ UNCHANGED <<local, alive, pc, message, rpc, signals, sd, sent,
                 history>>

\* The message is printed, or its delay logged.
Receive ==
  /\ Reading
  /\ incoming > 0
  /\ incoming' = incoming - 1
  /\ UNCHANGED <<local, alive, pc, message, rpc, signals, sd, sent,
                 history>>

\* read's -1 is true: the last message is printed or logged once more.
ReceiveFails ==
  /\ Reading
  /\ incoming = 0 /\ sd = "rst"
  /\ sd' = "dead"
  /\ UNCHANGED <<local, alive, pc, message, rpc, signals, incoming, sent,
                 history>>

\* read(..) >= 0: the end of the connection is taken for a message.
ReceiveEnd_Continues ==
  /\ Reading
  /\ incoming = 0 /\ sd \in {"fin", "dead"}
  /\ UNCHANGED vars

\* read returns 0: exit.
ReceiveEnd ==
  /\ Reading
  /\ incoming = 0 /\ sd \in {"fin", "dead"}
  /\ alive' = FALSE
  /\ UNCHANGED <<local, pc, message, rpc, signals, network, history>>

-----------------------------------------------------------------------------
(* handle_my.  signal() masks the signal on the thread that handles it, and *)
(* nothing else.                                                            *)

HandlerOf(f) == IF f \in {"copy", "half", "write"} THEN "USR1" ELSE "INT"

Masked(t, s) == \E n \in DOMAIN stack[t] : HandlerOf(stack[t][n]) = s

Running(t) == t = Main \/ rpc = "read"

\* killClient asks first, unless in TEST mode.
FirstStep(s) ==
  CASE s = "USR1" -> "copy"
    [] s = "INT"  -> IF mode = "TEST" THEN "kill" ELSE "ask"

\* Before signal() the default action of both is to end the process.
Deliver(s, t) ==
  /\ alive /\ s \in pending
  /\ Running(t) /\ ~Masked(t, s)
  /\ pending' = pending \ {s}
  /\ IF s \in handles
       THEN /\ stack' = [stack EXCEPT ![t] = <<FirstStep(s)>> \o @]
            /\ UNCHANGED alive
       ELSE alive' = FALSE /\ UNCHANGED stack
  /\ IF s = "USR1"
       THEN /\ handled' = handled + 1
            /\ early' = (early \/ pc \notin {"hello", "fgets", "first",
                                             "second", "write"})
            /\ UNCHANGED ints
       ELSE /\ ints' = ints + 1
            /\ UNCHANGED <<handled, early>>
  /\ UNCHANGED <<local, pc, message, rpc, handles, network,
                 resent>>

\* The handler that runs on thread t goes from one step to the next.
Frame(t, from, to) ==
  /\ alive
  /\ stack[t] # <<>> /\ Head(stack[t]) = from
  /\ stack' = [stack EXCEPT ![t] = to \o Tail(@)]

CopyHeart(t) ==
  /\ \/ /\ Frame(t, "copy", <<"half">>)
        /\ message' = [message EXCEPT !.text[1] = HEART]
     \/ /\ Frame(t, "half", <<"write">>)
        /\ message' = [message EXCEPT !.text[2] = HEART]
  /\ UNCHANGED <<local, alive, pc, rpc, handles, pending, network,
                 history>>

WriteHeart(t) ==
  /\ Frame(t, "write", <<>>)
  /\ SockWrite(message)
  /\ UNCHANGED <<local, pc, message, rpc, handles, pending, history>>

\* The user answers Y or N.
Answer(t) ==
  /\ Frame(t, "ask", <<"kill">>) \/ Frame(t, "ask", <<>>)
  /\ UNCHANGED <<local, alive, pc, message, rpc, handles, pending,
                 network, history>>

\* pthread_kill(receiver_thread, SIGINT), close(sd) and exit.  What the
\* receiver does once it is told lasts no longer than the process; without a
\* receiver thread, receiver_thread is 0 and pthread_kill faults.
KillClient(t) ==
  /\ Frame(t, "kill", <<>>)
  /\ alive' = FALSE
  /\ UNCHANGED <<local, pc, message, rpc, handles, pending, network, history>>

-----------------------------------------------------------------------------
(* The environment.                                                         *)

SendSignal(s) ==
  /\ alive
  /\ IF s = "USR1" THEN handled < MaxSignals ELSE ints < MaxInts
  /\ pending' = pending \cup {s}
  /\ UNCHANGED <<local, alive, pc, message, rpc, handles, stack,
                 network, history>>

\* A response or a message, to a client that has sent something.
ServerSends ==
  /\ alive /\ sd = "open"
  /\ sent # <<>> /\ incoming < MaxIncoming
  /\ incoming' = incoming + 1
  /\ UNCHANGED <<local, alive, pc, message, rpc, signals, sd, sent, history>>

ServerCloses ==
  /\ alive /\ sd = "open"
  /\ sd' \in {"fin", "rst"}
  /\ UNCHANGED <<local, alive, pc, message, rpc, signals, incoming, sent,
                 history>>

-----------------------------------------------------------------------------

MainRuns ==
  \/ Install \/ MakeSocket \/ Connect \/ SendJoin \/ ReadResponse \/ Spawn
  \/ SetId \/ Hello \/ Copy \/ Write

ReceiverRuns == Receive \/ ReceiveFails \/ ReceiveEnd

HandlerRuns(t) ==
  CopyHeart(t) \/ WriteHeart(t) \/ KillClient(t)

Delivery == \E s \in {"INT", "USR1"}, t \in Threads : Deliver(s, t)

User == Fgets \/ EndOfInput \/ \E t \in Threads : Answer(t)

Environment ==
  \/ User \/ ServerSends \/ ServerCloses
  \/ \E s \in {"INT", "USR1"} : SendSignal(s)

Next ==
  \/ MainRuns \/ ReceiverRuns \/ Delivery \/ Environment
  \/ \E t \in Threads : HandlerRuns(t)

Spec == Init /\ [][Next]_vars

(***************************************************************************)
(* Threads and handlers run, and signals are delivered.  Nothing makes the *)
(* user type or answer, or the server send or close.                       *)
(***************************************************************************)
Fairness ==
  /\ WF_vars(MainRuns) /\ WF_vars(ReceiverRuns) /\ WF_vars(Delivery)
  /\ \A t \in Threads : WF_vars(HandlerRuns(t))

FairSpec == Spec /\ Fairness

-----------------------------------------------------------------------------
(* Properties.                                                              *)

Whole(x) == <<x, x>>

\* Of the messages sent, those with this text.
With(x) ==
  {n \in DOMAIN sent : sent[n] # JoinRequest /\ sent[n].text = Whole(x)}

Copies(x) == Cardinality(With(x))

\* The lines main has passed to write.
Written == IF pc \in {"first", "second", "write"} THEN line - 1 ELSE line

Lost == {x \in 1 .. Written : Copies(x) = 0}

\* What main sends when nobody disturbs it: the join request, the hello
\* message unless it is a test, and the lines.
Line(x) == [id |-> ids, groupId |-> ids, name |-> TRUE, text |-> Whole(x)]

Greeting ==
  IF mode = "TEST" THEN <<JoinRequest>> ELSE <<JoinRequest, Line(HELLO)>>

\* client.c:119-123, 155-157: the user's lines and the text of the signal
\* handler share one buffer.  A run of the handler can spoil a line between
\* main's fgets and its write, and a second one if it is itself interrupted by
\* main, on the other thread; a line that is sent twice was sent once by a
\* handler or at the end of the input.  Without them, what the server gets is
\* the greeting and the lines, whole, once each and in order.
LinesAccounted ==
  /\ \A x \in 1 .. MaxRounds : Copies(x) <= 1 + handled + resent
  /\ sd = "open" => Cardinality(Lost) <= 2 * handled
  /\ sd = "open" /\ handled = 0 /\ resent = 0 /\ (pc = "fgets" \/ line > 0)
       => sent = Greeting \o [x \in 1 .. Written |-> Line(x)]

\* client.c:85-109: unless a signal was handled before message was complete,
\* the join request is the first thing the server gets, and every message
\* carries the ids of the response and the client's name.
SetUpFirst ==
  ~early =>
    \A n \in DOMAIN sent :
      IF n = 1 THEN sent[n] = JoinRequest
      ELSE sent[n].id = ids /\ sent[n].groupId = ids /\ sent[n].name

\* README.md:42: when the server has gone the client ends, whatever its
\* threads and handlers were at; unless its user leaves the question of
\* killClient unanswered.
Ends ==
  sd \in {"fin", "rst", "dead"}
    ~> (~alive \/ \E t \in Threads, n \in 1 .. 2 :
                    n \in DOMAIN stack[t] /\ stack[t][n] = "ask")
=============================================================================
