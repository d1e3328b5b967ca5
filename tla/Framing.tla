------------------------------- MODULE Framing --------------------------------
(***************************************************************************)
(* Framing: how one connection's bytes become messages and back            *)
(* (business.cpp): receive_message_header, receive_remain_message and the  *)
(* recv of the chat handlers on the way in; send_large_data and plain send *)
(* on the way out.                                                         *)
(*                                                                         *)
(* Bytes are counted in parts.  A message is HeaderSize parts of header    *)
(* and BodySize of body; what the client sends is one stream, of which the *)
(* network brings any piece at any time.  The socket is non-blocking: recv *)
(* takes what is there, send writes what there is room for.  "login"       *)
(* stands for the handlers that read with receive_remain_message, "chat"   *)
(* for those that read with one recv.  Other threads send notices to the   *)
(* same socket.  One thread at a time reads (Dispatch!OneWorkerPerClient). *)
(***************************************************************************)
EXTENDS Naturals, Sequences, FiniteSets

CONSTANTS
  HeaderSize, BodySize,   \* parts of a message
  MaxAttempts,            \* MAX_ATTEMPTS of receive_remain_message
  Capacity,               \* room in the socket's send buffer
  ListSize,               \* parts of a list that send_large_data sends
  ResponseSize,           \* parts of a response or a notice
  MaxLength,              \* bound: msg_length of what is misread as a header
  MaxMessages,            \* bound: messages the client sends
  MaxNotices              \* bound: notices of other threads

ASSUME FramingAssumption ==
  /\ HeaderSize \in Nat \ {0} /\ BodySize \in Nat \ {0}
  /\ MaxAttempts \in Nat \ {0} /\ Capacity \in Nat \ {0}
  /\ ListSize \in Nat \ {0} /\ ResponseSize \in Nat \ {0}
  /\ MaxLength \in Nat /\ MaxMessages \in Nat /\ MaxNotices \in Nat

VARIABLES
  \* The client and the network
  sent,               \* kinds of the messages the client has sent
  delivered,          \* parts of the stream that have reached the socket
  shut,               \* the client sends nothing more
  receiving, received,   \* the client reads; parts it has read
  notices,            \* notices sent so far
  \* Histories: what the network did
  idle,               \* empty reads since it last brought something
  late,               \* it once kept a body waiting for MaxAttempts reads
  split,              \* it once paused inside a header or a chat message
  \* The thread that serves the connection
  pc,
  consumed,           \* parts of the stream read from the socket
  at,                 \* where in the stream the header was read
  want,               \* its msg_length
  body,               \* the parts of the stream in the body buffer
  attempt_count,
  sent_total,         \* of send_large_data
  \* Histories: what the thread did
  handled,            \* the messages handlers ran on, Garbage for none of the client's
  out                 \* what was written to the socket

netVars    == <<sent, delivered, shut>>
clientVars == <<receiving, received, notices>>
histVars   == <<idle, late, split>>
readVars   == <<consumed, at, want, body, attempt_count>>
vars == <<netVars, clientVars, histVars, pc, readVars, sent_total, handled, out>>

Kinds == {"login", "chat"}
Garbage == 0
MessageSize == HeaderSize + BodySize
Stream == MessageSize * Len(sent)
Part == [list : Nat, part : Nat]      \* list 0: of a response or a notice

Least(m, n) == IF m <= n THEN m ELSE n

Init ==
  /\ sent = <<>> /\ delivered = 0 /\ shut = FALSE
  /\ receiving = TRUE /\ received = 0 /\ notices = 0
  /\ idle = 0 /\ late = FALSE /\ split = FALSE
  /\ pc = "header"
  /\ consumed = 0 /\ at = 0 /\ want = 0 /\ body = <<>> /\ attempt_count = 0
  /\ sent_total = 0 /\ handled = <<>> /\ out = <<>>

-----------------------------------------------------------------------------
(* The client and the network *)

ClientSend(k) ==
  /\ ~shut /\ Len(sent) < MaxMessages
  /\ sent' = Append(sent, k)
  /\ UNCHANGED <<delivered, shut, clientVars, histVars, pc, readVars, sent_total, handled, out>>

ClientShut ==
  /\ ~shut
  /\ shut' = TRUE
  /\ UNCHANGED <<sent, delivered, clientVars, histVars, pc, readVars, sent_total, handled, out>>

\* A pause after p parts of the stream leaves a header or a chat message incomplete.
Splits(p) ==
  \/ p % MessageSize \in 1..(HeaderSize - 1)
  \/ p % MessageSize # 0 /\ sent[p \div MessageSize + 1] = "chat"

Deliver(n) ==
  /\ delivered + n <= Stream
  /\ delivered' = delivered + n
  /\ idle' = 0
  /\ split' = (split \/ Splits(delivered'))
  /\ UNCHANGED <<sent, shut, clientVars, late, pc, readVars, sent_total, handled, out>>

ClientReceive ==
  /\ receiving /\ received < Len(out)
  /\ received' = received + 1
  /\ UNCHANGED <<netVars, receiving, notices, histVars, pc, readVars, sent_total, handled, out>>

ClientStops ==
  /\ receiving
  /\ receiving' = FALSE
  /\ UNCHANGED <<netVars, received, notices, histVars, pc, readVars, sent_total, handled, out>>

-----------------------------------------------------------------------------
(* receive_message_header *)

Available == delivered - consumed
Eof == shut /\ delivered = Stream
AtMessage == consumed % MessageSize = 0

\* A whole header is there.  Away from the start of a message its fields are whatever
\* the parts hold: a type with no case or a length that is refused, or a handler's.
RecvHeader ==
  /\ pc = "header" /\ Available >= HeaderSize
  /\ consumed' = consumed + HeaderSize
  /\ at' = consumed
  /\ IF AtMessage
     THEN pc' = sent[consumed \div MessageSize + 1] /\ want' = BodySize
     ELSE \/ pc' = "header" /\ want' = 0
          \/ pc' = "login" /\ want' = BodySize
          \/ pc' = "chat" /\ want' \in 0..MaxLength
  /\ UNCHANGED <<netVars, clientVars, histVars, body, attempt_count, sent_total, handled, out>>

PartialHeader ==
  /\ pc = "header" /\ Available \in 1..(HeaderSize - 1)
  /\ consumed' = delivered
  /\ UNCHANGED <<netVars, clientVars, histVars, pc, at, want, body, attempt_count,
                 sent_total, handled, out>>

RecvEof ==
  /\ pc = "header" /\ Available = 0 /\ Eof
  /\ pc' = "closed"
  /\ UNCHANGED <<netVars, clientVars, histVars, readVars, sent_total, handled, out>>

-----------------------------------------------------------------------------
(* receive_remain_message *)

Recv(n) == [i \in 1..n |-> consumed + i]

\* The locals of a call end with it.
Return == at' = 0 /\ want' = 0 /\ body' = <<>> /\ attempt_count' = 0

\* Variant: each recv asks for the whole body.
RecvBodyWhole ==
  LET n == Least(Available, want) IN
  /\ pc = "login" /\ Len(body) < want /\ attempt_count < MaxAttempts
  /\ Available > 0
  /\ body' = body \o Recv(n)
  /\ consumed' = consumed + n
  /\ attempt_count' = 0
  /\ UNCHANGED <<netVars, clientVars, histVars, pc, at, want, sent_total, handled, out>>

\* Variant: attempt_count is not reset.
RecvBodyNoReset ==
  LET n == Least(Available, want - Len(body)) IN
  /\ pc = "login" /\ Len(body) < want /\ attempt_count < MaxAttempts
  /\ Available > 0
  /\ body' = body \o Recv(n)
  /\ consumed' = consumed + n
  /\ UNCHANGED <<netVars, clientVars, histVars, pc, at, want, attempt_count, sent_total,
                 handled, out>>

RecvBody ==
  LET n == Least(Available, want - Len(body)) IN
  /\ pc = "login" /\ Len(body) < want /\ attempt_count < MaxAttempts
  /\ Available > 0
  /\ body' = body \o Recv(n)
  /\ consumed' = consumed + n
  /\ attempt_count' = 0
  /\ UNCHANGED <<netVars, clientVars, histVars, pc, at, want, sent_total, handled, out>>

\* EAGAIN, usleep and once more.  late records the network, not attempt_count.
CountEmptyRead ==
  /\ idle' = Least(idle + 1, MaxAttempts)
  /\ late' = (late \/ idle' = MaxAttempts)

\* Variant: attempt_count is not counted.
BodyAgainUncounted ==
  /\ pc = "login" /\ Len(body) < want /\ attempt_count < MaxAttempts
  /\ Available = 0 /\ ~Eof
  /\ CountEmptyRead
  /\ UNCHANGED <<netVars, clientVars, split, pc, readVars, sent_total, handled, out>>

BodyAgain ==
  /\ pc = "login" /\ Len(body) < want /\ attempt_count < MaxAttempts
  /\ Available = 0 /\ ~Eof
  /\ attempt_count' = attempt_count + 1
  /\ CountEmptyRead
  /\ UNCHANGED <<netVars, clientVars, split, pc, consumed, at, want, body, sent_total,
                 handled, out>>

\* -1: thread_handle looks at no handler's result and reads the next header.
GiveUp ==
  /\ pc = "login" /\ Len(body) < want
  /\ attempt_count = MaxAttempts \/ (Available = 0 /\ Eof)
  /\ pc' = "header" /\ Return
  /\ UNCHANGED <<netVars, clientVars, histVars, consumed, sent_total, handled, out>>

\* The message whose header and body these are.
Handle(parts) ==
  handled' = Append(handled,
    IF at % MessageSize = 0 /\ parts = [i \in 1..BodySize |-> at + HeaderSize + i]
    THEN at \div MessageSize + 1 ELSE Garbage)

HandleLogin ==
  /\ pc = "login" /\ Len(body) = want
  /\ Handle(body)
  /\ sent_total' = 0
  /\ pc' = "list" /\ Return
  /\ UNCHANGED <<netVars, clientVars, histVars, consumed, out>>

\* handle_chat_message: one recv, which MSG_WAITALL does not make wait.
HandleChat ==
  /\ pc = "chat"
  /\ consumed' = consumed + Least(Available, want)
  /\ IF Available >= want
     THEN Handle(Recv(want)) /\ pc' = "respond"
     ELSE UNCHANGED handled /\ pc' = "header"
  /\ Return
  /\ UNCHANGED <<netVars, clientVars, histVars, sent_total, out>>

-----------------------------------------------------------------------------
(* send_large_data and send *)

Room == Capacity - (Len(out) - received)
Plain(n) == out \o [i \in 1..n |-> [list |-> 0, part |-> i]]
List(first, n) == out \o [i \in 1..n |-> [list |-> Len(handled), part |-> first + i]]

\* Variant: each send starts at the beginning of the data.
send_large_data_restarts ==
  LET n == Least(Room, ListSize - sent_total) IN
  /\ pc = "list" /\ n > 0
  /\ out' = List(0, n)
  /\ sent_total' = sent_total + n
  /\ pc' = IF sent_total' = ListSize THEN "respond" ELSE "list"
  /\ UNCHANGED <<netVars, clientVars, histVars, readVars, handled>>

\* Variant: the loop waits for one send that writes everything.
send_large_data_in_one ==
  LET n == Least(Room, ListSize - sent_total) IN
  /\ pc = "list" /\ n > 0
  /\ out' = List(sent_total, n)
  /\ sent_total' = sent_total + n
  /\ pc' = IF n = ListSize THEN "respond" ELSE "list"
  /\ UNCHANGED <<netVars, clientVars, histVars, readVars, handled>>

\* A turn of the loop that writes something; while there is no room it goes round.
send_large_data ==
  LET n == Least(Room, ListSize - sent_total) IN
  /\ pc = "list" /\ n > 0
  /\ out' = List(sent_total, n)
  /\ sent_total' = sent_total + n
  /\ pc' = IF sent_total' = ListSize THEN "respond" ELSE "list"
  /\ UNCHANGED <<netVars, clientVars, histVars, readVars, handled>>

\* A plain send: what there is no room for is not sent again.
Respond ==
  /\ pc = "respond"
  /\ out' = Plain(Least(Room, ResponseSize))
  /\ pc' = "header"
  /\ UNCHANGED <<netVars, clientVars, histVars, readVars, sent_total, handled>>

\* The same, by the handler of another client.
Notice ==
  /\ pc # "closed" /\ notices < MaxNotices
  /\ out' = Plain(Least(Room, ResponseSize))
  /\ notices' = notices + 1
  /\ UNCHANGED <<netVars, receiving, received, histVars, pc, readVars, sent_total, handled>>

-----------------------------------------------------------------------------
Worker ==
  \/ RecvHeader \/ PartialHeader \/ RecvEof
  \/ RecvBody \/ BodyAgain \/ GiveUp \/ HandleLogin \/ HandleChat
  \/ send_large_data \/ Respond

Next ==
  \/ (\E k \in Kinds : ClientSend(k)) \/ ClientShut
  \/ (\E n \in 1..(Stream - delivered) : Deliver(n))
  \/ ClientReceive \/ ClientStops
  \/ Worker \/ Notice

Spec == Init /\ [][Next]_vars
FairSpec == Spec /\ WF_vars(Worker) /\ WF_vars(ClientReceive)

-----------------------------------------------------------------------------
(* Properties *)

Pcs == Kinds \cup {"header", "list", "respond", "closed"}

\* The values that every variable keeps: no more is read than came, no more written than
\* there is room for, no body runs over its length.
TypeOK ==
  /\ sent \in Seq(Kinds) /\ Len(sent) <= MaxMessages
  /\ delivered \in 0..Stream /\ shut \in BOOLEAN
  /\ receiving \in BOOLEAN /\ received \in 0..Len(out) /\ notices \in 0..MaxNotices
  /\ idle \in 0..MaxAttempts /\ late \in BOOLEAN /\ split \in BOOLEAN
  /\ pc \in Pcs
  /\ consumed \in 0..delivered /\ at \in Nat /\ want \in Nat
  /\ body \in Seq(Nat) /\ Len(body) <= BodySize
  /\ attempt_count \in 0..MaxAttempts /\ sent_total \in 0..ListSize
  /\ handled \in Seq(Nat)
  /\ out \in Seq(Part) /\ Len(out) - received <= Capacity

\* However the network cuts the bodies that receive_remain_message reads, the handlers
\* run on the client's messages, each once and in order, as long as it never paused
\* inside a header or a chat message and never kept a body waiting for MaxAttempts reads.
InStep ==
  ~split /\ ~late =>
    /\ \A i \in DOMAIN handled : handled[i] = i
    /\ pc = "header" => consumed = MessageSize * Len(handled)

\* send_large_data sends each part of a list once and in order, whatever the buffer takes
\* at a time and whoever writes in between.
ListWhole ==
  \A i \in 1..Len(handled) :
    LET parts == {p \in DOMAIN out : out[p].list = i} IN
      /\ \A p, q \in parts : p < q => out[p].part < out[q].part
      /\ \/ Cardinality(parts) \in {0, ListSize}
         \/ pc = "list" /\ i = Len(handled) /\ Cardinality(parts) = sent_total

\* receive_remain_message returns, whatever the client sends or fails to send: the
\* thread that runs it, one of twenty, is not lost to a client that stalls.
BodyReadEnds == pc = "login" ~> pc # "login"

\* send_large_data returns if the client goes on reading.
ListSent == pc = "list" ~> (pc # "list" \/ ~receiving)
=============================================================================
