---------------------------- MODULE FramingProofs ----------------------------
(***************************************************************************)
(* Proofs about Framing, for messages, buffers and lists of any size and   *)
(* any number of messages and notices: no more is read or written than     *)
(* there is, the handlers run on the client's messages in order while the  *)
(* network behaves, and lists are whole.                                   *)
(***************************************************************************)
EXTENDS Framing, FiniteSetTheorems, TLAPS

\* What a read leaves when it returns.
ShapeInv ==
  /\ pc = "login" => want = BodySize
  /\ pc # "login" => body = <<>> /\ attempt_count = 0

\* What the network did, and how attempt_count follows it: data that has come and is not
\* read yet resets it before the next count.
NetInv ==
  /\ ~split => ~Splits(delivered)
  /\ ~late => idle < MaxAttempts /\ attempt_count < MaxAttempts
  /\ pc = "login" /\ Available = 0 => attempt_count <= idle

\* Where the next message starts when each was handled once.
Taken == MessageSize * Len(handled)

\* Between handlers the reader is at the start of a message; within one it has read the
\* header and what the buffer holds of the body.
InPlace ==
  /\ \A i \in DOMAIN handled : handled[i] = i
  /\ pc \in {"header", "list", "respond"} => consumed = Taken
  /\ pc \in Kinds => /\ at = Taken /\ want = BodySize
                     /\ Len(handled) < Len(sent) /\ sent[Len(handled) + 1] = pc
                     /\ consumed = Taken + HeaderSize + Len(body)
                     /\ \A i \in DOMAIN body : body[i] = Taken + HeaderSize + i
  /\ pc = "chat" => delivered >= Taken + MessageSize
StepInv == ~split /\ ~late => InPlace

\* What is written of list i.
Parts(i) == {p \in DOMAIN out : out[p].list = i}

WholeList(i) ==
  /\ \A p, q \in Parts(i) : p < q => out[p].part < out[q].part
  /\ \/ Cardinality(Parts(i)) \in {0, ListSize}
     \/ pc = "list" /\ i = Len(handled) /\ Cardinality(Parts(i)) = sent_total

\* Lists are numbered by the handlers that ran; of the last one the first sent_total
\* parts are written.
ListInv ==
  /\ \A p \in DOMAIN out : out[p].list <= Len(handled)
  /\ pc = "list" => /\ Len(handled) # 0
                    /\ \A p \in Parts(Len(handled)) : out[p].part <= sent_total
                    /\ Cardinality(Parts(Len(handled))) = sent_total

TypeInv == TypeOK /\ ShapeInv

-----------------------------------------------------------------------------
(* The start of a message in the stream *)

\* A message is longer than its header.
LEMMA Sizes ==
  /\ MessageSize \in Nat \ {0} /\ HeaderSize < MessageSize
  /\ MessageSize = HeaderSize + BodySize
BY FramingAssumption DEF MessageSize

\* Messages follow each other in the stream.
LEMMA NextStart ==
  ASSUME NEW k \in Nat
  PROVE  MessageSize * k \in Nat /\ MessageSize * (k + 1) = MessageSize * k + MessageSize
BY Sizes

\* Two messages start at least a message apart.
LEMMA StartsApart ==
  ASSUME NEW j \in Nat, NEW k \in Nat, j < k
  PROVE  MessageSize * j + MessageSize <= MessageSize * k
<1> DEFINE d == k - (j + 1)
<1>1. d \in Nat /\ k = (j + 1) + d
  OBVIOUS
<1> HIDE DEF d
<1>2. MessageSize * k = MessageSize * (j + 1) + MessageSize * d
  BY <1>1, Sizes
<1>3. MessageSize * d \in Nat
  BY <1>1, Sizes
<1> QED BY <1>2, <1>3, NextStart, Sizes

\* A place in the stream is a number of messages and a place in the next.
LEMMA Division ==
  ASSUME NEW p \in Nat
  PROVE  /\ p \div MessageSize \in Nat /\ p % MessageSize \in 0..(MessageSize - 1)
         /\ p = MessageSize * (p \div MessageSize) + (p % MessageSize)
<1> DEFINE m == MessageSize
<1>1. m \in Nat /\ m > 0
  BY Sizes
<1> HIDE DEF m
<1>2. p \div m \in Nat /\ p % m \in 0..(m - 1) /\ p = m * (p \div m) + (p % m)
  BY <1>1
<1> QED BY <1>2 DEF m

\* The message that a part of the stream belongs to, and its place there.
LEMMA PlaceOf ==
  ASSUME NEW k \in Nat, NEW r \in 0..(MessageSize - 1)
  PROVE  (MessageSize * k + r) \div MessageSize = k /\ (MessageSize * k + r) % MessageSize = r
<1> DEFINE p == MessageSize * k + r
           q == p \div MessageSize
           s == p % MessageSize
<1>1. p \in Nat /\ MessageSize * k \in Nat /\ r \in Nat /\ r < MessageSize
  <2>1. MessageSize * k \in Nat
    BY NextStart
  <2> QED BY <2>1, Sizes
<1>2. q \in Nat /\ s \in 0..(MessageSize - 1) /\ p = MessageSize * q + s
  BY <1>1, Division
<1>3. MessageSize * q \in Nat
  BY <1>2, NextStart
<1> HIDE DEF q, s
<1>4. CASE q < k
  <2>1. MessageSize * q + MessageSize <= MessageSize * k
    BY <1>2, <1>4, StartsApart
  <2> QED BY <1>1, <1>2, <1>3, <2>1, Sizes
<1>5. CASE k < q
  <2>1. MessageSize * k + MessageSize <= MessageSize * q
    BY <1>2, <1>5, StartsApart
  <2> QED BY <1>1, <1>2, <1>3, <2>1, Sizes
<1>6. CASE q = k
  BY <1>1, <1>2, <1>3, <1>6 DEF q, s
<1> QED BY <1>2, <1>4, <1>5, <1>6

-----------------------------------------------------------------------------
(* Types *)

\* What recv and send return at most.
LEMMA LeastIs ==
  ASSUME NEW m \in Nat, NEW n \in Nat
  PROVE  Least(m, n) \in Nat /\ Least(m, n) <= m /\ Least(m, n) <= n
         /\ (Least(m, n) = m \/ Least(m, n) = n)
BY DEF Least

\* The stream has a length.
LEMMA StreamGrows ==
  ASSUME TypeOK
  PROVE  Stream \in Nat /\ Len(sent) \in Nat
BY NextStart DEF TypeOK, Stream

\* What is appended to body and out.
LEMMA Concatenated ==
  ASSUME NEW S, NEW s \in Seq(S), NEW n \in Nat, NEW f \in [1..n -> S]
  PROVE  /\ s \o f \in Seq(S) /\ Len(s \o f) = Len(s) + n
         /\ DOMAIN (s \o f) = 1..(Len(s) + n) /\ DOMAIN s = 1..Len(s) /\ Len(s) \in Nat
         /\ \A i \in 1..Len(s) : (s \o f)[i] = s[i]
         /\ \A i \in 1..n : (s \o f)[Len(s) + i] = f[i]
<1>1. f \in Seq(S) /\ Len(f) = n
  OBVIOUS
<1> QED BY <1>1

\* The body buffer after a recv.
LEMMA BodyRead ==
  ASSUME TypeOK, NEW n \in Nat
  PROVE  /\ body \o Recv(n) \in Seq(Nat) /\ Len(body \o Recv(n)) = Len(body) + n
         /\ DOMAIN (body \o Recv(n)) = 1..(Len(body) + n) /\ DOMAIN body = 1..Len(body)
         /\ \A i \in 1..Len(body) : (body \o Recv(n))[i] = body[i]
         /\ \A i \in 1..n : (body \o Recv(n))[Len(body) + i] = consumed + i
<1>1. consumed \in Nat /\ body \in Seq(Nat)
  BY StreamGrows DEF TypeOK
<1>2. Recv(n) \in [1..n -> Nat] /\ \A i \in 1..n : Recv(n)[i] = consumed + i
  BY <1>1 DEF Recv
<1> QED BY <1>1, <1>2, Concatenated

\* A write: what is added, and that the buffer holds it.
LEMMA Written ==
  ASSUME TypeOK, NEW n \in Nat, n <= Room, NEW f \in [1..n -> Part]
  PROVE  /\ out \o f \in Seq(Part) /\ Len(out \o f) = Len(out) + n
         /\ Len(out \o f) - received <= Capacity /\ received \in 0..Len(out \o f)
<1>1. out \in Seq(Part) /\ received \in 0..Len(out) /\ Capacity \in Nat /\ Len(out) \in Nat
  BY FramingAssumption DEF TypeOK
<1>2. out \o f \in Seq(Part) /\ Len(out \o f) = Len(out) + n
  BY <1>1, Concatenated
<1> QED BY <1>1, <1>2 DEF Room

\* A send never has less than no room.
LEMMA RoomIs == ASSUME TypeOK PROVE Room \in Nat
BY FramingAssumption DEF TypeOK, Room

\* A plain send and a turn of send_large_data.
LEMMA PlainType ==
  ASSUME TypeOK, out' = Plain(Least(Room, ResponseSize))
  PROVE  out' \in Seq(Part) /\ Len(out') - received <= Capacity /\ received \in 0..Len(out')
<1> DEFINE n == Least(Room, ResponseSize)
           f == [i \in 1..n |-> [list |-> 0, part |-> i]]
<1>1. n \in Nat /\ n <= Room
  BY RoomIs, LeastIs, FramingAssumption
<1>2. out' = out \o f
  BY DEF Plain
<1> HIDE DEF n
<1>3. f \in [1..n -> Part]
  BY <1>1 DEF Part
<1> HIDE DEF f
<1> QED BY <1>1, <1>2, <1>3, Written

LEMMA ListIs ==
  ASSUME TypeOK, NEW n \in Nat, n <= Room, out' = List(sent_total, n)
  PROVE  /\ out' \in Seq(Part) /\ Len(out') - received <= Capacity /\ received \in 0..Len(out')
         /\ Len(out') = Len(out) + n /\ Len(out) \in Nat
         /\ \A p \in 1..Len(out) : out'[p] = out[p]
         /\ \A i \in 1..n : out'[Len(out) + i] = [list |-> Len(handled), part |-> sent_total + i]
<1> DEFINE f == [i \in 1..n |-> [list |-> Len(handled), part |-> sent_total + i]]
<1>1. Len(handled) \in Nat /\ sent_total \in Nat /\ out \in Seq(Part)
  BY FramingAssumption DEF TypeOK
<1>2. out' = out \o f
  BY DEF List
<1>3. f \in [1..n -> Part]
  BY <1>1 DEF Part
<1>4. \A i \in 1..n : f[i] = [list |-> Len(handled), part |-> sent_total + i]
  OBVIOUS
<1> HIDE DEF f
<1>5. out' \in Seq(Part) /\ Len(out') - received <= Capacity /\ received \in 0..Len(out')
  BY <1>2, <1>3, Written
<1> QED BY <1>1, <1>2, <1>3, <1>4, <1>5, Concatenated

\* The locals of the reader are gone.
Returned == at' = 0 /\ want' = 0 /\ body' = <<>> /\ attempt_count' = 0

LEMMA ReturnedType ==
  ASSUME Returned
  PROVE  /\ at' \in Nat /\ want' \in Nat /\ body' \in Seq(Nat) /\ Len(body') <= BodySize
         /\ attempt_count' \in 0..MaxAttempts
BY FramingAssumption DEF Returned

\* Before anything is sent.
LEMMA InitType == Init => TypeInv
<1> SUFFICES ASSUME Init PROVE TypeInv
  OBVIOUS
<1>1. sent = <<>> /\ Len(sent) = 0 /\ Stream = 0
  BY Sizes DEF Init, Stream
<1>2. TypeOK
  <2>1. /\ out = <<>> /\ Len(out) = 0 /\ body = <<>> /\ Len(body) = 0 /\ handled = <<>>
        /\ received = 0 /\ consumed = 0 /\ delivered = 0
    BY DEF Init
  <2>2. /\ received \in 0..Len(out) /\ consumed \in 0..delivered /\ delivered \in 0..Stream
        /\ Len(out) - received <= Capacity /\ Len(body) <= BodySize /\ Len(sent) <= MaxMessages
    BY <1>1, <2>1, FramingAssumption
  <2>3. /\ notices \in 0..MaxNotices /\ idle \in 0..MaxAttempts /\ sent_total \in 0..ListSize
        /\ attempt_count \in 0..MaxAttempts
    BY FramingAssumption DEF Init
  <2>4. /\ sent \in Seq(Kinds) /\ body \in Seq(Nat) /\ handled \in Seq(Nat) /\ out \in Seq(Part)
    BY <1>1, <2>1
  <2>5. /\ shut \in BOOLEAN /\ receiving \in BOOLEAN /\ late \in BOOLEAN /\ split \in BOOLEAN
        /\ pc \in Pcs /\ at \in Nat /\ want \in Nat
    BY DEF Init, Pcs
  <2> QED BY <2>2, <2>3, <2>4, <2>5 DEF TypeOK
<1> QED BY <1>2 DEF TypeInv, ShapeInv, Init

\* The message that a header begins is one that was sent.
LEMMA HeaderOf ==
  ASSUME TypeOK, Available >= HeaderSize, AtMessage
  PROVE  /\ consumed \div MessageSize \in Nat
         /\ consumed = MessageSize * (consumed \div MessageSize)
         /\ consumed \div MessageSize + 1 \in 1..Len(sent)
         /\ sent[consumed \div MessageSize + 1] \in Kinds
<1> DEFINE k == consumed \div MessageSize
<1>1. consumed \in Nat /\ delivered \in Nat /\ consumed <= delivered /\ delivered <= Stream
      /\ HeaderSize \in Nat \ {0} /\ delivered - consumed >= HeaderSize
  BY StreamGrows, FramingAssumption DEF TypeOK, Available
<1>2. k \in Nat /\ consumed = MessageSize * k + (consumed % MessageSize)
  BY <1>1, Division
<1>3. k \in Nat /\ consumed = MessageSize * k
  BY <1>1, <1>2, NextStart DEF AtMessage
<1> HIDE DEF k
<1>4. k < Len(sent)
  <2>1. SUFFICES ASSUME Len(sent) <= k PROVE FALSE
    BY <1>3, StreamGrows
  <2>2. CASE Len(sent) = k
    BY <1>1, <1>3, <2>2, StreamGrows DEF Stream
  <2>3. CASE Len(sent) < k
    <3>1. Stream + MessageSize <= MessageSize * k
      BY <1>3, <2>3, StreamGrows, StartsApart DEF Stream
    <3> QED BY <1>1, <1>3, <3>1, Sizes, StreamGrows
  <2> QED BY <1>3, <2>1, <2>2, <2>3, StreamGrows
<1>5. k + 1 \in 1..Len(sent) /\ sent[k + 1] \in Kinds
  BY <1>3, <1>4 DEF TypeOK
<1> QED BY <1>3, <1>5 DEF k

USE DEF netVars, clientVars, histVars, readVars

\* Steps of the client and the network, and of other handlers.
LEMMA OutsideType ==
  ASSUME TypeInv,
         \/ (\E k \in Kinds : ClientSend(k)) \/ ClientShut
         \/ (\E n \in 1..(Stream - delivered) : Deliver(n))
         \/ ClientReceive \/ ClientStops \/ Notice
  PROVE  TypeInv'
<1>1. TypeOK /\ ShapeInv /\ Stream \in Nat
  BY StreamGrows DEF TypeInv
<1>2. ASSUME NEW k \in Kinds, ClientSend(k) PROVE TypeInv'
  <2>1. /\ sent' \in Seq(Kinds) /\ Len(sent') = Len(sent) + 1 /\ Len(sent) \in Nat
        /\ Len(sent) < MaxMessages
    BY <1>1, <1>2 DEF TypeOK, ClientSend
  <2>2. Stream' = Stream + MessageSize
    BY <2>1, NextStart DEF Stream
  <2>3. delivered \in 0..Stream'
    BY <1>1, <2>2, Sizes DEF TypeOK
  <2>4. Len(sent') <= MaxMessages
    BY <2>1, FramingAssumption
  <2>5. TypeOK'
    BY <1>1, <1>2, <2>1, <2>3, <2>4 DEF TypeOK, ClientSend
  <2> QED BY <1>1, <1>2, <2>5 DEF TypeInv, ShapeInv, ClientSend
<1>3. CASE ClientShut
  <2>1. Stream' = Stream
    BY <1>3 DEF ClientShut, Stream
  <2> QED BY <1>1, <1>3, <2>1 DEF TypeInv, TypeOK, ShapeInv, ClientShut
<1>4. ASSUME NEW n \in 1..(Stream - delivered), Deliver(n) PROVE TypeInv'
  <2>1. Stream' = Stream
    BY <1>4 DEF Deliver, Stream
  <2>2. delivered' \in 0..Stream /\ consumed \in 0..delivered' /\ idle' \in 0..MaxAttempts
    BY <1>1, <1>4, FramingAssumption DEF TypeOK, Deliver
  <2>3. split' \in BOOLEAN
    BY <1>1, <1>4 DEF TypeOK, Deliver
  <2>4. TypeOK'
    BY <1>1, <1>4, <2>1, <2>2, <2>3 DEF TypeOK, Deliver
  <2> QED BY <1>1, <1>4, <2>4 DEF TypeInv, ShapeInv, Deliver
<1>5. CASE ClientReceive
  <2>1. Stream' = Stream
    BY <1>5 DEF ClientReceive, Stream
  <2>2. received' \in 0..Len(out) /\ Len(out) - received' <= Capacity
    BY <1>1, <1>5, FramingAssumption DEF TypeOK, ClientReceive
  <2> QED BY <1>1, <1>5, <2>1, <2>2 DEF TypeInv, TypeOK, ShapeInv, ClientReceive
<1>6. CASE ClientStops
  <2>1. Stream' = Stream
    BY <1>6 DEF ClientStops, Stream
  <2> QED BY <1>1, <1>6, <2>1 DEF TypeInv, TypeOK, ShapeInv, ClientStops
<1>7. CASE Notice
  <2>1. Stream' = Stream
    BY <1>7 DEF Notice, Stream
  <2>2. /\ out' \in Seq(Part) /\ Len(out') - received <= Capacity /\ received \in 0..Len(out')
    BY <1>1, <1>7, PlainType DEF Notice
  <2>3. notices' \in 0..MaxNotices
    BY <1>1, <1>7, FramingAssumption DEF TypeOK, Notice
  <2> QED BY <1>1, <1>7, <2>1, <2>2, <2>3 DEF TypeInv, TypeOK, ShapeInv, Notice
<1> QED BY <1>2, <1>3, <1>4, <1>5, <1>6, <1>7

\* Steps that read a header.
LEMMA HeaderPc ==
  ASSUME TypeOK, RecvHeader
  PROVE  /\ pc' \in Kinds \cup {"header"} /\ want' \in Nat
         /\ pc' = "login" => want' = BodySize
<1>1. CASE AtMessage
  <2>1. sent[consumed \div MessageSize + 1] \in Kinds
    BY <1>1, HeaderOf DEF RecvHeader
  <2> QED BY <1>1, <2>1, FramingAssumption DEF RecvHeader
<1>2. CASE ~AtMessage
  BY <1>2, FramingAssumption DEF RecvHeader, Kinds
<1> QED BY <1>1, <1>2

LEMMA HeaderType ==
  ASSUME TypeInv, RecvHeader \/ PartialHeader \/ RecvEof
  PROVE  TypeInv'
<1>1. TypeOK /\ ShapeInv /\ Stream \in Nat
  BY StreamGrows DEF TypeInv
<1>2. Stream' = Stream
  BY DEF RecvHeader, PartialHeader, RecvEof, Stream
<1>3. CASE RecvHeader
  <2>1. consumed' \in 0..delivered /\ at' \in Nat
    BY <1>1, <1>3, FramingAssumption DEF TypeOK, RecvHeader, Available
  <2>2. /\ pc' \in Kinds \cup {"header"} /\ want' \in Nat /\ (pc' = "login" => want' = BodySize)
    BY <1>1, <1>3, HeaderPc
  <2>3. body = <<>> /\ attempt_count = 0
    BY <1>1, <1>3 DEF ShapeInv, RecvHeader
  <2>4. TypeOK'
    BY <1>1, <1>2, <1>3, <2>1, <2>2 DEF TypeOK, RecvHeader, Pcs
  <2> QED BY <1>3, <2>2, <2>3, <2>4 DEF TypeInv, ShapeInv, RecvHeader
<1>4. CASE PartialHeader
  <2>1. consumed' \in 0..delivered
    BY <1>1, <1>4 DEF TypeOK, PartialHeader
  <2> QED BY <1>1, <1>2, <1>4, <2>1 DEF TypeInv, TypeOK, ShapeInv, PartialHeader
<1>5. CASE RecvEof
  BY <1>1, <1>2, <1>5 DEF TypeInv, TypeOK, ShapeInv, RecvEof, Pcs
<1> QED BY <1>3, <1>4, <1>5

\* A handler that ran is one more.
LEMMA HandledType ==
  ASSUME TypeOK, NEW parts, Handle(parts)
  PROVE  handled' \in Seq(Nat) /\ Len(handled') = Len(handled) + 1
<1>1. at \in Nat /\ at \div MessageSize + 1 \in Nat /\ Garbage \in Nat
  <2>1. at \in Nat
    BY DEF TypeOK
  <2>2. at \div MessageSize \in Nat
    BY <2>1, Division
  <2> HIDE DEF MessageSize
  <2> QED BY <2>1, <2>2 DEF Garbage
<1>2. PICK h \in Nat : handled' = Append(handled, h)
  BY <1>1 DEF Handle
<1> QED BY <1>2 DEF TypeOK

\* Steps that read a body.
LEMMA BodyType ==
  ASSUME TypeInv, RecvBody \/ BodyAgain \/ GiveUp \/ HandleLogin \/ HandleChat
  PROVE  TypeInv'
<1>1. /\ TypeOK /\ ShapeInv /\ Stream \in Nat /\ Available \in Nat
      /\ MaxAttempts \in Nat \ {0}
  BY StreamGrows, FramingAssumption DEF TypeInv, TypeOK, Available
<1>2. Stream' = Stream
  BY DEF RecvBody, BodyAgain, GiveUp, HandleLogin, HandleChat, Stream
<1>3. CASE RecvBody
  <2> DEFINE n == Least(Available, want - Len(body))
  <2>1. want = BodySize /\ want - Len(body) \in Nat /\ Len(body) \in Nat
    BY <1>1, <1>3, FramingAssumption DEF TypeOK, ShapeInv, RecvBody
  <2>2. n \in Nat /\ n <= Available /\ n <= want - Len(body)
    BY <1>1, <2>1, LeastIs
  <2>3. body' = body \o Recv(n) /\ consumed' = consumed + n
    BY <1>3 DEF RecvBody
  <2> HIDE DEF n
  <2>4. consumed' \in 0..delivered
    BY <1>1, <2>2, <2>3 DEF TypeOK, Available
  <2>5. body' \in Seq(Nat) /\ Len(body') = Len(body) + n
    BY <1>1, <2>2, <2>3, BodyRead
  <2>6. Len(body') <= BodySize
    BY <2>1, <2>2, <2>5, FramingAssumption
  <2>7. TypeOK'
    BY <1>1, <1>2, <1>3, <2>4, <2>5, <2>6 DEF TypeOK, RecvBody
  <2> QED BY <1>1, <1>3, <2>7 DEF TypeInv, ShapeInv, RecvBody
<1>4. CASE BodyAgain
  <2>1. attempt_count' \in 0..MaxAttempts
    BY <1>1, <1>4 DEF TypeOK, BodyAgain
  <2>2. idle' \in 0..MaxAttempts /\ late' \in BOOLEAN
    <3>1. idle \in Nat /\ idle' = Least(idle + 1, MaxAttempts)
      BY <1>1, <1>4 DEF TypeOK, BodyAgain, CountEmptyRead
    <3>2. idle' \in 0..MaxAttempts
      BY <1>1, <3>1, LeastIs
    <3> QED BY <1>1, <1>4, <3>2 DEF TypeOK, BodyAgain, CountEmptyRead
  <2>3. TypeOK'
    BY <1>1, <1>2, <1>4, <2>1, <2>2 DEF TypeOK, BodyAgain
  <2> QED BY <1>1, <1>4, <2>3 DEF TypeInv, ShapeInv, BodyAgain
<1>5. CASE GiveUp
  <2>1. Returned
    BY <1>5 DEF GiveUp, Returned, Return
  <2> QED BY <1>1, <1>2, <1>5, <2>1, ReturnedType
          DEF TypeInv, TypeOK, ShapeInv, GiveUp, Pcs, Returned
<1>6. CASE HandleLogin
  <2>1. Returned /\ sent_total' \in 0..ListSize
    BY <1>6, FramingAssumption DEF HandleLogin, Returned, Return
  <2>2. handled' \in Seq(Nat)
    BY <1>1, <1>6, HandledType DEF HandleLogin
  <2> QED BY <1>1, <1>2, <1>6, <2>1, <2>2, ReturnedType
          DEF TypeInv, TypeOK, ShapeInv, HandleLogin, Pcs, Returned
<1>7. CASE HandleChat
  <2>1. Returned
    BY <1>7 DEF HandleChat, Returned, Return
  <2>2. consumed' \in 0..delivered
    <3>1. want \in Nat
      BY <1>1 DEF TypeOK
    <3>2. /\ Least(Available, want) \in Nat /\ Least(Available, want) <= Available
          /\ consumed' = consumed + Least(Available, want)
      BY <1>1, <1>7, <3>1, LeastIs DEF HandleChat
    <3> QED BY <1>1, <3>2 DEF TypeOK, Available
  <2>3. handled' \in Seq(Nat) /\ pc' \in {"header", "respond"}
    BY <1>1, <1>7, HandledType DEF HandleChat, TypeOK
  <2> QED BY <1>1, <1>2, <1>7, <2>1, <2>2, <2>3, ReturnedType
          DEF TypeInv, TypeOK, ShapeInv, HandleChat, Pcs, Returned
<1> QED BY <1>3, <1>4, <1>5, <1>6, <1>7

\* Steps that write.
LEMMA WriteType ==
  ASSUME TypeInv, send_large_data \/ Respond
  PROVE  TypeInv'
<1>1. TypeOK /\ ShapeInv /\ Room \in Nat
  BY RoomIs DEF TypeInv
<1>2. Stream' = Stream
  BY DEF send_large_data, Respond, Stream
<1>3. CASE send_large_data
  <2> DEFINE n == Least(Room, ListSize - sent_total)
  <2>1. n \in Nat /\ n <= Room /\ n <= ListSize - sent_total
    <3>1. ListSize - sent_total \in Nat
      BY <1>1, FramingAssumption DEF TypeOK
    <3> QED BY <1>1, <3>1, LeastIs
  <2>2. out' = List(sent_total, n) /\ sent_total' = sent_total + n
    BY <1>3 DEF send_large_data
  <2> HIDE DEF n
  <2>3. out' \in Seq(Part) /\ Len(out') - received <= Capacity /\ received \in 0..Len(out')
    BY <1>1, <2>1, <2>2, ListIs
  <2>4. sent_total' \in 0..ListSize
    BY <1>1, <2>1, <2>2, FramingAssumption DEF TypeOK
  <2>5. TypeOK'
    BY <1>1, <1>2, <1>3, <2>3, <2>4 DEF TypeOK, send_large_data, Pcs
  <2> QED BY <1>1, <1>3, <2>5 DEF TypeInv, ShapeInv, send_large_data
<1>4. CASE Respond
  <2>1. out' \in Seq(Part) /\ Len(out') - received <= Capacity /\ received \in 0..Len(out')
    BY <1>1, <1>4, PlainType DEF Respond
  <2> QED BY <1>1, <1>2, <1>4, <2>1 DEF TypeInv, TypeOK, ShapeInv, Respond, Pcs
<1> QED BY <1>3, <1>4

\* Every step keeps the types.
LEMMA TypeStep == ASSUME TypeInv, [Next]_vars PROVE TypeInv'
<1>1. CASE UNCHANGED vars
  BY <1>1 DEF vars, TypeInv, TypeOK, ShapeInv, Stream
<1>2. CASE Next
  BY <1>2, OutsideType, HeaderType, BodyType, WriteType DEF Next, Worker
<1> QED BY <1>1, <1>2

-----------------------------------------------------------------------------
(* What the network did *)

\* A place inside a message belongs to a message that was sent.
LEMMA InsideSent ==
  ASSUME TypeOK, NEW p \in 0..Stream, p % MessageSize # 0
  PROVE  p \div MessageSize + 1 \in 1..Len(sent)
<1> DEFINE k == p \div MessageSize
           r == p % MessageSize
<1>1. p \in Nat /\ p <= Stream
  BY StreamGrows
<1>2. k \in Nat /\ r \in 0..(MessageSize - 1) /\ p = MessageSize * k + r /\ r # 0
  BY <1>1, Division
<1> HIDE DEF k, r
<1>3. MessageSize * k \in Nat /\ MessageSize * k < Stream
  <2>1. MessageSize * k \in Nat
    BY <1>2, NextStart
  <2> QED BY <1>1, <1>2, <2>1, StreamGrows, Sizes
<1>4. k # Len(sent)
  BY <1>3, StreamGrows DEF Stream
<1>5. ~(Len(sent) < k)
  <2>1. ASSUME Len(sent) < k PROVE Stream + MessageSize <= MessageSize * k
    BY <1>2, <2>1, StreamGrows, StartsApart DEF Stream
  <2> QED BY <1>3, <2>1, StreamGrows, Sizes
<1>6. k + 1 \in 1..Len(sent)
  BY <1>2, <1>4, <1>5, StreamGrows
<1> QED BY <1>6 DEF k

\* A pause that leaves a message incomplete, and a body kept waiting, are recorded.
LEMMA NetStep ==
  ASSUME TypeInv, NetInv, [Next]_vars
  PROVE  NetInv'
<1>1. TypeOK /\ ShapeInv /\ MaxAttempts \in Nat \ {0}
  BY FramingAssumption DEF TypeInv
<1>2. CASE UNCHANGED <<sent, delivered, histVars, consumed, pc, attempt_count>>
  BY <1>2 DEF NetInv, Splits, Available
<1>3. ASSUME NEW k \in Kinds, ClientSend(k) PROVE NetInv'
  <2>1. ASSUME ~split' PROVE ~Splits(delivered)'
    <3>1. delivered' = delivered /\ sent' = Append(sent, k) /\ ~Splits(delivered)
      BY <1>3, <2>1 DEF ClientSend, NetInv
    <3>2. CASE delivered % MessageSize = 0
      BY <3>1, <3>2 DEF Splits
    <3>3. CASE delivered % MessageSize # 0
      <4>1. delivered \div MessageSize + 1 \in 1..Len(sent)
        BY <1>1, <3>3, InsideSent DEF TypeOK
      <4>2. sent'[delivered \div MessageSize + 1] = sent[delivered \div MessageSize + 1]
        BY <1>1, <3>1, <4>1 DEF TypeOK
      <4> QED BY <3>1, <4>2 DEF Splits
    <3> QED BY <3>2, <3>3
  <2> QED BY <1>3, <2>1 DEF NetInv, ClientSend, Available
<1>4. ASSUME NEW n \in 1..(Stream - delivered), Deliver(n) PROVE NetInv'
  <2>1. ~split' => ~Splits(delivered)'
    BY <1>4 DEF Deliver, Splits
  <2>2. Available' # 0
    BY <1>1, <1>4, StreamGrows DEF TypeOK, Deliver, Available
  <2> QED BY <1>1, <1>4, <2>1, <2>2 DEF NetInv, Deliver
<1>5. CASE BodyAgain
  <2>1. Available = 0 /\ pc = "login" /\ attempt_count <= idle /\ attempt_count < MaxAttempts
    BY <1>5 DEF BodyAgain, NetInv
  <2>2. /\ idle \in Nat /\ idle' = Least(idle + 1, MaxAttempts) /\ attempt_count' = attempt_count + 1
        /\ attempt_count \in Nat /\ late' = (late \/ idle' = MaxAttempts)
    BY <1>1, <1>5 DEF TypeOK, BodyAgain, CountEmptyRead
  <2>3. idle' \in Nat /\ idle' <= MaxAttempts /\ (idle' = idle + 1 \/ idle' = MaxAttempts)
    BY <1>1, <2>2, LeastIs
  <2>4. attempt_count' <= idle'
    BY <1>1, <2>1, <2>2, <2>3
  <2>5. ~late' => idle' < MaxAttempts /\ attempt_count' < MaxAttempts
    <3>1. ~late' => idle' # MaxAttempts
      BY <2>2
    <3> QED BY <1>1, <2>2, <2>3, <2>4, <3>1
  <2> QED BY <1>5, <2>4, <2>5 DEF NetInv, BodyAgain, Splits, Available
<1>6. CASE RecvHeader \/ PartialHeader \/ RecvEof \/ GiveUp \/ HandleLogin \/ HandleChat
  <2>1. /\ UNCHANGED <<sent, delivered, histVars>>
        /\ ~late' => attempt_count' < MaxAttempts
        /\ pc' = "login" => attempt_count' = 0
    BY <1>1, <1>6 DEF RecvHeader, PartialHeader, RecvEof, GiveUp, HandleLogin, HandleChat, Return,
          ShapeInv, NetInv
  <2> QED BY <1>1, <2>1 DEF NetInv, Splits, TypeOK
<1>7. CASE RecvBody
  BY <1>1, <1>7 DEF NetInv, RecvBody, Splits, TypeOK
<1>8. CASE ClientShut \/ ClientReceive \/ ClientStops \/ Notice
  BY <1>2, <1>8 DEF ClientShut, ClientReceive, ClientStops, Notice
<1>9. CASE send_large_data \/ Respond
  <2>1. UNCHANGED <<sent, delivered, histVars, attempt_count>> /\ pc' # "login"
    BY <1>9 DEF send_large_data, Respond
  <2> QED BY <1>1, <2>1 DEF NetInv, Splits
<1> QED BY <1>2, <1>3, <1>4, <1>5, <1>6, <1>7, <1>8, <1>9 DEF Next, Worker, vars

-----------------------------------------------------------------------------
(* The reader and the messages *)

\* The place after the handled messages is the start of one.
LEMMA TakenIs ==
  ASSUME TypeOK
  PROVE  /\ Len(handled) \in Nat /\ Taken \in Nat
         /\ Taken \div MessageSize = Len(handled) /\ Taken % MessageSize = 0
<1>1. Len(handled) \in Nat /\ Taken \in Nat
  <2>1. Len(handled) \in Nat
    BY DEF TypeOK
  <2> QED BY <2>1, NextStart DEF Taken
<1>2. 0 \in 0..(MessageSize - 1) /\ Taken = MessageSize * Len(handled) + 0
  BY <1>1, Sizes DEF Taken
<1> QED BY <1>1, <1>2, PlaceOf

\* As long as the network behaves, a message that has begun to come has its header, and
\* all of it if it is a chat message.
LEMMA Unsplit ==
  ASSUME TypeOK, ~Splits(delivered), Taken < delivered
  PROVE  /\ delivered >= Taken + HeaderSize
         /\ Len(handled) < Len(sent)
         /\ sent[Len(handled) + 1] = "chat" => delivered >= Taken + MessageSize
<1>1. /\ delivered \in Nat /\ delivered <= Stream /\ Taken \in Nat /\ Len(handled) \in Nat
      /\ Len(sent) \in Nat /\ Stream \in Nat
      /\ MessageSize \in Nat /\ HeaderSize \in Nat /\ HeaderSize < MessageSize
  BY StreamGrows, TakenIs, Sizes, FramingAssumption DEF TypeOK
<1>2. Len(handled) < Len(sent)
  <2>1. CASE Len(handled) = Len(sent)
    BY <1>1, <2>1 DEF Taken, Stream
  <2>2. CASE Len(sent) < Len(handled)
    <3>1. Stream + MessageSize <= Taken
      BY <1>1, <2>2, StartsApart DEF Taken, Stream
    <3> QED BY <1>1, <3>1
  <2> QED BY <1>1, <2>1, <2>2
<1>3. CASE delivered >= Taken + MessageSize
  BY <1>1, <1>2, <1>3
<1>4. CASE delivered < Taken + MessageSize
  <2> DEFINE r == delivered - Taken
  <2>1. r \in 1..(MessageSize - 1) /\ delivered = Taken + r
    BY <1>1, <1>4
  <2> HIDE DEF r
  <2>2. r \in 0..(MessageSize - 1) /\ delivered = MessageSize * Len(handled) + r
    BY <1>1, <2>1 DEF Taken
  <2>3. delivered \div MessageSize = Len(handled) /\ delivered % MessageSize = r
    BY <1>1, <2>2, PlaceOf
  <2>4. r \notin 1..(HeaderSize - 1) /\ sent[Len(handled) + 1] # "chat"
    BY <1>1, <2>1, <2>3 DEF Splits
  <2> QED BY <1>1, <1>2, <2>1, <2>4
<1> QED BY <1>1, <1>3, <1>4

\* A handler that runs on the next message.
LEMMA HandledNext ==
  ASSUME TypeOK, \A i \in DOMAIN handled : handled[i] = i, at = Taken,
         NEW parts, parts = [i \in 1..BodySize |-> Taken + HeaderSize + i], Handle(parts)
  PROVE  (\A i \in DOMAIN handled : handled[i] = i)' /\ Taken' = Taken + MessageSize
<1>1. handled' = Append(handled, Len(handled) + 1)
  BY TakenIs DEF Handle
<1>2. /\ Len(handled') = Len(handled) + 1 /\ DOMAIN handled' = 1..(Len(handled) + 1)
      /\ DOMAIN handled = 1..Len(handled) /\ Len(handled) \in Nat
      /\ handled'[Len(handled) + 1] = Len(handled) + 1
      /\ \A i \in 1..Len(handled) : handled'[i] = handled[i]
  BY <1>1 DEF TypeOK
<1>3. \A i \in DOMAIN handled' : handled'[i] = i
  BY <1>2
<1>4. Taken' = Taken + MessageSize
  BY <1>2, NextStart DEF Taken
<1> QED BY <1>3, <1>4

\* The numbers of the reader, and how they lie.
LEMMA Numbers ==
  ASSUME TypeOK
  PROVE  /\ Taken \in Nat /\ consumed \in Nat /\ delivered \in Nat /\ consumed <= delivered
         /\ delivered <= Stream /\ Stream \in Nat /\ Available \in Nat
         /\ Available = delivered - consumed
         /\ Len(handled) \in Nat /\ Len(sent) \in Nat /\ Len(body) \in Nat
         /\ HeaderSize \in Nat \ {0} /\ BodySize \in Nat \ {0}
         /\ MessageSize = HeaderSize + BodySize
BY TakenIs, StreamGrows, Sizes, FramingAssumption DEF TypeOK, Available

LEMMA SameMessage ==
  ASSUME UNCHANGED handled PROVE Taken' = Taken
BY DEF Taken

\* What the client and the network do leaves the reader where it is.
LEMMA OutsideStep ==
  ASSUME TypeInv, InPlace,
         \/ (\E k \in Kinds : ClientSend(k)) \/ ClientShut
         \/ (\E n \in 1..(Stream - delivered) : Deliver(n))
         \/ ClientReceive \/ ClientStops \/ Notice
  PROVE  InPlace'
<1>1. TypeOK
  BY DEF TypeInv
<1>2. UNCHANGED <<handled, pc, readVars>> /\ Taken' = Taken
  BY DEF ClientSend, ClientShut, Deliver, ClientReceive, ClientStops, Notice, Taken
<1>3. delivered' >= delivered /\ delivered' \in Nat
  BY <1>1, Numbers DEF ClientSend, ClientShut, Deliver, ClientReceive, ClientStops, Notice
<1>4. Len(sent') >= Len(sent) /\ \A i \in 1..Len(sent) : sent'[i] = sent[i]
  <2>1. ASSUME NEW k \in Kinds, ClientSend(k)
        PROVE  Len(sent') >= Len(sent) /\ \A i \in 1..Len(sent) : sent'[i] = sent[i]
    BY <1>1, <2>1 DEF TypeOK, ClientSend
  <2>2. CASE UNCHANGED sent
    BY <1>1, <2>2, Numbers
  <2> QED BY <2>1, <2>2 DEF ClientShut, Deliver, ClientReceive, ClientStops, Notice
<1>5. pc \in Kinds => Len(handled) < Len(sent') /\ sent'[Len(handled) + 1] = pc
  <2>1. pc \in Kinds => Len(handled) + 1 \in 1..Len(sent)
    BY <1>1, Numbers DEF InPlace
  <2>2. Len(sent') \in Nat
    BY <1>1, TypeStep, StreamGrows DEF TypeInv, Next
  <2>3. pc \in Kinds => Len(handled) < Len(sent')
    BY <1>1, <1>4, <2>1, <2>2, Numbers
  <2>4. pc \in Kinds => sent'[Len(handled) + 1] = sent[Len(handled) + 1]
    BY <1>4, <2>1
  <2> QED BY <2>3, <2>4 DEF InPlace
<1>6. pc = "chat" => delivered' >= Taken + MessageSize
  BY <1>1, <1>3, Numbers DEF InPlace
<1> QED BY <1>2, <1>5, <1>6 DEF InPlace

\* A header is read whole, at the start of the next message.
LEMMA HeaderStep ==
  ASSUME TypeInv, InPlace, ~Splits(delivered), RecvHeader \/ PartialHeader \/ RecvEof
  PROVE  InPlace'
<1>1. TypeOK /\ ShapeInv
  BY DEF TypeInv
<1>2. pc = "header" /\ consumed = Taken
  BY DEF InPlace, RecvHeader, PartialHeader, RecvEof
<1>3. CASE RecvHeader
  <2>1. AtMessage /\ consumed \div MessageSize = Len(handled)
    BY <1>1, <1>2, TakenIs DEF AtMessage
  <2>2. /\ Available >= HeaderSize /\ consumed' = consumed + HeaderSize /\ at' = consumed
        /\ pc' = sent[Len(handled) + 1] /\ want' = BodySize
        /\ UNCHANGED <<sent, delivered, handled, body>>
    BY <1>3, <2>1 DEF RecvHeader
  <2>3. Len(handled) + 1 \in 1..Len(sent) /\ pc' \in Kinds
    BY <1>1, <2>1, <2>2, HeaderOf
  <2>4. body = <<>> /\ Len(body) = 0
    BY <1>1, <1>2 DEF ShapeInv
  <2>5. pc' = "chat" => delivered >= Taken + MessageSize
    <3>1. Taken < delivered
      BY <1>1, <1>2, <2>2, Numbers
    <3> QED BY <1>1, <2>2, <3>1, Unsplit
  <2>6. consumed' = Taken + HeaderSize + Len(body) /\ Len(handled) < Len(sent)
    BY <1>1, <1>2, <2>2, <2>3, <2>4, Numbers
  <2>7. Taken' = Taken
    BY <2>2, SameMessage
  <2>8. pc' \notin {"header", "list", "respond"}
    BY <2>3 DEF Kinds
  <2> QED BY <1>2, <2>2, <2>3, <2>4, <2>5, <2>6, <2>7, <2>8 DEF InPlace
<1>4. CASE PartialHeader
  <2>1. Available \in 1..(HeaderSize - 1)
    BY <1>4 DEF PartialHeader
  <2>2. Taken < delivered /\ delivered < Taken + HeaderSize
    BY <1>1, <1>2, <2>1, Numbers
  <2> QED BY <1>1, <2>2, Numbers, Unsplit
<1>5. CASE RecvEof
  BY <1>5, SameMessage DEF InPlace, RecvEof, Kinds
<1> QED BY <1>3, <1>4, <1>5

\* recv adds the next parts of the body; no body is given up; a handler runs on the next message.
LEMMA BodyStep ==
  ASSUME TypeInv, InPlace, attempt_count < MaxAttempts,
         RecvBody \/ BodyAgain \/ GiveUp \/ HandleLogin \/ HandleChat
  PROVE  InPlace'
<1>1. TypeOK /\ ShapeInv
  BY DEF TypeInv
<1>2. /\ pc \in Kinds /\ at = Taken /\ want = BodySize
      /\ Len(handled) < Len(sent) /\ sent[Len(handled) + 1] = pc
      /\ consumed = Taken + HeaderSize + Len(body)
      /\ \A i \in DOMAIN body : body[i] = Taken + HeaderSize + i
      /\ \A i \in DOMAIN handled : handled[i] = i
      /\ pc = "chat" => delivered >= Taken + MessageSize
  BY DEF InPlace, RecvBody, BodyAgain, GiveUp, HandleLogin, HandleChat, Kinds
<1>3. CASE RecvBody
  <2> DEFINE n == Least(Available, want - Len(body))
  <2>1. Available \in Nat /\ want - Len(body) \in Nat
    <3>1. Len(body) < want /\ want = BodySize
      BY <1>2, <1>3 DEF RecvBody
    <3> QED BY <1>1, <3>1, Numbers
  <2>2. n \in Nat
    BY <2>1, LeastIs
  <2>3. body' = body \o Recv(n) /\ consumed' = consumed + n
    BY <1>3 DEF RecvBody
  <2> HIDE DEF n
  <2>4. /\ Len(body') = Len(body) + n /\ DOMAIN body' = 1..(Len(body) + n)
        /\ DOMAIN body = 1..Len(body)
        /\ \A i \in 1..Len(body) : body'[i] = body[i]
        /\ \A i \in 1..n : body'[Len(body) + i] = consumed + i
    BY <1>1, <2>2, <2>3, BodyRead
  <2>5. consumed' = Taken + HeaderSize + Len(body')
    <3>1. /\ consumed' = consumed + n /\ consumed = Taken + HeaderSize + Len(body)
          /\ Len(body') = Len(body) + n
      BY <1>2, <2>3, <2>4
    <3>2. Taken \in Nat /\ HeaderSize \in Nat /\ Len(body) \in Nat
      BY <1>1, Numbers
    <3>3. consumed' = (Taken + HeaderSize + Len(body)) + n
      BY <3>1
    <3>4. Taken + HeaderSize + Len(body') = Taken + HeaderSize + (Len(body) + n)
      BY <3>1
    <3> HIDE DEF Taken
    <3> QED BY <2>2, <3>2, <3>3, <3>4
  <2>6. ASSUME NEW i \in DOMAIN body' PROVE body'[i] = Taken + HeaderSize + i
    <3>1. CASE i \in 1..Len(body)
      BY <1>2, <2>4, <3>1
    <3>2. CASE i \notin 1..Len(body)
      <4>1. i - Len(body) \in 1..n /\ i = Len(body) + (i - Len(body))
        BY <1>1, <2>2, <2>4, <3>2, Numbers
      <4>2. body'[i] = consumed + (i - Len(body))
        BY <2>4, <4>1
      <4>3. consumed = Taken + HeaderSize + Len(body) /\ i \in Nat
        BY <1>1, <1>2, <2>2, <2>4, Numbers
      <4> QED BY <1>1, <4>2, <4>3, Numbers
    <3> QED BY <3>1, <3>2
  <2>7. Taken' = Taken /\ UNCHANGED <<sent, handled, at, want, pc, delivered>> /\ pc = "login"
    BY <1>3, SameMessage DEF RecvBody
  <2> QED BY <1>2, <2>5, <2>6, <2>7 DEF InPlace
<1>4. CASE BodyAgain
  <2>1. Taken' = Taken /\ UNCHANGED <<sent, handled, at, want, pc, delivered, consumed, body>>
    BY <1>4, SameMessage DEF BodyAgain
  <2> QED BY <2>1 DEF InPlace
<1>5. CASE GiveUp
  <2>1. Available = 0 /\ delivered = Stream /\ Len(body) < BodySize
    BY <1>1, <1>2, <1>5, FramingAssumption DEF GiveUp, Eof, TypeOK
  <2>2. Taken + MessageSize <= Stream
    BY <1>1, <1>2, Numbers, StartsApart DEF Taken, Stream
  <2> QED BY <1>1, <1>2, <2>1, <2>2, Numbers
<1>6. CASE HandleLogin
  <2>1. Len(body) = BodySize /\ Handle(body) /\ pc' = "list" /\ consumed' = consumed
    BY <1>2, <1>6 DEF HandleLogin
  <2>2. body = [i \in 1..BodySize |-> Taken + HeaderSize + i]
    <3>1. body \in Seq(Nat) /\ DOMAIN body = 1..BodySize
      BY <1>1, <2>1 DEF TypeOK
    <3> QED BY <1>2, <3>1
  <2>3. (\A i \in DOMAIN handled : handled[i] = i)' /\ Taken' = Taken + MessageSize
    BY <1>1, <1>2, <2>1, <2>2, HandledNext
  <2>4. consumed' = Taken'
    BY <1>1, <1>2, <2>1, <2>3, Numbers
  <2> QED BY <2>1, <2>3, <2>4 DEF InPlace, Kinds
<1>7. CASE HandleChat
  <2>1. pc = "chat" /\ body = <<>> /\ Len(body) = 0
    BY <1>1, <1>7 DEF HandleChat, ShapeInv
  <2>2. Available >= want
    BY <1>1, <1>2, <2>1, Numbers
  <2>3. Least(Available, want) = want
    BY <1>1, <1>2, <2>2, Numbers DEF Least
  <2>4. consumed' = consumed + BodySize /\ Handle(Recv(want)) /\ pc' = "respond"
    BY <1>2, <1>7, <2>2, <2>3 DEF HandleChat
  <2>5. Recv(want) = [i \in 1..BodySize |-> Taken + HeaderSize + i]
    <3>1. consumed = Taken + HeaderSize
      BY <1>1, <1>2, <2>1, Numbers
    <3> QED BY <1>2, <3>1 DEF Recv
  <2>6. (\A i \in DOMAIN handled : handled[i] = i)' /\ Taken' = Taken + MessageSize
    BY <1>1, <1>2, <2>4, <2>5, HandledNext
  <2>7. consumed' = Taken'
    BY <1>1, <1>2, <2>1, <2>4, <2>6, Numbers
  <2> QED BY <2>4, <2>6, <2>7 DEF InPlace, Kinds
<1> QED BY <1>3, <1>4, <1>5, <1>6, <1>7

\* Writing reads nothing.
LEMMA WriteStep ==
  ASSUME InPlace, send_large_data \/ Respond
  PROVE  InPlace'
<1>1. /\ UNCHANGED <<readVars, handled>> /\ Taken' = Taken
      /\ pc \in {"list", "respond"} /\ pc' \in {"header", "list", "respond"}
  BY SameMessage DEF send_large_data, Respond
<1> QED BY <1>1 DEF InPlace, Kinds

\* The network is not forgiven.
LEMMA Behaved ==
  ASSUME TypeOK, [Next]_vars, ~split', ~late'
  PROVE  ~split /\ ~late
<1>1. CASE UNCHANGED histVars
  BY <1>1
<1>2. CASE \E n \in 1..(Stream - delivered) : Deliver(n)
  BY <1>2 DEF Deliver, TypeOK
<1>3. CASE BodyAgain
  BY <1>3 DEF BodyAgain, CountEmptyRead, TypeOK
<1> QED BY <1>1, <1>2, <1>3 DEF Next, Worker, ClientSend, ClientShut, ClientReceive, ClientStops,
        Notice, RecvHeader, PartialHeader, RecvEof, RecvBody, GiveUp, HandleLogin, HandleChat,
        send_large_data, Respond, vars

\* Every step keeps the reader in step.
LEMMA StepStep ==
  ASSUME TypeInv, NetInv, StepInv, [Next]_vars
  PROVE  StepInv'
<1>1. SUFFICES ASSUME ~split', ~late' PROVE InPlace'
  BY DEF StepInv
<1>2. ~split /\ ~late
  BY <1>1, Behaved DEF TypeInv
<1>3. InPlace /\ ~Splits(delivered) /\ attempt_count < MaxAttempts
  BY <1>2 DEF StepInv, NetInv
<1>4. CASE UNCHANGED vars
  BY <1>3, <1>4 DEF vars, InPlace, Taken
<1>5. CASE Next
  BY <1>3, <1>5, OutsideStep, HeaderStep, BodyStep, WriteStep DEF Next, Worker
<1> QED BY <1>4, <1>5

\* At the start the reader is at the first message.
LEMMA InitStep == Init => NetInv /\ StepInv
<1> SUFFICES ASSUME Init PROVE NetInv /\ StepInv
  OBVIOUS
<1>1. 0 % MessageSize = 0
  BY Sizes
<1>2. NetInv
  BY <1>1, FramingAssumption DEF Init, NetInv, Splits, Available
<1>3. Taken = 0
  BY Sizes DEF Init, Taken
<1>4. InPlace
  BY <1>3 DEF Init, InPlace, Kinds
<1> QED BY <1>2, <1>4 DEF StepInv

-----------------------------------------------------------------------------
(* Lists *)

LEMMA PartNumbers ==
  ASSUME TypeOK
  PROVE  \A p \in DOMAIN out : out[p].list \in Nat /\ out[p].part \in Nat
<1>1. \A p \in DOMAIN out : out[p] \in Part
  BY DEF TypeOK
<1> QED BY <1>1 DEF Part

\* ListWhole, list by list.
LEMMA ListWholeIs == ListWhole <=> \A i \in 1..Len(handled) : WholeList(i)
BY DEF ListWhole, WholeList, Parts

\* The reader's steps write nothing and leave no list half sent.
LEMMA ReaderList ==
  ASSUME TypeInv, ListInv, ListWhole,
         UNCHANGED <<out, handled, sent_total>>, pc' = "list" <=> pc = "list"
  PROVE  ListInv' /\ ListWhole'
<1>1. \A i : Parts(i)' = Parts(i)
  BY DEF Parts
<1>2. ListInv'
  BY <1>1 DEF ListInv
<1>3. \A i : WholeList(i)' <=> WholeList(i)
  BY <1>1 DEF WholeList
<1>4. (\A i \in 1..Len(handled) : WholeList(i))'
  BY <1>3, ListWholeIs
<1>5. ListWhole'
  BY <1>4, ListWholeIs, PTL
<1> QED BY <1>2, <1>5

\* What a plain send adds.
LEMMA PlainIs ==
  ASSUME TypeOK, out' = Plain(Least(Room, ResponseSize))
  PROVE  /\ \A p \in DOMAIN out' : (p \in DOMAIN out /\ out'[p] = out[p]) \/ out'[p].list = 0
         /\ \A p \in DOMAIN out : p \in DOMAIN out' /\ out'[p] = out[p]
<1> DEFINE n == Least(Room, ResponseSize)
           f == [i \in 1..n |-> [list |-> 0, part |-> i]]
<1>1. n \in Nat /\ n <= Room
  BY RoomIs, LeastIs, FramingAssumption
<1>2. out' = out \o f
  BY DEF Plain
<1> HIDE DEF n
<1>3. f \in [1..n -> Part]
  BY <1>1 DEF Part
<1>4. \A i \in 1..n : f[i].list = 0
  OBVIOUS
<1> HIDE DEF f
<1>5. /\ DOMAIN out' = 1..(Len(out) + n) /\ DOMAIN out = 1..Len(out) /\ Len(out) \in Nat
      /\ \A i \in 1..Len(out) : out'[i] = out[i]
      /\ \A i \in 1..n : out'[Len(out) + i] = f[i]
  BY <1>1, <1>2, <1>3, Concatenated DEF TypeOK
<1>6. ASSUME NEW p \in DOMAIN out', p \notin DOMAIN out PROVE out'[p].list = 0
  <2>1. p - Len(out) \in 1..n /\ p = Len(out) + (p - Len(out))
    BY <1>1, <1>5, <1>6
  <2>2. out'[p] = f[p - Len(out)]
    BY <1>5, <2>1
  <2> QED BY <1>4, <2>1, <2>2
<1>7. \A p \in DOMAIN out : p \in DOMAIN out' /\ out'[p] = out[p]
  BY <1>1, <1>5
<1> QED BY <1>6, <1>7

\* A response or a notice is no part of a list.
LEMMA PlainList ==
  ASSUME TypeInv, ListInv, ListWhole, out' = Plain(Least(Room, ResponseSize)),
         UNCHANGED <<handled, sent_total>>, pc' = "list" <=> pc = "list"
  PROVE  ListInv' /\ ListWhole'
<1>1. /\ \A p \in DOMAIN out' : (p \in DOMAIN out /\ out'[p] = out[p]) \/ out'[p].list = 0
      /\ \A p \in DOMAIN out : p \in DOMAIN out' /\ out'[p] = out[p]
  BY PlainIs DEF TypeInv
<1>2. \A i : i # 0 => Parts(i)' = Parts(i) /\ \A p \in Parts(i) : out'[p] = out[p]
  BY <1>1 DEF Parts
<1>3. Len(handled) \in Nat
  BY DEF TypeInv, TypeOK
<1>4. ListInv'
  <2>1. \A p \in DOMAIN out' : out'[p].list <= Len(handled)
    BY <1>1, <1>3 DEF ListInv
  <2> QED BY <1>2, <2>1 DEF ListInv
<1>5. \A i \in 1..Len(handled) : WholeList(i)' <=> WholeList(i)
  BY <1>2, <1>3 DEF WholeList
<1>6. (\A i \in 1..Len(handled) : WholeList(i))'
  BY <1>5, ListWholeIs
<1>7. ListWhole'
  BY <1>6, ListWholeIs, PTL
<1> QED BY <1>4, <1>7

\* A handler that runs: nothing is written of its list yet.
LEMMA HandlerList ==
  ASSUME TypeInv, ListInv, ListWhole, UNCHANGED out, NEW parts, Handle(parts), pc # "list",
         pc' = "list" => sent_total' = 0
  PROVE  ListInv' /\ ListWhole'
<1>1. Len(handled) \in Nat /\ Len(handled') = Len(handled) + 1
  BY HandledType DEF TypeInv, TypeOK
<1>2. \A i : Parts(i)' = Parts(i)
  BY DEF Parts
<1>3. Parts(Len(handled')) = {}
  <2>1. \A p \in DOMAIN out : out[p].list <= Len(handled) /\ out[p].list \in Nat
    BY PartNumbers DEF ListInv, TypeInv
  <2> QED BY <1>1, <2>1 DEF Parts
<1>4. Cardinality({}) = 0
  BY FS_EmptySet
<1>5. ListInv'
  <2>1. \A p \in DOMAIN out' : out'[p].list <= Len(handled')
    <3>1. \A p \in DOMAIN out : out[p].list <= Len(handled) /\ out[p].list \in Nat
      BY PartNumbers DEF ListInv, TypeInv
    <3> QED BY <1>1, <3>1
  <2>2. Len(handled') # 0
    BY <1>1
  <2>3. Parts(Len(handled))' = {}
    BY <1>2, <1>3 DEF Parts
  <2> QED BY <1>4, <2>1, <2>2, <2>3 DEF ListInv
<1>6. ASSUME NEW i \in 1..Len(handled') PROVE WholeList(i)'
  <2>1. CASE i = Len(handled')
    BY <1>2, <1>3, <1>4, <2>1 DEF WholeList
  <2>2. CASE i # Len(handled')
    <3>1. WholeList(i)
      BY <1>1, <2>2, ListWholeIs
    <3> QED BY <1>2, <3>1 DEF WholeList
  <2> QED BY <2>1, <2>2
<1>7. (\A i \in 1..Len(handled) : WholeList(i))'
  BY <1>6
<1>8. ListWhole'
  BY <1>7, ListWholeIs, PTL
<1> QED BY <1>5, <1>8

\* A turn of send_large_data: the next parts, after those that are written.
LEMMA TurnList ==
  ASSUME TypeInv, ListInv, ListWhole, send_large_data
  PROVE  ListInv' /\ ListWhole'
<1> DEFINE n == Least(Room, ListSize - sent_total)
           H == Len(handled)
           New == (Len(out) + 1)..(Len(out) + n)
<1>1. TypeOK /\ Room \in Nat /\ ListSize \in Nat /\ sent_total \in Nat /\ sent_total <= ListSize
  BY RoomIs, FramingAssumption DEF TypeInv, TypeOK
<1>2. /\ n \in Nat /\ n <= Room /\ n > 0 /\ n <= ListSize - sent_total
  BY <1>1, LeastIs DEF send_large_data
<1>3. /\ out' = List(sent_total, n) /\ sent_total' = sent_total + n /\ pc = "list"
      /\ pc' = (IF sent_total' = ListSize THEN "respond" ELSE "list")
      /\ UNCHANGED handled
  BY DEF send_large_data
<1> HIDE DEF n
<1>4. /\ Len(out') = Len(out) + n /\ Len(out) \in Nat /\ out' \in Seq(Part)
      /\ \A p \in 1..Len(out) : out'[p] = out[p]
      /\ \A i \in 1..n : out'[Len(out) + i] = [list |-> H, part |-> sent_total + i]
  BY <1>1, <1>2, <1>3, ListIs
<1>5. DOMAIN out = 1..Len(out) /\ DOMAIN out' = 1..(Len(out) + n)
  BY <1>1, <1>4 DEF TypeOK
<1>6. \A p \in New : /\ out'[p].list = H /\ out'[p].part = sent_total + (p - Len(out))
                    /\ p - Len(out) \in 1..n /\ p \in Nat /\ p > Len(out)
  <2>1. ASSUME NEW p \in New 
        PROVE  /\ p - Len(out) \in 1..n /\ Len(out) + (p - Len(out)) = p
               /\ p \in Nat /\ p > Len(out)
    BY <1>2, <1>4
  <2>2. ASSUME NEW p \in New
        PROVE  out'[p].list = H /\ out'[p].part = sent_total + (p - Len(out))
    <3> DEFINE i == p - Len(out)
    <3>1. i \in 1..n /\ Len(out) + i = p
      BY <2>1
    <3> HIDE DEF i
    <3>2. out'[p] = [list |-> H, part |-> sent_total + i]
      BY <1>4, <3>1
    <3>3. out'[p].list = H /\ out'[p].part = sent_total + i
      BY <3>2
    <3> QED BY <3>3 DEF i
  <2> QED BY <2>1, <2>2
<1>dom. DOMAIN out' = DOMAIN out \cup New
  BY <1>2, <1>4, <1>5
<1> HIDE DEF New
<1>7. H \in Nat /\ H # 0
  BY <1>1, <1>3 DEF TypeOK, ListInv
<1>8. ASSUME NEW i, i # H PROVE Parts(i)' = Parts(i)
  <2>1. \A p \in DOMAIN out : out'[p] = out[p]
    BY <1>4, <1>5
  <2> QED BY <1>6, <1>8, <1>dom, <2>1 DEF Parts
<1>9. Parts(H)' = Parts(H) \cup New
  <2>1. \A p \in DOMAIN out : out'[p] = out[p]
    BY <1>4, <1>5
  <2> QED BY <1>3, <1>6, <1>dom, <2>1 DEF Parts
<1>10. Parts(H) \subseteq 1..Len(out)
  BY <1>5 DEF Parts
<1>11. Cardinality(Parts(H))' = sent_total'
  <2>1. IsFiniteSet(1..Len(out))
    BY <1>4, FS_Interval
  <2>2. IsFiniteSet(Parts(H)) /\ Cardinality(Parts(H)) = sent_total
    BY <1>3, <1>10, <2>1, FS_Subset DEF ListInv
  <2>3. IsFiniteSet(New) /\ Cardinality(New) = n
    <3>1. /\ Len(out) + 1 \in Int /\ Len(out) + n \in Int /\ ~(Len(out) + 1 > Len(out) + n)
          /\ (Len(out) + n) - (Len(out) + 1) + 1 = n
      BY <1>2, <1>4
    <3> QED BY <3>1, FS_Interval DEF New
  <2>4. Parts(H) \cap New = {}
    BY <1>4, <1>6, <1>10
  <2>5. Cardinality(Parts(H) \cup New) = sent_total + n - 0
    <3>1. Cardinality(Parts(H) \cap New) = 0
      BY <2>4, FS_EmptySet
    <3> QED BY <2>2, <2>3, <3>1, FS_Union
  <2> QED BY <1>1, <1>2, <1>3, <1>9, <2>5
<1>12. ASSUME NEW p \in Parts(H)' PROVE out'[p].part <= sent_total' /\ out'[p].part \in Nat
  <2>1. CASE p \in Parts(H)
    <3>1. out'[p] = out[p] /\ out[p].part <= sent_total /\ out[p].part \in Nat
      BY <1>1, <1>3, <1>4, <1>10, <2>1, <1>5, PartNumbers DEF ListInv
    <3> QED BY <1>1, <1>2, <1>3, <3>1
  <2>2. CASE p \in New
    <3>1. out'[p].part = sent_total + (p - Len(out)) /\ p - Len(out) \in 1..n
      BY <1>6, <2>2
    <3> QED BY <1>1, <1>2, <1>3, <3>1
  <2> QED BY <1>9, <1>12, <2>1, <2>2
<1>13. ListInv'
  <2>1. \A p \in DOMAIN out' : out'[p].list <= H
    <3>1. ASSUME NEW p \in 1..Len(out) PROVE out'[p].list <= H
      BY <1>4, <1>5 DEF ListInv
    <3>2. ASSUME NEW p \in New PROVE out'[p].list <= H
      BY <1>6, <1>7
    <3>3. DOMAIN out' = (1..Len(out)) \cup New
      BY <1>5, <1>dom
    <3> QED BY <3>1, <3>2, <3>3
  <2>2. Parts(Len(handled))' = Parts(H)'
    BY <1>3 DEF Parts
  <2> QED BY <1>3, <1>7, <1>11, <1>12, <2>1, <2>2 DEF ListInv
<1>14. ASSUME NEW p \in Parts(H)', NEW q \in Parts(H)', p < q PROVE out'[p].part < out'[q].part
  <2>1. CASE p \in Parts(H) /\ q \in Parts(H)
    <3>1. WholeList(H)
      BY <1>7, ListWholeIs
    <3> QED BY <1>4, <1>10, <1>14, <2>1, <3>1 DEF WholeList
  <2>2. CASE p \in Parts(H) /\ q \in New
    <3>1. out'[p] = out[p] /\ out[p].part <= sent_total /\ out[p].part \in Nat
      BY <1>1, <1>3, <1>4, <1>10, <2>2, <1>5, PartNumbers DEF ListInv
    <3>2. out'[q].part = sent_total + (q - Len(out)) /\ q - Len(out) \in 1..n
      BY <1>6, <2>2
    <3> QED BY <1>1, <1>2, <3>1, <3>2
  <2>3. CASE p \in New /\ q \in Parts(H)
    BY <1>4, <1>6, <1>10, <1>14, <2>3
  <2>4. CASE p \in New /\ q \in New
    <3>1. /\ out'[p].part = sent_total + (p - Len(out)) /\ p \in Nat
          /\ out'[q].part = sent_total + (q - Len(out)) /\ q \in Nat
      BY <1>6, <2>4
    <3> QED BY <1>1, <1>4, <1>14, <3>1
  <2> QED BY <1>9, <1>14, <2>1, <2>2, <2>3, <2>4
<1>15. ASSUME NEW i \in 1..H PROVE WholeList(i)'
  <2>1. CASE i = H
    <3>1. Cardinality(Parts(H))' \in {0, ListSize} \/ pc' = "list"
      BY <1>3, <1>11
    <3> QED BY <1>3, <1>11, <1>14, <2>1, <3>1 DEF WholeList
  <2>2. CASE i # H
    <3>1. Parts(i)' = Parts(i) /\ \A p \in Parts(i) : out'[p] = out[p]
      BY <1>4, <1>5, <1>8, <2>2 DEF Parts
    <3>2. WholeList(i)
      BY ListWholeIs
    <3> QED BY <2>2, <3>1, <3>2 DEF WholeList
  <2> QED BY <2>1, <2>2
<1>16. (\A i \in 1..Len(handled) : WholeList(i))'
  BY <1>3, <1>15
<1>17. ListWhole'
  BY <1>16, ListWholeIs, PTL
<1> QED BY <1>13, <1>17

\* Every step keeps the lists whole.
LEMMA ListStep ==
  ASSUME TypeInv, ListInv, ListWhole, [Next]_vars
  PROVE  ListInv' /\ ListWhole'
<1>1. CASE UNCHANGED vars
  BY <1>1, ReaderList DEF vars
<1>2. CASE \/ (\E k \in Kinds : ClientSend(k)) \/ ClientShut
           \/ (\E n \in 1..(Stream - delivered) : Deliver(n))
           \/ ClientReceive \/ ClientStops
  BY <1>2, ReaderList DEF ClientSend, ClientShut, Deliver, ClientReceive, ClientStops
<1>3. CASE RecvHeader
  <2>1. pc' \in Kinds \cup {"header"}
    BY <1>3, HeaderPc DEF TypeInv
  <2> QED BY <1>3, <2>1, ReaderList DEF RecvHeader, Kinds
<1>4. CASE PartialHeader \/ RecvEof \/ RecvBody \/ BodyAgain \/ GiveUp
  BY <1>4, ReaderList DEF PartialHeader, RecvEof, RecvBody, BodyAgain, GiveUp
<1>5. CASE HandleLogin
  BY <1>5, HandlerList DEF HandleLogin
<1>6. CASE HandleChat
  <2>1. CASE Available >= want
    BY <1>6, <2>1, HandlerList DEF HandleChat
  <2>2. CASE ~(Available >= want)
    BY <1>6, <2>2, ReaderList DEF HandleChat
  <2> QED BY <2>1, <2>2
<1>7. CASE send_large_data
  BY <1>7, TurnList
<1>8. CASE Respond
  BY <1>8, PlainList DEF Respond
<1>9. CASE Notice
  BY <1>9, PlainList DEF Notice
<1> QED BY <1>1, <1>2, <1>3, <1>4, <1>5, <1>6, <1>7, <1>8, <1>9 DEF Next, Worker

\* Nothing is written at the start.
LEMMA InitList == Init => ListInv /\ ListWhole
<1> SUFFICES ASSUME Init PROVE ListInv /\ ListWhole
  OBVIOUS
<1>1. out = <<>> /\ handled = <<>> /\ Len(handled) = 0 /\ DOMAIN out = {} /\ pc = "header"
  BY DEF Init
<1>2. ListWhole
  BY <1>1 DEF ListWhole
<1> QED BY <1>1, <1>2 DEF ListInv

-----------------------------------------------------------------------------

IInv == TypeInv /\ NetInv /\ StepInv /\ ListInv /\ ListWhole

\* The inductive invariant of one connection's reads and writes.
THEOREM Invariant == Spec => []IInv
<1>1. Init => IInv
  BY InitType, InitStep, InitList DEF IInv
<1>2. IInv /\ [Next]_vars => IInv'
  BY TypeStep, NetStep, StepStep, ListStep DEF IInv
<1> QED BY <1>1, <1>2, PTL DEF Spec

\* Nothing is read before it came, written without room, or kept beyond its length.
THEOREM TypeCorrect == Spec => []TypeOK
<1>1. IInv => TypeOK
  BY DEF IInv, TypeInv
<1> QED BY <1>1, Invariant, PTL

\* receive_remain_message: bodies cut anywhere, as long as none is kept waiting too long
\* and headers and chat messages come whole, are handled each once and in order.
THEOREM StaysInStep == Spec => []InStep
<1>1. IInv => InStep
  BY DEF IInv, StepInv, InPlace, InStep, Taken
<1> QED BY <1>1, Invariant, PTL

\* send_large_data: each part of a list is written once and in order.
THEOREM ListsWhole == Spec => []ListWhole
<1>1. IInv => ListWhole
  BY DEF IInv
<1> QED BY <1>1, Invariant, PTL
=============================================================================
