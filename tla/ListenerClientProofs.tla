------------------------ MODULE ListenerClientProofs ------------------------
(***************************************************************************)
(* Safety of the listener's end of the connection, for any number of       *)
(* transactions, batches, lost connections, crashes and timeouts.          *)
(*                                                                         *)
(* The argument: MSGIDs grow while a connection lasts, and a connection    *)
(* starts with nothing in flight; so a message that bears the MSGID of the *)
(* current request belongs to it, and only the current request asks for    *)
(* the transaction after the last one handled.                             *)
(***************************************************************************)
EXTENDS ListenerClient, SequenceTheorems, WellFoundedInduction, TLAPS

USE BoundsAssumption DEF BoundsAssumption

-----------------------------------------------------------------------------
(* The inductive invariant *)

\* What the notifier has been sent on this connection and has not answered, and
\* what it has answered and the listener has not consumed.
Sent == Elems(c2s) \cup {waiter}
Answers == Elems(s2c) \cup Elems(buf) \cup Elems(messages)

Waiting == pc \in {"wait", "alive"}

MsgidsGrow ==
  /\ pc # "down" => \A m \in Sent \cup Answers : m.msg <= last_msgid
  /\ Waiting => 1 <= msgid /\ msgid <= last_msgid
  /\ pc = "alive" => msgid < alive /\ alive <= last_msgid

\* The request for transaction id + 1 is the one the listener waits for.
RequestIsCurrent ==
  pc # "down" => \A m \in Sent :
    /\ m.id <= id + 1
    /\ m.id = id + 1 => Waiting
    /\ Waiting => (m.id = id + 1 <=> m.msg = msgid)

WaiterWaits == waiter.id = 0 \/ waiter.id > last

AnswersArePublished == \A m \in Answers : m.id <= last

AnswersAreNew == Waiting => \A m \in Answers : m.msg = msgid => m.id > id

IdIsPublished == id <= last

Kept == Waiting /\ link = "up" =>
          \/ Msg(msgid, id + 1) \in Sent
          \/ \E m \in Answers : m.msg = msgid

Inv == /\ MsgidsGrow /\ RequestIsCurrent /\ WaiterWaits
       /\ AnswersArePublished /\ AnswersAreNew /\ IdIsPublished /\ Kept

IInv == TypeOK /\ Inv

-----------------------------------------------------------------------------
(* Sequences of messages *)

LEMMA ElemsOfAppend ==
  ASSUME NEW S, NEW s \in Seq(S), NEW x \in S
  PROVE  Append(s, x) \in Seq(S) /\ Elems(Append(s, x)) = Elems(s) \cup {x}
<1>1. /\ Append(s, x) \in Seq(S)
      /\ DOMAIN Append(s, x) = 1..Len(s) + 1
      /\ \A i \in 1..Len(s) : Append(s, x)[i] = s[i]
      /\ Append(s, x)[Len(s) + 1] = x
      /\ Len(s) \in Nat /\ DOMAIN s = 1..Len(s)
  BY AppendProperties, LenProperties
<1> QED  BY <1>1 DEF Elems

LEMMA ElemsOfSubSeq ==
  ASSUME NEW S, NEW s \in Seq(S), NEW a \in Int, NEW b \in Int,
         1 <= a, b <= Len(s)
  PROVE  /\ SubSeq(s, a, b) \in Seq(S)
         /\ Elems(SubSeq(s, a, b)) = {s[i] : i \in a..b}
<1>1. Len(s) \in Nat /\ DOMAIN s = 1..Len(s) /\ \A i \in 1..Len(s) : s[i] \in S
  BY LenProperties, ElementOfSeq
<1>2. /\ SubSeq(s, a, b) \in Seq(S)
      /\ Len(SubSeq(s, a, b)) = IF a <= b THEN b - a + 1 ELSE 0
      /\ \A i \in 1..b - a + 1 : SubSeq(s, a, b)[i] = s[a + i - 1]
  BY <1>1, SubSeqProperties
<1>3. DOMAIN SubSeq(s, a, b) = 1..b - a + 1
  BY <1>2, LenProperties
<1>4. \A i \in a..b : i - a + 1 \in 1..b - a + 1 /\ a + (i - a + 1) - 1 = i
  OBVIOUS
<1>5. \A i \in 1..b - a + 1 : a + i - 1 \in a..b
  OBVIOUS
<1>6. ASSUME NEW i \in a..b
      PROVE  \E k \in 1..b - a + 1 : SubSeq(s, a, b)[k] = s[i]
  <2>1. i - a + 1 \in 1..b - a + 1 /\ a + (i - a + 1) - 1 = i
    BY <1>4
  <2> QED  BY <2>1, <1>2
<1>7. ASSUME NEW k \in 1..b - a + 1
      PROVE  \E i \in a..b : SubSeq(s, a, b)[k] = s[i]
  BY <1>2, <1>5
<1>8. Elems(SubSeq(s, a, b)) = {SubSeq(s, a, b)[k] : k \in 1..b - a + 1}
  BY <1>3 DEF Elems
<1>9. Elems(SubSeq(s, a, b)) \subseteq {s[i] : i \in a..b}
  BY <1>7, <1>8
<1>10. {s[i] : i \in a..b} \subseteq Elems(SubSeq(s, a, b))
  BY <1>6, <1>8
<1> QED  BY <1>2, <1>9, <1>10

LEMMA ElemsOfConcat ==
  ASSUME NEW S, NEW s \in Seq(S), NEW t \in Seq(S)
  PROVE  s \o t \in Seq(S) /\ Elems(s \o t) = Elems(s) \cup Elems(t)
<1>1. /\ s \o t \in Seq(S)
      /\ DOMAIN (s \o t) = 1..Len(s) + Len(t)
      /\ Len(s) \in Nat /\ DOMAIN s = 1..Len(s)
      /\ Len(t) \in Nat /\ DOMAIN t = 1..Len(t)
  BY ConcatProperties, LenProperties
<1>2. \A i \in 1..Len(s) + Len(t) :
        (s \o t)[i] = IF i <= Len(s) THEN s[i] ELSE t[i - Len(s)]
  BY ConcatProperties
<1>3. \A i \in 1..Len(s) : i \in 1..Len(s) + Len(t) /\ (s \o t)[i] = s[i]
  BY <1>1, <1>2
<1>4. \A i \in 1..Len(t) : /\ Len(s) + i \in 1..Len(s) + Len(t)
                           /\ (s \o t)[Len(s) + i] = t[i]
  BY <1>1, <1>2
<1>5. \A i \in 1..Len(s) + Len(t) :
        \/ i \in 1..Len(s)
        \/ i - Len(s) \in 1..Len(t) /\ i = Len(s) + (i - Len(s))
  BY <1>1
<1>6. ASSUME NEW i \in 1..Len(s) + Len(t)
      PROVE  (s \o t)[i] \in Elems(s) \cup Elems(t)
  BY <1>1, <1>3, <1>4, <1>5 DEF Elems
<1>7. \A i \in 1..Len(s) : s[i] \in Elems(s \o t)
  BY <1>1, <1>3 DEF Elems
<1>8. \A i \in 1..Len(t) : t[i] \in Elems(s \o t)
  BY <1>1, <1>4 DEF Elems
<1>9. Elems(s \o t) = {(s \o t)[i] : i \in 1..Len(s) + Len(t)}
  BY <1>1 DEF Elems
<1>10. /\ Elems(s) = {s[i] : i \in 1..Len(s)}
       /\ Elems(t) = {t[i] : i \in 1..Len(t)}
  BY <1>1 DEF Elems
<1>11. Elems(s \o t) \subseteq Elems(s) \cup Elems(t)
  BY <1>6, <1>9
<1>12. Elems(s) \subseteq Elems(s \o t) /\ Elems(t) \subseteq Elems(s \o t)
  BY <1>7, <1>8, <1>10
<1>13. \A A, B, C : A \subseteq B \cup C /\ B \subseteq A /\ C \subseteq A
                     => A = B \cup C
  OBVIOUS
<1>14. Elems(s \o t) = Elems(s) \cup Elems(t)
  BY <1>11, <1>12, <1>13, Zenon
<1> QED  BY <1>1, <1>14, Zenon

LEMMA ElemsOfHeadTail ==
  ASSUME NEW S, NEW s \in Seq(S), s # <<>>
  PROVE  /\ Head(s) \in S /\ Tail(s) \in Seq(S)
         /\ Elems(s) = {Head(s)} \cup Elems(Tail(s))
<1>1. /\ Head(s) \in S /\ Tail(s) \in Seq(S) /\ Len(Tail(s)) = Len(s) - 1
      /\ \A i \in 1..Len(Tail(s)) : Tail(s)[i] = s[i + 1]
      /\ Len(s) \in Nat \ {0} /\ DOMAIN s = 1..Len(s)
  BY HeadTailProperties, LenProperties, EmptySeq
<1>2. DOMAIN Tail(s) = 1..Len(s) - 1 /\ Head(s) = s[1]
  BY <1>1, LenProperties
<1>3. \A i \in 1..Len(s) : i = 1 \/ (i - 1 \in 1..Len(s) - 1 /\ i = (i - 1) + 1)
  BY <1>1
<1>4. Elems(s) = {s[i] : i \in 1..Len(s)}
  BY <1>1 DEF Elems
<1>5. Elems(Tail(s)) = {Tail(s)[i] : i \in 1..Len(s) - 1}
  BY <1>2 DEF Elems
<1>6. Elems(Tail(s)) \subseteq Elems(s)
  <2>1. \A i \in 1..Len(s) - 1 : i + 1 \in 1..Len(s) /\ Tail(s)[i] = s[i + 1]
    BY <1>1
  <2> QED  BY <2>1, <1>4, <1>5
<1>7. Head(s) \in Elems(s)
  BY <1>1, <1>2, <1>4
<1>8. \A i \in 1..Len(s) : s[i] = Head(s) \/ s[i] \in Elems(Tail(s))
  BY <1>1, <1>2, <1>3, <1>5
<1>9. Elems(s) = {Head(s)} \cup Elems(Tail(s))
  BY <1>4, <1>6, <1>7, <1>8, Zenon
<1> QED  BY <1>1, <1>9

LEMMA ElemsOfSeq ==
  ASSUME NEW S, NEW s \in Seq(S)
  PROVE  Elems(s) \subseteq S
BY LenProperties, ElementOfSeq DEF Elems

LEMMA ElemsOfEmpty == Elems(<<>>) = {}
BY DEF Elems

LEMMA ElemsOfSingle ==
  ASSUME NEW S, NEW x \in S
  PROVE  <<x>> \in Seq(S) /\ Elems(<<x>>) = {x}
BY DEF Elems

LEMMA MessageType ==
  ASSUME NEW m \in Message
  PROVE  m.msg \in Nat /\ m.id \in Nat /\ m = Msg(m.msg, m.id)
BY DEF Message, Msg

LEMMA TypeOfMessages ==
  ASSUME TypeOK
  PROVE  Sent \subseteq Message /\ Answers \subseteq Message
<1>1. /\ Elems(c2s) \subseteq Message /\ Elems(s2c) \subseteq Message
      /\ Elems(buf) \subseteq Message /\ Elems(messages) \subseteq Message
  BY ElemsOfSeq DEF TypeOK
<1> QED  BY <1>1 DEF Sent, Answers, TypeOK

-----------------------------------------------------------------------------
(* The message list and the buffer *)

\* A message that is there has a newest copy; taking it adds nothing.
LEMMA RemoveMsgTakesNewest ==
  ASSUME TypeOK, NEW m, GetMsg(m)
  PROVE  /\ messages[Newest(m)] \in Elems(messages)
         /\ messages[Newest(m)].msg = m
         /\ RemoveMsg(m) \in Seq(Message)
         /\ Elems(RemoveMsg(m)) \subseteq Elems(messages)
<1> DEFINE Copies == {k \in DOMAIN messages : messages[k].msg = m}
<1>1. /\ messages \in Seq(Message) /\ Len(messages) \in Nat
      /\ DOMAIN messages = 1..Len(messages)
  BY LenProperties DEF TypeOK
<1>2. Copies \subseteq Nat /\ Copies # {}
  BY <1>1 DEF GetMsg
<1>3. PICK k \in Copies : \A j \in Copies : ~(<<j, k>> \in OpToRel(<, Nat))
  <2> HIDE DEF Copies
  <2> QED  BY <1>2, NatLessThanWellFounded, WFMin
<1>4. \A j \in Copies : ~(j < k)
  BY <1>2, <1>3 DEF OpToRel
<1>5. \A j \in 1..k - 1 : messages[j].msg # m
  BY <1>1, <1>4
<1>6. /\ Newest(m) \in DOMAIN messages
      /\ messages[Newest(m)].msg = m
  BY <1>5 DEF Newest
<1> DEFINE i == Newest(m)
           left == SubSeq(messages, 1, i - 1)
           right == SubSeq(messages, i + 1, Len(messages))
<1>7. i \in 1..Len(messages)
  BY <1>1, <1>6
<1> HIDE DEF i
<1>8. /\ left \in Seq(Message) /\ Elems(left) = {messages[j] : j \in 1..i - 1}
      /\ right \in Seq(Message)
      /\ Elems(right) = {messages[j] : j \in i + 1..Len(messages)}
  BY <1>1, <1>7, ElemsOfSubSeq
<1>9. Elems(left) \cup Elems(right) \subseteq Elems(messages)
  BY <1>1, <1>7, <1>8 DEF Elems
<1>10. RemoveMsg(m) = left \o right
  BY DEF RemoveMsg, i
<1> HIDE DEF left, right
<1>11. RemoveMsg(m) \in Seq(Message) /\ Elems(RemoveMsg(m)) \subseteq Elems(messages)
  BY <1>8, <1>9, <1>10, ElemsOfConcat
<1> QED  BY <1>1, <1>6, <1>11 DEF Elems

\* What is read is moved, and nothing else is lost.
LEMMA RecvResultMoves ==
  ASSUME TypeOK, NEW m, RecvResult(m)
  PROVE  /\ m \in Message /\ s2c' \in Seq(Message) /\ buf' \in Seq(Message)
         /\ Elems(s2c) \cup Elems(buf) = {m} \cup Elems(s2c') \cup Elems(buf')
<1>1. CASE buf # <<>> /\ m = Head(buf) /\ buf' = Tail(buf) /\ UNCHANGED s2c
  <2>1. buf \in Seq(Message) /\ s2c \in Seq(Message)
    BY DEF TypeOK
  <2>2. /\ Head(buf) \in Message /\ Tail(buf) \in Seq(Message)
        /\ Elems(buf) = {Head(buf)} \cup Elems(Tail(buf))
    BY <1>1, <2>1, ElemsOfHeadTail
  <2>3. Elems(s2c') = Elems(s2c) /\ Elems(buf') = Elems(Tail(buf))
    BY <1>1
  <2> QED  BY <1>1, <2>1, <2>2, <2>3
<1>2. CASE /\ buf = <<>> /\ s2c # <<>>
           /\ \E n \in 1..Len(s2c) :
                /\ m = Head(s2c)
                /\ buf' = SubSeq(s2c, 2, n)
                /\ s2c' = SubSeq(s2c, n + 1, Len(s2c))
  <2>1. PICK n \in 1..Len(s2c) : /\ m = Head(s2c)
                                 /\ buf' = SubSeq(s2c, 2, n)
                                 /\ s2c' = SubSeq(s2c, n + 1, Len(s2c))
    BY <1>2
  <2>2. /\ s2c \in Seq(Message) /\ Len(s2c) \in Nat /\ n \in Nat
        /\ DOMAIN s2c = 1..Len(s2c)
    BY LenProperties DEF TypeOK
  <2>3. /\ buf' \in Seq(Message) /\ Elems(buf') = {s2c[i] : i \in 2..n}
        /\ s2c' \in Seq(Message)
        /\ Elems(s2c') = {s2c[i] : i \in n + 1..Len(s2c)}
    <3>1. /\ SubSeq(s2c, 2, n) \in Seq(Message)
          /\ Elems(SubSeq(s2c, 2, n)) = {s2c[i] : i \in 2..n}
      BY <2>2, ElemsOfSubSeq
    <3>2. /\ SubSeq(s2c, n + 1, Len(s2c)) \in Seq(Message)
          /\ Elems(SubSeq(s2c, n + 1, Len(s2c)))
               = {s2c[i] : i \in n + 1..Len(s2c)}
      BY <2>2, ElemsOfSubSeq
    <3> QED  BY <2>1, <3>1, <3>2
  <2>4. m = s2c[1] /\ 1 \in 1..Len(s2c) /\ m \in Message
    BY <2>1, <2>2, ElementOfSeq
  <2>5. \A i \in 1..Len(s2c) : i = 1 \/ i \in 2..n \/ i \in n + 1..Len(s2c)
    BY <2>2
  <2>6. \A i : i \in 2..n \/ i \in n + 1..Len(s2c) => i \in 1..Len(s2c)
    BY <2>2
  <2>7. Elems(s2c) = {s2c[i] : i \in 1..Len(s2c)}
    BY <2>2 DEF Elems
  <2>8. Elems(s2c) = {m} \cup Elems(s2c') \cup Elems(buf')
    BY <2>3, <2>4, <2>5, <2>6, <2>7
  <2> QED  BY <1>2, <2>3, <2>4, <2>8, ElemsOfEmpty
<1> QED  BY <1>1, <1>2 DEF RecvResult

-----------------------------------------------------------------------------
(* Type correctness *)

LEMMA InitType == Init => TypeOK
<1>1. NoWaiter \in Message /\ <<>> \in Seq(Message)
  BY DEF NoWaiter, Message
<1> QED  BY <1>1 DEF Init, TypeOK

LEMMA SendType ==
  ASSUME TypeOK, NEW m \in Nat, NEW n \in Nat, SendCommand(m, n)
  PROVE  c2s' \in Seq(Message)
<1>1. Msg(m, n) \in Message /\ c2s \in Seq(Message)
  BY DEF Msg, Message, TypeOK
<1> QED  BY <1>1, ElemsOfAppend DEF SendCommand

LEMMA ConsType ==
  ASSUME TypeOK, NEW m \in Message
  PROVE  /\ <<m>> \o messages \in Seq(Message)
         /\ Elems(<<m>> \o messages) = {m} \cup Elems(messages)
<1>1. <<m>> \in Seq(Message) /\ Elems(<<m>>) = {m}
  BY ElemsOfSingle
<1>2. messages \in Seq(Message)
  BY DEF TypeOK
<1>3. /\ <<m>> \o messages \in Seq(Message)
      /\ Elems(<<m>> \o messages) = Elems(<<m>>) \cup Elems(messages)
  BY ZenonT(30), <1>1, <1>2, ElemsOfConcat
<1> QED  BY <1>1, <1>3, Zenon

LEMMA StepType ==
  ASSUME TypeOK, [Next]_vars
  PROVE  TypeOK'
<1> USE DEF TypeOK, notifier, net, client, loop
<1>0. NoWaiter \in Message /\ <<>> \in Seq(Message)
  BY DEF NoWaiter, Message
<1>1. CASE Publish
  <2>1. last' \in 0..MaxId /\ UNCHANGED <<link, c2s, client, loop, faults>>
    BY <1>1 DEF Publish
  <2>2. Msg(waiter.msg, last') \in Message
    BY <2>1 DEF Message, Msg
  <2>3. Append(s2c, Msg(waiter.msg, last')) \in Seq(Message)
    BY <2>2, ElemsOfAppend
  <2>4. s2c' \in Seq(Message) /\ waiter' \in Message
    BY <1>0, <1>1, <2>3 DEF Publish
  <2> QED  BY <2>1, <2>4
<1>2. CASE ServeAlive
  <2>1. Head(c2s) \in Message /\ Tail(c2s) \in Seq(Message)
    BY <1>2, ElemsOfHeadTail DEF ServeAlive
  <2>2. s2c' \in Seq(Message) /\ c2s' \in Seq(Message)
    BY <1>2, <2>1, ElemsOfAppend DEF ServeAlive
  <2> QED  BY <1>2, <2>2 DEF ServeAlive
<1>3. CASE ServeWaitId
  <2>1. Head(c2s) \in Message /\ Tail(c2s) \in Seq(Message)
    BY <1>3, ElemsOfHeadTail DEF ServeWaitId
  <2>2. Msg(Head(c2s).msg, last) \in Message
    BY <2>1 DEF Message, Msg
  <2>3. Append(s2c, Msg(Head(c2s).msg, last)) \in Seq(Message)
    BY <2>2, ElemsOfAppend
  <2>4. s2c' \in Seq(Message) /\ waiter' \in Message /\ c2s' \in Seq(Message)
    BY <1>3, <2>1, <2>3 DEF ServeWaitId
  <2> QED  BY <1>3, <2>4 DEF ServeWaitId
<1>4. CASE LoseConnection
  BY <1>0, <1>4 DEF LoseConnection
<1>5. CASE Connect
  BY <1>0, <1>5 DEF Connect
<1>6. CASE AskNext
  <2>1. msgid' \in Nat /\ last_msgid' \in Nat /\ id + 1 \in Nat
    BY <1>6 DEF AskNext
  <2>2. c2s' \in Seq(Message)
    BY <1>6, <2>1, SendType DEF AskNext
  <2> QED  BY <1>6, <2>1, <2>2 DEF AskNext
<1>7. CASE Receive
  <2>1. PICK m : RecvResult(m) /\ messages' = <<m>> \o messages
    BY <1>7 DEF Receive
  <2>2. m \in Message /\ s2c' \in Seq(Message) /\ buf' \in Seq(Message)
    BY <2>1, RecvResultMoves
  <2>3. messages' \in Seq(Message)
    BY <2>1, <2>2, ConsType
  <2> QED  BY <1>7, <2>2, <2>3 DEF Receive
<1>8. CASE Maintenance
  BY <1>8 DEF Maintenance
<1>9. CASE SendAlive
  <2>1. /\ alive' \in Nat /\ last_msgid' \in Nat /\ NoId \in Nat
        /\ faults' \in 0..MaxFaults
    BY <1>9 DEF SendAlive, NoId, SlowNotifier
  <2>2. c2s' \in Seq(Message)
    BY <1>9, <2>1, SendType DEF SendAlive
  <2> QED  BY <1>9, <2>1, <2>2 DEF SendAlive
<1>10. CASE ReceiveAlive
  <2>1. PICK m : /\ RecvResult(m)
                 /\ IF m.msg = alive
                    THEN /\ SendCommand(msgid, id + 1) /\ pc' = "wait"
                         /\ UNCHANGED messages
                    ELSE messages' = <<m>> \o messages /\ UNCHANGED <<c2s, pc>>
    BY <1>10 DEF ReceiveAlive
  <2>2. m \in Message /\ s2c' \in Seq(Message) /\ buf' \in Seq(Message)
    BY <2>1, RecvResultMoves
  <2>3. /\ messages' \in Seq(Message) /\ c2s' \in Seq(Message)
        /\ pc' \in {"wait", "alive"}
    <3>1. CASE m.msg = alive
      <4>1. c2s' \in Seq(Message)
        BY <2>1, <3>1, SendType
      <4> QED  BY <2>1, <3>1, <4>1
    <3>2. CASE m.msg # alive
      BY <1>10, <2>1, <2>2, <3>2, ConsType DEF ReceiveAlive
    <3> QED  BY <3>1, <3>2
  <2> QED  BY <1>10, <2>2, <2>3 DEF ReceiveAlive
<1>11. CASE AliveTimeout
  BY <1>11 DEF AliveTimeout, SlowNotifier
<1>12. CASE ConnectionClosed
  BY <1>12 DEF ConnectionClosed
<1>13. CASE HandleNext
  <2>1. messages' \in Seq(Message)
    BY <1>13, RemoveMsgTakesNewest DEF HandleNext
  <2> QED  BY <1>13, <2>1 DEF HandleNext
<1>14. CASE Die
  BY <1>14 DEF Die
<1>15. CASE UNCHANGED vars
  BY <1>15 DEF vars
<1> QED
  BY <1>1, <1>2, <1>3, <1>4, <1>5, <1>6, <1>7, <1>8, <1>9, <1>10, <1>11,
     <1>12, <1>13, <1>14, <1>15 DEF Next, Serve, Listen

-----------------------------------------------------------------------------
(* The invariant *)

LEMMA InitInv == Init => Inv
<1> SUFFICES ASSUME Init PROVE Inv
  OBVIOUS
<1>1. Sent = {NoWaiter} /\ Answers = {}
  BY ElemsOfEmpty DEF Init, Sent, Answers
<1> QED
  BY <1>1 DEF Init, Inv, MsgidsGrow, RequestIsCurrent, WaiterWaits, Waiting,
              AnswersArePublished, AnswersAreNew, IdIsPublished, Kept, NoWaiter

\* What the notifier does to the messages in flight.
LEMMA NotifierStep ==
  ASSUME IInv, Publish \/ Serve \/ LoseConnection
  PROVE  Inv'
<1> USE DEF IInv, notifier, net, client, loop
<1>0. /\ TypeOK /\ Sent \subseteq Message /\ Answers \subseteq Message
      /\ c2s \in Seq(Message) /\ s2c \in Seq(Message) /\ waiter \in Sent
  BY TypeOfMessages DEF TypeOK, Sent
<1>1. CASE Publish
  <2> DEFINE answer == Msg(waiter.msg, last')
  <2>1. /\ last' \in Nat /\ last' > last
        /\ UNCHANGED <<link, c2s, client, loop>>
    BY <1>1, <1>0 DEF Publish, TypeOK
  <2>2. CASE waiter.id \in last + 1..last'
    <3>1. Elems(s2c') = Elems(s2c) \cup {answer}
      <4>1. answer \in Message
        BY <1>0, <2>1, MessageType DEF Msg, Message
      <4> QED  BY <1>0, <1>1, <2>2, <4>1, ElemsOfAppend DEF Publish
    <3>2. /\ waiter' = NoWaiter /\ Sent' = Elems(c2s) \cup {NoWaiter}
          /\ Answers' = Answers \cup {answer}
      BY <1>1, <2>1, <2>2, <3>1 DEF Publish, Sent, Answers
    <3>3. Sent' \subseteq Sent \cup {NoWaiter} /\ Sent \subseteq Sent' \cup {waiter}
      BY <3>2 DEF Sent
    <3>4. answer.msg = waiter.msg /\ answer.id = last'
      BY DEF Msg
    <3> HIDE DEF answer
    <3> USE <1>0, <2>1, <2>2, <3>2, <3>3, <3>4
        DEF Inv, Waiting, TypeOK, NoWaiter, Message
    <3>5. MsgidsGrow'
      BY DEF MsgidsGrow
    <3>6. RequestIsCurrent' /\ IdIsPublished' /\ WaiterWaits'
      BY DEF MsgidsGrow, RequestIsCurrent, IdIsPublished, WaiterWaits
    <3>7. AnswersArePublished'
      BY DEF AnswersArePublished
    <3>8. AnswersAreNew'
      <4>1. id < last' /\ id' = id /\ msgid' = msgid /\ pc' = pc
        BY DEF IdIsPublished
      <4>2. answer.id > id
        BY <4>1
      <4> QED  BY <4>1, <4>2 DEF AnswersAreNew
    <3>9. Kept'
      <4>1. Msg(msgid, id + 1) = waiter => answer.msg = msgid
        BY DEF Msg
      <4> QED  BY <4>1 DEF Kept
    <3> QED  BY <3>5, <3>6, <3>7, <3>8, <3>9
  <2>3. CASE waiter.id \notin last + 1..last'
    <3>1. Sent' = Sent /\ Answers' = Answers /\ waiter' = waiter
      BY <1>1, <2>1, <2>3 DEF Publish, Sent, Answers
    <3> QED
      BY <1>0, <2>1, <2>3, <3>1
      DEF Inv, MsgidsGrow, RequestIsCurrent, WaiterWaits, Waiting, TypeOK,
          AnswersArePublished, AnswersAreNew, IdIsPublished, Kept, Message
  <2> QED  BY <2>2, <2>3
<1>2. CASE Serve
  <2> DEFINE h == Head(c2s)
  <2>1. /\ UNCHANGED <<last, link, client, loop>>
        /\ h \in Message /\ Elems(c2s) = {h} \cup Elems(c2s')
    BY <1>0, <1>2, ElemsOfHeadTail DEF Serve, ServeAlive, ServeWaitId
  <2>2. h \in Sent
    BY <2>1 DEF Sent
  <2>3. CASE ServeAlive
    <3>1. Elems(s2c') = Elems(s2c) \cup {h}
      BY <1>0, <2>1, <2>3, ElemsOfAppend DEF ServeAlive
    <3>2. /\ waiter' = waiter /\ h.id = 0 /\ Answers' = Answers \cup {h}
          /\ Sent' \subseteq Sent /\ Sent \subseteq Sent' \cup {h}
      BY <2>1, <2>3, <3>1 DEF ServeAlive, NoId, Sent, Answers
    <3> QED
      BY SMTT(20), <1>0, <2>1, <2>2, <3>2
      DEF Inv, MsgidsGrow, RequestIsCurrent, WaiterWaits, Waiting, TypeOK,
          AnswersArePublished, AnswersAreNew, IdIsPublished, Kept, Msg, Message
  <2>4. CASE ServeWaitId /\ h.id <= last
    <3> DEFINE answer == Msg(h.msg, last)
    <3>1. Elems(s2c') = Elems(s2c) \cup {answer}
      <4>1. answer \in Message
        BY <1>0, <2>1 DEF Msg, Message, TypeOK
      <4> QED  BY <1>0, <2>4, <4>1, ElemsOfAppend DEF ServeWaitId
    <3>2. /\ waiter' = waiter /\ Answers' = Answers \cup {answer}
          /\ Sent' \subseteq Sent /\ Sent \subseteq Sent' \cup {h}
      BY <2>1, <2>4, <3>1 DEF ServeWaitId, Sent, Answers
    <3>3. answer.msg = h.msg /\ answer.id = last
      BY DEF Msg
    <3> HIDE DEF answer, h
    <3> USE <1>0, <2>1, <2>2, <2>4, <3>2, <3>3 DEF Inv, Waiting, TypeOK, Message
    <3>4. MsgidsGrow' /\ RequestIsCurrent' /\ IdIsPublished' /\ WaiterWaits'
      BY DEF MsgidsGrow, RequestIsCurrent, IdIsPublished, WaiterWaits
    <3>5. AnswersArePublished' /\ AnswersAreNew'
      BY DEF RequestIsCurrent, AnswersArePublished, AnswersAreNew
    <3>6. Kept'
      BY DEF Kept, Msg
    <3> QED  BY <3>4, <3>5, <3>6
  <2>5. CASE ServeWaitId /\ h.id > last
    <3>1. waiter' = h /\ UNCHANGED s2c
      BY <1>0, <2>1, <2>5 DEF ServeWaitId, Message, TypeOK
    <3>2. /\ Answers' = Answers /\ h \in Sent'
          /\ Sent' \subseteq Sent /\ Sent \subseteq Sent' \cup {waiter}
      BY <2>1, <2>5, <3>1 DEF Sent, Answers
    <3>3. h.id = id + 1 /\ Waiting /\ pc # "down" => h = Msg(msgid, id + 1)
      BY <1>0, <2>1, <2>2, MessageType DEF Inv, RequestIsCurrent, Waiting
    <3>4. Kept'
      <4> SUFFICES ASSUME Waiting, link = "up", Msg(msgid, id + 1) \in Sent
                   PROVE  Msg(msgid, id + 1) \in Sent'
        BY <2>1, <3>2 DEF Inv, Kept, Waiting
      <4>1. h.id <= id + 1 /\ id <= last
        BY <2>2 DEF Inv, RequestIsCurrent, IdIsPublished, Waiting
      <4>2. h.id = id + 1 /\ pc # "down"
        <5> HIDE DEF h
        <5> QED  BY <1>0, <2>1, <2>5, <4>1 DEF Message, TypeOK, Waiting
      <4> QED  BY <3>2, <3>3, <4>2
    <3> QED
      BY <1>0, <2>1, <2>2, <2>5, <3>1, <3>2, <3>4
      DEF Inv, MsgidsGrow, RequestIsCurrent, WaiterWaits, Waiting, TypeOK,
          AnswersArePublished, AnswersAreNew, IdIsPublished, Message
  <2>6. h.id <= last \/ h.id > last
    BY <1>0, <2>1 DEF Message, TypeOK
  <2> QED  BY <1>2, <2>3, <2>4, <2>5, <2>6 DEF Serve
<1>3. CASE LoseConnection
  <2>1. Sent' = {NoWaiter} /\ Answers' = Answers
    BY <1>3, ElemsOfEmpty DEF LoseConnection, Sent, Answers
  <2> QED
    BY <1>0, <1>3, <2>1
    DEF LoseConnection, NoWaiter,
        Inv, MsgidsGrow, RequestIsCurrent, WaiterWaits, Waiting, TypeOK,
        AnswersArePublished, AnswersAreNew, IdIsPublished, Kept, Message
<1> QED  BY <1>1, <1>2, <1>3

\* A command that is sent on a connection that is up reaches it.
LEMMA SendReaches ==
  ASSUME TypeOK, NEW m \in Nat, NEW n \in Nat, SendCommand(m, n), waiter' = waiter
  PROVE  /\ Sent' \subseteq Sent \cup {Msg(m, n)} /\ Sent \subseteq Sent'
         /\ link = "up" => Msg(m, n) \in Sent'
         /\ Msg(m, n).msg = m /\ Msg(m, n).id = n
<1>1. Msg(m, n) \in Message /\ c2s \in Seq(Message)
  BY DEF Msg, Message, TypeOK
<1>2. Elems(c2s') = IF link = "up" THEN Elems(c2s) \cup {Msg(m, n)} ELSE Elems(c2s)
  BY <1>1, ElemsOfAppend DEF SendCommand
<1> QED  BY <1>2 DEF Sent, Msg

LEMMA NewAnswer ==
  ASSUME IInv, pc = "wait", GetMsg(msgid)
  PROVE  Answer \in Answers /\ Answer.id > id /\ Answer.id <= last
<1>1. Answer \in Elems(messages) /\ Answer.msg = msgid
  BY RemoveMsgTakesNewest DEF Answer, IInv
<1> QED
  BY <1>1 DEF IInv, Inv, Answers, AnswersAreNew, AnswersArePublished, Waiting

\* What notifier_listen() does to them.
LEMMA ListenerStep ==
  ASSUME IInv, Listen \/ Die \/ UNCHANGED vars
  PROVE  Inv' /\ id' \in {id, id + 1} /\ id' <= last
<1> USE DEF IInv, notifier, net, client, loop
<1>0. /\ TypeOK /\ Sent \subseteq Message /\ Answers \subseteq Message
      /\ waiter \in Sent /\ id <= last
  BY TypeOfMessages DEF TypeOK, Sent, Inv, IdIsPublished
<1>1. CASE Connect
  <2>1. Sent' = {NoWaiter} /\ Answers' = {}
    BY <1>1, ElemsOfEmpty DEF Connect, Sent, Answers
  <2> QED
    BY <1>0, <1>1, <2>1
    DEF Connect, NoWaiter,
        Inv, MsgidsGrow, RequestIsCurrent, WaiterWaits, Waiting, TypeOK,
        AnswersArePublished, AnswersAreNew, IdIsPublished, Kept, Message
<1>2. CASE AskNext
  <2> DEFINE request == Msg(msgid', id + 1)
  <2>1. /\ last_msgid' = last_msgid + 1 /\ msgid' = last_msgid + 1
        /\ pc = "request" /\ pc' = "wait"
        /\ UNCHANGED <<notifier, link, s2c, buf, messages, id>>
    BY <1>2 DEF AskNext
  <2>2. msgid' \in Nat /\ id + 1 \in Nat
    BY <2>1 DEF TypeOK
  <2>3. /\ Sent' \subseteq Sent \cup {request} /\ Sent \subseteq Sent'
        /\ link = "up" => request \in Sent'
        /\ request.msg = msgid' /\ request.id = id + 1
    BY <1>2, <2>1, <2>2, SendReaches DEF AskNext
  <2>4. Answers' = Answers
    BY <2>1 DEF Answers
  <2>5. Kept'
    BY <2>1, <2>3 DEF Kept
  <2> HIDE DEF request
  <2> USE <1>0, <2>1, <2>3, <2>4 DEF Inv, Waiting, TypeOK, Message
  <2>6. MsgidsGrow'
    <3>1. \A m \in Sent \cup Answers \cup {request} : m.msg <= last_msgid'
      BY DEF MsgidsGrow
    <3> QED  BY <3>1 DEF MsgidsGrow
  <2>7. RequestIsCurrent'
    <3>1. \A m \in Sent : m.id <= id /\ m.msg <= last_msgid
      BY DEF RequestIsCurrent, MsgidsGrow
    <3> QED  BY <3>1 DEF RequestIsCurrent
  <2>8. AnswersAreNew'
    BY DEF AnswersAreNew, MsgidsGrow
  <2> QED
    BY <2>5, <2>6, <2>7, <2>8 DEF WaiterWaits, AnswersArePublished, IdIsPublished
<1>3. CASE Receive
  <2>1. PICK m : RecvResult(m) /\ messages' = <<m>> \o messages
    BY <1>3 DEF Receive
  <2>2. /\ m \in Message
        /\ Elems(s2c) \cup Elems(buf) = {m} \cup Elems(s2c') \cup Elems(buf')
    BY <2>1, RecvResultMoves
  <2>3. Elems(messages') = {m} \cup Elems(messages)
    BY <2>1, <2>2, ConsType
  <2>4. Answers' = Answers /\ Sent' = Sent
    BY <1>3, <2>2, <2>3 DEF Answers, Sent, Receive
  <2> QED
    BY <1>0, <1>3, <2>4
    DEF Receive, Inv, MsgidsGrow, RequestIsCurrent, WaiterWaits, Waiting, TypeOK,
        AnswersArePublished, AnswersAreNew, IdIsPublished, Kept
<1>4. CASE SendAlive
  <2> DEFINE request == Msg(alive', NoId)
  <2>1. /\ last_msgid' = last_msgid + 1 /\ alive' = last_msgid + 1
        /\ pc = "wait" /\ pc' = "alive"
        /\ UNCHANGED <<notifier, link, s2c, buf, messages, id, msgid>>
    BY <1>4 DEF SendAlive
  <2>2. alive' \in Nat /\ NoId \in Nat
    BY <2>1 DEF TypeOK, NoId
  <2>3. /\ Sent' \subseteq Sent \cup {request} /\ Sent \subseteq Sent'
        /\ request.msg = alive' /\ request.id = 0
    BY <1>4, <2>1, <2>2, SendReaches DEF SendAlive, NoId
  <2>4. Answers' = Answers
    BY <2>1 DEF Answers
  <2> HIDE DEF request
  <2> USE <1>0, <2>1, <2>3, <2>4 DEF Inv, Waiting, TypeOK, Message
  <2>5. MsgidsGrow'
    <3>1. \A m \in Sent \cup Answers \cup {request} : m.msg <= last_msgid'
      BY DEF MsgidsGrow
    <3> QED  BY <3>1 DEF MsgidsGrow
  <2>6. RequestIsCurrent'
    BY DEF RequestIsCurrent, MsgidsGrow
  <2>7. AnswersAreNew' /\ Kept'
    BY DEF AnswersAreNew, Kept
  <2> QED
    BY <2>5, <2>6, <2>7 DEF WaiterWaits, AnswersArePublished, IdIsPublished
<1>5. CASE ReceiveAlive
  <2>0. UNCHANGED <<notifier, link, last_msgid, id, msgid, alive>> /\ pc = "alive"
    BY <1>5 DEF ReceiveAlive
  <2>1. PICK m : /\ RecvResult(m)
                 /\ IF m.msg = alive
                    THEN /\ SendCommand(msgid, id + 1) /\ pc' = "wait"
                         /\ UNCHANGED messages
                    ELSE messages' = <<m>> \o messages /\ UNCHANGED <<c2s, pc>>
    BY <1>5 DEF ReceiveAlive
  <2>2. /\ m \in Message
        /\ Elems(s2c) \cup Elems(buf) = {m} \cup Elems(s2c') \cup Elems(buf')
    BY <2>1, RecvResultMoves
  <2>3. CASE m.msg = alive
    <3> DEFINE request == Msg(msgid, id + 1)
    <3>1. /\ Sent' \subseteq Sent \cup {request} /\ Sent \subseteq Sent'
          /\ link = "up" => request \in Sent'
          /\ request.msg = msgid /\ request.id = id + 1
      BY <2>0, <2>1, <2>3, SendReaches DEF TypeOK
    <3>2. Answers' \subseteq Answers /\ pc' = "wait"
      BY <2>1, <2>2, <2>3 DEF Answers
    <3>3. Kept'
      BY <2>0, <3>1 DEF Kept
    <3> HIDE DEF request
    <3> USE <1>0, <2>0, <3>1, <3>2 DEF Inv, Waiting, TypeOK, Message
    <3>4. MsgidsGrow'
      BY DEF MsgidsGrow
    <3>5. RequestIsCurrent'
      BY DEF RequestIsCurrent
    <3>6. AnswersAreNew' /\ AnswersArePublished'
      BY DEF AnswersAreNew, AnswersArePublished
    <3> QED  BY <3>3, <3>4, <3>5, <3>6 DEF WaiterWaits, IdIsPublished
  <2>4. CASE m.msg # alive
    <3>1. Elems(messages') = {m} \cup Elems(messages)
      BY <2>1, <2>2, <2>4, ConsType
    <3>2. Answers' = Answers /\ Sent' = Sent /\ pc' = pc
      BY <2>0, <2>1, <2>2, <2>4, <3>1 DEF Answers, Sent
    <3> QED
      BY <1>0, <2>0, <3>2
      DEF Inv, MsgidsGrow, RequestIsCurrent, WaiterWaits, Waiting, TypeOK,
          AnswersArePublished, AnswersAreNew, IdIsPublished, Kept
  <2> QED  BY <2>3, <2>4
<1>6. CASE HandleNext
  <2>1. /\ UNCHANGED <<notifier, net, buf, last_msgid, msgid, alive>>
        /\ pc = "wait" /\ GetMsg(msgid)
        /\ \/ pc' = "down" /\ id' = id
           \/ pc' = "request" /\ id' = id + 1
    <3>1. CASE Answer.id <= id
      BY <1>6, <3>1, Zenon DEF HandleNext
    <3>2. CASE ~(Answer.id <= id)
      BY <1>6, <3>2, Zenon DEF HandleNext
    <3> QED  BY <3>1, <3>2
  <2>2. Elems(messages') \subseteq Elems(messages)
    BY <1>6, <2>1, RemoveMsgTakesNewest DEF HandleNext
  <2>3. Answers' \subseteq Answers /\ Sent' = Sent
    BY <2>1, <2>2 DEF Answers, Sent
  <2>4. id + 1 <= last
    <3>1. Answer \in Message /\ Answer.id > id /\ Answer.id <= last
      BY <1>0, <2>1, NewAnswer
    <3> QED  BY <3>1, <1>0 DEF TypeOK, Message
  <2> USE <1>0, <2>1, <2>3, <2>4 DEF Inv, Waiting, TypeOK, Message
  <2>5. MsgidsGrow'
    BY DEF MsgidsGrow
  <2>6. RequestIsCurrent'
    BY DEF RequestIsCurrent
  <2>7. AnswersAreNew' /\ Kept' /\ AnswersArePublished'
    BY DEF AnswersAreNew, Kept, AnswersArePublished
  <2> QED  BY <2>5, <2>6, <2>7 DEF WaiterWaits, IdIsPublished
<1>7. CASE Maintenance \/ AliveTimeout \/ ConnectionClosed \/ Die \/ UNCHANGED vars
  <2>1. /\ Sent' = Sent /\ Answers' = Answers /\ pc' \in {pc, "down"}
        /\ UNCHANGED <<notifier, link, last_msgid, id, msgid, alive>>
    BY <1>7 DEF Maintenance, AliveTimeout, ConnectionClosed, Die, vars, Sent, Answers
  <2> QED
    BY <1>0, <2>1
    DEF Inv, MsgidsGrow, RequestIsCurrent, WaiterWaits, Waiting, TypeOK,
        AnswersArePublished, AnswersAreNew, IdIsPublished, Kept
<1> QED
  BY <1>1, <1>2, <1>3, <1>4, <1>5, <1>6, <1>7 DEF Listen

LEMMA Invariance == Spec => []IInv
<1>1. Init => IInv
  BY InitType, InitInv DEF IInv
<1>2. IInv /\ [Next]_vars => IInv'
  <2> SUFFICES ASSUME IInv, [Next]_vars PROVE Inv'
    BY StepType DEF IInv
  <2> QED  BY NotifierStep, ListenerStep DEF Next, vars
<1> QED  BY <1>1, <1>2, PTL DEF Spec

-----------------------------------------------------------------------------
(* The theorems *)

\* Every state has the types TypeOK states.
THEOREM TypeCorrect == Spec => []TypeOK
BY InitType, StepType, PTL DEF Spec

\* A listener never takes an old answer, one that arrived twice or one that was
\* asked for before a reconnect, for the answer to its request, whatever it was
\* sent and however read() cut the stream.
THEOREM AnswersAreNewer == Spec => []AnswerIsNew
<1>1. IInv => AnswerIsNew
  BY NewAnswer DEF AnswerIsNew
<1> QED  BY <1>1, Invariance, PTL

\* While its connection is up, a listener's request is never lost: it is on its
\* way, registered or answered.
THEOREM RequestsAreKept == Spec => []RequestIsKept
<1>1. IInv => RequestIsKept
  BY DEF IInv, Inv, Kept, Waiting, Sent, Answers, RequestIsKept
<1> QED  BY <1>1, Invariance, PTL

\* A listener handles the published transactions one after the other, through
\* any crash and any loss of the connection.
THEOREM HandledInOrder == Spec => InOrder
<1>1. ASSUME IInv, [Next]_vars
      PROVE  id' \in {id, id + 1} /\ id' <= last
  <2>1. CASE Publish \/ Serve \/ LoseConnection
    <3>1. id' = id
      BY <2>1 DEF Publish, Serve, ServeAlive, ServeWaitId, LoseConnection,
                  notifier, client, loop
    <3> QED  BY <1>1, <3>1 DEF IInv, Inv, IdIsPublished
  <2>2. CASE Listen \/ Die \/ UNCHANGED vars
    BY <1>1, <2>2, ListenerStep
  <2> QED  BY <1>1, <2>1, <2>2 DEF Next
<1> QED  BY <1>1, Invariance, PTL DEF Spec, InOrder
=============================================================================
