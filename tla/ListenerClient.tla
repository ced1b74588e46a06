--------------------------- MODULE ListenerClient ---------------------------
(***************************************************************************)
(* The listener's end of its connection to the notifier: network.c and the *)
(* loop of notifier_listen() that asks for the next transaction, does the  *)
(* maintenance on timeouts and sends ALIVE.  The notifier's end is reduced *)
(* to what it answers (callback.c, network.c of the notifier); Notifier    *)
(* models it in full, with a reduced listener.                             *)
(*                                                                         *)
(* A message is its MSGID and the transaction id it carries; ALIVE and its *)
(* answer carry none.                                                      *)
(***************************************************************************)
EXTENDS Integers, Sequences

CONSTANTS
  MaxId,      \* bound on the transactions
  MaxBatch,   \* bound on the transactions the notifier publishes at once
  MaxFaults,  \* bound on lost connections, crashes of the listener and delays
              \* of the notifier beyond a timeout
  MaxQueue,   \* bound on the answers in flight
  MaxMsgid    \* bound on the MSGIDs of a connection that only idles

ASSUME BoundsAssumption ==
  /\ MaxId \in Nat /\ MaxBatch \in Nat \ {0} /\ MaxFaults \in Nat
  /\ MaxQueue \in Nat \ {0} /\ MaxMsgid \in Nat

VARIABLES
  last,        \* notify_last_id: the transactions 1..last are published
  waiter,      \* the notifier's next_id and msg_id for this connection
  link,        \* "up", "closed" by the notifier, or "forgotten" by it
  c2s, s2c,    \* the messages in flight to and from the notifier
  buf,         \* client->buf: what one read() got beyond the first message
  messages,    \* client->messages
  last_msgid,  \* client->last_msgid
  id,          \* the last transaction the listener has handled
  msgid,       \* the request notifier_listen() waits for
  alive,       \* the MSGID of its ALIVE
  timeout,     \* DELAY_LDAP_CLOSE or DELAY_ALIVE
  pc,
  faults

notifier == <<last, waiter>>
net == <<link, c2s, s2c>>
client == <<buf, messages, last_msgid>>
loop == <<id, msgid, alive, timeout, pc>>
vars == <<notifier, net, client, loop, faults>>

NoWaiter == [msg |-> 0, id |-> 0]
NoId == 0
Msg(m, n) == [msg |-> m, id |-> n]
Elems(s) == {s[i] : i \in DOMAIN s}

-----------------------------------------------------------------------------
(* The notifier                                                            *)

\* A batch is published, then network_client_all_write() looks for the client
\* that waits for one of its ids.
Publish ==
  /\ \E n \in 1..MaxBatch : last' = last + n /\ last' <= MaxId
  /\ IF waiter.id \in last + 1..last'
     THEN /\ s2c' = Append(s2c, Msg(waiter.msg, last'))
          /\ waiter' = NoWaiter
     ELSE UNCHANGED <<s2c, waiter>>
  /\ UNCHANGED <<link, c2s, client, loop, faults>>

\* data_on_connection() with an ALIVE or a WAIT_ID.
ServeAlive ==
  /\ link = "up" /\ c2s # <<>> /\ Head(c2s).id = NoId /\ Len(s2c) < MaxQueue
  /\ s2c' = Append(s2c, Head(c2s))
  /\ c2s' = Tail(c2s)
  /\ UNCHANGED <<notifier, link, client, loop, faults>>

\* Mutant: the transaction after the last one counts as published.
ServeWaitIdTooEarly ==
  /\ link = "up" /\ c2s # <<>> /\ Head(c2s).id # NoId /\ Len(s2c) < MaxQueue
  /\ IF Head(c2s).id <= last + 1
     THEN s2c' = Append(s2c, Msg(Head(c2s).msg, last + 1)) /\ UNCHANGED waiter
     ELSE waiter' = Head(c2s) /\ UNCHANGED s2c
  /\ c2s' = Tail(c2s)
  /\ UNCHANGED <<last, link, client, loop, faults>>

ServeWaitId ==
  /\ link = "up" /\ c2s # <<>> /\ Head(c2s).id # NoId /\ Len(s2c) < MaxQueue
  /\ IF Head(c2s).id <= last
     THEN s2c' = Append(s2c, Msg(Head(c2s).msg, last)) /\ UNCHANGED waiter
     ELSE waiter' = Head(c2s) /\ UNCHANGED s2c
  /\ c2s' = Tail(c2s)
  /\ UNCHANGED <<last, link, client, loop, faults>>

\* The notifier stops, or closes the connection; or it removes the client after
\* a failed send() and leaves the socket open, so that nobody reads it.
LoseConnection ==
  /\ link = "up" /\ faults < MaxFaults
  /\ link' \in {"closed", "forgotten"}
  /\ c2s' = <<>> /\ waiter' = NoWaiter /\ faults' = faults + 1
  /\ UNCHANGED <<last, s2c, client, loop>>

-----------------------------------------------------------------------------
(* network.c                                                               *)

SendCommand(m, n) == c2s' = IF link = "up" THEN Append(c2s, Msg(m, n)) ELSE c2s

\* Mutant: what follows the first message is dropped.
RecvResultFirstOnly(m) ==
  /\ s2c # <<>> /\ m = Head(s2c)
  /\ \E n \in 1..Len(s2c) : s2c' = SubSeq(s2c, n + 1, Len(s2c))
  /\ UNCHANGED buf

\* recv_block(): a message that is left in the buffer is returned before the
\* socket is read; a read() gets one message or several.
RecvResult(m) ==
  \/ /\ buf # <<>>
     /\ m = Head(buf) /\ buf' = Tail(buf) /\ UNCHANGED s2c
  \/ /\ buf = <<>> /\ s2c # <<>>
     /\ \E n \in 1..Len(s2c) :
          /\ m = Head(s2c)
          /\ buf' = SubSeq(s2c, 2, n)
          /\ s2c' = SubSeq(s2c, n + 1, Len(s2c))

\* select() looks at the socket only, never at the buffer.  The notifier's
\* close makes it readable, too.
Readable == s2c # <<>> \/ link = "closed"
EndOfFile == link = "closed" /\ s2c = <<>> /\ buf = <<>>

\* client->messages has the newest message first.
Newest(m) == CHOOSE k \in DOMAIN messages :
               messages[k].msg = m /\ \A j \in 1..k - 1 : messages[j].msg # m

\* notifier_remove_msg()
RemoveMsg(m) == SubSeq(messages, 1, Newest(m) - 1)
                \o SubSeq(messages, Newest(m) + 1, Len(messages))
GetMsg(m) == \E i \in DOMAIN messages : messages[i].msg = m

-----------------------------------------------------------------------------
(* notifier_listen()                                                       *)

\* Mutant: the messages of the old connection are kept.
ConnectKeepsMessages ==
  /\ pc = "down"
  /\ link' = "up" /\ c2s' = <<>> /\ s2c' = <<>> /\ waiter' = NoWaiter
  /\ buf' = <<>> /\ last_msgid' = 0 /\ UNCHANGED messages
  /\ pc' = "request"
  /\ UNCHANGED <<last, id, msgid, alive, timeout, faults>>

\* main() after any failure: the process ends and is started again, with the
\* transaction it has stored last.
Connect ==
  /\ pc = "down"
  /\ link' = "up" /\ c2s' = <<>> /\ s2c' = <<>> /\ waiter' = NoWaiter
  /\ buf' = <<>> /\ messages' = <<>> /\ last_msgid' = 0
  /\ pc' = "request"
  /\ UNCHANGED <<last, id, msgid, alive, timeout, faults>>

\* Mutant: MSGIDs are counted down.
AskNextDown ==
  /\ pc = "request" /\ id < MaxId
  /\ last_msgid' = last_msgid - 1 /\ msgid' = last_msgid'
  /\ SendCommand(msgid', id + 1)
  /\ timeout' = "ldap_close" /\ pc' = "wait"
  /\ UNCHANGED <<notifier, link, s2c, buf, messages, id, alive, faults>>

\* notifier_get_dn()
AskNext ==
  /\ pc = "request" /\ id < MaxId
  /\ last_msgid' = last_msgid + 1 /\ msgid' = last_msgid'
  /\ SendCommand(msgid', id + 1)
  /\ timeout' = "ldap_close" /\ pc' = "wait"
  /\ UNCHANGED <<notifier, link, s2c, buf, messages, id, alive, faults>>

Receive ==
  /\ pc = "wait" /\ ~GetMsg(msgid) /\ Readable
  /\ \E m \in Elems(buf) \cup Elems(s2c) :
       RecvResult(m) /\ messages' = <<m>> \o messages
  /\ UNCHANGED <<notifier, link, c2s, last_msgid, loop, faults>>

\* Mutant: the timeout stays at 15 seconds.
MaintenanceOnly ==
  /\ pc = "wait" /\ ~GetMsg(msgid) /\ ~Readable /\ timeout = "ldap_close"
  /\ UNCHANGED vars

\* Nothing for 15 seconds: the LDAP connections are closed and the modules'
\* postrun() is called.
Maintenance ==
  /\ pc = "wait" /\ ~GetMsg(msgid) /\ ~Readable /\ timeout = "ldap_close"
  /\ timeout' = "alive"
  /\ UNCHANGED <<notifier, net, client, id, msgid, alive, pc, faults>>

\* That the notifier has not even read what it was sent is a fault.
SlowNotifier ==
  IF c2s = <<>> THEN UNCHANGED faults
  ELSE faults < MaxFaults /\ faults' = faults + 1

\* Nothing for another 5 minutes: notifier_alive_s().
SendAlive ==
  /\ pc = "wait" /\ ~GetMsg(msgid) /\ ~Readable /\ timeout = "alive"
  /\ SlowNotifier
  /\ last_msgid < MaxMsgid \/ link # "up" \/ buf # <<>>
  /\ last_msgid' = last_msgid + 1 /\ alive' = last_msgid'
  /\ SendCommand(alive', NoId)
  /\ pc' = "alive"
  /\ UNCHANGED <<notifier, link, s2c, buf, messages, id, msgid, timeout>>

\* notifier_wait_msg(): other messages are kept, the answer to ALIVE is not, and
\* the request is sent again under the MSGID it has.
ReceiveAlive ==
  /\ pc = "alive" /\ Readable
  /\ \E m \in Elems(buf) \cup Elems(s2c) :
       /\ RecvResult(m)
       /\ IF m.msg = alive
          THEN SendCommand(msgid, id + 1) /\ pc' = "wait" /\ UNCHANGED messages
          ELSE messages' = <<m>> \o messages /\ UNCHANGED <<c2s, pc>>
  /\ UNCHANGED <<notifier, link, last_msgid, id, msgid, alive, timeout, faults>>

\* Nothing for NOTIFIER_TIMEOUT: "failed to get alive answer".
AliveTimeout ==
  /\ pc = "alive" /\ ~Readable /\ SlowNotifier
  /\ pc' = "down"
  /\ UNCHANGED <<notifier, net, client, id, msgid, alive, timeout>>

ConnectionClosed ==
  /\ pc \in {"wait", "alive"} /\ EndOfFile
  /\ pc = "wait" => ~GetMsg(msgid)
  /\ pc' = "down"
  /\ UNCHANGED <<notifier, net, client, id, msgid, alive, timeout, faults>>

\* notifier_get_dn_result(), then the checks of its id: since version 3 the
\* answer is the last id of the notifier, and the next one is fetched from
\* cn=translog and handled.
Answer == messages[Newest(msgid)]

HandleNext ==
  /\ pc = "wait" /\ GetMsg(msgid)
  /\ messages' = RemoveMsg(msgid)
  /\ IF Answer.id <= id
     THEN pc' = "down" /\ UNCHANGED id
     ELSE id' = id + 1 /\ pc' = "request"
  /\ UNCHANGED <<notifier, net, buf, last_msgid, msgid, alive, timeout, faults>>

\* The process dies.
Die ==
  /\ pc # "down" /\ faults < MaxFaults
  /\ pc' = "down" /\ faults' = faults + 1
  /\ UNCHANGED <<notifier, net, client, id, msgid, alive, timeout>>

-----------------------------------------------------------------------------
Init ==
  /\ last = 0 /\ waiter = NoWaiter
  /\ link = "closed" /\ c2s = <<>> /\ s2c = <<>>
  /\ buf = <<>> /\ messages = <<>> /\ last_msgid = 0
  /\ id = 0 /\ msgid = 0 /\ alive = 0 /\ timeout = "ldap_close" /\ pc = "down"
  /\ faults = 0

Serve == ServeAlive \/ ServeWaitId
Listen == \/ Connect \/ AskNext \/ Receive \/ Maintenance \/ SendAlive
          \/ ReceiveAlive \/ AliveTimeout \/ ConnectionClosed \/ HandleNext

Next == Publish \/ Serve \/ LoseConnection \/ Listen \/ Die

Spec == Init /\ [][Next]_vars

\* The notifier answers and the listener runs and is started again.
FairSpec == Spec /\ WF_vars(Serve) /\ WF_vars(Listen)

-----------------------------------------------------------------------------
Message == [msg : Nat, id : Nat]

TypeOK ==
  /\ last \in 0..MaxId /\ id \in Nat /\ faults \in 0..MaxFaults
  /\ waiter \in Message
  /\ link \in {"up", "closed", "forgotten"}
  /\ c2s \in Seq(Message) /\ s2c \in Seq(Message)
  /\ buf \in Seq(Message) /\ messages \in Seq(Message)
  /\ last_msgid \in Nat /\ msgid \in Nat /\ alive \in Nat
  /\ timeout \in {"ldap_close", "alive"}
  /\ pc \in {"down", "request", "wait", "alive"}

(* The listener never handles a transaction the notifier has not published,*)
(* and never skips one: the one it stores is the next one.                 *)
InOrder == [][id' \in {id, id + 1} /\ id' <= last]_vars

(* Every answer the listener waits for is newer than what it has handled:  *)
(* an answer that arrived twice, or that was asked for before a reconnect, *)
(* is never taken for the answer to a later request.                       *)
AnswerIsNew == pc = "wait" /\ GetMsg(msgid) => Answer.id > id

(* While the connection is up, the request the listener waits for is on    *)
(* its way, registered or answered - in the socket, in the buffer or in    *)
(* the message list.                                                       *)
RequestIsKept ==
  pc \in {"wait", "alive"} /\ link = "up" =>
    \/ Msg(msgid, id + 1) \in Elems(c2s) \cup {waiter}
    \/ \E m \in Elems(s2c) \cup Elems(buf) \cup Elems(messages) : m.msg = msgid

(* Every published transaction is handled in the end, though the notifier  *)
(* may forget the connection without closing it and the answer may lie in  *)
(* the buffer, where select() does not see it: ALIVE finds both.           *)
EveryTransactionIsFetched == \A n \in 1..MaxId : n <= last ~> id >= n
=============================================================================
