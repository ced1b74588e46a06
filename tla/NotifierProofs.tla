--------------------------- MODULE NotifierProofs ---------------------------
(***************************************************************************)
(* Safety of the notifier, for any number of transactions, crashes, clients *)
(* and failures to open the transaction file.                              *)
(*                                                                         *)
(* The argument: at any moment the ids slapd wrote fall in three runs,     *)
(*        1 .. Base   |   listener.priv   |   listener                     *)
(* of consecutive ids, and 1..Base are in the transaction file (or left    *)
(* out of it).  Base only moves when listener.priv is unlinked, and        *)
(* nothing above it is ever announced.                                     *)
(***************************************************************************)
EXTENDS Notifier, TLAPS

USE BoundsAssumption
USE DEF Ids, PROTOCOL_UNKNOWN, PROTOCOL_2, PROTOCOL_3, PROTOCOL_LAST,
        BoundsAssumption

----------------------------------------------------------------------------
(* The inductive invariant *)

Base == written - Len(listener) - Len(priv)

\* The loops over the batch stay inside it.
PosInBatch == pc \in {"ldap", "files", "unlink", "broadcast"} => pos < Len(batch)

FilesSplit ==
  /\ Base >= 0
  /\ \A i \in DOMAIN listener : listener[i] = Base + Len(priv) + i
  /\ \A i \in DOMAIN priv : priv[i] = Base + i
  /\ 1..Base \subseteq Lines(tf) \cup leftOut

BatchIsPriv == pc \in {"ldap", "files", "unlink"} => batch = priv

\* cn=translog is ahead of the transaction file.
LdapFirst ==
  /\ Lines(tf) \cup leftOut \subseteq translog
  /\ pc = "ldap" => \A i \in 1..pos : batch[i] \in translog
  /\ pc = "files" => Lines(batch) \subseteq translog

\* The transaction file is ahead of the unlink, but not of listener.priv.
FilesNext ==
  /\ pc = "files" => \A i \in 1..pos : batch[i] \in Lines(tf)
  /\ pc = "unlink" => /\ Lines(batch) \subseteq Lines(tf) \cup leftOut
                      /\ leftOut = {} => LastLine(tf) = LastLine(batch)
  /\ LastLine(tf) <= Base + Len(priv)
  /\ priv = <<>> /\ leftOut = {} => LastLine(tf) = Base

\* What is broadcast is the run of ids that ends at Base.
BroadcastLast ==
  /\ pc \in {"broadcast", "hung", "unset", "loop", "select", "serve", "check"}
       => priv = <<>>
  /\ pc = "broadcast"
       => \A i \in DOMAIN batch : batch[i] = Base - Len(batch) + i

LastIdIsBase ==
  \/ pc \in {"unset", "loop", "select", "serve", "check"}
  \/ pc = "take" /\ priv = <<>>
  => lastId <= Base /\ (leftOut = {} => lastId = Base)

AnnouncedBelowBase == announced <= Base

Inv == /\ PosInBatch /\ FilesSplit /\ BatchIsPriv /\ LdapFirst /\ FilesNext
       /\ BroadcastLast /\ LastIdIsBase /\ AnnouncedBelowBase /\ LogOrdered

IInv == TypeOK /\ Inv

----------------------------------------------------------------------------
(* Type correctness *)

LEMMA InitType == Init => TypeOK
<1> SUFFICES ASSUME Init PROVE TypeOK
  OBVIOUS
<1>1. TypeOfHandOver
  BY DEF Init, TypeOfHandOver
<1>2. TypeOfFlags
  BY Zenon DEF Init, TypeOfFlags
<1>3. /\ in \in [Clients -> Seq(Requests)]
      /\ out \in [Clients -> Seq(Replies)]
  BY DEF Init
<1>4. /\ testfds \in [Clients -> Nat]
      /\ client \in [Clients -> [fd : BOOLEAN, version : 0..PROTOCOL_LAST - 1,
                                 notify : BOOLEAN, next_id : Ids]]
      /\ link \in [Clients -> BOOLEAN]
      /\ speaks \in [Clients -> 0..PROTOCOL_LAST - 1]
      /\ asked \in [Clients -> Ids] /\ done \in [Clients -> Ids]
  BY DEF Init, NoClient
<1> QED  BY <1>1, <1>2, <1>3, <1>4 DEF TypeOK, TypeOfClients

LEMMA CurrentEntry ==
  ASSUME TypeOK, PosInBatch, pc \in {"ldap", "files", "unlink", "broadcast"}
  PROVE  pos + 1 \in DOMAIN batch /\ batch[pos + 1] \in Ids
<1>1. batch \in Seq(Ids) /\ pos \in Nat
  BY DEF TypeOK, TypeOfHandOver
<1>2. pos < Len(batch)
  BY DEF PosInBatch
<1> QED  BY <1>1, <1>2

\* The steps of the hand-over from slapd to the transaction file.
LEMMA HandOverType ==
  ASSUME TypeOK, PosInBatch,
         \/ Start \/ TakeOver \/ NothingToDo \/ DumpToLdap \/ LdapServerDown
         \/ DumpToFiles \/ DumpToFilesFails \/ Unlink
  PROVE  TypeOK'
<1>0. TypeOfClients' /\ TypeOfFlags'
  <2>1. UNCHANGED <<testfds, client, link, in, out, speaks, asked, done, stale,
                    callback, eintr>>
    BY DEF Start, TakeOver, NothingToDo, DumpToLdap, LdapServerDown,
           DumpToFiles, DumpToFilesFails, Unlink, work, peers, flags
  <2> QED  BY <2>1 DEF TypeOK, TypeOfClients, TypeOfFlags
<1> SUFFICES TypeOfHandOver'
  BY <1>0 DEF TypeOK
<1> USE DEF TypeOfHandOver, TypeOK
<1>1. CASE Start
  BY <1>1 DEF Start, disk, LastLine
<1>2. CASE TakeOver
  BY <1>2 DEF TakeOver
<1>3. CASE NothingToDo
  BY <1>3 DEF NothingToDo, CallbackReturns, disk, work
<1>4. CASE DumpToLdap
  <2>1. translog' \subseteq Ids
    BY <1>4, CurrentEntry DEF DumpToLdap
  <2> QED  BY <1>4, <2>1 DEF DumpToLdap, NextEntry
<1>5. CASE DumpToFiles
  BY SMTT(20), <1>5, CurrentEntry DEF DumpToFiles, NextEntry
<1>6. CASE Unlink
  BY <1>6 DEF Unlink, work
<1>7. CASE DumpToFilesFails
  <2>1. Lines(batch) \subseteq Ids
    BY DEF Lines
  <2> QED  BY <1>7, <2>1 DEF DumpToFilesFails, work
<1>8. CASE LdapServerDown
  BY <1>8, CurrentEntry DEF LdapServerDown, work
<1> QED
  BY <1>1, <1>2, <1>3, <1>4, <1>5, <1>6, <1>7, <1>8

LEMMA LoopType ==
  ASSUME TypeOK, Loop \/ Crash \/ SlapdWrites
  PROVE  TypeOK'
<1>1. TypeOfHandOver'
  <2> USE DEF TypeOK, TypeOfHandOver
  <2>1. CASE Loop
    BY <2>1 DEF Loop, EnterSelect, SelectReturns, ServeDone, CheckCallbacks,
                UnsetCallback, disk, work
  <2>2. CASE Crash
    BY <2>2 DEF Crash, disk
  <2>3. CASE SlapdWrites
    BY <2>3 DEF SlapdWrites, work
  <2> QED  BY <2>1, <2>2, <2>3
<1>2. TypeOfFlags'
  <2>1. callback' \in {TRUE, FALSE, callback}
    BY DEF Loop, EnterSelect, SelectReturns, ServeDone, CheckCallbacks,
           UnsetCallback, Crash, SlapdWrites, flags
  <2>2. eintr' \in {FALSE, eintr, eintr \/ pc = "select"}
    BY DEF Loop, EnterSelect, SelectReturns, ServeDone, CheckCallbacks,
           UnsetCallback, Crash, SlapdWrites, flags
  <2>3. stale' \in {FALSE, stale}
    BY DEF Loop, EnterSelect, SelectReturns, ServeDone, CheckCallbacks,
           UnsetCallback, Crash, SlapdWrites
  <2> QED  BY <2>1, <2>2, <2>3 DEF TypeOK, TypeOfFlags
<1>3. TypeOfClients'
  <2> USE DEF TypeOK, TypeOfClients
  <2>1. CASE Loop /\ UNCHANGED testfds
    BY <2>1 DEF Loop, EnterSelect, SelectReturns, ServeDone, CheckCallbacks,
                UnsetCallback, disk, work, peers
  <2>2. CASE SelectReturns
    <3>1. \A c \in Clients : Events(c) \in Nat
      <4>1. \A c \in Clients : in[c] \in Seq(Requests)
        OBVIOUS
      <4> HIDE DEF TypeOK, TypeOfClients
      <4>2. \A c \in Clients : Len(in[c]) \in Nat
        BY <4>1
      <4> QED  BY <4>2 DEF Events
    <3>2. UNCHANGED testfds \/ testfds' = [c \in Clients |-> Events(c)]
      BY <2>2 DEF SelectReturns
    <3>3. testfds' \in [Clients -> Nat]
      BY <3>1, <3>2
    <3>4. UNCHANGED <<client, link, in, out, speaks, asked, done>>
      BY <2>2 DEF SelectReturns, peers
    <3> QED  BY <3>3, <3>4
  <2>3. CASE Crash
    <3>1. in' \in [Clients -> Seq(Requests)]
      BY <2>3 DEF Crash
    <3> QED  BY <2>3, <3>1 DEF Crash, NoClient
  <2>4. CASE SlapdWrites
    BY <2>4 DEF SlapdWrites, work, peers
  <2>5. Loop => UNCHANGED testfds \/ SelectReturns
    BY DEF Loop, EnterSelect, ServeDone, CheckCallbacks, UnsetCallback, work
  <2> QED  BY <2>1, <2>2, <2>3, <2>4, <2>5
<1> QED  BY <1>1, <1>2, <1>3 DEF TypeOK

LEMMA AllWriteType ==
  ASSUME TypeOK, PosInBatch, pc = "broadcast",
         NEW reached \in SUBSET Clients, AllWrite(reached)
  PROVE  /\ lastId' \in Ids /\ announced' \in Ids /\ stale' \in BOOLEAN
         /\ client' \in [Clients -> [fd : BOOLEAN, version : 0..PROTOCOL_LAST - 1,
                                     notify : BOOLEAN, next_id : Ids]]
         /\ out' \in [Clients -> Seq(Replies)]
<1> DEFINE n == batch[pos + 1]
<1>1. n \in Ids
  BY CurrentEntry
<1>2. lastId' \in Ids /\ announced' \in Ids
  BY <1>1 DEF AllWrite, TypeOK, TypeOfHandOver, Higher
<1>3. PICK failed \in SUBSET reached :
        /\ client' = [c \in Clients |->
                        IF c \in failed THEN NoClient
                        ELSE IF c \in reached
                          THEN [client[c] EXCEPT !.notify = FALSE]
                        ELSE client[c]]
        /\ stale' = (stale \/ failed # {})
  BY DEF AllWrite
<1>4. NoClient \in [fd : BOOLEAN, version : 0..PROTOCOL_LAST - 1,
                   notify : BOOLEAN, next_id : Ids]
  BY DEF NoClient
<1>5. client' \in [Clients -> [fd : BOOLEAN, version : 0..PROTOCOL_LAST - 1,
                              notify : BOOLEAN, next_id : Ids]]
  BY <1>3, <1>4 DEF TypeOK, TypeOfClients
<1>6. \A c \in Clients : Answer(c, n) \in Replies
  BY <1>1, <1>2 DEF Answer, Replies, TypeOK, TypeOfClients
<1>7. out' \in [Clients -> Seq(Replies)]
  BY <1>6 DEF AllWrite, TypeOK, TypeOfClients
<1>8. stale' \in BOOLEAN
  BY <1>3, Zenon
<1> QED  BY <1>2, <1>5, <1>7, <1>8

LEMMA BroadcastType ==
  ASSUME TypeOK, PosInBatch, Broadcast \/ BroadcastHangs
  PROVE  TypeOK'
<1>1. CASE Broadcast
  <2>1. Hit \in SUBSET Clients /\ pc = "broadcast" /\ AllWrite(Hit)
    BY <1>1 DEF Broadcast, Hit
  <2>2. TypeOfClients'
    BY <1>1, <2>1, AllWriteType DEF Broadcast, TypeOK, TypeOfClients, peers
  <2>3. TypeOfHandOver'
    BY <1>1, <2>1, AllWriteType
    DEF Broadcast, CallbackReturns, TypeOK, TypeOfHandOver, disk
  <2>4. TypeOfFlags'
    BY <1>1, <2>1, AllWriteType DEF Broadcast, TypeOK, TypeOfFlags, flags
  <2> QED  BY <2>2, <2>3, <2>4 DEF TypeOK
<1>2. CASE BroadcastHangs
  <2>1. PICK reached \in SUBSET Clients : AllWrite(reached)
    BY <1>2 DEF BroadcastHangs, Hit
  <2>2. pc = "broadcast"
    BY <1>2 DEF BroadcastHangs
  <2>3. TypeOfClients'
    BY <1>2, <2>1, <2>2, AllWriteType
    DEF BroadcastHangs, TypeOK, TypeOfClients, work, peers
  <2>4. TypeOfHandOver'
    BY <1>2, <2>1, <2>2, AllWriteType
    DEF BroadcastHangs, TypeOK, TypeOfHandOver, disk, work
  <2>5. TypeOfFlags'
    BY <1>2, <2>1, <2>2, AllWriteType
    DEF BroadcastHangs, TypeOK, TypeOfFlags, flags
  <2> QED  BY <2>3, <2>4, <2>5 DEF TypeOK
<1> QED  BY <1>1, <1>2

\* What the clients' side does to the flags and to the hand-over: nothing, but
\* for the highest id announced.
LEMMA ClientsLeaveFiles ==
  ASSUME NEW c \in Clients, Serve(c) \/ Listener(c)
  PROVE  UNCHANGED <<written, listener, priv, translog, tf, leftOut, pc, batch,
                     pos, caller, lastId, callback, eintr, stale, crashes>>
<1>1. CASE Serve(c)
  BY <1>1 DEF Serve, Accept, EndOfFile, Handshake, GetDn, WaitId, GetId, disk,
              flags
<1>2. CASE Listener(c)
  BY <1>2 DEF Listener, Connect, HangUp, AskNext, AskAgain, AskId, Receive,
              Request, disk, work, flags
<1> QED  BY <1>1, <1>2

LEMMA ClientsAnnounce ==
  ASSUME TypeOK, NEW c \in Clients, Serve(c) \/ Listener(c)
  PROVE  \/ announced' = announced
         \/ pc = "serve" /\ \E n \in Ids : n <= lastId
                                          /\ announced' = Higher(announced, n)
<1> USE DEF TypeOK, TypeOfHandOver
<1>1. CASE Listener(c)
  BY <1>1 DEF Listener, Connect, HangUp, AskNext, AskAgain, AskId, Receive,
              Request
<1>2. CASE Accept(c) \/ EndOfFile(c)
  BY <1>2 DEF Accept, EndOfFile
<1>3. CASE Handshake(c)
  BY <1>3 DEF Handshake, Close
<1>4. CASE GetDn(c)
  <2>1. pc = "serve" /\ Head(in[c]) \in Requests /\ Head(in[c]).op = "GET_DN"
    BY <1>4 DEF GetDn, Received, Serving, TypeOfClients
  <2>2. Head(in[c]).arg \in Ids
    BY <2>1 DEF Requests
  <2> QED  BY <1>4, <2>1, <2>2 DEF GetDn, Answered, Registered, Close
<1>5. CASE WaitId(c)
  BY <1>5 DEF WaitId, Received, Serving, Answered, Registered
<1>6. CASE GetId(c)
  BY <1>6 DEF GetId, Received, Serving
<1> QED  BY <1>1, <1>2, <1>3, <1>4, <1>5, <1>6 DEF Serve

\* The notifier's side of the connections.
LEMMA ServeType ==
  ASSUME TypeOK, NEW c \in Clients, Serve(c)
  PROVE  TypeOfClients'
<1> DEFINE Client == [fd : BOOLEAN, version : 0..PROTOCOL_LAST - 1,
                      notify : BOOLEAN, next_id : Ids]
<1> USE DEF TypeOK, TypeOfClients
<1>0. NoClient \in Client /\ client[c] \in Client
  BY DEF NoClient
<1>1. CASE Accept(c)
  BY <1>0, <1>1 DEF Accept, NoClient, peers
<1>2. CASE EndOfFile(c)
  BY <1>0, <1>2 DEF EndOfFile, peers
<1>3. ASSUME NEW op, Received(c, op)
      PROVE  /\ in' \in [Clients -> Seq(Requests)]
             /\ Head(in[c]) \in Requests /\ Head(in[c]).op = op
             /\ testfds[c] \in Nat /\ testfds[c] > 0
  <2>1. in[c] \in Seq(Requests) /\ in[c] # <<>>
    BY <1>3 DEF Received
  <2>2. Tail(in[c]) \in Seq(Requests) /\ Head(in[c]) \in Requests
    BY <2>1
  <2> QED  BY <1>3, <2>2 DEF Received, Serving
<1>4. ASSUME Handled(c), testfds[c] \in Nat, testfds[c] > 0
      PROVE  testfds' \in [Clients -> Nat] /\ link' \in [Clients -> BOOLEAN]
  BY <1>4 DEF Handled
<1>5. ASSUME NEW reply \in Replies, Send(c, reply)
      PROVE  out' \in [Clients -> Seq(Replies)]
  BY <1>5 DEF Send
<1>6. ASSUME Close(c)
      PROVE  /\ client' \in [Clients -> Client] /\ link' \in [Clients -> BOOLEAN]
             /\ testfds' \in [Clients -> Nat] /\ out' \in [Clients -> Seq(Replies)]
  BY <1>0, <1>6 DEF Close
<1>7. ASSUME NEW id \in Ids, Registered(c, id)
      PROVE  client' \in [Clients -> Client] /\ out' \in [Clients -> Seq(Replies)]
  BY <1>0, <1>7 DEF Registered
<1>8. ASSUME NEW id \in Ids, NEW answer \in Ids, Answered(c, id, answer)
      PROVE  client' \in [Clients -> Client] /\ out' \in [Clients -> Seq(Replies)]
  <2>1. [op |-> "Result", msg |-> id, id |-> answer] \in Replies
    BY DEF Replies
  <2> QED  BY <1>5, <1>8, <2>1 DEF Answered
<1>9. CASE Handshake(c)
  <2>1. Received(c, "Version") /\ UNCHANGED <<speaks, asked, done>>
    BY <1>9 DEF Handshake
  <2>2. Head(in[c]).arg \in Versions
    <3>1. \A r \in Requests : r.op = "Version" => r.arg \in Versions
      BY DEF Requests
    <3> QED  BY <1>3, <2>1, <3>1
  <2>3. \A offered \in Nat \ {0} : Negotiated(offered) \in 1..PROTOCOL_LAST - 1
    BY DEF Negotiated
  <2>4. PICK version \in 1..PROTOCOL_LAST - 1 :
          \/ Close(c)
          \/ /\ client' = [client EXCEPT ![c].version = version]
             /\ Send(c, [op |-> "Version", id |-> version]) /\ Handled(c)
    <3>1. Negotiated(Head(in[c]).arg) \in 1..PROTOCOL_LAST - 1
      BY <2>2, <2>3
    <3> QED  BY <1>9, <3>1, Zenon DEF Handshake
  <2>5. CASE Close(c)
    BY <1>3, <1>6, <2>1, <2>5
  <2>6. CASE /\ client' = [client EXCEPT ![c].version = version]
             /\ Send(c, [op |-> "Version", id |-> version]) /\ Handled(c)
    <3>0. version \in 0..PROTOCOL_LAST - 1
      OBVIOUS
    <3>1. [client[c] EXCEPT !.version = version] \in Client
      BY <1>0, <3>0
    <3>2. client' \in [Clients -> Client]
      BY <2>6, <3>1
    <3>3. [op |-> "Version", id |-> version] \in Replies
      BY DEF Replies
    <3> QED  BY <1>3, <1>4, <1>5, <2>1, <2>6, <3>2, <3>3
  <2> QED  BY <2>4, <2>5, <2>6
<1>10. CASE GetDn(c)
  <2>1. Received(c, "GET_DN") /\ UNCHANGED <<speaks, asked, done>>
    BY <1>10 DEF GetDn
  <2> DEFINE id == Head(in[c]).arg
  <2>2. id \in Ids
    BY <1>3, <2>1 DEF Requests
  <2>3. Close(c) \/ (Handled(c) /\ (Answered(c, id, id) \/ Registered(c, id)))
    BY <1>10 DEF GetDn, Answered, Registered
  <2>4. CASE Close(c)
    BY <1>3, <1>6, <2>1, <2>4
  <2>5. CASE Handled(c) /\ (Answered(c, id, id) \/ Registered(c, id))
    BY <1>3, <1>4, <1>7, <1>8, <2>1, <2>2, <2>5
  <2> QED  BY <2>3, <2>4, <2>5
<1>11. CASE WaitId(c)
  <2>1. Received(c, "WAIT_ID") /\ UNCHANGED <<speaks, asked, done>>
    BY <1>11 DEF WaitId
  <2> DEFINE id == Head(in[c]).arg
  <2>2. id \in Ids /\ lastId \in Ids
    BY <1>3, <2>1 DEF Requests, TypeOfHandOver
  <2>3. Handled(c) /\ (Answered(c, id, lastId) \/ Registered(c, id))
    BY <1>11 DEF WaitId, Answered, Registered
  <2> QED  BY <1>3, <1>4, <1>7, <1>8, <2>1, <2>2, <2>3
<1>12. CASE GetId(c)
  <2>1. /\ Received(c, "GET_ID") /\ Handled(c)
        /\ UNCHANGED <<client, speaks, asked, done>>
    BY <1>12 DEF GetId
  <2>2. [op |-> "GET_ID", id |-> lastId] \in Replies
    BY DEF Replies, TypeOfHandOver
  <2> QED  BY <1>3, <1>4, <1>5, <1>12, <2>1, <2>2 DEF GetId
<1> QED  BY <1>1, <1>2, <1>9, <1>10, <1>11, <1>12 DEF Serve

\* The listeners' side of the connections.
LEMMA ListenerType ==
  ASSUME TypeOK, NEW c \in Clients, Listener(c)
  PROVE  TypeOfClients'
<1> USE DEF TypeOK, TypeOfClients
<1>1. CASE Connect(c)
  <2>1. PICK v \in Versions :
          in' = [in EXCEPT ![c] = <<[op |-> "Version", arg |-> v]>>]
    BY <1>1 DEF Connect
  <2>2. <<[op |-> "Version", arg |-> v]>> \in Seq(Requests)
    BY DEF Requests
  <2> QED  BY <1>1, <2>1, <2>2 DEF Connect, work
<1>2. CASE HangUp(c)
  BY <1>2 DEF HangUp, work
<1>3. ASSUME NEW op \in {"WAIT_ID", "GET_DN", "GET_ID"}, NEW id \in Ids,
             Request(c, op, id), asked' \in [Clients -> Ids]
      PROVE  TypeOfClients'
  <2>1. [op |-> op, arg |-> id] \in Requests
    BY DEF Requests
  <2>2. in' \in [Clients -> Seq(Requests)]
    BY <1>3, <2>1 DEF Request
  <2> QED  BY <1>3, <2>2 DEF Request, work
<1>4. CASE AskNext(c)
  <2>1. done[c] + 1 \in Ids
    BY <1>4 DEF AskNext
  <2> QED  BY <1>3, <1>4, <2>1 DEF AskNext, WaitOp
<1>5. CASE AskAgain(c)
  BY <1>3, <1>5 DEF AskAgain, WaitOp
<1>6. CASE AskId(c)
  BY <1>3, <1>6 DEF AskId
<1>7. CASE Receive(c)
  <2>1. Head(out[c]) \in Replies /\ Tail(out[c]) \in Seq(Replies)
    BY <1>7 DEF Receive
  <2>2. \A r \in Replies : r.op = "Version" => r.id \in 1..PROTOCOL_LAST - 1
    BY DEF Replies
  <2>3. speaks' \in [Clients -> 0..PROTOCOL_LAST - 1]
    BY <1>7, <2>1, <2>2 DEF Receive
  <2>4. out' \in [Clients -> Seq(Replies)]
    BY <1>7, <2>1 DEF Receive
  <2>5. done' \in [Clients -> Ids] /\ asked' \in [Clients -> Ids]
    BY <1>7 DEF Receive
  <2> QED  BY <1>7, <2>3, <2>4, <2>5 DEF Receive, work
<1> QED  BY <1>1, <1>2, <1>4, <1>5, <1>6, <1>7 DEF Listener

LEMMA ClientsType ==
  ASSUME TypeOK, NEW c \in Clients, Serve(c) \/ Listener(c)
  PROVE  TypeOK'
<1>1. TypeOfClients'
  BY ServeType, ListenerType
<1>2. announced' \in Ids
  BY ClientsAnnounce DEF TypeOK, TypeOfHandOver, Higher
<1>3. TypeOfHandOver'
  BY <1>2, ClientsLeaveFiles DEF TypeOK, TypeOfHandOver
<1>4. TypeOfFlags'
  BY ClientsLeaveFiles DEF TypeOK, TypeOfFlags
<1> QED  BY <1>1, <1>3, <1>4 DEF TypeOK

LEMMA NextType == ASSUME TypeOK, PosInBatch, [Next]_vars PROVE TypeOK'
<1>1. CASE Next
  BY <1>1, HandOverType, LoopType, BroadcastType, ClientsType DEF Next, Callback
<1>2. CASE UNCHANGED vars
  <2>1. TypeOfHandOver'
    BY <1>2 DEF vars, disk, work, flags, peers, TypeOK, TypeOfHandOver
  <2>2. TypeOfFlags'
    BY <1>2 DEF vars, disk, work, flags, peers, TypeOK, TypeOfFlags
  <2>3. TypeOfClients'
    BY <1>2 DEF vars, disk, work, flags, peers, TypeOK, TypeOfClients
  <2> QED  BY <2>1, <2>2, <2>3 DEF TypeOK
<1> QED  BY <1>1, <1>2

LEMMA NextPos == ASSUME TypeOK, PosInBatch, [Next]_vars PROVE PosInBatch'
<1> USE DEF PosInBatch, TypeOK, TypeOfHandOver
<1>1. CASE Start \/ NothingToDo \/ Loop \/ Crash
  <2>1. pc' \notin {"ldap", "files", "unlink", "broadcast"}
    BY <1>1 DEF Start, NothingToDo, CallbackReturns, Loop, EnterSelect,
       SelectReturns, ServeDone, CheckCallbacks, UnsetCallback, Crash
  <2> QED  BY <2>1
<1>2. CASE TakeOver
  BY <1>2 DEF TakeOver
<1>3. CASE DumpToLdap \/ DumpToFiles
  BY <1>3, CurrentEntry DEF DumpToLdap, DumpToFiles, NextEntry
<1>4. CASE DumpToFilesFails \/ Unlink \/ LdapServerDown
  BY <1>4 DEF DumpToFilesFails, Unlink, LdapServerDown, work
<1>5. CASE Broadcast
  BY <1>5, CurrentEntry DEF Broadcast, CallbackReturns
<1>6. CASE BroadcastHangs
  BY <1>6 DEF BroadcastHangs
<1>7. CASE SlapdWrites
  BY <1>7 DEF SlapdWrites, work
<1>8. CASE \E c \in Clients : Serve(c) \/ Listener(c)
  BY <1>8, ClientsLeaveFiles
<1>9. CASE UNCHANGED vars
  BY <1>9 DEF vars, work
<1> QED
  BY <1>1, <1>2, <1>3, <1>4, <1>5, <1>6, <1>7, <1>8, <1>9 DEF Next, Callback

\* Every variable keeps to its type, whatever clients, slapd, crashes and failures
\* to open the transaction file do.
THEOREM TypeCorrect == Spec => []TypeOK
<1>1. Init => TypeOK /\ PosInBatch
  BY InitType DEF Init, PosInBatch
<1>2. TypeOK /\ PosInBatch /\ [Next]_vars => TypeOK' /\ PosInBatch'
  BY NextType, NextPos
<1> QED  BY <1>1, <1>2, PTL DEF Spec

----------------------------------------------------------------------------
(* The inductive invariant *)

LEMMA InitInv == Init => Inv
<1> SUFFICES ASSUME Init PROVE Inv
  OBVIOUS
<1>1. Base = 0 /\ Lines(tf) = {} /\ LastLine(tf) = 0
  <2>1. written = 0 /\ listener = <<>> /\ priv = <<>> /\ tf = <<>>
    BY DEF Init
  <2>2. Base = 0
    <3>1. written = 0 /\ Len(listener) = 0 /\ Len(priv) = 0
      BY <2>1
    <3> QED  BY <3>1 DEF Base
  <2>3. Lines(tf) = {}
    BY <2>1 DEF Lines
  <2> QED  BY <2>1, <2>2, <2>3 DEF LastLine
<1>2. PosInBatch /\ BatchIsPriv /\ BroadcastLast /\ LastIdIsBase
  BY DEF Init, PosInBatch, BatchIsPriv, BroadcastLast, LastIdIsBase
<1>3. FilesSplit /\ AnnouncedBelowBase
  BY <1>1 DEF Init, FilesSplit, AnnouncedBelowBase
<1>4. LdapFirst /\ FilesNext
  BY <1>1 DEF Init, LdapFirst, FilesNext
<1>5. LogOrdered
  BY DEF Init, LogOrdered
<1> QED  BY <1>2, <1>3, <1>4, <1>5 DEF Inv

\* A step that leaves the files and the batch alone, and announces nothing
\* above Base, keeps everything but the facts about pc.
LEMMA FilesUntouched ==
  ASSUME TypeOK, Inv, UNCHANGED <<written, listener, priv, translog, tf, leftOut>>
  PROVE  /\ FilesSplit' /\ LogOrdered' /\ Base' = Base
         /\ (Lines(tf) \cup leftOut \subseteq translog)'
         /\ (LastLine(tf) <= Base + Len(priv))'
         /\ (priv = <<>> /\ leftOut = {} => LastLine(tf) = Base)'
  BY DEF Inv, FilesSplit, LogOrdered, Base, LdapFirst, FilesNext, Lines, LastLine

LEMMA ClientsInv ==
  ASSUME TypeOK, Inv, NEW c \in Clients, Serve(c) \/ Listener(c)
  PROVE  Inv'
<1>1. UNCHANGED <<written, listener, priv, translog, tf, leftOut, pc, batch, pos,
                  lastId>>
  BY ClientsLeaveFiles
<1>2. AnnouncedBelowBase'
  <2>1. Base' = Base /\ Base \in Int /\ announced \in Int /\ lastId \in Int
    BY <1>1 DEF Base, TypeOK, TypeOfHandOver
  <2>2. pc = "serve" => lastId <= Base
    BY DEF Inv, LastIdIsBase
  <2>3. announced <= Base
    BY DEF Inv, AnnouncedBelowBase
  <2> QED  BY <2>1, <2>2, <2>3, ClientsAnnounce DEF AnnouncedBelowBase, Higher
<1>3. PosInBatch' /\ BatchIsPriv'
  BY <1>1 DEF Inv, PosInBatch, BatchIsPriv
<1>4. LdapFirst' /\ FilesNext'
  BY <1>1 DEF Inv, LdapFirst, FilesNext, Lines, LastLine, Base
<1>5. BroadcastLast' /\ LastIdIsBase'
  BY <1>1 DEF Inv, BroadcastLast, LastIdIsBase, Base
<1> QED  BY <1>1, <1>2, <1>3, <1>4, <1>5, FilesUntouched DEF Inv

\* Of the ids before an entry of the batch all are in the transaction file, or
\* left out of it, once those of its predecessors in the batch are.
LEMMA Predecessors ==
  ASSUME TypeOK, Inv, pc = "files", NEW n \in 1..(batch[pos + 1] - 1)
  PROVE  n \in Lines(tf) \cup leftOut
<1>1. /\ pos \in Nat /\ Base \in Nat /\ pos + 1 \in DOMAIN priv /\ batch = priv
  BY CurrentEntry DEF Inv, BatchIsPriv, FilesSplit, Base, TypeOK, TypeOfHandOver
<1>2. \A i \in DOMAIN priv : priv[i] = Base + i
  BY DEF Inv, FilesSplit
<1>3. n \in 1..Base + pos
  BY <1>1, <1>2
<1>4. CASE n <= Base
  BY <1>1, <1>3, <1>4 DEF Inv, FilesSplit
<1>5. CASE n > Base
  <2>1. n - Base \in 1..pos /\ n - Base \in DOMAIN priv
    BY <1>1, <1>3, <1>5 DEF TypeOK, TypeOfHandOver
  <2>2. batch[n - Base] = n
    BY <1>1, <1>2, <1>3, <2>1
  <2> QED  BY <2>1, <2>2 DEF Inv, FilesNext
<1> QED  BY <1>1, <1>3, <1>4, <1>5

LEMMA LinesOfAppend ==
  ASSUME NEW S, NEW file \in Seq(S), NEW e \in S
  PROVE  /\ Lines(Append(file, e)) = Lines(file) \cup {e}
         /\ LastLine(Append(file, e)) = e
<1> DEFINE new == Append(file, e)
<1>1. /\ Len(new) = Len(file) + 1 /\ new[Len(file) + 1] = e /\ new # <<>>
      /\ \A i \in 1..Len(file) : new[i] = file[i]
      /\ DOMAIN new = 1..Len(file) + 1 /\ DOMAIN file = 1..Len(file)
      /\ Len(file) \in Nat
  OBVIOUS
<1>2. LastLine(new) = e
  BY <1>1 DEF LastLine
<1>3. Lines(new) \subseteq Lines(file) \cup {e}
  BY <1>1 DEF Lines
<1>4. Lines(file) \cup {e} \subseteq Lines(new)
  BY <1>1 DEF Lines
<1> QED  BY <1>2, <1>3, <1>4

LEMMA DumpToFilesInv == ASSUME TypeOK, Inv, DumpToFiles PROVE Inv'
<1> DEFINE e == batch[pos + 1]
<1>0. /\ pc = "files" /\ pos + 1 \in DOMAIN batch /\ e \in Ids /\ pos \in Nat
      /\ tf \in Seq(Ids) /\ batch \in Seq(Ids) /\ batch = priv
      /\ Lines(batch) \subseteq translog
  BY CurrentEntry
  DEF DumpToFiles, Inv, BatchIsPriv, LdapFirst, TypeOK, TypeOfHandOver
<1>1. /\ tf' = Append(tf, e)
      /\ UNCHANGED <<written, listener, priv, translog, leftOut, batch, lastId,
                     announced>>
      /\ IF pos + 1 = Len(batch) THEN pos' = 0 /\ pc' = "unlink"
                                 ELSE pos' = pos + 1 /\ pc' = "files"
  BY <1>0 DEF DumpToFiles, NextEntry
<1>2. Lines(tf') = Lines(tf) \cup {e} /\ LastLine(tf') = e /\ Base' = Base
  BY <1>0, <1>1, LinesOfAppend DEF Base
<1>3. PosInBatch' /\ BatchIsPriv' /\ BroadcastLast' /\ LastIdIsBase'
  BY <1>0, <1>1 DEF PosInBatch, BatchIsPriv, BroadcastLast, LastIdIsBase
<1>4. FilesSplit' /\ AnnouncedBelowBase'
  BY <1>1, <1>2 DEF Inv, FilesSplit, AnnouncedBelowBase, Lines
<1>5. e \in translog
  BY <1>0 DEF Lines
<1>6. LdapFirst'
  BY <1>0, <1>1, <1>2, <1>5 DEF Inv, LdapFirst, Lines
<1>7. FilesNext'
  <2>1. priv # <<>>
    BY <1>0
  <2>2. \A i \in 1..pos + 1 : batch[i] \in Lines(tf')
    BY <1>0, <1>2 DEF Inv, FilesNext
  <2>3. pos + 1 = Len(batch) => Lines(batch) \subseteq Lines(tf')
                                 /\ LastLine(tf') = LastLine(batch)
    <3> SUFFICES ASSUME pos + 1 = Len(batch)
                 PROVE  Lines(batch) \subseteq Lines(tf') /\ e = LastLine(batch)
      BY <1>2
    <3>1. DOMAIN batch = 1..pos + 1 /\ batch # <<>>
      BY <1>0
    <3>2. Lines(batch) \subseteq Lines(tf')
      BY <2>2, <3>1 DEF Lines
    <3> QED  BY <3>1, <3>2 DEF LastLine
  <2>4. (pc = "files" => \A i \in 1..pos : batch[i] \in Lines(tf))'
    BY <1>1, <2>2
  <2>5. (pc = "unlink" => /\ Lines(batch) \subseteq Lines(tf) \cup leftOut
                          /\ leftOut = {} => LastLine(tf) = LastLine(batch))'
    BY <1>1, <2>3 DEF Lines, LastLine
  <2>6. (LastLine(tf) <= Base + Len(priv))'
    BY <1>0, <1>1, <1>2 DEF Inv, FilesSplit, TypeOK, TypeOfHandOver, Base
  <2>7. (priv # <<>>)'
    BY <1>1, <2>1
  <2> QED  BY <2>4, <2>5, <2>6, <2>7 DEF FilesNext
<1>8. LogOrdered'
  <2> SUFFICES ASSUME NEW j \in DOMAIN tf', NEW n \in 1..(tf'[j] - 1)
               PROVE  n \in leftOut \/ \E k \in 1..(j - 1) : tf'[k] = n
    BY <1>1 DEF LogOrdered
  <2>0. /\ DOMAIN tf' = 1..Len(tf) + 1 /\ DOMAIN tf = 1..Len(tf) /\ Len(tf) \in Nat
        /\ \A k \in 1..Len(tf) : tf'[k] = tf[k]
        /\ tf'[Len(tf) + 1] = e
    BY <1>0, <1>1
  <2>1. CASE j = Len(tf) + 1
    <3>1. n \in Lines(tf) \cup leftOut
      BY <1>0, <2>0, <2>1, Predecessors
    <3> SUFFICES ASSUME n \notin leftOut PROVE \E k \in 1..(j - 1) : tf'[k] = n
      OBVIOUS
    <3>2. PICK k \in 1..Len(tf) : tf[k] = n
      BY <2>0, <3>1 DEF Lines
    <3> QED  BY <2>0, <2>1, <3>2
  <2>2. CASE j \in DOMAIN tf
    <3>1. n \in 1..(tf[j] - 1)
      BY <2>0, <2>2
    <3> SUFFICES ASSUME n \notin leftOut PROVE \E k \in 1..(j - 1) : tf'[k] = n
      OBVIOUS
    <3>2. PICK k \in 1..(j - 1) : tf[k] = n
      BY <2>2, <3>1 DEF Inv, LogOrdered
    <3> QED  BY <2>0, <2>2, <3>2
  <2> QED  BY <2>0, <2>1, <2>2
<1> QED  BY <1>3, <1>4, <1>6, <1>7, <1>8 DEF Inv

LEMMA DumpToFilesFailsInv == ASSUME TypeOK, Inv, DumpToFilesFails PROVE Inv'
<1>0. /\ pc = "files" /\ pc' = "unlink" /\ batch = priv /\ priv # <<>>
      /\ leftOut' = leftOut \cup Lines(batch) /\ Lines(batch) \subseteq translog
      /\ UNCHANGED <<written, listener, priv, translog, tf, batch, pos, lastId,
                     announced>>
  BY CurrentEntry
  DEF DumpToFilesFails, work, Inv, BatchIsPriv, LdapFirst, TypeOK, TypeOfHandOver
<1>1. Base' = Base /\ leftOut' # {}
  <2>1. 1 \in DOMAIN batch
    BY <1>0 DEF TypeOK, TypeOfHandOver
  <2> QED  BY <1>0, <2>1 DEF Base, Lines
<1>2. PosInBatch' /\ BatchIsPriv' /\ BroadcastLast' /\ LastIdIsBase'
  BY <1>0 DEF Inv, PosInBatch, BatchIsPriv, BroadcastLast, LastIdIsBase
<1>3. FilesSplit' /\ AnnouncedBelowBase'
  BY <1>0, <1>1 DEF Inv, FilesSplit, AnnouncedBelowBase, Lines
<1>4. LdapFirst' /\ FilesNext'
  BY <1>0, <1>1 DEF Inv, LdapFirst, FilesNext, Lines, LastLine
<1>5. LogOrdered'
  BY <1>0 DEF Inv, LogOrdered
<1> QED  BY <1>2, <1>3, <1>4, <1>5 DEF Inv

LEMMA TakeOverInv == ASSUME TypeOK, Inv, TakeOver PROVE Inv'
<1>0. /\ pc = "take" /\ pc' = "ldap" /\ pos' = 0
      /\ UNCHANGED <<written, translog, tf, leftOut, announced>>
      /\ written \in Nat /\ listener \in Seq(Ids) /\ priv \in Seq(Ids)
  BY DEF TakeOver, TypeOK, TypeOfHandOver
<1>1. batch' = priv' /\ priv' # <<>> /\ Base' = Base /\ priv' \in Seq(Ids)
      /\ FilesSplit'
  <2>1. CASE priv # <<>>
    BY <1>0, <2>1 DEF TakeOver, Inv, FilesSplit, Base, Lines
  <2>2. CASE priv = <<>>
    <3>1. /\ priv' = listener /\ listener' = <<>> /\ batch' = listener
          /\ listener # <<>>
      BY <2>2 DEF TakeOver
    <3>2. Base' = Base
      BY <1>0, <2>2, <3>1 DEF Base
    <3>3. \A i \in DOMAIN priv' : priv'[i] = Base + i
      BY <1>0, <2>2, <3>1 DEF Inv, FilesSplit, Base
    <3> QED  BY <1>0, <3>1, <3>2, <3>3 DEF Inv, FilesSplit, Lines
  <2> QED  BY <2>1, <2>2
<1>2. PosInBatch' /\ BatchIsPriv' /\ BroadcastLast' /\ LastIdIsBase'
  BY <1>0, <1>1 DEF PosInBatch, BatchIsPriv, BroadcastLast, LastIdIsBase
<1>3. LdapFirst' /\ FilesNext'
  <2>1. Len(priv) <= Len(priv') /\ Len(priv) \in Nat /\ Len(priv') \in Nat
    BY <1>0, <1>1 DEF TakeOver
  <2>2. LastLine(tf) \in Int /\ Base \in Int
    BY <1>0 DEF LastLine, Base, TypeOK, TypeOfHandOver
  <2>3. (LastLine(tf) <= Base + Len(priv))'
    BY <1>0, <1>1, <2>1, <2>2 DEF Inv, FilesNext, LastLine
  <2>4. LdapFirst'
    BY <1>0 DEF Inv, LdapFirst, Lines
  <2> QED  BY <1>0, <1>1, <2>3, <2>4 DEF FilesNext
<1>4. AnnouncedBelowBase' /\ LogOrdered'
  BY <1>0, <1>1 DEF Inv, AnnouncedBelowBase, LogOrdered
<1> QED  BY <1>1, <1>2, <1>3, <1>4 DEF Inv

LEMMA DumpToLdapInv ==
  ASSUME TypeOK, Inv, DumpToLdap \/ LdapServerDown
  PROVE  Inv'
<1>0. /\ pc = "ldap" /\ pos + 1 \in DOMAIN batch /\ pos \in Nat
      /\ batch \in Seq(Ids) /\ batch = priv
      /\ translog' = translog \cup {batch[pos + 1]}
      /\ UNCHANGED <<written, listener, priv, tf, leftOut, batch, lastId,
                     announced>>
      /\ \/ UNCHANGED <<pc, pos>>
         \/ pos + 1 = Len(batch) /\ pos' = 0 /\ pc' = "files"
         \/ pos + 1 # Len(batch) /\ pos' = pos + 1 /\ pc' = "ldap"
  BY CurrentEntry DEF DumpToLdap, LdapServerDown, NextEntry, work, Inv,
     BatchIsPriv, TypeOK, TypeOfHandOver
<1>1. Base' = Base
  BY <1>0 DEF Base
<1>2. PosInBatch' /\ BatchIsPriv' /\ BroadcastLast' /\ LastIdIsBase'
  BY <1>0 DEF Inv, PosInBatch, BatchIsPriv, BroadcastLast, LastIdIsBase
<1>3. FilesSplit' /\ AnnouncedBelowBase' /\ LogOrdered'
  BY <1>0, <1>1 DEF Inv, FilesSplit, AnnouncedBelowBase, LogOrdered, Lines
<1>4. LdapFirst'
  <2>1. \A i \in 1..pos + 1 : batch[i] \in translog'
    BY <1>0 DEF Inv, LdapFirst
  <2>2. Lines(tf') \cup leftOut' \subseteq translog'
    BY <1>0 DEF Inv, LdapFirst, Lines
  <2>3. pos + 1 = Len(batch) => Lines(batch) \subseteq translog'
    BY <1>0, <2>1 DEF Lines
  <2>4. (pc = "ldap" => \A i \in 1..pos : batch[i] \in translog)'
    <3>1. CASE UNCHANGED <<pc, pos>>
      BY <1>0, <2>1, <3>1
    <3>2. CASE ~UNCHANGED <<pc, pos>>
      BY <1>0, <2>1, <3>2
    <3> QED  BY <3>1, <3>2
  <2>5. (pc = "files" => Lines(batch) \subseteq translog)'
    <3>1. Lines(batch') = Lines(batch)
      BY <1>0 DEF Lines
    <3> QED  BY <1>0, <2>3, <3>1
  <2> QED  BY <2>2, <2>4, <2>5 DEF LdapFirst
<1>5. FilesNext'
  <2>1. priv # <<>>
    BY <1>0
  <2>2. (LastLine(tf) <= Base + Len(priv))'
    BY <1>0, <1>1 DEF Inv, FilesNext, LastLine
  <2> QED  BY <1>0, <2>1, <2>2 DEF FilesNext
<1> QED  BY <1>2, <1>3, <1>4, <1>5 DEF Inv

LEMMA UnlinkInv == ASSUME TypeOK, Inv, Unlink PROVE Inv'
<1>0. /\ pc = "unlink" /\ pc' = "broadcast" /\ priv' = <<>> /\ batch = priv
      /\ UNCHANGED <<written, listener, translog, tf, leftOut, batch, pos, lastId,
                     announced>>
      /\ priv \in Seq(Ids) /\ listener \in Seq(Ids) /\ written \in Nat
      /\ priv # <<>> /\ Base \in Nat /\ announced \in Nat /\ pos \in Nat
  BY CurrentEntry
  DEF Unlink, work, Inv, BatchIsPriv, FilesSplit, Base, TypeOK, TypeOfHandOver
<1>1. Base' = Base + Len(priv) /\ Len(priv) \in Nat
  BY <1>0 DEF Base
<1>2. \A i \in DOMAIN priv : priv[i] = Base + i
  BY DEF Inv, FilesSplit
<1>3. FilesSplit'
  <2>1. \A i \in DOMAIN listener : listener[i] = Base' + i
    BY <1>0, <1>1 DEF Inv, FilesSplit
  <2>2. ASSUME NEW n \in 1..Base + Len(priv) PROVE n \in Lines(tf) \cup leftOut
    <3>1. CASE n <= Base
      BY <1>0, <3>1 DEF Inv, FilesSplit
    <3>2. CASE n > Base
      <4>1. n - Base \in DOMAIN priv
        BY <1>0, <1>1, <3>2
      <4>2. priv[n - Base] = n
        BY <1>0, <1>2, <4>1
      <4> QED  BY <1>0, <4>1, <4>2 DEF Inv, FilesNext, Lines
    <3> QED  BY <1>0, <1>1, <3>1, <3>2
  <2>3. 1..Base' \subseteq Lines(tf') \cup leftOut'
    BY <1>0, <1>1, <2>2 DEF Lines
  <2> QED  BY <1>0, <1>1, <2>1, <2>3 DEF FilesSplit
<1>4. PosInBatch' /\ BatchIsPriv' /\ LastIdIsBase' /\ LogOrdered'
  BY <1>0 DEF Inv, PosInBatch, BatchIsPriv, LastIdIsBase, LogOrdered
<1>5. AnnouncedBelowBase'
  BY <1>0, <1>1 DEF Inv, AnnouncedBelowBase
<1>6. LdapFirst'
  BY <1>0 DEF Inv, LdapFirst, Lines
<1>7. FilesNext'
  <2>1. leftOut = {} => LastLine(tf') = LastLine(priv)
    BY <1>0 DEF Inv, FilesNext, LastLine
  <2>2. LastLine(priv) = Base + Len(priv)
    BY <1>0, <1>1, <1>2 DEF LastLine
  <2>3. LastLine(tf') <= Base'
    BY <1>0, <1>1 DEF Inv, FilesNext, LastLine
  <2> QED  BY <1>0, <1>1, <2>1, <2>2, <2>3 DEF FilesNext
<1>8. BroadcastLast'
  <2>1. \A i \in DOMAIN batch : batch[i] = Base' - Len(batch) + i
    BY <1>0, <1>1, <1>2
  <2> QED  BY <1>0, <2>1 DEF BroadcastLast
<1> QED  BY <1>3, <1>4, <1>5, <1>6, <1>7, <1>8 DEF Inv

LEMMA BroadcastInv ==
  ASSUME TypeOK, Inv, Broadcast \/ BroadcastHangs
  PROVE  Inv'
<1>1. PICK reached \in SUBSET Clients : AllWrite(reached)
  BY DEF Broadcast, BroadcastHangs, Hit
<1>0. /\ pc = "broadcast" /\ pos + 1 \in DOMAIN batch /\ pos \in Nat
      /\ batch \in Seq(Ids) /\ batch[pos + 1] \in Ids /\ priv = <<>>
      /\ UNCHANGED <<written, listener, priv, translog, tf, leftOut, batch>>
      /\ \/ pc' = "hung"
         \/ pos + 1 = Len(batch) /\ pos' = 0 /\ pc' \in {"loop", "unset"}
         \/ pos + 1 # Len(batch) /\ pos' = pos + 1 /\ pc' = "broadcast"
  BY CurrentEntry DEF Broadcast, BroadcastHangs, CallbackReturns, disk, work,
     Inv, BroadcastLast, TypeOK, TypeOfHandOver
<1>2. /\ lastId' = batch[pos + 1]
      /\ announced' \in {announced, Higher(announced, batch[pos + 1])}
  BY <1>1 DEF AllWrite
<1>3. Base' = Base /\ Base \in Nat
  BY <1>0 DEF Base, Inv, FilesSplit, TypeOK, TypeOfHandOver
<1>4. batch[pos + 1] = Base - Len(batch) + pos + 1
  BY <1>0, <1>3 DEF Inv, BroadcastLast
<1>5. PosInBatch' /\ BatchIsPriv'
  BY <1>0 DEF PosInBatch, BatchIsPriv
<1>6. BroadcastLast'
  BY <1>0, <1>3 DEF Inv, BroadcastLast
<1>7. LastIdIsBase'
  BY <1>0, <1>2, <1>3, <1>4 DEF LastIdIsBase
<1>8. AnnouncedBelowBase'
  <2>1. batch[pos + 1] <= Base
    BY <1>0, <1>3, <1>4
  <2> QED  BY <1>2, <1>3, <2>1 DEF Inv, AnnouncedBelowBase, Higher
<1>9. LdapFirst' /\ FilesNext'
  BY <1>0, FilesUntouched DEF LdapFirst, FilesNext
<1> QED  BY <1>0, <1>5, <1>6, <1>7, <1>8, <1>9, FilesUntouched DEF Inv

LEMMA SlapdWritesInv == ASSUME TypeOK, Inv, SlapdWrites PROVE Inv'
<1>0. /\ written \in Nat /\ written' = written + 1
      /\ listener \in Seq(Nat) /\ listener' = Append(listener, written + 1)
      /\ priv \in Seq(Ids)
      /\ UNCHANGED <<priv, translog, tf, leftOut, pc, batch, pos, lastId,
                     announced>>
  BY DEF SlapdWrites, work, TypeOK, TypeOfHandOver
<1>1. /\ Base' = Base /\ Base \in Nat /\ Len(priv) \in Nat
      /\ Base + Len(priv) + Len(listener') = written + 1
      /\ Len(listener') = Len(listener) + 1
  BY <1>0 DEF Base, Inv, FilesSplit
<1>2. \A i \in DOMAIN listener' : listener'[i] = Base + Len(priv) + i
  <2> SUFFICES ASSUME NEW i \in DOMAIN listener'
               PROVE  listener'[i] = Base + Len(priv) + i
    OBVIOUS
  <2>1. CASE i \in DOMAIN listener
    BY <1>0, <2>1 DEF Inv, FilesSplit
  <2>2. CASE i = Len(listener')
    BY <1>0, <1>1, <2>2
  <2> QED  BY <1>0, <1>1, <2>1, <2>2
<1>3. FilesSplit'
  BY <1>0, <1>1, <1>2 DEF Inv, FilesSplit, Lines
<1>6. AnnouncedBelowBase' /\ LogOrdered'
  BY <1>0, <1>1 DEF Inv, AnnouncedBelowBase, LogOrdered
<1>4. PosInBatch' /\ BatchIsPriv' /\ BroadcastLast' /\ LastIdIsBase'
  BY <1>0, <1>1 DEF Inv, PosInBatch, BatchIsPriv, BroadcastLast, LastIdIsBase
<1>5. LdapFirst' /\ FilesNext'
  BY <1>0, <1>1 DEF Inv, LdapFirst, FilesNext, Lines, LastLine
<1> QED  BY <1>3, <1>4, <1>5, <1>6 DEF Inv

LEMMA LoopInv ==
  ASSUME TypeOK, Inv, Start \/ NothingToDo \/ Loop \/ Crash
  PROVE  Inv'
<1>0. UNCHANGED <<written, listener, priv, translog, tf, leftOut, announced>>
  BY DEF Start, NothingToDo, Loop, EnterSelect, SelectReturns, ServeDone,
         CheckCallbacks, UnsetCallback, Crash, disk
<1>1. /\ pc' \in {"take", "down", "unset", "loop", "select", "serve", "check"}
      /\ pc' \in {"unset", "loop", "select", "serve", "check"} => priv = <<>>
      /\ LastIdIsBase'
  <2>1. CASE Start
    <3>1. LastLine(tf) <= Base + Len(priv) /\ Base \in Int /\ Base' = Base
      BY <1>0, FilesUntouched DEF Inv, FilesNext, Base, TypeOK, TypeOfHandOver
    <3>2. priv = <<>> => Len(priv) = 0
      OBVIOUS
    <3>3. LastLine(tf) \in Int
      BY DEF LastLine, TypeOK, TypeOfHandOver
    <3>4. priv = <<>> => lastId' <= Base' /\ (leftOut = {} => lastId' = Base')
      BY <2>1, <3>1, <3>2, <3>3 DEF Start, Inv, FilesNext
    <3> QED  BY <1>0, <2>1, <3>4 DEF Start, LastIdIsBase
  <2>2. CASE NothingToDo
    BY <1>0, <2>2, FilesUntouched
    DEF NothingToDo, CallbackReturns, LastIdIsBase, Inv
  <2>3. CASE Loop
    BY <1>0, <2>3, FilesUntouched
    DEF Loop, EnterSelect, SelectReturns, ServeDone, CheckCallbacks,
        UnsetCallback, LastIdIsBase, BroadcastLast, Inv
  <2>4. CASE Crash
    BY <2>4 DEF Crash, LastIdIsBase
  <2> QED  BY <2>1, <2>2, <2>3, <2>4
<1>2. PosInBatch' /\ BatchIsPriv' /\ BroadcastLast'
  BY <1>0, <1>1 DEF PosInBatch, BatchIsPriv, BroadcastLast
<1>3. LdapFirst' /\ FilesNext'
  BY <1>0, <1>1, FilesUntouched DEF LdapFirst, FilesNext
<1>4. AnnouncedBelowBase'
  BY <1>0, FilesUntouched DEF Inv, AnnouncedBelowBase
<1> QED  BY <1>0, <1>1, <1>2, <1>3, <1>4, FilesUntouched DEF Inv

LEMMA NextInv == ASSUME TypeOK, Inv, [Next]_vars PROVE Inv'
<1>1. CASE Next
  BY <1>1, LoopInv, TakeOverInv, DumpToLdapInv, DumpToFilesInv,
     DumpToFilesFailsInv, UnlinkInv, BroadcastInv, SlapdWritesInv, ClientsInv
  DEF Next, Callback
<1>2. CASE UNCHANGED vars
  <2>1. UNCHANGED <<written, listener, priv, translog, tf, leftOut, pc, batch, pos,
                    lastId, announced>>
    BY <1>2 DEF vars, disk, work
  <2>2. PosInBatch' /\ BatchIsPriv' /\ AnnouncedBelowBase'
    BY <2>1, FilesUntouched DEF Inv, PosInBatch, BatchIsPriv, AnnouncedBelowBase
  <2>3. LdapFirst' /\ FilesNext'
    BY <2>1 DEF Inv, LdapFirst, FilesNext, Lines, LastLine, Base
  <2>4. BroadcastLast' /\ LastIdIsBase'
    BY <2>1 DEF Inv, BroadcastLast, LastIdIsBase, Base
  <2> QED  BY <2>1, <2>2, <2>3, <2>4, FilesUntouched DEF Inv
<1> QED  BY <1>1, <1>2

\* The inductive invariant holds throughout every behaviour of the notifier.
THEOREM Invariance == Spec => []IInv
<1>1. Init => IInv
  BY InitType, InitInv DEF IInv
<1>2. IInv /\ [Next]_vars => IInv'
  BY NextType, NextInv DEF IInv, Inv
<1> QED  BY <1>1, <1>2, PTL DEF Spec

----------------------------------------------------------------------------
(* The properties *)

\* A transaction slapd wrote is in one of the files "listener", "listener.priv"
\* and "transaction" unless the last could not be opened for it: otherwise
\* notify_listener_change_callback unlinks listener.priv only when the transaction
\* file has all of it.
THEOREM NothingLost == Spec => []NoTransactionLost
<1>1. IInv => NoTransactionLost
  <2> SUFFICES ASSUME TypeOK, Inv, NEW n \in 1..written
               PROVE  n \in Lines(listener) \cup Lines(priv) \cup Lines(tf)
                            \cup leftOut
    BY DEF IInv, NoTransactionLost
  <2>0. /\ written \in Nat /\ listener \in Seq(Ids) /\ priv \in Seq(Ids)
        /\ Len(listener) \in Nat /\ Len(priv) \in Nat /\ Base \in Nat
        /\ written = Base + Len(priv) + Len(listener)
    BY DEF TypeOK, TypeOfHandOver, Inv, FilesSplit, Base
  <2>1. CASE n <= Base
    BY <2>0, <2>1 DEF Inv, FilesSplit
  <2>2. CASE n > Base /\ n <= Base + Len(priv)
    <3>1. n - Base \in DOMAIN priv
      BY <2>0, <2>2
    <3>2. priv[n - Base] = n
      BY <2>0, <3>1 DEF Inv, FilesSplit
    <3> QED  BY <3>1, <3>2 DEF Lines
  <2>3. CASE n > Base + Len(priv)
    <3>1. n - Base - Len(priv) \in DOMAIN listener
      BY <2>0, <2>3
    <3>2. listener[n - Base - Len(priv)] = n
      BY <2>0, <3>1 DEF Inv, FilesSplit
    <3> QED  BY <3>1, <3>2 DEF Lines
  <2> QED  BY <2>0, <2>1, <2>2, <2>3
<1> QED  BY <1>1, Invariance, PTL

\* The transaction file has no gap: the batch a crash makes the notifier write
\* again only repeats lines, and the order of first lines is slapd's.
THEOREM Ordered == Spec => []LogOrdered
<1>1. IInv => LogOrdered
  BY DEF IInv, Inv
<1> QED  BY <1>1, Invariance, PTL

\* What any listener was told of is in cn=translog and, unless left out of it, in
\* the transaction file.
THEOREM AnnouncedDurably == Spec => []AnnouncedIsDurable
<1>1. IInv => AnnouncedIsDurable
  <2> SUFFICES ASSUME TypeOK, Inv, NEW n \in 1..announced
               PROVE  n \in translog \cap (Lines(tf) \cup leftOut)
    BY DEF IInv, AnnouncedIsDurable
  <2>1. n \in 1..Base
    BY DEF TypeOK, TypeOfHandOver, Inv, AnnouncedBelowBase, FilesSplit, Base
  <2> QED  BY <2>1 DEF Inv, FilesSplit, LdapFirst
<1> QED  BY <1>1, Invariance, PTL

\* A notifier that serves requests answers from an id no lower than any it ever
\* announced, in this run of the process or before a crash.
THEOREM NoStepBack == Spec => []NeverGoesBack
<1>1. IInv => NeverGoesBack
  BY DEF IInv, Inv, NeverGoesBack, LastIdIsBase, AnnouncedBelowBase,
         FilesSplit, Base, TypeOK, TypeOfHandOver
<1> QED  BY <1>1, Invariance, PTL
=============================================================================
