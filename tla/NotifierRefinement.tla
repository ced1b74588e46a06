------------------------- MODULE NotifierRefinement -------------------------
(***************************************************************************)
(* The notifier implements ReplicationLog, for any number of transactions, *)
(* crashes and clients, as long as the transaction file can be opened.     *)
(*                                                                         *)
(* A line is appended either again or behind all earlier ones, so that the *)
(* file only ever stores one transaction more; and an answer in flight is  *)
(* for a transaction that was announced, hence stored, and the listener    *)
(* takes it only as the answer to the next one it wants.                   *)
(***************************************************************************)
EXTENDS NotifierProofs

USE BoundsAssumption
USE DEF Ids, BoundsAssumption

----------------------------------------------------------------------------
(* The invariant the steps need besides that of NotifierProofs *)

\* No batch has been left out: the transaction file has a prefix of the ids.
Complete == leftOut = {} /\ \E n \in Ids : Lines(tf) = 1..n

\* A listener asks for one transaction after the other ...
AsksNext == \A c \in Clients : asked[c] # 0 => asked[c] = done[c] + 1

\* ... and no answer to a later request is on its way.
Told(replies, n) ==
  \A i \in DOMAIN replies : replies[i].op = "Result" => replies[i].msg <= n
OnlyAnnounced == \A c \in Clients : Told(out[c], announced)

RInv == ~TfMayFail => Complete /\ AsksNext /\ OnlyAnnounced

----------------------------------------------------------------------------
(* The transaction file *)

LEMMA PrefixChosen ==
  ASSUME NEW file, NEW n \in Ids, Lines(file) = 1..n
  PROVE  (CHOOSE m \in Ids : 1..m \subseteq Lines(file) /\ m + 1 \notin Lines(file)) = n
<1> DEFINE P(m) == 1..m \subseteq Lines(file) /\ m + 1 \notin Lines(file)
<1>1. P(n)
  OBVIOUS
<1>2. ASSUME NEW m \in Ids, P(m)  PROVE m = n
  <2>1. m <= n
    <3>1. CASE m = 0
      BY <3>1
    <3>2. CASE m # 0
      <4>1. m \in 1..m
        BY <3>2
      <4> QED  BY <1>2, <4>1
    <3> QED  BY <3>1, <3>2
  <2>2. m + 1 > n
    BY <1>2
  <2> QED  BY <2>1, <2>2
<1> HIDE DEF P
<1>3. (CHOOSE m \in Ids : P(m)) = n
  BY <1>1, <1>2
<1> QED  BY <1>3 DEF P

\* Base, up to which transactions may be announced, is within the prefix.
LEMMA BaseStored ==
  ASSUME IInv, Complete
  PROVE  Base <= Stored /\ Stored \in Ids /\ Lines(tf) = 1..Stored
<1>1. PICK n \in Ids : Lines(tf) = 1..n
  BY DEF Complete
<1>2. Stored = n
  BY <1>1, PrefixChosen DEF Stored
<1>3. Base \in Nat /\ 1..Base \subseteq 1..n
  BY <1>1 DEF IInv, Inv, FilesSplit, Complete, Base, TypeOK, TypeOfHandOver
<1>4. Base <= n
  <2>1. CASE Base = 0
    BY <2>1
  <2>2. CASE Base # 0
    <3>1. Base \in 1..Base
      BY <1>3, <2>2
    <3> QED  BY <1>3, <3>1
  <2> QED  BY <2>1, <2>2
<1> QED  BY <1>1, <1>2, <1>4

\* The line notify_dump_to_files appends is there already or is the next one.
LEMMA NextLine ==
  ASSUME IInv, Complete, DumpToFiles
  PROVE  /\ Stored' = Stored \/ (Stored' = Stored + 1 /\ Stored < written)
         /\ Complete'
<1> DEFINE k == batch[pos + 1]
<1>1. /\ pc = "files" /\ tf' = Append(tf, k) /\ UNCHANGED <<written, leftOut>>
  BY DEF DumpToFiles
<1>2. /\ pos + 1 \in DOMAIN batch /\ k \in Ids /\ batch = priv
      /\ tf \in Seq(Ids) /\ priv \in Seq(Ids) /\ written \in Ids /\ pos \in Nat
      /\ listener \in Seq(Ids)
  BY <1>1, CurrentEntry DEF IInv, Inv, BatchIsPriv, TypeOK, TypeOfHandOver
<1>3. Base <= Stored /\ Stored \in Ids /\ Lines(tf) = 1..Stored
  BY BaseStored
<1>4. /\ Base \in Nat /\ k = Base + pos + 1 /\ k <= written
  <2>1. Base >= 0 /\ priv[pos + 1] = Base + (pos + 1)
    BY <1>2 DEF IInv, Inv, FilesSplit
  <2>2. Len(listener) \in Nat /\ Len(priv) \in Nat /\ pos + 1 <= Len(priv)
    BY <1>2
  <2> QED  BY <1>2, <2>1, <2>2 DEF Base
<1>5. k <= Stored + 1
  <2>1. CASE pos = 0
    BY <1>3, <1>4, <2>1
  <2>2. CASE pos # 0
    <3>1. pos \in 1..pos /\ pos \in DOMAIN batch
      BY <1>2, <2>2
    <3>2. batch[pos] \in Lines(tf) /\ batch[pos] = Base + pos
      BY <1>1, <1>2, <3>1 DEF IInv, Inv, FilesNext, FilesSplit
    <3> QED  BY <1>2, <1>3, <1>4, <3>2
  <2> QED  BY <2>1, <2>2
<1>6. Lines(tf') = Lines(tf) \cup {k}
  BY <1>1, <1>2, LinesOfAppend
<1>7. CASE k <= Stored
  <2>1. Lines(tf') = 1..Stored
    BY <1>2, <1>3, <1>4, <1>6, <1>7
  <2>2. Stored' = Stored
    BY <1>3, <2>1, PrefixChosen DEF Stored
  <2> QED  BY <1>1, <1>3, <2>1, <2>2 DEF Complete
<1>8. CASE k = Stored + 1
  <2>1. Lines(tf') = 1..k
    BY <1>2, <1>3, <1>6, <1>8
  <2>2. Stored' = k
    BY <1>2, <2>1, PrefixChosen DEF Stored
  <2> QED  BY <1>1, <1>2, <1>3, <1>4, <1>8, <2>1, <2>2 DEF Complete
<1> QED  BY <1>2, <1>3, <1>4, <1>5, <1>7, <1>8

----------------------------------------------------------------------------
(* The listeners *)

LEMMA ToldAppend ==
  ASSUME NEW replies \in Seq(Replies), NEW r, NEW n \in Ids, NEW m \in Ids,
         Told(replies, n), n <= m, r \in Replies,
         r.op = "Result" => r.msg <= m
  PROVE  Told(Append(replies, r), m)
<1> DEFINE new == Append(replies, r)
<1>1. /\ Len(replies) \in Nat /\ DOMAIN replies = 1..Len(replies)
      /\ DOMAIN new = 1..(Len(replies) + 1) /\ new[Len(replies) + 1] = r
      /\ \A i \in 1..Len(replies) : new[i] = replies[i]
  OBVIOUS
<1>2. ASSUME NEW i \in 1..Len(replies), replies[i].op = "Result"
      PROVE  replies[i].msg <= m
  <2>1. replies[i] \in Replies /\ replies[i].msg <= n
    BY <1>1, <1>2 DEF Told
  <2>2. replies[i].msg \in Ids
    BY <1>2, <2>1 DEF Replies
  <2> QED  BY <2>1, <2>2
<1> HIDE DEF new
<1>3. Told(new, m)
  BY <1>1, <1>2 DEF Told
<1> QED  BY <1>3 DEF new

LEMMA ToldHigher ==
  ASSUME NEW replies \in Seq(Replies), NEW n \in Ids, NEW m \in Ids,
         Told(replies, n), n <= m
  PROVE  Told(replies, m)
<1> SUFFICES ASSUME NEW i \in DOMAIN replies, replies[i].op = "Result"
             PROVE  replies[i].msg <= m
  BY DEF Told
<1>1. replies[i] \in Replies /\ replies[i].msg <= n
  BY DEF Told
<1>2. replies[i].msg \in Ids
  BY <1>1 DEF Replies
<1> QED  BY <1>1, <1>2

\* What the listeners' side and the notifier's handlers of one connection do.
LEMMA ClientsTold ==
  ASSUME IInv, IInv', AsksNext, OnlyAnnounced, NEW c \in Clients,
         Serve(c) \/ Connect(c) \/ HangUp(c) \/ AskNext(c) \/ AskAgain(c) \/ AskId(c)
  PROVE  UNCHANGED done /\ AsksNext' /\ OnlyAnnounced'
<1>0. /\ TypeOK /\ announced \in Ids /\ announced' \in Ids /\ lastId \in Ids
      /\ out \in [Clients -> Seq(Replies)] /\ out' \in [Clients -> Seq(Replies)]
      /\ in \in [Clients -> Seq(Requests)]
      /\ asked \in [Clients -> Ids] /\ done \in [Clients -> Ids]
  BY DEF IInv, TypeOK, TypeOfHandOver, TypeOfClients
<1>1. UNCHANGED done
  BY DEF Serve, Accept, EndOfFile, Handshake, GetDn, WaitId, GetId, Connect, HangUp,
         AskNext, AskAgain, AskId, Request, peers
<1>2. AsksNext'
  <2>1. \/ UNCHANGED asked
        \/ asked' = [asked EXCEPT ![c] = 0]
        \/ asked' = [asked EXCEPT ![c] = done[c] + 1]
    BY DEF Serve, Accept, EndOfFile, Handshake, GetDn, WaitId, GetId, Connect, HangUp,
           AskNext, AskAgain, AskId, Request, peers
  <2> QED  BY <1>0, <1>1, <2>1 DEF AsksNext
<1>3. announced <= announced'
  <2>1. CASE Serve(c)
    <3>1. \/ announced' = announced
          \/ \E n \in Ids : announced' = Higher(announced, n)
      BY <1>0, <2>1, ClientsAnnounce
    <3> QED  BY <1>0, <3>1 DEF Higher
  <2>2. CASE ~Serve(c)
    BY <1>0, <2>2 DEF Connect, HangUp, AskNext, AskAgain, AskId, Request
  <2> QED  BY <2>1, <2>2
<1> DEFINE Replied == \E r \in Replies : /\ out' = [out EXCEPT ![c] = Append(@, r)]
                                         /\ r.op = "Result" => r.msg <= announced'
<1>4. UNCHANGED out \/ out' = [out EXCEPT ![c] = <<>>] \/ Replied
  <2>1. CASE Accept(c) \/ EndOfFile(c)
    BY <2>1 DEF Accept, EndOfFile
  <2>2. CASE Connect(c) \/ HangUp(c) \/ AskNext(c) \/ AskAgain(c) \/ AskId(c)
    BY <2>2 DEF Connect, HangUp, AskNext, AskAgain, AskId, Request
  <2>3. ASSUME NEW op, Received(c, op)
        PROVE  Head(in[c]) \in Requests /\ Head(in[c]).op = op
    BY <1>0, <2>3 DEF Received
  <2>4. ASSUME NEW id \in Ids, NEW answer \in Ids, id <= answer, Answered(c, id, answer)
        PROVE  Replied
    <3> DEFINE r == [op |-> "Result", msg |-> id, id |-> answer]
    <3>1. r \in Replies /\ r.msg = id
      BY DEF Replies
    <3>2. out' = [out EXCEPT ![c] = Append(@, r)] /\ announced' = Higher(announced, answer)
      BY <2>4 DEF Answered, Send
    <3>3. id <= announced'
      BY <1>0, <2>4, <3>2 DEF Higher
    <3> HIDE DEF r
    <3> QED  BY <3>1, <3>2, <3>3
  <2>5. CASE Handshake(c)
    <3>1. \/ UNCHANGED out
          \/ \E r \in Replies : r.op # "Result" /\ out' = [out EXCEPT ![c] = Append(@, r)]
      <4>1. Head(in[c]) \in Requests /\ Head(in[c]).op = "Version"
        BY <2>3, <2>5 DEF Handshake
      <4>2. Head(in[c]).arg \in Nat \ {0}
        BY <4>1 DEF Requests
      <4> DEFINE v == Negotiated(Head(in[c]).arg)
                 r == [op |-> "Version", id |-> v]
      <4>3. v \in 1..PROTOCOL_LAST - 1
        BY <4>2 DEF Negotiated, PROTOCOL_LAST
      <4> HIDE DEF v
      <4>4. r \in Replies /\ r.op # "Result"
        BY <4>3 DEF Replies
      <4>5. UNCHANGED out \/ out' = [out EXCEPT ![c] = Append(@, r)]
        BY <2>5 DEF Handshake, Close, Send, v
      <4> QED  BY <4>4, <4>5
    <3> QED  BY <3>1
  <2>6. CASE GetDn(c)
    <3>1. Head(in[c]) \in Requests /\ Head(in[c]).op = "GET_DN"
      BY <2>3, <2>6 DEF GetDn
    <3>2. Head(in[c]).arg \in Ids
      BY <3>1 DEF Requests
    <3> DEFINE id == Head(in[c]).arg
    <3>3. UNCHANGED out \/ Answered(c, id, id)
      BY <2>6 DEF GetDn, Close, Registered
    <3> HIDE DEF id
    <3>4. id \in Ids /\ id <= id
      BY <3>2 DEF id
    <3>5. CASE Answered(c, id, id)
      <4>1. Replied
        BY <2>4, <3>4, <3>5
      <4> QED  BY <4>1
    <3> HIDE DEF Replied
    <3> QED  BY <3>3, <3>5
  <2>7. CASE WaitId(c)
    <3>1. Head(in[c]) \in Requests /\ Head(in[c]).op = "WAIT_ID"
      BY <2>3, <2>7 DEF WaitId
    <3>2. Head(in[c]).arg \in Ids
      BY <3>1 DEF Requests
    <3> DEFINE id == Head(in[c]).arg
    <3>3. UNCHANGED out \/ (id <= lastId /\ Answered(c, id, lastId))
      BY <2>7 DEF WaitId, Registered
    <3> HIDE DEF id
    <3>4. id \in Ids
      BY <3>2 DEF id
    <3>5. CASE id <= lastId /\ Answered(c, id, lastId)
      <4>1. Replied
        BY <1>0, <2>4, <3>4, <3>5
      <4> QED  BY <4>1
    <3> HIDE DEF Replied
    <3> QED  BY <3>3, <3>5
  <2>8. CASE GetId(c)
    <3> DEFINE r == [op |-> "GET_ID", id |-> lastId]
    <3>1. r \in Replies /\ r.op # "Result"
      BY <1>0 DEF Replies
    <3>2. out' = [out EXCEPT ![c] = Append(@, r)]
      BY <2>8 DEF GetId, Send
    <3> QED  BY <3>1, <3>2
  <2> QED  BY <2>1, <2>2, <2>5, <2>6, <2>7, <2>8 DEF Serve
<1>5. OnlyAnnounced'
  <2> SUFFICES ASSUME NEW d \in Clients  PROVE Told(out'[d], announced')
    BY DEF OnlyAnnounced
  <2>1. out[d] \in Seq(Replies) /\ Told(out[d], announced)
    BY <1>0 DEF OnlyAnnounced
  <2>2. CASE out'[d] = out[d]
    BY <1>0, <1>3, <2>1, <2>2, ToldHigher
  <2>3. CASE out'[d] = <<>>
    BY <2>3 DEF Told
  <2>4. ASSUME NEW r \in Replies, out'[d] = Append(out[d], r),
               r.op = "Result" => r.msg <= announced'
        PROVE  Told(out'[d], announced')
    BY <1>0, <1>3, <2>1, <2>4, ToldAppend
  <2> QED  BY <1>0, <1>4, <2>2, <2>3, <2>4
<1> QED  BY <1>1, <1>2, <1>5

\* network_client_all_write announces the id before which it answers.
LEMMA BroadcastTold ==
  ASSUME IInv, IInv', AsksNext, OnlyAnnounced, Broadcast \/ BroadcastHangs
  PROVE  AsksNext' /\ OnlyAnnounced'
<1> DEFINE n == batch[pos + 1]
<1>0. /\ announced \in Ids /\ announced' \in Ids
      /\ out \in [Clients -> Seq(Replies)] /\ out' \in [Clients -> Seq(Replies)]
  BY DEF IInv, TypeOK, TypeOfHandOver, TypeOfClients
<1>1. UNCHANGED <<asked, done>>
  BY DEF Broadcast, BroadcastHangs, peers
<1>2. PICK reached \in SUBSET Hit : AllWrite(reached)
  BY DEF Broadcast, BroadcastHangs
<1>3. n \in Ids
  BY CurrentEntry DEF Broadcast, BroadcastHangs, IInv, Inv
<1> HIDE DEF n
<1>4. /\ out' = [c \in Clients |-> IF c \in reached /\ link[c]
                                    THEN Append(out[c], Answer(c, n)) ELSE out[c]]
      /\ announced' = IF \E c \in reached : link[c] THEN Higher(announced, n)
                                                   ELSE announced
  BY <1>2 DEF AllWrite, n
<1>5. announced <= announced'
  BY <1>0, <1>3, <1>4 DEF Higher
<1>6. ASSUME NEW c \in Clients  PROVE Told(out'[c], announced')
  <2>1. out[c] \in Seq(Replies) /\ Told(out[c], announced)
    BY <1>0 DEF OnlyAnnounced
  <2>2. CASE c \in reached /\ link[c]
    <3> DEFINE r == Answer(c, n)
    <3>1. r.msg = n
      BY <1>2, <2>2 DEF Answer, Hit, Waits, n
    <3> HIDE DEF r
    <3>2. out'[c] = Append(out[c], r) /\ n <= announced'
      BY <1>0, <1>3, <1>4, <2>2 DEF Higher, r
    <3>3. r \in Replies
      <4>1. /\ Len(out[c]) + 1 \in DOMAIN Append(out[c], r)
            /\ Append(out[c], r)[Len(out[c]) + 1] = r
        BY <2>1
      <4>2. Append(out[c], r) \in Seq(Replies)
        BY <1>0, <3>2
      <4> QED  BY <4>1, <4>2
    <3> QED  BY <1>0, <1>5, <2>1, <3>1, <3>2, <3>3, ToldAppend
  <2>3. CASE ~(c \in reached /\ link[c])
    BY <1>0, <1>4, <1>5, <2>1, <2>3, ToldHigher
  <2> QED  BY <2>2, <2>3
<1> QED  BY <1>1, <1>6 DEF AsksNext, OnlyAnnounced

\* An answer the listener takes is the next one, and was announced.
LEMMA ReceiveTold ==
  ASSUME IInv, AsksNext, OnlyAnnounced, NEW c \in Clients, Receive(c)
  PROVE  /\ AsksNext' /\ OnlyAnnounced'
         /\ \/ UNCHANGED done
            \/ done' = [done EXCEPT ![c] = @ + 1] /\ done[c] < announced
<1>0. /\ announced \in Ids /\ out \in [Clients -> Seq(Replies)]
      /\ asked \in [Clients -> Ids] /\ done \in [Clients -> Ids]
  BY DEF IInv, TypeOK, TypeOfHandOver, TypeOfClients
<1> DEFINE reply == Head(out[c])
           wanted == reply.op = "Result" /\ asked[c] # 0 /\ reply.msg = asked[c]
<1>1. /\ out[c] # <<>> /\ out' = [out EXCEPT ![c] = Tail(@)] /\ UNCHANGED announced
      /\ done' = IF wanted THEN [done EXCEPT ![c] = asked[c]] ELSE done
      /\ asked' = IF wanted THEN [asked EXCEPT ![c] = 0] ELSE asked
  BY DEF Receive
<1>2. out[c] \in Seq(Replies) /\ Told(out[c], announced)
  BY <1>0 DEF OnlyAnnounced
<1>3. /\ Len(out[c]) \in Nat /\ Len(out[c]) # 0 /\ reply = out[c][1]
      /\ DOMAIN out[c] = 1..Len(out[c]) /\ DOMAIN Tail(out[c]) = 1..(Len(out[c]) - 1)
      /\ \A i \in 1..(Len(out[c]) - 1) : Tail(out[c])[i] = out[c][i + 1]
  BY <1>1, <1>2
<1>4. OnlyAnnounced'
  <2>1. Told(Tail(out[c]), announced)
    BY <1>2, <1>3 DEF Told
  <2> QED  BY <1>0, <1>1, <2>1 DEF OnlyAnnounced
<1>5. AsksNext'
  BY <1>0, <1>1 DEF AsksNext
<1> HIDE DEF reply
<1>6. wanted => asked[c] = done[c] + 1 /\ asked[c] <= announced
  <2>1. wanted => reply.msg <= announced
    BY <1>2, <1>3 DEF Told
  <2> QED  BY <1>0, <2>1 DEF AsksNext
<1>7. wanted => done[c] < announced /\ asked[c] = done[c] + 1
  BY <1>0, <1>6
<1> QED  BY <1>0, <1>1, <1>4, <1>5, <1>7

----------------------------------------------------------------------------
(* The refinement *)

\* The steps the log does not see.
Silent == Start \/ TakeOver \/ NothingToDo \/ DumpToLdap \/ LdapServerDown \/ Unlink
          \/ Crash \/ Loop

LEMMA StepRefines ==
  ASSUME IInv, IInv', RInv, ~TfMayFail, [Next]_vars
  PROVE  RInv' /\ [Log!Next]_Log!vars
<1>1. Complete /\ AsksNext /\ OnlyAnnounced
  BY DEF RInv
<1>2. announced <= Stored
  <2>1. announced \in Ids /\ announced <= Base /\ Base \in Int
    BY DEF IInv, Inv, AnnouncedBelowBase, TypeOK, TypeOfHandOver, Base
  <2> QED  BY <1>1, <2>1, BaseStored
<1>3. ASSUME UNCHANGED <<leftOut, tf>>
      PROVE  Complete' /\ UNCHANGED Stored
  BY <1>1, <1>3 DEF Complete, Stored
<1>4. ASSUME UNCHANGED <<written, leftOut, tf, done, asked, out, announced>>
      PROVE  RInv' /\ [Log!Next]_Log!vars
  BY <1>1, <1>3, <1>4 DEF RInv, AsksNext, OnlyAnnounced, Log!vars
<1>5. CASE Silent \/ UNCHANGED vars
  BY <1>4, <1>5 DEF Silent, Start, TakeOver, NothingToDo, DumpToLdap, LdapServerDown,
     Unlink, Crash, Loop, EnterSelect, SelectReturns, ServeDone, CheckCallbacks,
     UnsetCallback, vars, disk, peers
<1>6. CASE SlapdWrites
  <2>1. UNCHANGED <<leftOut, tf, done, asked, out, announced>> /\ written' = written + 1
    BY <1>6 DEF SlapdWrites, peers
  <2> QED  BY <1>1, <1>3, <2>1 DEF RInv, AsksNext, OnlyAnnounced, Log!Next, Log!Accept
<1>7. CASE DumpToFiles
  <2>1. UNCHANGED <<written, done, asked, out, announced>>
    BY <1>7 DEF DumpToFiles, peers
  <2>2. /\ Stored' = Stored \/ (Stored' = Stored + 1 /\ Stored < written)
        /\ Complete'
    BY <1>1, <1>7, NextLine
  <2> QED  BY <1>1, <2>1, <2>2
           DEF RInv, AsksNext, OnlyAnnounced, Log!Next, Log!Store, Log!vars
<1>8. CASE DumpToFilesFails
  BY <1>8 DEF DumpToFilesFails
<1>9. CASE Broadcast \/ BroadcastHangs
  <2>1. UNCHANGED <<written, leftOut, tf, done>>
    BY <1>9 DEF Broadcast, BroadcastHangs, disk, peers
  <2> QED  BY <1>1, <1>3, <1>9, <2>1, BroadcastTold DEF RInv, Log!vars
<1>10. ASSUME NEW c \in Clients, Serve(c) \/ Listener(c)
       PROVE  RInv' /\ [Log!Next]_Log!vars
  <2>1. UNCHANGED <<written, leftOut, tf>>
    BY <1>10, ClientsLeaveFiles
  <2>2. CASE Receive(c)
    <3>1. /\ AsksNext' /\ OnlyAnnounced'
          /\ \/ UNCHANGED done
             \/ done' = [done EXCEPT ![c] = @ + 1] /\ done[c] < announced
      BY <1>1, <2>2, ReceiveTold
    <3>2. done[c] \in Nat /\ announced \in Nat /\ Stored \in Nat
      <4>1. done[c] \in Nat /\ announced \in Nat
        BY DEF IInv, TypeOK, TypeOfHandOver, TypeOfClients
      <4> QED  BY <1>1, <4>1, BaseStored
    <3>3. UNCHANGED done \/ Log!Tell(c)
      BY <1>2, <1>3, <2>1, <3>1, <3>2 DEF Log!Tell
    <3> QED  BY <1>3, <2>1, <3>1, <3>3 DEF RInv, Log!Next, Log!vars
  <2>3. CASE ~Receive(c)
    <3>1. UNCHANGED done /\ AsksNext' /\ OnlyAnnounced'
      BY <1>1, <1>10, <2>3, ClientsTold DEF Listener
    <3> QED  BY <1>3, <2>1, <3>1 DEF RInv, Log!vars
  <2> QED  BY <2>2, <2>3
<1> QED  BY <1>5, <1>6, <1>7, <1>8, <1>9, <1>10 DEF Silent, Next, Callback

LEMMA InitRefines == Init => RInv /\ Log!Init
<1> SUFFICES ASSUME Init  PROVE RInv /\ Log!Init
  OBVIOUS
<1>1. Lines(tf) = 1..0 /\ 0 \in Ids
  BY DEF Init, Lines
<1>2. Stored = 0
  BY <1>1, PrefixChosen DEF Stored
<1>3. Complete /\ AsksNext
  BY <1>1 DEF Init, Complete, AsksNext
<1>4. OnlyAnnounced
  BY DEF Init, OnlyAnnounced, Told
<1> QED  BY <1>2, <1>3, <1>4 DEF Init, RInv, Log!Init

\* The notifier is a log of which each listener is told every entry, in order and
\* once, and none that is not stored - whatever crashes, repeated batches, new
\* connections and repeated requests there are, as long as the transaction file
\* can be opened.
THEOREM Refinement == ~TfMayFail /\ Spec => ImplementsLog
<1> SUFFICES ASSUME ~TfMayFail  PROVE Spec => ImplementsLog
  OBVIOUS
<1>1. Init => RInv /\ Log!Init
  BY InitRefines
<1>2. IInv /\ IInv' /\ RInv /\ [Next]_vars => RInv' /\ [Log!Next]_Log!vars
  BY StepRefines
<1> QED  BY <1>1, <1>2, Invariance, PTL DEF Spec, ImplementsLog, Log!Spec
=============================================================================
