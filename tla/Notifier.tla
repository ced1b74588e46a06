------------------------------ MODULE Notifier ------------------------------
(***************************************************************************)
(* The Univention Directory Notifier: a single-threaded daemon that takes  *)
(* the transactions slapd appends to the file "listener", stores them in   *)
(* the LDAP branch cn=translog and in its own transaction file, and only   *)
(* then tells the connected listeners about them.                          *)
(*                                                                         *)
(* A transaction is its id.  slapd (its translog overlay is external)      *)
(* numbers transactions 1, 2, 3, ...                                       *)
(***************************************************************************)
EXTENDS Integers, Sequences

CONSTANTS
  MaxId,       \* bound on the transactions slapd writes
  MaxCrash,    \* bound on the crashes of the notifier
  MaxQueue,    \* bound on the messages in flight to or from one client
  Clients,     \* connections, each used by one listener process
  Versions,    \* protocol versions the clients announce
  MinVersion,  \* option -v: network_procotol_version
  TfMayFail    \* the transaction file may be impossible to open

ASSUME BoundsAssumption ==
  /\ MaxId \in Nat /\ MaxCrash \in Nat /\ MaxQueue \in Nat \ {0}
  /\ Versions \subseteq Nat \ {0}
  /\ MinVersion \in 1..3
  /\ TfMayFail \in BOOLEAN

PROTOCOL_UNKNOWN == 0
PROTOCOL_2 == 2
PROTOCOL_3 == 3
PROTOCOL_LAST == 4

VARIABLES
  written,     \* ids 1..written have been appended by slapd
  listener,    \* the file "listener": lines not yet taken over
  priv,        \* the file "listener.priv"; <<>> when it does not exist
  translog,    \* ids stored below cn=translog
  tf,          \* the transaction file
  pc,          \* where the notifier is
  batch,       \* the entries read from listener.priv
  pos,         \* how many of them the step at pc has handled
  caller,      \* who called notify_listener_change_callback
  lastId,      \* notify_last_id
  callback,    \* LISTENER_CALLBACK, set by the signal handler
  eintr,       \* a signal arrived while select() was blocking
  client,      \* the list network_client_first, by connection
  testfds,     \* what select() found to read: events left, by connection
  stale,       \* a deleted client's descriptor is still in readfds
  link,        \* the client's end of the connection is open
  in, out,     \* messages in flight to and from the notifier
  speaks,      \* protocol version the client has been told to use
  asked,       \* id the client is waiting for, 0 when none
  done,        \* last id the client has been told about
  crashes,     \* crashes so far
  announced,   \* history: the highest id the notifier ever sent
  leftOut      \* history: ids once left out of the transaction file

disk == <<written, listener, priv, translog, tf, leftOut>>
work == <<batch, pos, caller, testfds>>
flags == <<callback, eintr>>
peers == <<link, in, speaks, asked, done>>
vars == <<disk, pc, work, lastId, flags, client, stale, peers, out, crashes,
          announced>>

----------------------------------------------------------------------------
(* Data *)

Ids == 0..MaxId

\* The listener uses one MSGID per wanted id, so the id stands for it.
Requests == [op : {"Version"}, arg : Versions]
            \cup [op : {"WAIT_ID", "GET_DN", "GET_ID"}, arg : Ids]
Replies == [op : {"Version"}, id : 1..PROTOCOL_LAST - 1]
           \cup [op : {"GET_ID"}, id : Ids]
           \cup [op : {"Result"}, msg : Ids, id : Ids]

NoClient == [fd |-> FALSE, version |-> PROTOCOL_UNKNOWN, notify |-> FALSE,
             next_id |-> 0]

Lines(file) == {file[i] : i \in DOMAIN file}
LastLine(file) == IF file = <<>> THEN 0 ELSE file[Len(file)]
Higher(a, b) == IF a > b THEN a ELSE b

----------------------------------------------------------------------------
(* From slapd to the transaction file: notify_listener_change_callback *)

\* Mutant: the last id is not read from the transaction file.
StartAtZero ==
  /\ pc = "down"
  /\ pc' = "take" /\ caller' = "main"
  /\ lastId' = 0
  /\ UNCHANGED <<disk, batch, pos, testfds, flags, client, stale, peers, out,
                 crashes, announced>>

\* Mutant: a left-over listener.priv waits for the next signal.
StartWithoutCallback ==
  /\ pc = "down"
  /\ pc' = "loop" /\ caller' = "main"
  /\ lastId' = LastLine(tf)
  /\ UNCHANGED <<disk, batch, pos, testfds, flags, client, stale, peers, out,
                 crashes, announced>>

\* main(): notify_transaction_get_last_notify_id, network_client_init and
\* create_callback_listener; next it runs the callback itself, once.
Start ==
  /\ pc = "down"
  /\ pc' = "take" /\ caller' = "main"
  /\ lastId' = LastLine(tf)
  /\ UNCHANGED <<disk, batch, pos, testfds, flags, client, stale, peers, out,
                 crashes, announced>>

CallbackReturns == pc' = IF caller = "main" THEN "loop" ELSE "unset"

\* Mutant: listener is renamed over a left-over listener.priv.
TakeOverOverwrites ==
  /\ pc = "take"
  /\ \/ /\ priv # <<>> /\ listener = <<>>
        /\ batch' = priv
        /\ UNCHANGED <<listener, priv>>
     \/ /\ listener # <<>>
        /\ priv' = listener /\ listener' = <<>>
        /\ batch' = listener
  /\ pos' = 0 /\ pc' = "ldap"
  /\ UNCHANGED <<written, translog, tf, leftOut, caller, testfds, lastId, flags,
                 client, stale, peers, out, crashes, announced>>

\* Mutant: the new lines are put before the left-over ones.
TakeOverPrepends ==
  /\ pc = "take" /\ priv \o listener # <<>>
  /\ priv' = listener \o priv /\ listener' = <<>>
  /\ batch' = listener \o priv
  /\ pos' = 0 /\ pc' = "ldap"
  /\ UNCHANGED <<written, translog, tf, leftOut, caller, testfds, lastId, flags,
                 client, stale, peers, out, crashes, announced>>

\* A listener.priv left over by a crash is taken first, and alone.
TakeOver ==
  /\ pc = "take"
  /\ \/ /\ priv # <<>>
        /\ batch' = priv
        /\ UNCHANGED <<listener, priv>>
     \/ /\ priv = <<>> /\ listener # <<>>
        /\ priv' = listener /\ listener' = <<>>
        /\ batch' = listener
  /\ pos' = 0 /\ pc' = "ldap"
  /\ UNCHANGED <<written, translog, tf, leftOut, caller, testfds, lastId, flags,
                 client, stale, peers, out, crashes, announced>>

\* Both files are missing or empty.
NothingToDo ==
  /\ pc = "take" /\ priv = <<>> /\ listener = <<>>
  /\ CallbackReturns
  /\ UNCHANGED <<disk, work, lastId, flags, client, stale, peers, out, crashes,
                 announced>>

\* The loops over the batch: one entry per step.
NextEntry(after) ==
  IF pos + 1 = Len(batch) THEN pos' = 0 /\ pc' = after
                          ELSE pos' = pos + 1 /\ UNCHANGED pc

\* Mutant: LDAP_SERVER_DOWN skips the entry.
DumpToLdapSkips ==
  /\ pc = "ldap"
  /\ translog' \in {translog, translog \cup {batch[pos + 1]}}
  /\ NextEntry("files")
  /\ UNCHANGED <<written, listener, priv, tf, leftOut, batch, caller, testfds,
                 lastId, flags, client, stale, peers, out, crashes, announced>>

\* notify_dump_to_ldap: LDAP_SUCCESS, or LDAP_ALREADY_EXISTS after a crash.
DumpToLdap ==
  /\ pc = "ldap"
  /\ translog' = translog \cup {batch[pos + 1]}
  /\ NextEntry("files")
  /\ UNCHANGED <<written, listener, priv, tf, leftOut, batch, caller, testfds,
                 lastId, flags, client, stale, peers, out, crashes, announced>>

\* LDAP_SERVER_DOWN although the add was applied; it is tried again.
LdapServerDown ==
  /\ pc = "ldap"
  /\ translog' = translog \cup {batch[pos + 1]}
  /\ UNCHANGED <<written, listener, priv, tf, leftOut, pc, work, lastId, flags,
                 client, stale, peers, out, crashes, announced>>

DumpToFiles ==
  /\ pc = "files"
  /\ tf' = Append(tf, batch[pos + 1])
  /\ NextEntry("unlink")
  /\ UNCHANGED <<written, listener, priv, translog, leftOut, batch, caller,
                 testfds, lastId, flags, client, stale, peers, out, crashes,
                 announced>>

\* The transaction file, its lock file or its index cannot be opened: "goto error"
\* leaves the whole batch out, and the caller goes on as if it had been written.
DumpToFilesFails ==
  /\ TfMayFail /\ pc = "files" /\ pos = 0
  /\ leftOut' = leftOut \cup Lines(batch)
  /\ pc' = "unlink"
  /\ UNCHANGED <<written, listener, priv, translog, tf, work, lastId, flags,
                 client, stale, peers, out, crashes, announced>>

Unlink ==
  /\ pc = "unlink"
  /\ priv' = <<>>
  /\ pc' = "broadcast"
  /\ UNCHANGED <<written, listener, translog, tf, leftOut, work, lastId, flags,
                 client, stale, peers, out, crashes, announced>>

Waits(c, id) == client[c].notify /\ client[c].next_id = id
Answer(c, id) == [op |-> "Result", msg |-> client[c].next_id,
                  id |-> IF client[c].version = PROTOCOL_3 THEN lastId' ELSE id]

Hit == {c \in Clients : Waits(c, batch[pos + 1])}
Hanging == {c \in Hit : client[c].version \notin {PROTOCOL_2, PROTOCOL_3}}

\* network_client_all_write up to the clients `reached'.  A send to one that hung
\* up may fail: it is deleted, but its descriptor stays in readfds.
AllWrite(reached) ==
  LET id == batch[pos + 1]
  IN /\ lastId' = id
     /\ \E failed \in SUBSET {c \in reached : ~link[c]} :
          /\ client' = [c \in Clients |->
                          IF c \in failed THEN NoClient
                          ELSE IF c \in reached
                            THEN [client[c] EXCEPT !.notify = FALSE]
                          ELSE client[c]]
          /\ stale' = (stale \/ failed # {})
     /\ out' = [c \in Clients |-> IF c \in reached /\ link[c]
                                    THEN Append(out[c], Answer(c, id))
                                    ELSE out[c]]
     /\ announced' = IF \E c \in reached : link[c] THEN Higher(announced, id)
                                                 ELSE announced

\* Mutant: only the last id of a batch is announced.
BroadcastOnlyTheLast ==
  /\ pc = "broadcast" /\ Hanging = {}
  /\ AllWrite(IF pos + 1 = Len(batch) THEN Hit ELSE {})
  /\ IF pos + 1 = Len(batch) THEN CallbackReturns /\ pos' = 0
                             ELSE UNCHANGED pc /\ pos' = pos + 1
  /\ UNCHANGED <<disk, batch, caller, testfds, flags, peers, crashes>>

\* Tells who waits for exactly this id.
Broadcast ==
  /\ pc = "broadcast" /\ Hanging = {}
  /\ AllWrite(Hit)
  /\ IF pos + 1 = Len(batch) THEN CallbackReturns /\ pos' = 0
                             ELSE UNCHANGED pc /\ pos' = pos + 1
  /\ UNCHANGED <<disk, batch, caller, testfds, flags, peers, crashes>>

\* The default: branch of the switch continues without advancing tmp; the
\* clients before this one have been told.
BroadcastHangs ==
  /\ pc = "broadcast" /\ Hanging # {}
  /\ \E reached \in SUBSET (Hit \ Hanging) : AllWrite(reached)
  /\ pc' = "hung"
  /\ UNCHANGED <<disk, work, flags, peers, crashes>>

\* The notifier may be killed anywhere; its own ways to stop (a lock it
\* cannot get, an unexpected LDAP error, a failed fprintf) are among them.
Crash ==
  /\ pc # "down" /\ crashes < MaxCrash
  /\ crashes' = crashes + 1
  /\ pc' = "down" /\ pos' = 0 /\ batch' = <<>> /\ caller' = "main"
  /\ testfds' = [c \in Clients |-> 0]
  /\ lastId' = 0 /\ callback' = FALSE /\ eintr' = FALSE
  /\ client' = [c \in Clients |-> NoClient] /\ stale' = FALSE
  /\ link' = [c \in Clients |-> FALSE]
  /\ in' = [c \in Clients |-> <<>>]
  /\ UNCHANGED <<disk, speaks, asked, done, out, announced>>

----------------------------------------------------------------------------
(* network_client_main_loop *)

\* From here on a signal interrupts select() instead of only setting the flag.
EnterSelect ==
  /\ pc = "loop"
  /\ pc' = "select"
  /\ UNCHANGED <<disk, work, lastId, flags, client, stale, peers, out, crashes,
                 announced>>

NewConnection(c) == link[c] /\ ~client[c].fd
HungUp(c) == client[c].fd /\ ~link[c]
Readable(c) == NewConnection(c) \/ HungUp(c) \/ in[c] # <<>>

\* The bytes that wait at one connection are one packet, read as a whole.
Events(c) == IF NewConnection(c) \/ HungUp(c) THEN 1 ELSE Len(in[c])

\* Mutant: a signal that interrupts select() is forgotten.
SelectForgets ==
  /\ pc = "select"
  /\ \/ eintr /\ pc' = "loop" /\ UNCHANGED testfds
     \/ /\ ~eintr /\ (stale \/ \E c \in Clients : Readable(c))
        /\ testfds' = [c \in Clients |-> Events(c)]
        /\ pc' = "serve"
  /\ eintr' = FALSE
  /\ UNCHANGED <<disk, batch, pos, caller, lastId, callback, client, stale,
                 peers, out, crashes, announced>>

SelectReturns ==
  /\ pc = "select"
  /\ \/ eintr /\ pc' = "check" /\ UNCHANGED testfds
     \/ /\ ~eintr /\ (stale \/ \E c \in Clients : Readable(c))
        /\ testfds' = [c \in Clients |-> Events(c)]
        /\ pc' = "serve"
  /\ eintr' = FALSE
  /\ UNCHANGED <<disk, batch, pos, caller, lastId, callback, client, stale,
                 peers, out, crashes, announced>>

ServeDone ==
  /\ pc = "serve" /\ \A c \in Clients : testfds[c] = 0
  /\ pc' = "check"
  /\ UNCHANGED <<disk, work, lastId, flags, client, stale, peers, out, crashes,
                 announced>>

\* check_callbacks resets the flag only after the callback has returned.
CheckCallbacks ==
  /\ pc = "check"
  /\ IF callback THEN pc' = "take" /\ caller' = "check"
                 ELSE pc' = "loop" /\ UNCHANGED caller
  /\ UNCHANGED <<disk, batch, pos, testfds, lastId, flags, client, stale, peers,
                 out, crashes, announced>>

UnsetCallback ==
  /\ pc = "unset"
  /\ callback' = FALSE /\ pc' = "loop"
  /\ UNCHANGED <<disk, work, lastId, eintr, client, stale, peers, out, crashes,
                 announced>>

----------------------------------------------------------------------------
(* The handlers of the descriptors: new_connection and data_on_connection *)

Serving(c) == pc = "serve" /\ testfds[c] > 0

Accept(c) ==
  /\ Serving(c) /\ NewConnection(c)
  /\ client' = [client EXCEPT ![c] = [NoClient EXCEPT !.fd = TRUE]]
  /\ testfds' = [testfds EXCEPT ![c] = 0]
  /\ UNCHANGED <<disk, pc, batch, pos, caller, lastId, flags, stale, peers, out,
                 crashes, announced>>

\* Nothing to read although the descriptor is readable: close and remove.
\* (Or the connection was gone before it was accepted.)
EndOfFile(c) ==
  /\ Serving(c) /\ ~link[c]
  /\ client' = [client EXCEPT ![c] = NoClient]
  /\ testfds' = [testfds EXCEPT ![c] = 0]
  /\ UNCHANGED <<disk, pc, batch, pos, caller, lastId, flags, stale, peers, out,
                 crashes, announced>>

Received(c, op) ==
  /\ Serving(c) /\ client[c].fd /\ link[c]
  /\ in[c] # <<>> /\ Head(in[c]).op = op
  /\ in' = [in EXCEPT ![c] = Tail(@)]

\* Goes on with the packet.
Handled(c) ==
  /\ testfds' = [testfds EXCEPT ![c] = @ - 1]
  /\ UNCHANGED link

Send(c, reply) == out' = [out EXCEPT ![c] = Append(@, reply)]

\* close(fd), FD_CLR, remove: the client finds the connection closed.
Close(c) ==
  /\ client' = [client EXCEPT ![c] = NoClient]
  /\ link' = [link EXCEPT ![c] = FALSE]
  /\ testfds' = [testfds EXCEPT ![c] = 0]
  /\ UNCHANGED <<out, announced>>

\* Mutant: PROTOCOL_LAST itself is negotiated.
NegotiatedOffByOne(offered) ==
  IF offered > PROTOCOL_LAST THEN PROTOCOL_LAST - 1 ELSE offered

Negotiated(offered) ==
  IF offered >= PROTOCOL_LAST THEN PROTOCOL_LAST - 1 ELSE offered

\* "Version:" and "Capabilities:".
Handshake(c) ==
  /\ Received(c, "Version")
  /\ LET offered == Head(in[c]).arg
         version == Negotiated(offered)
     IN \/ offered < MinVersion /\ Close(c)
        \/ /\ offered >= MinVersion
           /\ client' = [client EXCEPT ![c].version = version]
           /\ Send(c, [op |-> "Version", id |-> version])
           /\ UNCHANGED announced /\ Handled(c)
  /\ UNCHANGED <<disk, pc, batch, pos, caller, lastId, flags, stale, speaks,
                 asked, done, crashes>>

\* The listener is told at once, or registered for network_client_all_write.
Answered(c, id, answer) ==
  /\ Send(c, [op |-> "Result", msg |-> id, id |-> answer])
  /\ announced' = Higher(announced, answer)
  /\ UNCHANGED client /\ Handled(c)
Registered(c, id) ==
  /\ client' = [client EXCEPT ![c].next_id = id, ![c].notify = TRUE]
  /\ UNCHANGED <<out, announced>> /\ Handled(c)

\* A past transaction comes from the cache or from the transaction file; when
\* neither has it the connection is closed.  What was left out of the file may
\* be in the cache.
GetDn(c) ==
  /\ Received(c, "GET_DN")
  /\ client[c].version \in 1..PROTOCOL_3 - 1
  /\ LET id == Head(in[c]).arg
     IN \/ id <= lastId /\ (id \in Lines(tf) \/ TfMayFail) /\ Answered(c, id, id)
        \/ id <= lastId /\ id \notin Lines(tf) /\ Close(c)
        \/ id > lastId /\ Registered(c, id)
  /\ UNCHANGED <<disk, pc, batch, pos, caller, lastId, flags, stale, speaks,
                 asked, done, crashes>>

\* Mutant: a request for the id after the last one is answered at once.
WaitIdOffByOne(c) ==
  /\ Received(c, "WAIT_ID")
  /\ client[c].version >= PROTOCOL_3
  /\ LET id == Head(in[c]).arg
     IN \/ id <= lastId + 1 /\ Answered(c, id, lastId)
        \/ id > lastId + 1 /\ Registered(c, id)
  /\ UNCHANGED <<disk, pc, batch, pos, caller, lastId, flags, stale, speaks,
                 asked, done, crashes>>

WaitId(c) ==
  /\ Received(c, "WAIT_ID")
  /\ client[c].version >= PROTOCOL_3
  /\ LET id == Head(in[c]).arg
     IN \/ id <= lastId /\ Answered(c, id, lastId)
        \/ id > lastId /\ Registered(c, id)
  /\ UNCHANGED <<disk, pc, batch, pos, caller, lastId, flags, stale, speaks,
                 asked, done, crashes>>

GetId(c) ==
  /\ Received(c, "GET_ID")
  /\ client[c].version > PROTOCOL_UNKNOWN
  /\ Send(c, [op |-> "GET_ID", id |-> lastId])
  /\ announced' = Higher(announced, lastId)
  /\ Handled(c)
  /\ UNCHANGED <<disk, pc, batch, pos, caller, lastId, flags, client, stale,
                 speaks, asked, done, crashes>>

----------------------------------------------------------------------------
(* The environment: slapd and the listeners' ends of the connections *)

\* slapd appends under listener.lock, which TakeOver holds while it renames.
SlapdWrites ==
  /\ written < MaxId
  /\ written' = written + 1
  /\ listener' = Append(listener, written')
  /\ IF pc = "down" THEN UNCHANGED flags
     ELSE callback' = TRUE /\ eintr' = (eintr \/ pc = "select")
  /\ UNCHANGED <<priv, translog, tf, leftOut, pc, work, lastId, client, stale,
                 peers, out, crashes, announced>>

\* notifier_client_new: a connection starts with the version line.
Connect(c) ==
  /\ pc # "down" /\ ~link[c] /\ ~client[c].fd
  /\ link' = [link EXCEPT ![c] = TRUE]
  /\ \E v \in Versions : in' = [in EXCEPT ![c] = <<[op |-> "Version", arg |-> v]>>]
  /\ out' = [out EXCEPT ![c] = <<>>]
  /\ speaks' = [speaks EXCEPT ![c] = PROTOCOL_UNKNOWN]
  /\ asked' = [asked EXCEPT ![c] = 0]
  /\ UNCHANGED <<disk, pc, work, lastId, flags, client, stale, done, crashes,
                 announced>>

HangUp(c) ==
  /\ link[c]
  /\ link' = [link EXCEPT ![c] = FALSE]
  /\ in' = [in EXCEPT ![c] = <<>>] /\ out' = [out EXCEPT ![c] = <<>>]
  /\ asked' = [asked EXCEPT ![c] = 0]
  /\ UNCHANGED <<disk, pc, work, lastId, flags, client, stale, speaks, done,
                 crashes, announced>>

Request(c, op, id) ==
  /\ link[c] /\ speaks[c] # PROTOCOL_UNKNOWN
  /\ Len(in[c]) < MaxQueue /\ Len(out[c]) < MaxQueue
  /\ in' = [in EXCEPT ![c] = Append(@, [op |-> op, arg |-> id])]
  /\ UNCHANGED <<disk, pc, work, lastId, flags, client, stale, link, speaks,
                 done, out, crashes, announced>>

WaitOp(c) == IF speaks[c] < PROTOCOL_3 THEN "GET_DN" ELSE "WAIT_ID"

\* notifier_get_dn for the next transaction, and notifier_resend_get_dn.
AskNext(c) ==
  /\ asked[c] = 0 /\ done[c] < MaxId
  /\ asked' = [asked EXCEPT ![c] = done[c] + 1]
  /\ Request(c, WaitOp(c), done[c] + 1)
AskAgain(c) ==
  /\ asked[c] # 0 /\ UNCHANGED asked
  /\ Request(c, WaitOp(c), asked[c])
AskId(c) ==
  /\ asked[c] = 0 /\ UNCHANGED asked
  /\ Request(c, "GET_ID", 0)

\* An answer to an earlier request stays in the message queue, unused.
Receive(c) ==
  /\ out[c] # <<>>
  /\ LET reply == Head(out[c])
         wanted == reply.op = "Result" /\ asked[c] # 0 /\ reply.msg = asked[c]
     IN /\ speaks' = IF reply.op = "Version"
                       THEN [speaks EXCEPT ![c] = reply.id] ELSE speaks
        /\ done' = IF wanted THEN [done EXCEPT ![c] = asked[c]] ELSE done
        /\ asked' = IF wanted THEN [asked EXCEPT ![c] = 0] ELSE asked
  /\ out' = [out EXCEPT ![c] = Tail(@)]
  /\ UNCHANGED <<disk, pc, work, lastId, flags, client, stale, link, in,
                 crashes, announced>>

----------------------------------------------------------------------------

Init ==
  /\ written = 0 /\ listener = <<>> /\ priv = <<>> /\ translog = {} /\ tf = <<>>
  /\ pc = "down" /\ batch = <<>> /\ pos = 0 /\ caller = "main"
  /\ lastId = 0 /\ callback = FALSE /\ eintr = FALSE
  /\ client = [c \in Clients |-> NoClient] /\ stale = FALSE
  /\ testfds = [c \in Clients |-> 0]
  /\ link = [c \in Clients |-> FALSE]
  /\ in = [c \in Clients |-> <<>>] /\ out = [c \in Clients |-> <<>>]
  /\ speaks = [c \in Clients |-> PROTOCOL_UNKNOWN]
  /\ asked = [c \in Clients |-> 0] /\ done = [c \in Clients |-> 0]
  /\ crashes = 0 /\ announced = 0 /\ leftOut = {}

Callback == \/ TakeOver \/ NothingToDo \/ DumpToLdap \/ DumpToFiles
            \/ DumpToFilesFails \/ Unlink \/ Broadcast
Loop == EnterSelect \/ SelectReturns \/ ServeDone \/ CheckCallbacks
        \/ UnsetCallback
Serve(c) == \/ Accept(c) \/ EndOfFile(c) \/ Handshake(c) \/ GetDn(c)
            \/ WaitId(c) \/ GetId(c)
Listener(c) == \/ Connect(c) \/ HangUp(c) \/ AskNext(c) \/ AskAgain(c)
               \/ AskId(c) \/ Receive(c)

Next == \/ Start \/ Callback \/ LdapServerDown \/ BroadcastHangs \/ Crash
        \/ Loop \/ SlapdWrites
        \/ \E c \in Clients : Serve(c) \/ Listener(c)

Spec == Init /\ [][Next]_vars

\* The notifier runs, and the supervisor starts it again after a crash.  Nothing
\* is assumed of slapd or of the listeners.
Running == Start \/ Callback \/ Loop \/ \E c \in Clients : Serve(c)
FairSpec == Spec /\ WF_vars(Running)

\* ... and listeners that read their answers and, while none comes, send an
\* ALIVE and the request again (notifier_listen after DELAY_ALIVE).
PatientSpec ==
  FairSpec /\ \A c \in Clients : WF_vars(AskAgain(c)) /\ WF_vars(Receive(c))

----------------------------------------------------------------------------
(* What it implements *)

\* The transactions up to here are in the transaction file.
Stored == CHOOSE n \in Ids : /\ 1..n \subseteq Lines(tf)
                            /\ n + 1 \notin Lines(tf)

Log == INSTANCE ReplicationLog WITH Listeners <- Clients, accepted <- written,
                                    stored <- Stored, told <- done

----------------------------------------------------------------------------
(* Properties *)

TypeOfHandOver ==
  /\ written \in Ids /\ crashes \in 0..MaxCrash
  /\ listener \in Seq(Ids) /\ priv \in Seq(Ids) /\ tf \in Seq(Ids)
  /\ batch \in Seq(Ids) /\ pos \in Nat
  /\ translog \subseteq Ids /\ leftOut \subseteq Ids
  /\ pc \in {"down", "take", "ldap", "files", "unlink", "broadcast", "hung",
             "unset", "loop", "select", "serve", "check"}
  /\ caller \in {"main", "check"}
  /\ lastId \in Ids /\ announced \in Ids

TypeOfFlags ==
  callback \in BOOLEAN /\ eintr \in BOOLEAN /\ stale \in BOOLEAN

TypeOfClients ==
  /\ testfds \in [Clients -> Nat]
  /\ client \in [Clients -> [fd : BOOLEAN, version : 0..PROTOCOL_LAST - 1,
                             notify : BOOLEAN, next_id : Ids]]
  /\ link \in [Clients -> BOOLEAN]
  /\ in \in [Clients -> Seq(Requests)] /\ out \in [Clients -> Seq(Replies)]
  /\ speaks \in [Clients -> 0..PROTOCOL_LAST - 1]
  /\ asked \in [Clients -> Ids] /\ done \in [Clients -> Ids]

TypeOK == TypeOfHandOver /\ TypeOfFlags /\ TypeOfClients

\* Whatever crash happens between rename, LDAP, transaction file and unlink, a
\* transaction slapd wrote is still in one of the notifier's files, unless the
\* transaction file could not be opened for it.
NoTransactionLost ==
  1..written \subseteq Lines(listener) \cup Lines(priv) \cup Lines(tf) \cup leftOut

\* A batch written again after a crash may repeat lines of the transaction file,
\* but no line comes before the first line of an earlier transaction.
LogOrdered ==
  \A j \in DOMAIN tf :
    1..(tf[j] - 1) \subseteq {tf[k] : k \in 1..(j - 1)} \cup leftOut

\* A listener that was told of a transaction finds it and every earlier one in
\* cn=translog and, if it could be opened, in the transaction file, after any
\* crash.
AnnouncedIsDurable == 1..announced \subseteq translog \cap (Lines(tf) \cup leftOut)

\* Restarting the notifier never takes back what listeners have been told: main
\* runs the callback on the left-over batch before it serves any connection.
NeverGoesBack == pc = "serve" /\ leftOut = {} => lastId >= announced

\* To the listeners the notifier is one growing log of which each is told every
\* entry, in order and once, across crashes, new connections and repeated
\* requests.
ImplementsLog == Log!Spec

\* A transaction taken over is published, although the notifier may crash at
\* any point of the hand-over and start again.
TakenOverIsPublished ==
  \A n \in 1..MaxId : n \in Lines(priv) ~> n <= lastId

\* ... and a client that waits for it does not go on waiting.
TakenOverIsAnnounced ==
  \A c \in Clients, n \in 1..MaxId :
    Waits(c, n) /\ n \in Lines(priv) ~> ~Waits(c, n)

\* When a signal interrupts select(), everything slapd has written by then is
\* published, including lines an earlier lost signal left behind.
SignalDrainsListener ==
  \A n \in 1..MaxId : eintr /\ n \in Lines(listener) ~> n <= lastId

\* doc/protokoll3.txt: after WAIT_ID the notifier blocks until the transaction
\* is available, so a client that waits for a transaction slapd has written does
\* not keep waiting.
WaiterIsAnswered ==
  \A c \in Clients, n \in 1..MaxId :
    Waits(c, n) /\ n \in Lines(listener) ~> ~Waits(c, n)
=============================================================================
