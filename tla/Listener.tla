------------------------------ MODULE Listener ------------------------------
(***************************************************************************)
(* The Univention Directory Listener: it follows the transactions of the   *)
(* notifier one by one, reads the current state of the object from LDAP,   *)
(* calls its modules (handlers) with the old and the new state, and keeps  *)
(* in its cache what the modules have been told.                           *)
(*                                                                         *)
(* LDAP runs ahead of the transactions: the object a transaction is about  *)
(* may since have been changed, moved or deleted.  The model is of a       *)
(* system without a replicated LDAP server (lp_local->host is NULL), so    *)
(* check_parent_dn returns at once.                                        *)
(***************************************************************************)
EXTENDS Integers, Sequences, FiniteSets

CONSTANTS
  DNs,          \* names of objects
  Restricted,   \* names hidden from this system by ACLs
  Vals,         \* contents of an object, as far as filters tell them apart
  Handlers,     \* listener modules
  Filter,       \* the contents each module's filter matches
  Watched,      \* modules with an attributes list: called if contents change
  Always,       \* modules told of every delete: replication and those with
                \* handle_every_delete
  Replication,  \* the replication module, if there is one
  Uncached,     \* contents excluded by listener/cache/filter
  MayFail,      \* modules whose handler may raise an exception
  Racing,       \* LDAP operations that may happen while a change is processed
  Reuse,        \* a name may be taken again while transactions about it wait
  Cascade,      \* option -o: write the transactions on for a local notifier
  Fresh,        \* the listener is started for the first time, with no cache
  Killed,       \* the process may end between calling modules and storing the
                \* entry: signals are blocked there, but not SIGKILL, and a
                \* module's sys.exit() ends the process in PyErr_Print()
  Resyncable,   \* modules univention-directory-listener-ctrl may resync
  MaxLog,       \* bound on the transactions
  MaxCrash,     \* bound on crashes of the listener
  None,         \* no object, entry, transaction or module
  Empty         \* a cache entry without attributes

ASSUME ListenerAssumption ==
  /\ Restricted \subseteq DNs
  /\ Filter \in [Handlers -> SUBSET Vals]
  /\ Watched \subseteq Handlers /\ Always \subseteq Handlers
  /\ Replication \subseteq Always /\ MayFail \subseteq Handlers
  /\ Uncached \subseteq Vals
  /\ Racing \subseteq {"add", "modify", "delete", "move"}
  /\ Reuse \in BOOLEAN /\ Cascade \in BOOLEAN /\ Fresh \in BOOLEAN
  /\ Killed \in BOOLEAN
  /\ Resyncable \subseteq Handlers
  /\ MaxLog \in Nat /\ MaxCrash \in Nat

VARIABLES
  ldap,         \* the objects, by name, on the server the notifier runs on
  log,          \* transactions; the id of a transaction is its position
  cache,        \* the listener's cache, by name
  master,       \* cache_master_entry.id: the transactions done
  outfile,      \* ids written to the local notifier's "listener" file
  failed_ldif,  \* the replication module has given up on the local LDAP
  told,         \* what each module last accepted for each name
  states,       \* the modules whose file in handlers/ says READY
  ready,        \* the modules that are READY in memory
  pending,      \* those change_new_modules has still to look at
  import,       \* the module being initialised, the names it has found and
                \* has still to be told, and rv
  pc, id,       \* where notifier_listen is, and its local id
  cur, prev,    \* trans.cur and trans.prev
  found,        \* the search result: the object's name and contents
  crashes,
  severed       \* history: names a crash left with modules and cache apart

slapd == <<ldap, log>>
disk == <<cache, master, outfile, failed_ldif, told>>
loaded == <<states, ready, pending, import>>
vars == <<slapd, disk, loaded, pc, id, cur, prev, found, crashes, severed>>

----------------------------------------------------------------------------
(* Data *)

Ids == 0..MaxLog
\* uuid is the transaction that created the object, csn the last that changed it.
Objects == [uuid : Ids, val : Vals, csn : Ids]
CacheEntries == [uuid : Ids, val : Vals, csn : Ids, modules : SUBSET Handlers]
Transactions == [command : {"a", "m", "d", "r"}, dn : DNs]
Ops == [id : Ids, command : {"a", "m", "d", "r"}, dn : DNs,
        uuid : Ids \cup {None}, cache : CacheEntries \cup {None}]
Found == [dn : DNs, entry : CacheEntries]
Imports == [module : Handlers, names : SUBSET DNs, rv : {"success", "no_such_object", "other"}]

\* None is a null pointer or a missing number.
ASSUME NoneAssumption ==
  /\ None \notin Nat /\ None \notin CacheEntries /\ None \notin Ops
  /\ None \notin Found /\ None \notin Imports /\ None \notin Objects
  /\ Empty # None /\ Empty \notin CacheEntries

Entry(object, modules) ==
  [uuid |-> object.uuid, val |-> object.val, csn |-> object.csn,
   modules |-> modules]
Object(entry) ==
  [uuid |-> entry.uuid, val |-> entry.val, csn |-> entry.csn]

Visible == {dn \in DNs \ Restricted : ldap[dn] # None}

\* cache_entry_valid: an entry without attributes is as good as none.
Valid(entry) == IF entry = Empty THEN None ELSE entry

----------------------------------------------------------------------------
(* Calling the modules *)

\* Mutant: an attributes list is supposed that the module does not have.
UpToDateByContents(h, new, old) ==
  /\ h \notin Replication
  /\ old # None /\ h \in old.modules /\ new.val = old.val

\* handler__update: only a module that handled the old entry can be up to date.
UpToDate(h, new, old) ==
  /\ h \notin Replication
  /\ old # None /\ h \in old.modules
  /\ IF h \in Watched THEN new.val = old.val ELSE Object(new) = Object(old)

Matches(h, new) == new.val \in Filter[h]

\* Mutant: a module that is up to date is not listed again.
CallHandlersUnlisted(hs, dn, new, old, failed) ==
  LET called == {h \in hs : ~UpToDate(h, new, old) /\ Matches(h, new)}
  IN [told |-> [h \in Handlers |->
                  IF h \in called \ failed
                    THEN [told[h] EXCEPT ![dn] = Object(new)] ELSE told[h]],
      entry |-> [new EXCEPT !.modules = @ \cup (called \ failed)]]

\* Mutant: a module whose filter does not match is listed, too.
CallHandlersListAll(hs, dn, new, old, failed) ==
  LET called == {h \in hs : ~UpToDate(h, new, old) /\ Matches(h, new)}
  IN [told |-> [h \in Handlers |->
                  IF h \in called \ failed
                    THEN [told[h] EXCEPT ![dn] = Object(new)] ELSE told[h]],
      entry |-> [new EXCEPT !.modules = @ \cup (hs \ failed)]]

\* handler__update for each module of hs: the new entry lists the modules that
\* are up to date or succeeded.
CallHandlers(hs, dn, new, old, failed) ==
  LET called == {h \in hs : ~UpToDate(h, new, old) /\ Matches(h, new)}
      current == {h \in hs : UpToDate(h, new, old)}
  IN [told |-> [h \in Handlers |->
                  IF h \in called \ failed
                    THEN [told[h] EXCEPT ![dn] = Object(new)] ELSE told[h]],
      entry |-> [new EXCEPT !.modules = @ \cup current \cup (called \ failed)]]

\* Mutant: a failure keeps the other modules from being called.
HandlersUpdateStops(dn, new, old, failed) ==
  CallHandlers(IF failed = {} THEN Handlers ELSE failed, dn, new, Valid(old), failed)

\* handlers_update
HandlersUpdate(dn, new, old, failed) ==
  CallHandlers(Handlers, dn, new, Valid(old), failed)

\* handlers_delete
HandlersDelete(dn, old, failed) ==
  LET listed == IF old = None THEN {} ELSE old.modules
  IN [h \in Handlers |-> IF h \in (listed \cup Always) \ failed
                           THEN [told[h] EXCEPT ![dn] = None] ELSE told[h]]

\* cache_update_entry_lower
Stored(dn, entry) ==
  IF entry.val \in Uncached THEN cache ELSE [cache EXCEPT ![dn] = entry]

\* The modules handler_exec reports as failed: those whose handler raises an
\* exception, and those that are not ready.
Failing == {raised \cup (Handlers \ ready) : raised \in SUBSET MayFail}

\* Only the replication module writes failed.ldif.
LdifMayFail == failed_ldif' \in IF Replication = {} THEN {failed_ldif}
                                ELSE {failed_ldif, TRUE}

----------------------------------------------------------------------------
(* notifier_listen: the next transaction *)

IsMove(op) == prev # None /\ op.command = "a" /\ prev.id + 1 = op.id

\* The notifier's answer, the details from cn=translog, and change_update_dn up
\* to its search.  With an 'r' stashed the 'a' looks for the moved object.
Fetch ==
  /\ pc = "listen" /\ id < Len(log)
  /\ id' = id + 1
  /\ LET t == log[id + 1]
         cached == Valid(cache[t.dn])
         op == [id |-> id + 1, command |-> t.command, dn |-> t.dn,
                uuid |-> None, cache |-> cached]
         history == prev # None /\ prev.cache # None
     IN /\ cur' = IF prev = None /\ cached # None
                      THEN [op EXCEPT !.uuid = cached.uuid]
                    ELSE IF history
                      THEN [op EXCEPT !.uuid = prev.uuid, !.cache = prev.cache]
                    ELSE op
        /\ pc' = IF history /\ ~IsMove(op) THEN "exit" ELSE "search"
  /\ UNCHANGED <<slapd, disk, loaded, prev, found, crashes, severed>>

\* change_update_cache
Dispatch(dn) ==
  /\ found' = [dn |-> dn, entry |-> Entry(ldap[dn], {})]
  /\ \/ /\ cur.command = "m"
        /\ pc' = IF dn = cur.dn THEN "update" ELSE "finish"
        /\ UNCHANGED <<cur, prev>>
     \/ /\ cur.command = "a"
        /\ pc' = IF IsMove(cur) /\ prev.cache # None THEN "move" ELSE "update"
        /\ UNCHANGED <<cur, prev>>
     \/ /\ cur.command = "d"
        /\ pc' = "delete"
        /\ UNCHANGED <<cur, prev>>
     \/ /\ cur.command = "r"
        /\ prev' = cur /\ cur' = None
        /\ pc' = "finish"

SearchUuid ==
  /\ pc = "search" /\ cur.uuid # None
  /\ LET hits == {dn \in Visible : ldap[dn].uuid = cur.uuid}
     IN \/ \E dn \in hits : Dispatch(dn)
        \/ hits = {} /\ pc' = "retry_dn" /\ UNCHANGED <<cur, prev, found>>
  /\ UNCHANGED <<slapd, disk, loaded, id, crashes, severed>>

\* Mutant: the listener ends when the object is not found.
SearchDnGivesUp ==
  /\ pc = "retry_dn" \/ (pc = "search" /\ cur.uuid = None)
  /\ \/ cur.dn \in Visible /\ Dispatch(cur.dn)
     \/ cur.dn \notin Visible /\ pc' = "exit" /\ UNCHANGED <<cur, prev, found>>
  /\ UNCHANGED <<slapd, disk, loaded, id, crashes, severed>>

SearchDn ==
  /\ pc = "retry_dn" \/ (pc = "search" /\ cur.uuid = None)
  /\ \/ cur.dn \in Visible /\ Dispatch(cur.dn)
     \/ cur.dn \notin Visible /\ pc' = "delete" /\ UNCHANGED <<cur, prev, found>>
  /\ UNCHANGED <<slapd, disk, loaded, id, crashes, severed>>

----------------------------------------------------------------------------
(* change_update_entry, change_delete, process_move *)

UpdateHandlers ==
  /\ pc = "update"
  /\ \E failed \in Failing :
       LET call == HandlersUpdate(found.dn, found.entry, cache[found.dn], failed)
       IN told' = call.told /\ found' = [found EXCEPT !.entry = call.entry]
  /\ LdifMayFail
  /\ pc' = "store"
  /\ UNCHANGED <<slapd, loaded, cache, master, outfile, id, cur, prev,
                 crashes, severed>>

Store ==
  /\ pc = "store"
  /\ cache' = Stored(found.dn, found.entry)
  /\ pc' = "finish"
  /\ UNCHANGED <<slapd, loaded, master, outfile, failed_ldif, told, id, cur,
                 prev, found, crashes, severed>>

DeleteHandlers ==
  /\ pc = "delete"
  /\ \E failed \in Failing :
       told' = HandlersDelete(cur.dn, cur.cache, failed)
  /\ LdifMayFail
  /\ pc' = "drop"
  /\ UNCHANGED <<slapd, loaded, cache, master, outfile, id, cur, prev, found,
                 crashes, severed>>

\* Mutant: the cache entry of a deleted object is kept.
DropNothing ==
  /\ pc = "drop"
  /\ cache' = cache
  /\ pc' = "finish"
  /\ UNCHANGED <<slapd, loaded, master, outfile, failed_ldif, told, id, cur,
                 prev, found, crashes, severed>>

Drop ==
  /\ pc = "drop"
  /\ cache' = IF cur.cache = None THEN cache ELSE [cache EXCEPT ![cur.dn] = None]
  /\ pc' = "finish"
  /\ UNCHANGED <<slapd, loaded, master, outfile, failed_ldif, told, id, cur,
                 prev, found, crashes, severed>>

\* Mutant: the cache entry of the old name is kept.
MoveDropNothing ==
  /\ pc = "move"
  /\ cache' = cache
  /\ pc' = "move_from"
  /\ UNCHANGED <<slapd, loaded, master, outfile, failed_ldif, told, id, cur,
                 prev, found, crashes, severed>>

\* 1. Remove the old cache entry.
MoveDrop ==
  /\ pc = "move"
  /\ cache' = [cache EXCEPT ![prev.dn] = None]
  /\ pc' = "move_from"
  /\ UNCHANGED <<slapd, loaded, master, outfile, failed_ldif, told, id, cur,
                 prev, found, crashes, severed>>

\* 4. Call the handlers: a delete of the old name, an add of the new one.
MoveFrom ==
  /\ pc = "move_from"
  /\ \E failed \in Failing :
       told' = HandlersDelete(prev.dn, prev.cache, failed)
  /\ LdifMayFail
  /\ pc' = "move_to"
  /\ UNCHANGED <<slapd, loaded, cache, master, outfile, id, cur, prev, found,
                 crashes, severed>>

MoveTo ==
  /\ pc = "move_to"
  /\ \E failed \in Failing :
       LET call == HandlersUpdate(cur.dn, cur.cache, None, failed)
       IN told' = call.told /\ cur' = [cur EXCEPT !.cache = call.entry]
  /\ LdifMayFail
  /\ pc' = "move_store"
  /\ UNCHANGED <<slapd, loaded, cache, master, outfile, id, prev, found,
                 crashes, severed>>

\* 5. Store the entry at its new name.  6. If the object is there now, update it.
MoveStore ==
  /\ pc = "move_store"
  /\ cache' = Stored(cur.dn, cur.cache)
  /\ pc' = IF cur.dn = found.dn THEN "update" ELSE "finish"
  /\ UNCHANGED <<slapd, loaded, master, outfile, failed_ldif, told, id, cur,
                 prev, found, crashes, severed>>

----------------------------------------------------------------------------
(* notifier_listen: the transaction is done *)

\* Mutant: failed.ldif is not looked at.
FinishIgnoresLdif ==
  /\ pc = "finish"
  /\ pc' = IF cur = None THEN "listen"
           ELSE IF prev # None THEN "write_prev" ELSE "write_cur"
  /\ UNCHANGED <<slapd, disk, loaded, id, cur, prev, found, crashes, severed>>

\* Mutant: an 'r' counts as done without its 'a'.
FinishCommitsStashed ==
  /\ pc = "finish"
  /\ pc' = IF failed_ldif THEN "exit" ELSE IF cur = None THEN "commit"
           ELSE IF prev # None THEN "write_prev" ELSE "write_cur"
  /\ UNCHANGED <<slapd, disk, loaded, id, cur, prev, found, crashes, severed>>

\* failed.ldif stops the listener; an 'r' just stashed waits for its 'a'.
Finish ==
  /\ pc = "finish"
  /\ pc' = IF failed_ldif THEN "exit" ELSE IF cur = None THEN "listen"
           ELSE IF prev # None THEN "write_prev" ELSE "write_cur"
  /\ UNCHANGED <<slapd, disk, loaded, id, cur, prev, found, crashes, severed>>

Written(op) == outfile' = IF Cascade THEN Append(outfile, op.id) ELSE outfile

\* Mutant: the 'r' is not passed on.
WritePrevForgets ==
  /\ pc = "write_prev"
  /\ UNCHANGED outfile /\ prev' = None
  /\ pc' = "write_cur"
  /\ UNCHANGED <<slapd, loaded, cache, master, failed_ldif, told, id, cur,
                 found, crashes, severed>>

WritePrev ==
  /\ pc = "write_prev"
  /\ Written(prev) /\ prev' = None
  /\ pc' = "write_cur"
  /\ UNCHANGED <<slapd, loaded, cache, master, failed_ldif, told, id, cur,
                 found, crashes, severed>>

WriteCur ==
  /\ pc = "write_cur"
  /\ Written(cur)
  /\ pc' = "commit"
  /\ UNCHANGED <<slapd, loaded, cache, master, failed_ldif, told, id, cur,
                 prev, found, crashes, severed>>

\* Mutant: the id after the transaction counts as done.
CommitOffByOne ==
  /\ pc = "commit"
  /\ master' = id + 1
  /\ cur' = None /\ pc' = "listen"
  /\ UNCHANGED <<slapd, loaded, cache, outfile, failed_ldif, told, id, prev,
                 found, crashes, severed>>

\* cache_update_master_entry (the file notifier_id only repeats it).
Commit ==
  /\ pc = "commit"
  /\ master' = id
  /\ cur' = None /\ pc' = "listen"
  /\ UNCHANGED <<slapd, loaded, cache, outfile, failed_ldif, told, id, prev,
                 found, crashes, severed>>

\* The process ended; the supervisor starts it again.  main() reads the modules'
\* state files and the master entry, which on the first start is the id the
\* notifier has come to.
Restart ==
  /\ pc = "exit"
  /\ ready' = states /\ pending' = Handlers \ states
  /\ master' \in IF master = None THEN 0..Len(log) ELSE {master}
  /\ id' = master' /\ cur' = None /\ prev' = None /\ found' = None
  /\ pc' = "init"
  /\ UNCHANGED <<slapd, cache, outfile, failed_ldif, told, states, import,
                 crashes, severed>>

\* The places between signals_block() and signals_unblock().  process_move
\* unblocks them before it stores the entry.
Blocked == {"store", "drop", "move_to"}

\* The name the modules have been told of and the cache not, or a move has taken
\* from the cache and not from the modules.
Apart == {dn \in DNs : \/ pc = "store" /\ dn = found.dn
                       \/ pc = "move_from" /\ dn = prev.dn
                       \/ pc = "move_store" /\ dn = cur.dn}

Crash ==
  /\ pc # "exit" /\ crashes < MaxCrash
  /\ Killed \/ pc \notin Blocked
  /\ crashes' = crashes + 1 /\ severed' = severed \cup Apart
  /\ pc' = "exit" /\ import' = None
  /\ UNCHANGED <<slapd, disk, states, ready, pending, id, cur, prev, found>>

\* univention-directory-replication-resync replays failed.ldif and removes it.
ResyncLdif ==
  /\ failed_ldif /\ failed_ldif' = FALSE
  /\ UNCHANGED <<slapd, loaded, cache, master, outfile, told, pc, id, cur,
                 prev, found, crashes, severed>>

----------------------------------------------------------------------------
(* change_new_modules and change_init_module *)

\* A module that is not ready is initialised: its clean() forgets what it was
\* told (the replication module removes failed.ldif, too), and the cache what it
\* has handled, with the entries no other handles.
InitModule(h) ==
  LET rest(entry) == IF Valid(entry) = None \/ entry.modules \subseteq {h}
                       THEN None ELSE [entry EXCEPT !.modules = @ \ {h}]
  IN /\ pc = "init" /\ h \in pending
     /\ pending' = pending \ {h} /\ ready' = ready \cup {h}
     /\ told' = [told EXCEPT ![h] = [dn \in DNs |-> None]]
     /\ failed_ldif' = (failed_ldif /\ h \notin Replication)
     /\ cache' = [dn \in DNs |-> rest(cache[dn])]
     /\ import' = [module |-> h, names |-> {}, rv |-> "success"]
     /\ pc' = "search_module"
     /\ UNCHANGED <<slapd, master, outfile, states, id, cur, prev, found, crashes, severed>>

SearchModule ==
  /\ pc = "search_module"
  /\ import' = [import EXCEPT
                  !.names = {dn \in Visible : Matches(import.module, ldap[dn])}]
  /\ pc' = "import"
  /\ UNCHANGED <<slapd, disk, states, ready, pending, id, cur, prev, found,
                 crashes, severed>>

\* A search or the schema fails.
ImportAborts ==
  /\ pc = "search_module" \/ (pc = "import" /\ import.names # {})
  /\ import' = [import EXCEPT !.names = {}, !.rv = "other"]
  /\ pc' = "import"
  /\ UNCHANGED <<slapd, disk, states, ready, pending, id, cur, prev, found,
                 crashes, severed>>

\* The module is told what the cache says, or else LDAP.  An object deleted in
\* the meantime leaves an entry without attributes, and LDAP_NO_SUCH_OBJECT in rv.
ImportEntry(dn) ==
  LET h == import.module
      entry == IF cache[dn] # None THEN cache[dn]
               ELSE IF dn \in Visible THEN Entry(ldap[dn], {}) ELSE Empty
  IN /\ pc = "import" /\ dn \in import.names
     /\ IF entry = Empty
          THEN told' = told /\ cache' = [cache EXCEPT ![dn] = Empty]
          ELSE \E failed \in SUBSET MayFail :
                 LET call == CallHandlers({h}, dn, entry, None, failed)
                 IN told' = call.told /\ cache' = Stored(dn, call.entry)
     /\ import' = [import EXCEPT
                     !.names = @ \ {dn},
                     !.rv = IF entry = Empty /\ cache[dn] = None
                              THEN "no_such_object" ELSE "success"]
     /\ LdifMayFail
     /\ UNCHANGED <<slapd, master, outfile, states, ready, pending, pc, id,
                    cur, prev, found, crashes, severed>>

\* handler_write_state: what rv was last decides.
ImportDone ==
  /\ pc = "import" /\ import.names = {}
  /\ ready' = IF import.rv = "success" THEN ready ELSE ready \ {import.module}
  /\ states' = ready'
  /\ import' = None /\ pc' = "init"
  /\ UNCHANGED <<slapd, disk, pending, id, cur, prev, found, crashes, severed>>

\* Mutant: after the imports the listener skips what waits.
ListenFromNow ==
  /\ pc = "init" /\ pending = {}
  /\ master' = Len(log) /\ id' = Len(log)
  /\ pc' = "listen"
  /\ UNCHANGED <<slapd, cache, outfile, failed_ldif, told, loaded, cur, prev,
                 found, crashes, severed>>

\* notifier_listen starts with the master entry's id.
Listen ==
  /\ pc = "init" /\ pending = {}
  /\ pc' = "listen"
  /\ UNCHANGED <<slapd, disk, loaded, id, cur, prev, found, crashes, severed>>

\* univention-directory-listener-ctrl resync removes a state file, while the
\* listener is stopped.
Resync(h) ==
  /\ pc = "exit" /\ h \in Resyncable \cap states
  /\ states' = states \ {h}
  /\ UNCHANGED <<slapd, disk, ready, pending, import, pc, id, cur, prev, found,
                 crashes, severed>>

----------------------------------------------------------------------------
(* slapd (external): each operation writes its transactions *)

Idle == /\ pc \in {"listen", "exit", "init", "search_module", "import"}
        /\ prev = None

Operation(kind, transactions) ==
  /\ Idle \/ kind \in Racing
  /\ Len(log) + Len(transactions) <= MaxLog
  /\ log' = log \o transactions
  /\ UNCHANGED <<disk, loaded, pc, id, cur, prev, found, crashes, severed>>

\* A name no waiting transaction is about, unless names may be reused.
Free(dn) == /\ ldap[dn] = None
            /\ Reuse \/ LET done == IF master = None THEN 0 ELSE master
                        IN \A i \in done + 1..Len(log) : log[i].dn # dn

T(command, dn) == [command |-> command, dn |-> dn]
Next_id == Len(log) + 1

LdapAdd(dn, val) ==
  /\ Free(dn)
  /\ ldap' = [ldap EXCEPT ![dn] = [uuid |-> Next_id, val |-> val, csn |-> Next_id]]
  /\ Operation("add", <<T("a", dn)>>)

LdapModify(dn, val) ==
  /\ ldap[dn] # None
  /\ ldap' = [ldap EXCEPT ![dn].val = val, ![dn].csn = Next_id]
  /\ Operation("modify", <<T("m", dn)>>)

LdapDelete(dn) ==
  /\ ldap[dn] # None
  /\ ldap' = [ldap EXCEPT ![dn] = None]
  /\ Operation("delete", <<T("d", dn)>>)

LdapMove(from, to) ==
  /\ ldap[from] # None /\ Free(to)
  /\ ldap' = [ldap EXCEPT ![from] = None,
                          ![to] = [ldap[from] EXCEPT !.csn = Next_id]]
  /\ Operation("move", <<T("r", from), T("a", to)>>)

----------------------------------------------------------------------------

\* There is at most one object, and the listener is up to date or has never run.
Init ==
  /\ ldap \in [DNs -> [uuid : {0}, val : Vals, csn : {0}] \cup {None}]
  /\ \A dn, other \in DNs : ldap[dn] # None /\ ldap[other] # None => dn = other
  /\ log = <<>>
  /\ told = [h \in Handlers |-> [dn \in DNs |->
               IF ~Fresh /\ dn \in Visible /\ Matches(h, ldap[dn])
                 THEN ldap[dn] ELSE None]]
  /\ cache = [dn \in DNs |->
                IF ~Fresh /\ dn \in Visible /\ ldap[dn].val \notin Uncached
                  THEN Entry(ldap[dn], {h \in Handlers : Matches(h, ldap[dn])})
                  ELSE None]
  /\ states = (IF Fresh THEN {} ELSE Handlers) /\ ready = states
  /\ pending = {} /\ import = None
  /\ master = (IF Fresh THEN None ELSE 0)
  /\ pc = (IF Fresh THEN "exit" ELSE "listen")
  /\ outfile = <<>> /\ failed_ldif = FALSE
  /\ id = 0 /\ cur = None /\ prev = None /\ found = None
  /\ crashes = 0 /\ severed = {}

Slapd == \E dn \in DNs :
           \/ \E val \in Vals : LdapAdd(dn, val) \/ LdapModify(dn, val)
           \/ LdapDelete(dn)
           \/ \E to \in DNs : LdapMove(dn, to)
Process == \/ Fetch \/ SearchUuid \/ SearchDn
           \/ UpdateHandlers \/ Store \/ DeleteHandlers \/ Drop
           \/ MoveDrop \/ MoveFrom \/ MoveTo \/ MoveStore
           \/ Finish \/ WritePrev \/ WriteCur \/ Commit \/ Restart
           \/ SearchModule \/ ImportAborts \/ ImportDone \/ Listen
           \/ \E h \in Handlers : InitModule(h)
           \/ \E dn \in DNs : ImportEntry(dn)
Next == Slapd \/ Process \/ Crash \/ ResyncLdif \/ \E h \in Handlers : Resync(h)

Spec == Init /\ [][Next]_vars

\* The listener runs, and the supervisor starts it again when it ends.
FairSpec == Spec /\ WF_vars(Process)

----------------------------------------------------------------------------
(* Properties *)

Labels == {"listen", "search", "retry_dn", "update", "store", "delete", "drop",
           "move", "move_from", "move_to", "move_store", "finish", "write_prev",
           "write_cur", "commit", "exit", "init", "search_module", "import"}

TypeOK ==
  /\ ldap \in [DNs -> Objects \cup {None}]
  /\ log \in Seq(Transactions) /\ Len(log) <= MaxLog
  /\ cache \in [DNs -> CacheEntries \cup {None, Empty}]
  /\ told \in [Handlers -> [DNs -> Objects \cup {None}]]
  /\ states \subseteq Handlers /\ ready \subseteq Handlers
  /\ pending \subseteq Handlers /\ import \in Imports \cup {None}
  /\ master \in Ids \cup {None} /\ id \in Ids /\ outfile \in Seq(Ids)
  /\ failed_ldif \in BOOLEAN
  /\ pc \in Labels
  /\ cur \in Ops \cup {None} /\ prev \in Ops \cup {None}
  /\ found \in Found \cup {None}
  /\ crashes \in 0..MaxCrash /\ severed \subseteq DNs

CaughtUp == pc = "listen" /\ prev = None /\ id = Len(log)

Plain(entry) == IF Valid(entry) = None THEN None ELSE Object(entry)

\* Once the listener has worked off all transactions its cache is what LDAP
\* shows it, whatever the object went through while it lagged behind.
CacheConverges ==
  CaughtUp => \A dn \in DNs :
                \/ Plain(cache[dn]) = IF dn \in Visible THEN ldap[dn] ELSE None
                \/ dn \in Visible /\ ldap[dn].val \in Uncached
                \/ Plain(cache[dn]) = None
                     /\ \A h \in ready : ~Matches(h, ldap[dn])

\* ... and every module that does not fail knows the objects that match its filter,
\* except under a name that a crash left apart.
ModulesConverge ==
  CaughtUp => \A dn \in Visible \ severed, h \in ready \ MayFail :
                Matches(h, ldap[dn]) => told[h][dn] # None
                  /\ (h \notin Watched => told[h][dn] = ldap[dn])
                  /\ told[h][dn].val = ldap[dn].val

\* developer-reference, listener.xml: the cache keeps the modules that handled
\* an object, which guarantees that each is still called for it later.
ModuleIsStillCalled ==
  CaughtUp => \A dn \in DNs \ severed, h \in ready \ MayFail :
                told[h][dn] # None =>
                  Valid(cache[dn]) # None /\ h \in cache[dn].modules

\* ... and the modules kept are those that successfully handled the object, also
\* where a crash came between.
ModulesSucceeded ==
  CaughtUp => \A dn \in DNs : Valid(cache[dn]) # None =>
                \A h \in (cache[dn].modules \cap ready) \ MayFail :
                  told[h][dn] # None

\* Every transaction done has been passed on to the local notifier, and none
\* before its predecessors, although a crash may repeat some.
CascadeComplete ==
  Cascade /\ ~Fresh =>
    /\ 1..master \subseteq {outfile[i] : i \in DOMAIN outfile}
    /\ \A j \in DOMAIN outfile :
         1..(outfile[j] - 1) \subseteq {outfile[k] : k \in 1..(j - 1)}

\* transfile.c: while failed.ldif exists no transaction is passed on or done.
FailedLdifStops == [][failed_ldif => UNCHANGED <<master, outfile>>]_vars

\* change.c: a module's import does not fail because an object was deleted
\* after it was found; only a search that failed makes the module not ready.
DeletedIsIgnored ==
  [][pc = "import" /\ pc' = "init" /\ import.rv # "other" => ready' = ready]_vars

\* Every transaction is worked off in the end, unless the replication module
\* gives up on the local LDAP.
EveryTransactionIsDone ==
  \A n \in 1..MaxLog : n <= Len(log) ~> n <= master \/ failed_ldif
=============================================================================
