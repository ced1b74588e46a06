--------------------------- MODULE ListenerProofs ---------------------------
(***************************************************************************)
(* What the listener does to the transactions it follows: none is passed   *)
(* on or done while failed.ldif exists, and all of them are passed on, in  *)
(* their order, through any crash - for any objects, modules and filters.  *)
(***************************************************************************)
EXTENDS Listener, SequenceTheorems, TLAPS

-----------------------------------------------------------------------------
(* Entries and what calling the modules returns *)

LEMMA EntryType ==
  ASSUME NEW object \in Objects
  PROVE  Entry(object, {}) \in CacheEntries
BY DEF Objects, CacheEntries, Entry

LEMMA ObjectType ==
  ASSUME NEW entry \in CacheEntries
  PROVE  Object(entry) \in Objects
BY DEF Objects, CacheEntries, Object

LEMMA ValidType ==
  ASSUME NEW entry \in CacheEntries \cup {None, Empty}
  PROVE  Valid(entry) \in CacheEntries \cup {None}
BY DEF Valid

TellsType == told \in [Handlers -> [DNs -> Objects \cup {None}]]

LEMMA CallType ==
  ASSUME TellsType, NEW hs \in SUBSET Handlers, NEW dn, NEW old, NEW failed,
         NEW new \in CacheEntries
  PROVE  LET call == CallHandlers(hs, dn, new, old, failed)
         IN /\ call.told \in [Handlers -> [DNs -> Objects \cup {None}]]
            /\ call.entry \in CacheEntries
<1> DEFINE called == {h \in hs : ~UpToDate(h, new, old) /\ Matches(h, new)}
           current == {h \in hs : UpToDate(h, new, old)}
           tell(h) == IF h \in called \ failed
                        THEN [told[h] EXCEPT ![dn] = Object(new)] ELSE told[h]
           entry == [new EXCEPT !.modules = @ \cup current \cup (called \ failed)]
<1>1. Object(new) \in Objects
  BY ObjectType
<1>2. \A h \in Handlers : tell(h) \in [DNs -> Objects \cup {None}]
  BY <1>1 DEF TellsType
<1>3. called \subseteq Handlers /\ current \subseteq Handlers
  OBVIOUS
<1>4. entry \in CacheEntries
  <2> HIDE DEF called, current
  <2> QED  BY <1>3 DEF CacheEntries
<1>5. CallHandlers(hs, dn, new, old, failed)
        = [told |-> [h \in Handlers |-> tell(h)], entry |-> entry]
  BY Zenon DEF CallHandlers
<1> HIDE DEF tell, entry
<1> QED  BY <1>2, <1>4, <1>5

LEMMA UpdateType ==
  ASSUME TellsType, NEW dn, NEW old, NEW failed, NEW new \in CacheEntries
  PROVE  LET call == HandlersUpdate(dn, new, old, failed)
         IN /\ call.told \in [Handlers -> [DNs -> Objects \cup {None}]]
            /\ call.entry \in CacheEntries
BY CallType DEF HandlersUpdate

LEMMA DeleteType ==
  ASSUME TellsType, NEW dn, NEW old, NEW failed
  PROVE  HandlersDelete(dn, old, failed) \in [Handlers -> [DNs -> Objects \cup {None}]]
<1> DEFINE listed == IF old = None THEN {} ELSE old.modules
           tell(h) == IF h \in (listed \cup Always) \ failed
                        THEN [told[h] EXCEPT ![dn] = None] ELSE told[h]
<1>1. \A h \in Handlers : tell(h) \in [DNs -> Objects \cup {None}]
  <2> HIDE DEF listed
  <2> QED  BY DEF TellsType
<1>2. HandlersDelete(dn, old, failed) = [h \in Handlers |-> tell(h)]
  BY Zenon DEF HandlersDelete
<1> HIDE DEF tell
<1> QED  BY <1>1, <1>2

LEMMA StoredType ==
  ASSUME cache \in [DNs -> CacheEntries \cup {None, Empty}], NEW dn,
         NEW entry \in CacheEntries
  PROVE  Stored(dn, entry) \in [DNs -> CacheEntries \cup {None, Empty}]
BY DEF Stored

-----------------------------------------------------------------------------
(* Types *)

\* The places where a transaction is being worked on.
Moving == {"move", "move_from", "move_to", "move_store"}
Working == {"search", "retry_dn", "update", "store", "delete", "drop"} \cup Moving

\* What notifier_listen and the initialisation have in their hands at each place.
InHand ==
  /\ pc \in Working \cup {"write_prev", "write_cur"} => cur # None
  /\ pc = "write_prev" => prev # None
  /\ pc \in {"search", "retry_dn"} /\ prev # None /\ prev.cache # None
       => cur.cache # None
  /\ pc \in Moving => cur.cache # None
  /\ pc \in {"update", "store"} \cup Moving => found # None
  /\ pc \in {"search_module", "import"} => import # None

Typed == TypeOK /\ InHand

LEMMA InitTyped == Init => Typed
<1> SUFFICES ASSUME Init  PROVE Typed
  OBVIOUS
<1>1. /\ MaxLog \in Nat /\ MaxCrash \in Nat /\ 0 \in Ids
  BY ListenerAssumption DEF ListenerAssumption, Ids
<1>2. ldap \in [DNs -> Objects \cup {None}]
  BY <1>1 DEF Init, Objects
<1>3. told \in [Handlers -> [DNs -> Objects \cup {None}]]
  <2> DEFINE known(h, dn) == ~Fresh /\ dn \in Visible /\ Matches(h, ldap[dn])
  <2> HIDE DEF known
  <2>1. told = [h \in Handlers |-> [dn \in DNs |->
                  IF known(h, dn) THEN ldap[dn] ELSE None]]
    BY Zenon DEF Init, known
  <2> QED  BY <2>1, <1>2
<1>4. cache \in [DNs -> CacheEntries \cup {None, Empty}]
  <2> DEFINE kept(dn) == IF ~Fresh /\ dn \in Visible /\ ldap[dn].val \notin Uncached
                  THEN Entry(ldap[dn], {h \in Handlers : Matches(h, ldap[dn])})
                  ELSE None
  <2>1. ASSUME NEW dn \in DNs  PROVE kept(dn) \in CacheEntries \cup {None, Empty}
    <3> DEFINE hs == {h \in Handlers : Matches(h, ldap[dn])}
    <3>1. hs \subseteq Handlers
      OBVIOUS
    <3>2. CASE dn \in Visible
      <4>1. ldap[dn] \in Objects
        BY <1>2, <3>2 DEF Visible
      <4> HIDE DEF hs
      <4>2. Entry(ldap[dn], hs) \in CacheEntries
        BY <3>1, <4>1 DEF Entry, Objects, CacheEntries
      <4> QED  BY <4>2 DEF hs
    <3> QED  BY <3>2
  <2>2. cache = [dn \in DNs |-> kept(dn)]
    BY Zenon DEF Init
  <2> HIDE DEF kept
  <2> QED  BY <2>1, <2>2
<1>5. /\ states \subseteq Handlers /\ ready \subseteq Handlers
      /\ pending = {} /\ import = None /\ master \in Ids \cup {None}
      /\ pc \in {"exit", "listen"} /\ failed_ldif = FALSE
      /\ id = 0 /\ cur = None /\ prev = None /\ found = None /\ crashes = 0
      /\ severed = {} /\ log = <<>> /\ outfile = <<>>
  BY <1>1 DEF Init
<1>6. log \in Seq(Transactions) /\ outfile \in Seq(Ids) /\ Len(log) = 0
  BY <1>5
<1>7. TypeOK
  <2>1. /\ pending \subseteq Handlers /\ import \in Imports \cup {None}
        /\ cur \in Ops \cup {None} /\ prev \in Ops \cup {None}
        /\ found \in Found \cup {None} /\ pc \in Labels
    BY <1>5 DEF Labels
  <2>2. failed_ldif \in BOOLEAN
    BY <1>5
  <2>3. id \in Ids /\ crashes \in 0..MaxCrash /\ severed \subseteq DNs /\ Len(log) <= MaxLog
    BY <1>1, <1>5, <1>6
  <2> QED  BY <1>2, <1>3, <1>4, <1>5, <1>6, <2>1, <2>2, <2>3 DEF TypeOK
<1>8. InHand
  BY <1>5 DEF InHand, Working, Moving
<1> QED  BY <1>7, <1>8 DEF Typed

\* slapd changes ldap and log only.
LEMMA SlapdTyped ==
  ASSUME Typed, Slapd
  PROVE  Typed'
<1> USE ListenerAssumption DEF ListenerAssumption
<1>1. UNCHANGED <<disk, loaded, pc, id, cur, prev, found, crashes, severed>>
  BY DEF Slapd, LdapAdd, LdapModify, LdapDelete, LdapMove, Operation
<1>2. log \in Seq(Transactions) /\ Len(log) \in Nat
      /\ ldap \in [DNs -> Objects \cup {None}]
  BY DEF Typed, TypeOK
<1>3. ASSUME NEW kind, NEW ts \in Seq(Transactions), Operation(kind, ts)
      PROVE  log' \in Seq(Transactions) /\ Len(log') <= MaxLog
  BY <1>2, <1>3 DEF Operation
<1>4. /\ ldap' \in [DNs -> Objects \cup {None}]
      /\ log' \in Seq(Transactions) /\ Len(log') <= MaxLog
  <2>1. PICK dn \in DNs :
           \/ \E val \in Vals : LdapAdd(dn, val) \/ LdapModify(dn, val)
           \/ LdapDelete(dn)
           \/ \E to \in DNs : LdapMove(dn, to)
    BY DEF Slapd
  <2>2. ASSUME NEW c \in {"a", "m", "d", "r"}, NEW name \in DNs
        PROVE  T(c, name) \in Transactions
    BY DEF T, Transactions
  <2>3. ASSUME NEW c \in {"a", "m", "d", "r"}, NEW name \in DNs
        PROVE  <<T(c, name)>> \in Seq(Transactions) /\ Len(<<T(c, name)>>) = 1
    BY <2>2
  <2>4. ASSUME NEW kind, NEW c \in {"a", "m", "d", "r"}, NEW name \in DNs,
               Operation(kind, <<T(c, name)>>)
        PROVE  Next_id \in Ids
    BY <2>3, <2>4, <1>2 DEF Operation, Next_id, Ids
  <2>5. ASSUME NEW val \in Vals, LdapAdd(dn, val) \/ LdapModify(dn, val)
        PROVE  ldap' \in [DNs -> Objects \cup {None}] /\ log' \in Seq(Transactions)
                 /\ Len(log') <= MaxLog
    <3>1. \E kind : \E c \in {"a", "m"} : Operation(kind, <<T(c, dn)>>)
      BY <2>5 DEF LdapAdd, LdapModify
    <3>2. Next_id \in Ids /\ log' \in Seq(Transactions) /\ Len(log') <= MaxLog
      BY <3>1, <2>3, <2>4, <1>3
    <3>3. ldap' \in [DNs -> Objects \cup {None}]
      BY <2>5, <3>2, <1>2 DEF LdapAdd, LdapModify, Objects
    <3> QED  BY <3>2, <3>3
  <2>6. ASSUME LdapDelete(dn)
        PROVE  ldap' \in [DNs -> Objects \cup {None}] /\ log' \in Seq(Transactions)
                 /\ Len(log') <= MaxLog
    BY <2>6, <2>3, <1>2, <1>3 DEF LdapDelete
  <2>7. ASSUME NEW to \in DNs, LdapMove(dn, to)
        PROVE  ldap' \in [DNs -> Objects \cup {None}] /\ log' \in Seq(Transactions)
                 /\ Len(log') <= MaxLog
    <3> DEFINE ts == <<T("r", dn), T("a", to)>>
    <3>1. ts \in Seq(Transactions) /\ Len(ts) = 2
      BY <2>2
    <3>2. Operation("move", ts)
      BY <2>7 DEF LdapMove
    <3> HIDE DEF ts
    <3>3. Next_id \in Ids
      BY <3>1, <3>2, <1>2 DEF Operation, Next_id, Ids
    <3>4. ldap[dn] \in Objects
      BY <2>7, <1>2 DEF LdapMove
    <3>5. [ldap[dn] EXCEPT !.csn = Next_id] \in Objects
      BY <3>3, <3>4 DEF Objects
    <3>6. ldap' \in [DNs -> Objects \cup {None}]
      BY <2>7, <3>5, <1>2 DEF LdapMove
    <3> QED  BY <3>1, <3>2, <3>6, <1>3
  <2> QED  BY <2>1, <2>5, <2>6, <2>7
<1>5. TypeOK'
  BY <1>1, <1>4 DEF Typed, TypeOK, disk, loaded
<1>6. InHand'
  BY <1>1 DEF Typed, InHand, disk, loaded
<1> QED  BY <1>5, <1>6 DEF Typed

LEMMA FetchTyped ==
  ASSUME Typed, Fetch
  PROVE  Typed'
<1> DEFINE t == log[id + 1]
           cached == Valid(cache[t.dn])
           op == [id |-> id + 1, command |-> t.command, dn |-> t.dn,
                  uuid |-> None, cache |-> cached]
           history == prev # None /\ prev.cache # None
<1>1. /\ UNCHANGED <<slapd, disk, loaded, prev, found, crashes, severed>>
      /\ id' = id + 1 /\ pc' \in {"exit", "search"}
      /\ cur' = IF prev = None /\ cached # None
                   THEN [op EXCEPT !.uuid = cached.uuid]
                 ELSE IF history
                   THEN [op EXCEPT !.uuid = prev.uuid, !.cache = prev.cache]
                 ELSE op
  BY DEF Fetch
<1>2. t \in Transactions /\ id + 1 \in Ids
  BY ListenerAssumption DEF ListenerAssumption, Fetch, Typed, TypeOK, Ids
<1>3. cached \in CacheEntries \cup {None}
  BY <1>2, ValidType DEF Typed, TypeOK, Transactions
<1>4. op \in Ops
  BY <1>2, <1>3 DEF Transactions, Ops
<1> HIDE DEF op, cached
<1>5. cur' \in Ops
  <2>1. CASE prev = None /\ cached # None
    <3>1. cached.uuid \in Ids
      BY <2>1, <1>3 DEF CacheEntries
    <3> QED  BY <2>1, <3>1, <1>1, <1>4 DEF Ops
  <2>2. CASE history
    <3>1. prev.uuid \in Ids \cup {None} /\ prev.cache \in CacheEntries \cup {None}
      BY <2>2 DEF Typed, TypeOK, Ops
    <3> QED  BY <2>2, <3>1, <1>1, <1>4 DEF Ops
  <2> QED  BY <2>1, <2>2, <1>1, <1>4
<1>6. history => cur'.cache = prev.cache
  BY <1>1, <1>4 DEF Ops
<1>7. cur' # None
  BY <1>5, NoneAssumption DEF NoneAssumption
<1>8. TypeOK'
  BY <1>1, <1>2, <1>5 DEF Typed, TypeOK, slapd, disk, loaded, Labels
<1>9. InHand'
  BY <1>1, <1>6, <1>7 DEF InHand, Working, Moving
<1> QED  BY <1>8, <1>9 DEF Typed

LEMMA SearchTyped ==
  ASSUME Typed, SearchUuid \/ SearchDn
  PROVE  Typed'
<1>1. /\ UNCHANGED <<slapd, disk, loaded, id, crashes, severed>>
      /\ pc \in {"search", "retry_dn"}
      /\ \/ \E dn \in Visible : Dispatch(dn)
         \/ pc' \in {"retry_dn", "delete"} /\ UNCHANGED <<cur, prev, found>>
  BY DEF SearchUuid, SearchDn
<1>2. /\ cur # None /\ cur \in Ops /\ prev \in Ops \cup {None}
      /\ prev # None /\ prev.cache # None => cur.cache # None
  BY <1>1 DEF Typed, TypeOK, InHand, Working
<1>3. CASE pc' \in {"retry_dn", "delete"} /\ UNCHANGED <<cur, prev, found>>
  <2>1. TypeOK'
    BY <1>1, <1>3 DEF Typed, TypeOK, slapd, disk, loaded, Labels
  <2>2. InHand'
    BY <1>2, <1>3 DEF InHand, Working, Moving
  <2> QED  BY <2>1, <2>2 DEF Typed
<1>4. CASE \E dn \in Visible : Dispatch(dn)
  <2>1. PICK dn \in Visible : Dispatch(dn)
    BY <1>4
  <2>2. ldap[dn] \in Objects /\ dn \in DNs
    BY <2>1 DEF Typed, TypeOK, Visible
  <2>3. found' \in Found /\ found' # None
    <3>1. Entry(ldap[dn], {}) \in CacheEntries
      BY <2>2, EntryType
    <3>2. found' \in Found
      BY <2>1, <2>2, <3>1 DEF Dispatch, Found
    <3> QED  BY <3>2, NoneAssumption DEF NoneAssumption
  <2>4. /\ cur' \in Ops \cup {None} /\ prev' \in Ops \cup {None}
        /\ pc' \in {"update", "finish", "move", "delete"}
        /\ pc' # "finish" => cur' = cur
        /\ pc' = "move" => prev' = prev /\ cur.cache # None
    <3>1. CASE cur.command = "m"
      BY <1>2, <2>1, <3>1 DEF Dispatch
    <3>2. CASE cur.command = "a"
      BY <1>2, <2>1, <3>2 DEF Dispatch, IsMove
    <3>3. CASE cur.command = "d"
      BY <1>2, <2>1, <3>3 DEF Dispatch
    <3>4. CASE cur.command = "r"
      BY <1>2, <2>1, <3>4 DEF Dispatch
    <3> QED  BY <3>1, <3>2, <3>3, <3>4, <2>1 DEF Dispatch
  <2>5. TypeOK'
    BY <1>1, <2>3, <2>4 DEF Typed, TypeOK, slapd, disk, loaded, Labels
  <2>6. InHand'
    BY <1>2, <2>3, <2>4 DEF InHand, Working, Moving
  <2> QED  BY <2>5, <2>6 DEF Typed
<1> QED  BY <1>1, <1>3, <1>4

LEMMA HandlersTyped ==
  ASSUME Typed, UpdateHandlers \/ DeleteHandlers \/ MoveFrom \/ MoveTo
  PROVE  Typed'
<1>1. TellsType
  BY DEF Typed, TypeOK, TellsType
<1>2. LdifMayFail => failed_ldif' \in BOOLEAN
  BY DEF LdifMayFail, Typed, TypeOK
<1>3. CASE UpdateHandlers
  <2>1. found \in Found
    BY <1>3 DEF UpdateHandlers, Typed, TypeOK, InHand
  <2>2. PICK failed \in Failing :
          LET call == HandlersUpdate(found.dn, found.entry, cache[found.dn], failed)
          IN told' = call.told /\ found' = [found EXCEPT !.entry = call.entry]
    BY <1>3 DEF UpdateHandlers
  <2> DEFINE call == HandlersUpdate(found.dn, found.entry, cache[found.dn], failed)
  <2>3. /\ call.told \in [Handlers -> [DNs -> Objects \cup {None}]]
        /\ call.entry \in CacheEntries
    <3>1. found.entry \in CacheEntries
      BY <2>1 DEF Found
    <3> QED  BY <1>1, <3>1, UpdateType
  <2>4. told' = call.told /\ found' = [found EXCEPT !.entry = call.entry]
    BY <2>2
  <2> HIDE DEF call
  <2>5. found' \in Found /\ found' # None
    <3>1. found' \in Found
      BY <2>1, <2>3, <2>4 DEF Found
    <3> QED  BY <3>1, NoneAssumption DEF NoneAssumption
  <2>6. /\ pc' = "store" /\ failed_ldif' \in BOOLEAN /\ cur # None
        /\ UNCHANGED <<slapd, loaded, cache, master, outfile, id, cur, prev, crashes, severed>>
    BY <1>2, <1>3 DEF UpdateHandlers, Typed, InHand, Working
  <2>7. TypeOK'
    BY <2>3, <2>4, <2>5, <2>6 DEF Typed, TypeOK, slapd, loaded, Labels
  <2>8. InHand'
    BY <2>5, <2>6 DEF InHand, Working, Moving
  <2> QED  BY <2>7, <2>8 DEF Typed
<1>4. CASE DeleteHandlers
  <2>1. told' \in [Handlers -> [DNs -> Objects \cup {None}]]
    BY <1>1, <1>4, DeleteType DEF DeleteHandlers
  <2>2. /\ pc' = "drop" /\ failed_ldif' \in BOOLEAN /\ cur # None
        /\ UNCHANGED <<slapd, loaded, cache, master, outfile, id, cur, prev,
                       found, crashes, severed>>
    BY <1>2, <1>4 DEF DeleteHandlers, Typed, InHand, Working
  <2>3. TypeOK'
    BY <2>1, <2>2 DEF Typed, TypeOK, slapd, loaded, Labels
  <2>4. InHand'
    BY <2>2 DEF InHand, Working, Moving
  <2> QED  BY <2>3, <2>4 DEF Typed
<1>5. CASE MoveFrom
  <2>1. told' \in [Handlers -> [DNs -> Objects \cup {None}]]
    BY <1>1, <1>5, DeleteType DEF MoveFrom
  <2>2. /\ pc' = "move_to" /\ failed_ldif' \in BOOLEAN
        /\ cur # None /\ cur.cache # None /\ found # None
        /\ UNCHANGED <<slapd, loaded, cache, master, outfile, id, cur, prev,
                       found, crashes, severed>>
    BY <1>2, <1>5 DEF MoveFrom, Typed, InHand, Working, Moving
  <2>3. TypeOK'
    BY <2>1, <2>2 DEF Typed, TypeOK, slapd, loaded, Labels
  <2>4. InHand'
    BY <2>2 DEF InHand, Working, Moving
  <2> QED  BY <2>3, <2>4 DEF Typed
<1>6. CASE MoveTo
  <2>1. cur \in Ops /\ cur.cache \in CacheEntries /\ found # None
    <3>1. cur \in Ops /\ cur.cache # None /\ found # None
      BY <1>6 DEF MoveTo, Typed, TypeOK, InHand, Working, Moving
    <3> QED  BY <3>1 DEF Ops
  <2>2. PICK failed \in Failing :
          LET call == HandlersUpdate(cur.dn, cur.cache, None, failed)
          IN told' = call.told /\ cur' = [cur EXCEPT !.cache = call.entry]
    BY <1>6 DEF MoveTo
  <2> DEFINE call == HandlersUpdate(cur.dn, cur.cache, None, failed)
  <2>3. /\ call.told \in [Handlers -> [DNs -> Objects \cup {None}]]
        /\ call.entry \in CacheEntries
    BY <1>1, <2>1, UpdateType
  <2>4. told' = call.told /\ cur' = [cur EXCEPT !.cache = call.entry]
    BY <2>2
  <2> HIDE DEF call
  <2>5. cur' \in Ops /\ cur'.cache = call.entry
    BY <2>1, <2>3, <2>4 DEF Ops
  <2>6. cur' # None /\ cur'.cache # None
    BY <2>3, <2>5, NoneAssumption DEF NoneAssumption
  <2>7. /\ pc' = "move_store" /\ failed_ldif' \in BOOLEAN
        /\ UNCHANGED <<slapd, loaded, cache, master, outfile, id, prev, found,
                       crashes, severed>>
    BY <1>2, <1>6 DEF MoveTo
  <2>8. TypeOK'
    BY <2>3, <2>4, <2>5, <2>7 DEF Typed, TypeOK, slapd, loaded, Labels
  <2>9. InHand'
    BY <2>1, <2>6, <2>7 DEF InHand, Working, Moving
  <2> QED  BY <2>8, <2>9 DEF Typed
<1> QED  BY <1>3, <1>4, <1>5, <1>6

LEMMA StoreTyped ==
  ASSUME Typed, Store \/ Drop \/ MoveDrop \/ MoveStore
  PROVE  Typed'
<1>1. cache \in [DNs -> CacheEntries \cup {None, Empty}]
  BY DEF Typed, TypeOK
<1>2. cache' \in [DNs -> CacheEntries \cup {None, Empty}]
  <2>1. CASE Store
    <3>1. found \in Found
      BY <2>1 DEF Store, Typed, TypeOK, InHand
    <3>2. found.entry \in CacheEntries
      BY <3>1 DEF Found
    <3> QED  BY <2>1, <3>2, <1>1, StoredType DEF Store
  <2>2. CASE Drop
    BY <2>2, <1>1 DEF Drop
  <2>3. CASE MoveDrop
    BY <2>3, <1>1 DEF MoveDrop
  <2>4. CASE MoveStore
    <3>1. cur \in Ops /\ cur.cache # None
      BY <2>4 DEF MoveStore, Typed, TypeOK, InHand, Working, Moving
    <3>2. cur.cache \in CacheEntries
      BY <3>1 DEF Ops
    <3> QED  BY <2>4, <3>2, <1>1, StoredType DEF MoveStore
  <2> QED  BY <2>1, <2>2, <2>3, <2>4
<1>3. /\ UNCHANGED <<slapd, loaded, master, outfile, failed_ldif, told, id, cur,
                     prev, found, crashes, severed>>
      /\ pc' \in {"finish", "move_from", "update"}
      /\ pc' = "move_from" => pc = "move"
      /\ pc' = "update" => pc = "move_store"
  BY DEF Store, Drop, MoveDrop, MoveStore
<1>4. TypeOK'
  BY <1>2, <1>3 DEF Typed, TypeOK, slapd, loaded, Labels
<1>5. InHand'
  BY <1>3 DEF Typed, InHand, Working, Moving
<1> QED  BY <1>4, <1>5 DEF Typed

LEMMA DoneTyped ==
  ASSUME Typed, Finish \/ WritePrev \/ WriteCur \/ Commit
  PROVE  Typed'
<1>1. ASSUME NEW op \in Ops, Written(op)
      PROVE  outfile' \in Seq(Ids)
  BY <1>1, AppendProperties DEF Written, Typed, TypeOK, Ops
<1>2. CASE Finish
  <2>1. /\ UNCHANGED <<slapd, disk, loaded, id, cur, prev, found, crashes, severed>>
        /\ pc' \in {"exit", "listen", "write_prev", "write_cur"}
        /\ pc' \in {"write_prev", "write_cur"} => cur # None
        /\ pc' = "write_prev" => prev # None
    BY <1>2 DEF Finish
  <2>2. TypeOK'
    BY <2>1 DEF Typed, TypeOK, slapd, disk, loaded, Labels
  <2>3. InHand'
    BY <2>1 DEF InHand, Working, Moving
  <2> QED  BY <2>2, <2>3 DEF Typed
<1>3. CASE WritePrev
  <2>1. prev \in Ops /\ cur # None
    BY <1>3 DEF WritePrev, Typed, TypeOK, InHand
  <2>2. outfile' \in Seq(Ids)
    BY <1>1, <1>3, <2>1 DEF WritePrev
  <2>3. /\ UNCHANGED <<slapd, loaded, cache, master, failed_ldif, told, id, cur,
                       found, crashes, severed>>
        /\ prev' = None /\ pc' = "write_cur"
    BY <1>3 DEF WritePrev
  <2>4. TypeOK'
    BY <2>2, <2>3 DEF Typed, TypeOK, slapd, loaded, Labels
  <2>5. InHand'
    BY <2>1, <2>3 DEF InHand, Working, Moving
  <2> QED  BY <2>4, <2>5 DEF Typed
<1>4. CASE WriteCur
  <2>1. outfile' \in Seq(Ids)
    BY <1>1, <1>4 DEF WriteCur, Typed, TypeOK, InHand
  <2>2. /\ UNCHANGED <<slapd, loaded, cache, master, failed_ldif, told, id, cur,
                       prev, found, crashes, severed>>
        /\ pc' = "commit"
    BY <1>4 DEF WriteCur
  <2>3. TypeOK'
    BY <2>1, <2>2 DEF Typed, TypeOK, slapd, loaded, Labels
  <2>4. InHand'
    BY <2>2 DEF InHand, Working, Moving
  <2> QED  BY <2>3, <2>4 DEF Typed
<1>5. CASE Commit
  <2>1. /\ UNCHANGED <<slapd, loaded, cache, outfile, failed_ldif, told, id, prev,
                       found, crashes, severed>>
        /\ master' = id /\ cur' = None /\ pc' = "listen"
    BY <1>5 DEF Commit
  <2>2. TypeOK'
    BY <2>1 DEF Typed, TypeOK, slapd, loaded, Labels
  <2>3. InHand'
    BY <2>1 DEF InHand, Working, Moving
  <2> QED  BY <2>2, <2>3 DEF Typed
<1> QED  BY <1>2, <1>3, <1>4, <1>5

LEMMA RestartTyped ==
  ASSUME Typed, \/ Restart \/ Crash \/ ResyncLdif \/ Listen
                \/ \E h \in Handlers : Resync(h)
  PROVE  Typed'
<1>1. CASE Restart
  <2>1. /\ UNCHANGED <<slapd, cache, outfile, failed_ldif, told, states, import,
                       crashes, severed>>
        /\ ready' = states /\ pending' = Handlers \ states
        /\ master' \in IF master = None THEN 0..Len(log) ELSE {master}
        /\ id' = master' /\ cur' = None /\ prev' = None /\ found' = None
        /\ pc' = "init"
    BY <1>1 DEF Restart
  <2>2. master' \in Ids
    <3>1. /\ Len(log) \in Nat /\ Len(log) <= MaxLog /\ MaxLog \in Nat
          /\ master \in Ids \cup {None}
      BY ListenerAssumption DEF Typed, TypeOK, ListenerAssumption
    <3> QED  BY <2>1, <3>1 DEF Ids
  <2>3. TypeOK'
    BY <2>1, <2>2 DEF Typed, TypeOK, slapd, Labels
  <2>4. InHand'
    BY <2>1 DEF InHand, Working, Moving
  <2> QED  BY <2>3, <2>4 DEF Typed
<1>2. CASE Crash
  <2>1. /\ UNCHANGED <<slapd, disk, states, ready, pending, id, cur, prev, found>>
        /\ crashes < MaxCrash /\ crashes' = crashes + 1
        /\ severed' = severed \cup Apart /\ pc' = "exit" /\ import' = None
    BY <1>2 DEF Crash
  <2>2. crashes' \in 0..MaxCrash /\ severed' \subseteq DNs
    BY <2>1, ListenerAssumption DEF ListenerAssumption, Typed, TypeOK, Apart
  <2>3. TypeOK'
    BY <2>1, <2>2 DEF Typed, TypeOK, slapd, disk, Labels
  <2>4. InHand'
    BY <2>1 DEF InHand, Working, Moving
  <2> QED  BY <2>3, <2>4 DEF Typed
<1>3. CASE ResyncLdif
  <2>1. /\ UNCHANGED <<slapd, loaded, cache, master, outfile, told, pc, id, cur,
                       prev, found, crashes, severed>>
        /\ failed_ldif' = FALSE
    BY <1>3 DEF ResyncLdif
  <2>2. TypeOK'
    BY <2>1 DEF Typed, TypeOK, slapd, loaded
  <2>3. InHand'
    BY <2>1 DEF Typed, InHand, loaded
  <2> QED  BY <2>2, <2>3 DEF Typed
<1>4. CASE Listen
  <2>1. /\ UNCHANGED <<slapd, disk, loaded, id, cur, prev, found, crashes, severed>>
        /\ pc' = "listen"
    BY <1>4 DEF Listen
  <2>2. TypeOK'
    BY <2>1 DEF Typed, TypeOK, slapd, disk, loaded, Labels
  <2>3. InHand'
    BY <2>1 DEF InHand, Working, Moving
  <2> QED  BY <2>2, <2>3 DEF Typed
<1>5. ASSUME NEW h \in Handlers, Resync(h)  PROVE Typed'
  <2>1. /\ UNCHANGED <<slapd, disk, ready, pending, import, pc, id, cur, prev, found,
                       crashes, severed>>
        /\ states' \subseteq states
    BY <1>5 DEF Resync
  <2>2. TypeOK'
    BY <2>1 DEF Typed, TypeOK, slapd, disk
  <2>3. InHand'
    BY <2>1 DEF Typed, InHand
  <2> QED  BY <2>2, <2>3 DEF Typed
<1> QED  BY <1>1, <1>2, <1>3, <1>4, <1>5

LEMMA ImportTyped ==
  ASSUME Typed, \/ SearchModule \/ ImportAborts \/ ImportDone
                \/ \E h \in Handlers : InitModule(h)
                \/ \E dn \in DNs : ImportEntry(dn)
  PROVE  Typed'
<1>1. ASSUME NEW h \in Handlers, InitModule(h)  PROVE Typed'
  <2> DEFINE rest(entry) == IF Valid(entry) = None \/ entry.modules \subseteq {h}
                             THEN None ELSE [entry EXCEPT !.modules = @ \ {h}]
             i == [module |-> h, names |-> {}, rv |-> "success"]
  <2>1. /\ UNCHANGED <<slapd, master, outfile, states, id, cur, prev, found, crashes, severed>>
        /\ pending' = pending \ {h} /\ ready' = ready \cup {h}
        /\ told' = [told EXCEPT ![h] = [dn \in DNs |-> None]]
        /\ failed_ldif' = (failed_ldif /\ h \notin Replication)
        /\ cache' = [dn \in DNs |-> rest(cache[dn])]
        /\ import' = i /\ pc' = "search_module"
    BY <1>1 DEF InitModule
  <2>2. \A dn \in DNs : rest(cache[dn]) \in CacheEntries \cup {None}
    <3>1. ASSUME NEW entry \in CacheEntries \cup {None, Empty}
          PROVE  rest(entry) \in CacheEntries \cup {None}
      <4>1. CASE entry \in CacheEntries
        BY <4>1 DEF CacheEntries
      <4> QED  BY <4>1 DEF Valid
    <3>2. \A dn \in DNs : cache[dn] \in CacheEntries \cup {None, Empty}
      BY DEF Typed, TypeOK
    <3> HIDE DEF rest
    <3> QED  BY <3>1, <3>2
  <2> HIDE DEF rest
  <2>3. i \in Imports /\ i # None
    <3>1. i \in Imports
      BY DEF Imports
    <3> QED  BY <3>1, NoneAssumption DEF NoneAssumption
  <2> HIDE DEF i
  <2>4. cache' \in [DNs -> CacheEntries \cup {None, Empty}]
    BY <2>1, <2>2
  <2>5. told' \in [Handlers -> [DNs -> Objects \cup {None}]]
    BY <2>1 DEF Typed, TypeOK
  <2>6. failed_ldif' \in BOOLEAN
    BY <2>1
  <2>7. TypeOK'
    BY <2>1, <2>3, <2>4, <2>5, <2>6 DEF Typed, TypeOK, slapd, Labels
  <2>8. InHand'
    BY <2>1, <2>3 DEF InHand, Working, Moving
  <2> QED  BY <2>7, <2>8 DEF Typed
<1>2. CASE SearchModule \/ ImportAborts
  <2>1. /\ UNCHANGED <<slapd, disk, states, ready, pending, id, cur, prev, found,
                       crashes, severed>>
        /\ pc' = "import" /\ import # None /\ import \in Imports
        /\ \E names \in SUBSET DNs : \E rv \in {"success", "no_such_object", "other"} :
             import' = [import EXCEPT !.names = names, !.rv = rv]
    <3>1. import # None /\ import \in Imports
      BY <1>2 DEF SearchModule, ImportAborts, Typed, TypeOK, InHand
    <3>2. CASE SearchModule
      <4> DEFINE names == {dn \in Visible : Matches(import.module, ldap[dn])}
      <4>1. names \subseteq DNs
        BY DEF Visible
      <4>2. import' = [import EXCEPT !.names = names]
        BY <3>2 DEF SearchModule
      <4> HIDE DEF names
      <4>3. import' = [import EXCEPT !.names = names, !.rv = import.rv]
              /\ import.rv \in {"success", "no_such_object", "other"}
        BY <3>1, <4>2 DEF Imports
      <4> QED  BY <3>1, <3>2, <4>1, <4>3 DEF SearchModule
    <3>3. CASE ImportAborts
      <4>1. import' = [import EXCEPT !.names = {}, !.rv = "other"]
        BY <3>3 DEF ImportAborts
      <4> QED  BY <3>1, <3>3, <4>1 DEF ImportAborts
    <3> QED  BY <1>2, <3>2, <3>3
  <2>2. import' \in Imports /\ import' # None
    <3>1. import' \in Imports
      BY <2>1 DEF Imports
    <3> QED  BY <3>1, NoneAssumption DEF NoneAssumption
  <2>3. TypeOK'
    BY <2>1, <2>2 DEF Typed, TypeOK, slapd, disk, Labels
  <2>4. InHand'
    BY <2>1, <2>2 DEF InHand, Working, Moving
  <2> QED  BY <2>3, <2>4 DEF Typed
<1>3. ASSUME NEW dn \in DNs, ImportEntry(dn)  PROVE Typed'
  <2> DEFINE h == import.module
             entry == IF cache[dn] # None THEN cache[dn]
                      ELSE IF dn \in Visible THEN Entry(ldap[dn], {}) ELSE Empty
             rv == IF entry = Empty /\ cache[dn] = None
                     THEN "no_such_object" ELSE "success"
  <2>1. /\ pc = "import" /\ UNCHANGED <<slapd, master, outfile, states, ready,
                                        pending, pc, id, cur, prev, found, crashes, severed>>
        /\ failed_ldif' \in BOOLEAN
        /\ import' = [import EXCEPT !.names = @ \ {dn}, !.rv = rv]
        /\ IF entry = Empty
             THEN told' = told /\ cache' = [cache EXCEPT ![dn] = Empty]
             ELSE \E failed \in SUBSET MayFail :
                    LET call == CallHandlers({h}, dn, entry, None, failed)
                    IN told' = call.told /\ cache' = Stored(dn, call.entry)
    BY <1>3 DEF ImportEntry, LdifMayFail, Typed, TypeOK
  <2>2. TellsType /\ cache \in [DNs -> CacheEntries \cup {None, Empty}]
    BY DEF Typed, TypeOK, TellsType
  <2>3. import \in Imports /\ h \in Handlers
    <3>1. import # None /\ import \in Imports
      BY <2>1 DEF Typed, TypeOK, InHand
    <3> QED  BY <3>1 DEF Imports
  <2>4. entry \in CacheEntries \cup {Empty}
    <3>1. CASE cache[dn] # None
      BY <3>1, <2>2
    <3>2. CASE cache[dn] = None /\ dn \in Visible
      <4>1. ldap[dn] \in Objects
        BY <3>2 DEF Typed, TypeOK, Visible
      <4> QED  BY <3>2, <4>1, EntryType
    <3> QED  BY <3>1, <3>2
  <2>5. import' \in Imports /\ import' # None
    <3>1. rv \in {"success", "no_such_object"}
      OBVIOUS
    <3> HIDE DEF rv, entry
    <3>2. import' \in Imports
      BY <2>1, <2>3, <3>1 DEF Imports
    <3> QED  BY <3>2, NoneAssumption DEF NoneAssumption
  <2> HIDE DEF rv, entry, h
  <2>6. /\ told' \in [Handlers -> [DNs -> Objects \cup {None}]]
        /\ cache' \in [DNs -> CacheEntries \cup {None, Empty}]
    <3>1. CASE entry = Empty
      BY <3>1, <2>1, <2>2 DEF TellsType
    <3>2. CASE entry # Empty
      <4>1. PICK failed \in SUBSET MayFail :
              LET call == CallHandlers({h}, dn, entry, None, failed)
              IN told' = call.told /\ cache' = Stored(dn, call.entry)
        BY <3>2, <2>1
      <4>2. {h} \in SUBSET Handlers /\ entry \in CacheEntries
        BY <3>2, <2>3, <2>4
      <4>3. LET call == CallHandlers({h}, dn, entry, None, failed)
            IN /\ call.told \in [Handlers -> [DNs -> Objects \cup {None}]]
               /\ call.entry \in CacheEntries
        BY <2>2, <4>2, CallType
      <4> QED  BY <2>2, <4>1, <4>3, StoredType
    <3> QED  BY <3>1, <3>2
  <2>7. TypeOK'
    BY <2>1, <2>5, <2>6 DEF Typed, TypeOK, slapd, Labels
  <2>8. InHand'
    BY <2>1, <2>5 DEF Typed, InHand, Working, Moving
  <2> QED  BY <2>7, <2>8 DEF Typed
<1>4. CASE ImportDone
  <2>1. /\ UNCHANGED <<slapd, disk, pending, id, cur, prev, found, crashes, severed>>
        /\ ready' \subseteq ready /\ states' = ready'
        /\ import' = None /\ pc' = "init"
    BY <1>4 DEF ImportDone
  <2>2. TypeOK'
    BY <2>1 DEF Typed, TypeOK, slapd, disk, Labels
  <2>3. InHand'
    BY <2>1 DEF InHand, Working, Moving
  <2> QED  BY <2>2, <2>3 DEF Typed
<1> QED  BY <1>1, <1>2, <1>3, <1>4

LEMMA StepTyped == Typed /\ [Next]_vars => Typed'
<1> SUFFICES ASSUME Typed, [Next]_vars  PROVE Typed'
  OBVIOUS
<1>1. CASE UNCHANGED vars
  <2>1. TypeOK'
    BY <1>1 DEF Typed, TypeOK, vars, slapd, disk, loaded
  <2>2. InHand'
    BY <1>1 DEF Typed, InHand, vars, loaded
  <2> QED  BY <2>1, <2>2 DEF Typed
<1>2. CASE Process
  BY <1>2, FetchTyped, SearchTyped, HandlersTyped, StoreTyped, DoneTyped,
     RestartTyped, ImportTyped DEF Process
<1> QED  BY <1>1, <1>2, SlapdTyped, RestartTyped DEF Next

LEMMA AlwaysTyped == Spec => []Typed
BY InitTyped, StepTyped, PTL DEF Spec

\* The variables keep their types, and the local id and cache_master_entry.id
\* never pass the last transaction slapd has written.
THEOREM TypeCorrect == Spec => []TypeOK
<1>1. Typed => TypeOK
  BY DEF Typed
<1> QED  BY AlwaysTyped, <1>1, PTL

-----------------------------------------------------------------------------
(* failed.ldif *)

\* It is looked for after the last call of a module and before anything is
\* written, and there is none before the first start.
LdifChecked ==
  /\ pc \in {"write_prev", "write_cur", "commit"} => ~failed_ldif
  /\ master = None => pc = "exit" /\ ~failed_ldif

LEMMA InitLdif == Init => LdifChecked
BY NoneAssumption DEF Init, LdifChecked, NoneAssumption

LEMMA StepLdif ==
  ASSUME Typed, LdifChecked, [Next]_vars
  PROVE  LdifChecked' /\ (failed_ldif => UNCHANGED <<master, outfile>>)
<1> USE DEF LdifChecked
<1>1. CASE Slapd
  <2>1. UNCHANGED <<master, outfile, failed_ldif, pc>>
    BY <1>1 DEF Slapd, LdapAdd, LdapModify, LdapDelete, LdapMove, Operation, disk
  <2> QED  BY <2>1
<1>2. CASE Fetch
  <2>1. pc = "listen" /\ pc' \in {"exit", "search"}
        /\ UNCHANGED <<master, outfile, failed_ldif>>
    BY <1>2 DEF Fetch, disk
  <2> QED  BY <2>1
<1>3. CASE SearchUuid \/ SearchDn
  <2>1. /\ pc \in {"search", "retry_dn"} /\ UNCHANGED <<master, outfile, failed_ldif>>
        /\ pc' \in {"retry_dn", "delete"} \/ \E dn \in Visible : Dispatch(dn)
    BY <1>3 DEF SearchUuid, SearchDn, disk
  <2>2. \A dn : Dispatch(dn) => pc' \in {"update", "finish", "move", "delete"}
    BY DEF Dispatch
  <2> QED  BY <2>1, <2>2
<1>4. CASE UpdateHandlers \/ DeleteHandlers \/ MoveFrom \/ MoveTo
  <2>1. /\ pc \in {"update", "delete", "move_from", "move_to"}
        /\ pc' \in {"store", "drop", "move_to", "move_store"}
        /\ UNCHANGED <<master, outfile>>
    BY <1>4 DEF UpdateHandlers, DeleteHandlers, MoveFrom, MoveTo
  <2> QED  BY <2>1
<1>5. CASE Store \/ Drop \/ MoveDrop \/ MoveStore
  <2>1. /\ pc \in {"store", "drop", "move", "move_store"}
        /\ pc' \in {"finish", "move_from", "update"}
        /\ UNCHANGED <<master, outfile, failed_ldif>>
    BY <1>5 DEF Store, Drop, MoveDrop, MoveStore
  <2> QED  BY <2>1
<1>6. CASE Finish
  <2>1. /\ pc = "finish" /\ UNCHANGED <<master, outfile, failed_ldif>>
        /\ failed_ldif => pc' = "exit"
        /\ pc' \in {"exit", "listen", "write_prev", "write_cur"}
    BY <1>6 DEF Finish, disk
  <2> QED  BY <2>1
<1>7. CASE WritePrev \/ WriteCur
  <2>1. /\ pc \in {"write_prev", "write_cur"} /\ UNCHANGED <<master, failed_ldif>>
        /\ pc' \in {"write_cur", "commit"}
    BY <1>7 DEF WritePrev, WriteCur
  <2> QED  BY <2>1
<1>8. CASE Commit
  <2>1. pc = "commit" /\ pc' = "listen" /\ UNCHANGED failed_ldif
        /\ master' \in Ids
    BY <1>8 DEF Commit, Typed, TypeOK
  <2> QED  BY <2>1, NoneAssumption DEF NoneAssumption, Ids
<1>9. CASE Restart
  <2>1. /\ pc = "exit" /\ pc' = "init" /\ UNCHANGED <<outfile, failed_ldif>>
        /\ master' \in IF master = None THEN 0..Len(log) ELSE {master}
    BY <1>9 DEF Restart
  <2>2. master' # None
    <3>1. Len(log) \in Nat
      BY DEF Typed, TypeOK
    <3> QED  BY <2>1, <3>1, NoneAssumption DEF NoneAssumption
  <2> QED  BY <2>1, <2>2
<1>10. CASE Crash
  BY <1>10 DEF Crash, disk
<1>11. CASE ResyncLdif
  BY <1>11 DEF ResyncLdif
<1>12. CASE SearchModule \/ ImportAborts \/ ImportDone \/ Listen
  <2>1. /\ pc \in {"search_module", "import", "init"}
        /\ pc' \in {"import", "init", "listen"}
        /\ UNCHANGED <<master, outfile, failed_ldif>>
    BY <1>12 DEF SearchModule, ImportAborts, ImportDone, Listen, disk
  <2> QED  BY <2>1
<1>13. ASSUME NEW h \in Handlers, InitModule(h)
       PROVE  LdifChecked' /\ (failed_ldif => UNCHANGED <<master, outfile>>)
  <2>1. pc = "init" /\ pc' = "search_module" /\ UNCHANGED <<master, outfile>>
    BY <1>13 DEF InitModule
  <2> QED  BY <2>1
<1>14. ASSUME NEW dn \in DNs, ImportEntry(dn)
       PROVE  LdifChecked' /\ (failed_ldif => UNCHANGED <<master, outfile>>)
  <2>1. pc = "import" /\ UNCHANGED <<pc, master, outfile>>
    BY <1>14 DEF ImportEntry
  <2> QED  BY <2>1
<1>15. ASSUME NEW h \in Handlers, Resync(h)
       PROVE  LdifChecked' /\ (failed_ldif => UNCHANGED <<master, outfile>>)
  <2>1. UNCHANGED <<pc, master, outfile, failed_ldif>>
    BY <1>15 DEF Resync, disk
  <2> QED  BY <2>1
<1>16. CASE UNCHANGED vars
  BY <1>16 DEF vars, disk
<1> HIDE DEF LdifChecked
<1>17. CASE Process
  BY <1>17, <1>2, <1>3, <1>4, <1>5, <1>6, <1>7, <1>8, <1>9, <1>12, <1>13, <1>14
     DEF Process
<1> QED  BY <1>1, <1>10, <1>11, <1>15, <1>16, <1>17 DEF Next

\* While failed.ldif exists no transaction is passed on to the local notifier or
\* counted as done, wherever the replication module gave up and whatever crash,
\* restart or initialisation of a module follows.
THEOREM FailedLdif == Spec => FailedLdifStops
<1>1. Init => LdifChecked
  BY InitLdif
<1>2. Typed /\ LdifChecked /\ [Next]_vars
        => LdifChecked' /\ [failed_ldif => UNCHANGED <<master, outfile>>]_vars
  BY StepLdif
<1> QED  BY <1>1, <1>2, AlwaysTyped, PTL DEF Spec, FailedLdifStops

-----------------------------------------------------------------------------
(* The local notifier *)

Sent(out) == {out[i] : i \in DOMAIN out}
InOrder(out) == \A j \in DOMAIN out :
                  1..(out[j] - 1) \subseteq {out[k] : k \in 1..(j - 1)}

\* slapd writes both transactions of a move at once, so an 'r' is never the last.
MovesAreWhole ==
  \A i \in DOMAIN log :
    log[i].command = "r" => i + 1 \in DOMAIN log /\ log[i + 1].command = "a"

\* Between two transactions; an 'r' may be stashed.
AtRest ==
  /\ cur = None
  /\ prev = None => id = master
  /\ prev # None => /\ prev.id = id /\ id = master + 1
                    /\ id \in DOMAIN log /\ log[id].command = "r"

\* On a transaction: the next one, or the one after the stashed 'r'.
AtWork ==
  /\ cur # None /\ cur.id = id
  /\ id \in DOMAIN log /\ log[id].command = cur.command
  /\ prev = None => id = master + 1
  /\ prev # None => prev.id = master + 1 /\ id = master + 2 /\ cur.command = "a"

Position ==
  /\ master \in Nat
  /\ pc \in {"init", "search_module", "import"} => AtRest /\ prev = None
  /\ pc = "listen" => AtRest
  /\ pc \in Working => AtWork
  /\ pc = "finish" => AtRest \/ AtWork
  /\ pc = "write_prev" => AtWork
  /\ pc = "write_cur" => /\ prev = None /\ cur.id = id
                         /\ 1..(id - 1) \subseteq Sent(outfile)
  /\ pc = "commit" => prev = None /\ 1..id \subseteq Sent(outfile)

\* The invariant of the cascade: what is known of the place notifier_listen has
\* reached, and that the file has no gap before any id in it.
Passing ==
  Cascade /\ ~Fresh =>
    /\ MovesAreWhole
    /\ Position
    /\ 1..master \subseteq Sent(outfile)
    /\ InOrder(outfile)

LEMMA Appended ==
  ASSUME NEW out \in Seq(Ids), NEW n \in Ids, InOrder(out),
         1..(n - 1) \subseteq Sent(out)
  PROVE  /\ InOrder(Append(out, n))
         /\ Sent(Append(out, n)) = Sent(out) \cup {n}
<1> DEFINE new == Append(out, n)
<1>1. /\ Len(out) \in Nat /\ DOMAIN out = 1..Len(out)
      /\ DOMAIN new = 1..(Len(out) + 1)
      /\ \A i \in 1..Len(out) : new[i] = out[i]
      /\ new[Len(out) + 1] = n
  BY AppendProperties
<1> HIDE DEF new
<1>2. Sent(new) = Sent(out) \cup {n}
  <2>1. 1..(Len(out) + 1) = 1..Len(out) \cup {Len(out) + 1}
    BY <1>1
  <2>2. Sent(new) = {new[i] : i \in 1..Len(out)} \cup {new[Len(out) + 1]}
    BY <1>1, <2>1 DEF Sent
  <2>3. {new[i] : i \in 1..Len(out)} = Sent(out)
    BY <1>1 DEF Sent
  <2> QED  BY <1>1, <2>2, <2>3
<1>3. ASSUME NEW j \in DOMAIN new
      PROVE  1..(new[j] - 1) \subseteq {new[k] : k \in 1..(j - 1)}
  <2>1. j \in 1..(Len(out) + 1)
    BY <1>1
  <2>2. \A k \in 1..(j - 1) : new[k] = out[k]
    BY <1>1, <2>1
  <2>3. {new[k] : k \in 1..(j - 1)} = {out[k] : k \in 1..(j - 1)}
    BY <2>2
  <2>4. CASE j \in 1..Len(out)
    <3>1. 1..(out[j] - 1) \subseteq {out[k] : k \in 1..(j - 1)}
      BY <1>1, <2>4 DEF InOrder
    <3> QED  BY <1>1, <2>3, <2>4, <3>1
  <2>5. CASE j = Len(out) + 1
    <3>1. j - 1 = Len(out)
      BY <1>1, <2>5
    <3>2. {out[k] : k \in 1..(j - 1)} = Sent(out)
      BY <1>1, <3>1 DEF Sent
    <3> QED  BY <1>1, <2>3, <2>5, <3>2
  <2> QED  BY <1>1, <2>1, <2>4, <2>5
<1> QED  BY <1>2, <1>3 DEF InOrder, new

LEMMA InitPassing == Init => Passing
<1> SUFFICES ASSUME Init, Cascade, ~Fresh
             PROVE  /\ MovesAreWhole /\ Position
                    /\ 1..master \subseteq Sent(outfile) /\ InOrder(outfile)
  BY DEF Passing
<1>1. /\ log = <<>> /\ outfile = <<>> /\ master = 0 /\ id = 0 /\ pc = "listen"
      /\ cur = None /\ prev = None
  BY DEF Init
<1>2. DOMAIN log = {} /\ DOMAIN outfile = {}
  BY <1>1
<1> QED  BY <1>1, <1>2 DEF MovesAreWhole, Position, AtRest, InOrder, Working, Moving

\* Of a step that changes neither the transactions nor the file.
LEMMA Unmoved ==
  ASSUME Passing, Cascade, ~Fresh, UNCHANGED <<log, outfile, master>>, Position'
  PROVE  Passing'
BY DEF Passing, MovesAreWhole

LEMMA SlapdPassing ==
  ASSUME Typed, Passing, Cascade, ~Fresh, Slapd
  PROVE  Passing'
<1>1. /\ UNCHANGED <<master, outfile, pc, id, cur, prev>>
      /\ \E dn \in DNs : \/ \E c \in {"a", "m", "d"} : log' = log \o <<T(c, dn)>>
                         \/ \E to \in DNs : log' = log \o <<T("r", dn), T("a", to)>>
  BY DEF Slapd, LdapAdd, LdapModify, LdapDelete, LdapMove, Operation, disk
<1>2. /\ MovesAreWhole /\ Position /\ 1..master \subseteq Sent(outfile)
      /\ InOrder(outfile)
  BY DEF Passing
<1>3. log \in Seq(Transactions) /\ DOMAIN log = 1..Len(log) /\ Len(log) \in Nat
  BY DEF Typed, TypeOK
<1>4. PICK dn \in DNs : \/ \E c \in {"a", "m", "d"} : log' = log \o <<T(c, dn)>>
                       \/ \E to \in DNs : log' = log \o <<T("r", dn), T("a", to)>>
  BY <1>1
<1>5. MovesAreWhole' /\ \A i \in DOMAIN log : i \in DOMAIN log' /\ log'[i] = log[i]
  <2>1. ASSUME NEW c \in {"a", "m", "d"}, log' = log \o <<T(c, dn)>>
        PROVE  MovesAreWhole' /\ \A i \in DOMAIN log : i \in DOMAIN log' /\ log'[i] = log[i]
    <3> DEFINE t == T(c, dn)
    <3>1. t \in Transactions /\ t.command # "r"
      BY DEF T, Transactions
    <3> HIDE DEF t
    <3>2. <<t>> \in Seq(Transactions) /\ Len(<<t>>) = 1 /\ <<t>>[1] = t
      BY <3>1
    <3>3. /\ DOMAIN log' = 1..(Len(log) + 1)
          /\ \A i \in 1..Len(log) : log'[i] = log[i]
          /\ log'[Len(log) + 1] = t
      BY <1>3, <2>1, <3>2 DEF t
    <3> QED  BY <1>2, <1>3, <3>1, <3>3 DEF MovesAreWhole
  <2>2. ASSUME NEW to \in DNs, log' = log \o <<T("r", dn), T("a", to)>>
        PROVE  MovesAreWhole' /\ \A i \in DOMAIN log : i \in DOMAIN log' /\ log'[i] = log[i]
    <3> DEFINE r == T("r", dn)
               a == T("a", to)
    <3>1. r \in Transactions /\ a \in Transactions /\ a.command = "a"
      BY DEF T, Transactions
    <3> HIDE DEF r, a
    <3>2. /\ <<r, a>> \in Seq(Transactions) /\ Len(<<r, a>>) = 2
          /\ <<r, a>>[1] = r /\ <<r, a>>[2] = a
      BY <3>1
    <3>3. /\ DOMAIN log' = 1..(Len(log) + 2)
          /\ \A i \in 1..Len(log) : log'[i] = log[i]
          /\ log'[Len(log) + 2] = a
      BY <1>3, <2>2, <3>2 DEF r, a
    <3>4. ASSUME NEW i \in DOMAIN log', log'[i].command = "r"
          PROVE  i + 1 \in DOMAIN log' /\ log'[i + 1].command = "a"
      <4>1. CASE i \in 1..Len(log)
        BY <1>2, <1>3, <3>3, <3>4, <4>1 DEF MovesAreWhole
      <4>2. CASE i = Len(log) + 1
        BY <1>3, <3>1, <3>3, <4>2
      <4>3. CASE i = Len(log) + 2
        BY <3>1, <3>3, <3>4, <4>3
      <4> QED  BY <1>3, <3>3, <4>1, <4>2, <4>3
    <3> QED  BY <1>3, <3>3, <3>4 DEF MovesAreWhole
  <2> QED  BY <1>4, <2>1, <2>2
<1>6. (AtRest => AtRest') /\ (AtWork => AtWork')
  BY <1>1, <1>5 DEF AtRest, AtWork
<1>7. Position'
  BY <1>1, <1>2, <1>6 DEF Position
<1> QED  BY <1>1, <1>2, <1>5, <1>7 DEF Passing

LEMMA FetchPassing ==
  ASSUME Typed, Passing, Cascade, ~Fresh, Fetch
  PROVE  Passing'
<1> DEFINE t == log[id + 1]
           cached == Valid(cache[t.dn])
           op == [id |-> id + 1, command |-> t.command, dn |-> t.dn,
                  uuid |-> None, cache |-> cached]
<1>1. /\ UNCHANGED <<log, master, outfile, prev>> /\ pc = "listen" /\ id < Len(log)
      /\ id' = id + 1 /\ pc' \in {"exit", "search"}
      /\ \/ cur' = op \/ cur' = [op EXCEPT !.uuid = cached.uuid]
         \/ cur' = [op EXCEPT !.uuid = prev.uuid, !.cache = prev.cache]
  BY DEF Fetch, slapd, disk
<1>2. cur'.id = id + 1 /\ cur'.command = log[id + 1].command
  <2>1. CASE cur' = op
    BY <2>1
  <2>2. CASE cur' = [op EXCEPT !.uuid = cached.uuid]
    <3> HIDE DEF cached
    <3> QED  BY <2>2
  <2>3. CASE cur' = [op EXCEPT !.uuid = prev.uuid, !.cache = prev.cache]
    <3> HIDE DEF cached
    <3> QED  BY <2>3
  <2> QED  BY <1>1, <2>1, <2>2, <2>3
<1>3. /\ MovesAreWhole /\ AtRest /\ master \in Nat
  BY <1>1 DEF Passing, Position
<1>4. pc' = "search" => cur' # None
  BY FetchTyped DEF Typed, InHand, Working
<1>5. id + 1 \in DOMAIN log
  BY <1>1 DEF Typed, TypeOK, Ids
<1>6. prev # None => cur'.command = "a"
  BY <1>2, <1>3 DEF MovesAreWhole, AtRest
<1>7. pc' = "search" => AtWork'
  BY <1>1, <1>2, <1>3, <1>4, <1>5, <1>6 DEF AtRest, AtWork
<1>8. Position'
  BY <1>1, <1>3, <1>7 DEF Position, Working, Moving
<1> QED  BY <1>1, <1>8, Unmoved

LEMMA SearchPassing ==
  ASSUME Typed, Passing, Cascade, ~Fresh, SearchUuid \/ SearchDn
  PROVE  Passing'
<1>1. /\ UNCHANGED <<log, master, outfile, id>> /\ pc \in {"search", "retry_dn"}
      /\ \/ \E dn \in Visible : Dispatch(dn)
         \/ pc' \in {"retry_dn", "delete"} /\ UNCHANGED <<cur, prev>>
  BY DEF SearchUuid, SearchDn, slapd, disk
<1>2. AtWork /\ master \in Nat
  BY <1>1 DEF Passing, Position, Working
<1>3. Position'
  <2>1. CASE pc' \in {"retry_dn", "delete"} /\ UNCHANGED <<cur, prev>>
    BY <1>1, <1>2, <2>1 DEF Position, AtWork, Working, Moving
  <2>2. ASSUME NEW dn \in Visible, Dispatch(dn)  PROVE Position'
    <3>1. CASE cur.command = "r"
      <4>1. /\ prev' = cur /\ cur' = None /\ pc' = "finish"
        BY <2>2, <3>1 DEF Dispatch
      <4>2. AtRest'
        BY <1>1, <1>2, <3>1, <4>1 DEF AtRest, AtWork
      <4> QED  BY <1>1, <1>2, <4>1, <4>2 DEF Position, Working, Moving
    <3>2. CASE cur.command # "r"
      <4>1. pc' \in {"update", "finish", "move", "delete"} /\ UNCHANGED <<cur, prev>>
        BY <2>2, <3>2 DEF Dispatch
      <4>2. AtWork'
        BY <1>1, <1>2, <4>1 DEF AtWork
      <4> QED  BY <1>1, <1>2, <4>1, <4>2 DEF Position, Working, Moving
    <3> QED  BY <3>1, <3>2
  <2> QED  BY <1>1, <2>1, <2>2
<1> QED  BY <1>1, <1>3, Unmoved

\* The calls and stores of one transaction keep its id and command.
LEMMA WorkPassing ==
  ASSUME Typed, Passing, Cascade, ~Fresh,
         \/ UpdateHandlers \/ Store \/ DeleteHandlers \/ Drop
         \/ MoveDrop \/ MoveFrom \/ MoveTo \/ MoveStore
  PROVE  Passing'
<1>1. /\ UNCHANGED <<log, master, outfile, id, prev>> /\ pc \in Working
      /\ pc' \in Working \cup {"finish"}
  BY DEF UpdateHandlers, Store, DeleteHandlers, Drop, MoveDrop, MoveFrom, MoveTo,
         MoveStore, Working, Moving, slapd
<1>2. AtWork /\ master \in Nat
  BY <1>1 DEF Passing, Position
<1>3. cur' # None /\ cur'.id = cur.id /\ cur'.command = cur.command
  <2>1. CASE MoveTo
    <3>1. cur \in Ops /\ \E entry : cur' = [cur EXCEPT !.cache = entry]
      BY <2>1, <1>2 DEF MoveTo, Typed, TypeOK, AtWork
    <3>2. cur' # None
      BY <2>1, HandlersTyped DEF MoveTo, Typed, InHand, Working, Moving
    <3> QED  BY <3>1, <3>2 DEF Ops
  <2>2. CASE ~MoveTo
    <3>1. cur' = cur
      BY <2>2 DEF UpdateHandlers, Store, DeleteHandlers, Drop, MoveDrop, MoveFrom,
                  MoveStore
    <3> QED  BY <3>1, <1>2 DEF AtWork
  <2> QED  BY <2>1, <2>2
<1>4. AtWork'
  BY <1>1, <1>2, <1>3 DEF AtWork
<1>5. Position'
  BY <1>1, <1>2, <1>4 DEF Position, Working, Moving
<1> QED  BY <1>1, <1>5, Unmoved

LEMMA DonePassing ==
  ASSUME Typed, Passing, Cascade, ~Fresh, Finish \/ WritePrev \/ WriteCur \/ Commit
  PROVE  Passing'
<1>1. /\ MovesAreWhole /\ Position /\ master \in Nat
      /\ 1..master \subseteq Sent(outfile) /\ InOrder(outfile)
  BY DEF Passing, Position
<1>2. outfile \in Seq(Ids) /\ id \in Nat
  BY DEF Typed, TypeOK, Ids
<1>3. CASE Finish
  <2>1. /\ UNCHANGED <<log, master, outfile, id, cur, prev>> /\ pc = "finish"
        /\ pc' \in {"exit", "listen", "write_prev", "write_cur"}
        /\ pc' = "listen" => cur = None
        /\ pc' = "write_prev" => cur # None /\ prev # None
        /\ pc' = "write_cur" => cur # None /\ prev = None
    BY <1>3 DEF Finish, slapd, disk
  <2>2. /\ AtRest \/ AtWork
        /\ cur = None => AtRest
        /\ cur # None => AtWork
    BY <1>1, <2>1 DEF Position, AtRest, AtWork
  <2>3. (AtRest => AtRest') /\ (AtWork => AtWork')
    BY <2>1 DEF AtRest, AtWork
  <2>4. pc' = "write_cur" => cur.id = id /\ id - 1 = master
    BY <1>1, <2>1, <2>2 DEF AtWork
  <2>5. Position'
    BY <1>1, <2>1, <2>2, <2>3, <2>4 DEF Position, Working, Moving
  <2> QED  BY <2>1, <2>5, Unmoved
<1>4. CASE WritePrev
  <2>1. /\ UNCHANGED <<log, master, id, cur>> /\ prev' = None
        /\ pc = "write_prev" /\ pc' = "write_cur" /\ outfile' = Append(outfile, prev.id)
    BY <1>4 DEF WritePrev, Written, slapd
  <2>2. /\ prev # None /\ prev.id = master + 1 /\ id = master + 2 /\ cur.id = id
        /\ prev.id \in Ids
    BY <1>1, <2>1 DEF Position, AtWork, Typed, TypeOK, InHand, Ops
  <2>3. /\ InOrder(outfile') /\ Sent(outfile') = Sent(outfile) \cup {prev.id}
    <3>1. prev.id - 1 = master
      BY <1>1, <2>2
    <3> QED  BY <1>1, <1>2, <2>1, <2>2, <3>1, Appended
  <2>4. 1..(id - 1) \subseteq Sent(outfile')
    <3>1. 1..(id - 1) \subseteq 1..master \cup {prev.id}
      BY <1>1, <2>2
    <3> QED  BY <1>1, <2>3, <3>1
  <2>5. Position'
    BY <1>1, <2>1, <2>2, <2>4 DEF Position, Working, Moving
  <2> QED  BY <1>1, <2>1, <2>3, <2>5 DEF Passing, MovesAreWhole
<1>5. CASE WriteCur
  <2>1. /\ UNCHANGED <<log, master, id, cur, prev>>
        /\ pc = "write_cur" /\ pc' = "commit" /\ outfile' = Append(outfile, cur.id)
    BY <1>5 DEF WriteCur, Written, slapd
  <2>2. /\ prev = None /\ cur.id = id /\ id \in Ids
        /\ 1..(id - 1) \subseteq Sent(outfile)
    BY <1>1, <2>1 DEF Position, Typed, TypeOK
  <2>3. /\ InOrder(outfile') /\ Sent(outfile') = Sent(outfile) \cup {id}
    BY <1>1, <1>2, <2>1, <2>2, Appended
  <2>4. 1..id \subseteq Sent(outfile')
    <3>1. 1..id \subseteq 1..(id - 1) \cup {id}
      BY <1>2
    <3> QED  BY <2>2, <2>3, <3>1
  <2>5. Position'
    BY <1>1, <2>1, <2>2, <2>4 DEF Position, Working, Moving
  <2> QED  BY <1>1, <2>1, <2>3, <2>5 DEF Passing, MovesAreWhole
<1>6. CASE Commit
  <2>1. /\ UNCHANGED <<log, outfile, id, prev>> /\ master' = id /\ cur' = None
        /\ pc = "commit" /\ pc' = "listen"
    BY <1>6 DEF Commit, slapd
  <2>2. prev = None /\ 1..id \subseteq Sent(outfile)
    BY <1>1, <2>1 DEF Position
  <2>3. Position'
    BY <1>2, <2>1, <2>2 DEF Position, AtRest, Working, Moving
  <2> QED  BY <1>1, <2>1, <2>2, <2>3 DEF Passing, MovesAreWhole
<1> QED  BY <1>3, <1>4, <1>5, <1>6

\* Only the master entry survives the end of the process.
LEMMA RestartPassing ==
  ASSUME Typed, Passing, Cascade, ~Fresh,
         \/ Restart \/ Crash \/ ResyncLdif \/ Listen
         \/ SearchModule \/ ImportAborts \/ ImportDone
         \/ \E h \in Handlers : InitModule(h) \/ Resync(h)
         \/ \E dn \in DNs : ImportEntry(dn)
  PROVE  Passing'
<1>1. Position /\ master \in Nat
  BY DEF Passing, Position
<1>2. UNCHANGED <<log, outfile, master>> /\ Position'
  <2>1. CASE Restart
    <3>1. /\ UNCHANGED <<log, outfile>> /\ pc' = "init"
          /\ master' \in IF master = None THEN 0..Len(log) ELSE {master}
          /\ id' = master' /\ cur' = None /\ prev' = None
      BY <2>1 DEF Restart, slapd
    <3>2. master' = master
      <4>1. master # None
        BY <1>1, NoneAssumption DEF NoneAssumption
      <4> QED  BY <3>1, <4>1
    <3> QED  BY <1>1, <3>1, <3>2 DEF Position, AtRest, Working, Moving
  <2>2. CASE Crash
    BY <1>1, <2>2 DEF Crash, Position, Working, Moving, slapd, disk
  <2>3. CASE ResyncLdif \/ \E h \in Handlers : Resync(h)
    <3>1. UNCHANGED <<log, outfile, master, pc, id, cur, prev>>
      BY <2>3 DEF ResyncLdif, Resync, slapd, disk
    <3> QED  BY <1>1, <3>1 DEF Position, AtRest, AtWork
  <2>4. CASE \/ Listen \/ SearchModule \/ ImportAborts \/ ImportDone
             \/ \E h \in Handlers : InitModule(h)
             \/ \E dn \in DNs : ImportEntry(dn)
    <3>1. /\ UNCHANGED <<log, outfile, master, id, cur, prev>>
          /\ pc \in {"init", "search_module", "import"}
          /\ pc' \in {"listen", "init", "search_module", "import"}
      BY <2>4 DEF Listen, SearchModule, ImportAborts, ImportDone, InitModule,
                  ImportEntry, slapd, disk
    <3>2. AtRest' /\ prev' = None
      BY <1>1, <3>1 DEF Position, AtRest
    <3> QED  BY <1>1, <3>1, <3>2 DEF Position, Working, Moving
  <2> QED  BY <2>1, <2>2, <2>3, <2>4
<1> QED  BY <1>2, Unmoved

LEMMA StepPassing == Typed /\ Passing /\ [Next]_vars => Passing'
<1> SUFFICES ASSUME Typed, Passing, [Next]_vars, Cascade, ~Fresh  PROVE Passing'
  BY DEF Passing
<1>1. CASE UNCHANGED vars
  <2>1. UNCHANGED <<log, outfile, master, pc, id, cur, prev>>
    BY <1>1 DEF vars, slapd, disk
  <2>2. Position'
    BY <2>1 DEF Passing, Position, AtRest, AtWork
  <2> QED  BY <2>1, <2>2, Unmoved
<1>2. CASE Process
  BY <1>2, FetchPassing, SearchPassing, WorkPassing, DonePassing, RestartPassing
     DEF Process
<1> QED  BY <1>1, <1>2, SlapdPassing, RestartPassing DEF Next

\* Every transaction done has been passed on to the local notifier, and each only
\* after its predecessors, whatever moves are stashed and wherever the listener
\* ends and starts again.
THEOREM CascadeIsComplete == Spec => []CascadeComplete
<1>1. Init => Passing
  BY InitPassing
<1>2. Typed /\ Passing /\ [Next]_vars => Passing'
  BY StepPassing
<1>3. Passing => CascadeComplete
  BY DEF Passing, CascadeComplete, Sent, InOrder
<1> QED  BY <1>1, <1>2, <1>3, AlwaysTyped, PTL DEF Spec
=============================================================================
