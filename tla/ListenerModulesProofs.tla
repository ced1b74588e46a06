------------------------ MODULE ListenerModulesProofs ------------------------
(***************************************************************************)
(* What the listener's modules come to know: each has been told of every   *)
(* object that matches its filter, the cache lists no module that has not  *)
(* been told, and none that has been told is missing there.                *)
(*                                                                         *)
(* The modules that may fail are left out: one that failed is told again   *)
(* only when its object changes.  The others are not disturbed by them.    *)
(* A crash between calling the modules and writing the cache leaves the    *)
(* two apart under one name; of the names in severed the first and the     *)
(* last statement say nothing.                                             *)
(***************************************************************************)
EXTENDS ListenerCacheProofs

\* Every module's filter matches everything.
MatchAll == \A h \in Handlers : Vals \subseteq Filter[h]

-----------------------------------------------------------------------------
(* What the cache lists and what the modules have been told *)

Knows(h, dn) == dn \in Visible => told[h][dn] # None
Agrees(h, dn, entry) ==
  told[h][dn] # None => /\ told[h][dn].val = entry.val
                        /\ h \notin Watched => told[h][dn] = Object(entry)
Sure(h, dn, entry) ==
  /\ Knows(h, dn)
  /\ Uncached = {} /\ dn \notin severed => Agrees(h, dn, entry)

\* The modules have been told, the cache has still to be written.
Unwritten(dn) == \/ pc = "store" /\ dn = found.dn
                 \/ pc = "move_store" /\ dn = cur.dn
InFlight(dn) == Unwritten(dn) \/ (pc = "drop" /\ dn = cur.dn)

\* The modules that have been initialised, or are, and do not fail.
Reliable == Served \ MayFail

\* Of an entry that is cached or will be.
ListedIn(h, entry) == Valid(entry) # None /\ h \in entry.modules
AllMatch(entry) == \A h \in entry.modules : Matches(h, entry)
AllTold(dn, entry) == \A h \in Reliable \cap entry.modules : Sure(h, dn, entry)

ListedMatches ==
  /\ \A dn \in DNs : Valid(cache[dn]) # None => AllMatch(cache[dn])
  /\ pc \in Moving => AllMatch(cur.cache)
  /\ pc = "store" => AllMatch(found.entry)

\* A module that is listed has been told, unless a crash came between.
ListedTold ==
  /\ \A dn \in DNs, h \in Reliable : ListedIn(h, cache[dn]) =>
       /\ Knows(h, dn)
       /\ Uncached = {} /\ dn \notin severed =>
            Unwritten(dn) \/ Agrees(h, dn, cache[dn])
  /\ pc = "store" => AllTold(found.dn, found.entry)
  /\ pc = "move_store" => AllTold(cur.dn, cur.cache)

\* A module that has been told of an object is, or is about to be, listed.
ToldListed ==
  \A dn \in DNs \ severed, h \in Reliable : told[h][dn] # None =>
    \/ ListedIn(h, cache[dn]) /\ ~InFlight(dn)
    \/ pc = "store" /\ dn = found.dn /\ h \in found.entry.modules
    \/ pc = "move_store" /\ dn = cur.dn /\ h \in cur.cache.modules
    \/ pc = "move_from" /\ dn = prev.dn /\ h \in prev.cache.modules

Telling ==
  /\ ListedMatches
  /\ ListedTold
  /\ MatchAll /\ Uncached = {} => ToldListed

-----------------------------------------------------------------------------
(* Types *)

LEMMA Telltale ==
  ASSUME Typed
  PROVE  /\ told \in [Handlers -> [DNs -> Objects \cup {None}]]
         /\ cache \in [DNs -> CacheEntries \cup {None, Empty}]
         /\ states \subseteq Handlers
         /\ Valid(None) = None /\ Valid(Empty) = None /\ None \notin CacheEntries
         /\ None \notin Objects
         /\ \A entry \in CacheEntries : /\ Valid(entry) = entry /\ entry # None
                                        /\ Object(entry) \in Objects
                                        /\ Object(entry) # None
                                        /\ Object(entry).val = entry.val
                                        /\ entry.modules \subseteq Handlers
         /\ \A dn \in DNs : Valid(cache[dn]) # None =>
              Valid(cache[dn]) = cache[dn] /\ cache[dn] \in CacheEntries
<1>1. /\ told \in [Handlers -> [DNs -> Objects \cup {None}]]
      /\ cache \in [DNs -> CacheEntries \cup {None, Empty}]
      /\ states \subseteq Handlers
  BY DEF Typed, TypeOK
<1>2. /\ Valid(None) = None /\ Valid(Empty) = None /\ None \notin CacheEntries
      /\ None \notin Objects
  BY NoneAssumption DEF Valid, NoneAssumption
<1>3. ASSUME NEW entry \in CacheEntries
      PROVE  /\ Valid(entry) = entry /\ entry # None
             /\ Object(entry) \in Objects /\ Object(entry) # None
             /\ Object(entry).val = entry.val /\ entry.modules \subseteq Handlers
  <2>1. entry # None /\ entry # Empty
    BY NoneAssumption DEF NoneAssumption
  <2>2. Object(entry) \in Objects
    BY ObjectType
  <2> QED  BY <1>2, <2>1, <2>2 DEF Valid, Object, CacheEntries
<1>4. \A dn \in DNs : Valid(cache[dn]) # None =>
        Valid(cache[dn]) = cache[dn] /\ cache[dn] \in CacheEntries
  BY <1>1, <1>2, <1>3
<1> QED  BY <1>1, <1>2, <1>3, <1>4

\* The modules that do not fail and are ready succeed.
LEMMA ReliableSucceed ==
  ASSUME Typed, NEW who, Following(who), pc # "exit", NEW failed \in Failing
  PROVE  failed \cap Reliable = {}
BY DEF Following, Loading, Failing, Reliable

LEMMA ReliableType ==
  ASSUME Typed
  PROVE  Served \subseteq Handlers /\ Reliable \subseteq Handlers
BY Telltale DEF Served, Reliable, Importing, Typed, TypeOK, InHand, Imports

\* Whom handler__update tells, and whom it lists.
Tells(h, new, old) == ~UpToDate(h, new, old) /\ Matches(h, new)

CallTold(call, hs, dn, new, old, failed) ==
  /\ \A h \in Handlers, e \in DNs :
       call.told[h][e] = IF e = dn /\ h \in hs \ failed /\ Tells(h, new, old)
                           THEN Object(new) ELSE told[h][e]
  /\ \A h : h \in call.entry.modules <=>
       \/ h \in new.modules
       \/ h \in hs /\ UpToDate(h, new, old)
       \/ h \in hs \ failed /\ Tells(h, new, old)

LEMMA CallTells ==
  ASSUME Typed, NEW hs \in SUBSET Handlers, NEW dn \in DNs, NEW old, NEW failed,
         NEW new \in CacheEntries
  PROVE  CallTold(CallHandlers(hs, dn, new, old, failed), hs, dn, new, old, failed)
<1> DEFINE called == {h \in hs : ~UpToDate(h, new, old) /\ Matches(h, new)}
           current == {h \in hs : UpToDate(h, new, old)}
           call == CallHandlers(hs, dn, new, old, failed)
<1>1. /\ call.told = [h \in Handlers |->
           IF h \in called \ failed
             THEN [told[h] EXCEPT ![dn] = Object(new)] ELSE told[h]]
      /\ call.entry = [new EXCEPT !.modules = @ \cup current \cup (called \ failed)]
  BY DEF CallHandlers
<1>2. /\ \A h : h \in called \ failed <=> h \in hs \ failed /\ Tells(h, new, old)
      /\ \A h : h \in current <=> h \in hs /\ UpToDate(h, new, old)
  BY DEF Tells
<1>3. told \in [Handlers -> [DNs -> Objects \cup {None}]]
  BY DEF Typed, TypeOK
<1> HIDE DEF called, current, call
<1>4. ASSUME NEW h \in Handlers, NEW e \in DNs
      PROVE  call.told[h][e] = IF e = dn /\ h \in called \ failed
                                 THEN Object(new) ELSE told[h][e]
  <2>1. told[h] \in [DNs -> Objects \cup {None}]
    BY <1>3
  <2>2. CASE h \in called \ failed
    BY <1>1, <2>1, <2>2
  <2>3. CASE h \notin called \ failed
    BY <1>1, <2>3
  <2> QED  BY <2>2, <2>3
<1>5. call.entry.modules = new.modules \cup current \cup (called \ failed)
  BY <1>1 DEF CacheEntries
<1>6. \A h : h \in call.entry.modules <=>
               \/ h \in new.modules
               \/ h \in hs /\ UpToDate(h, new, old)
               \/ h \in hs \ failed /\ Tells(h, new, old)
  BY <1>2, <1>5
<1>7. \A h \in Handlers, e \in DNs :
        call.told[h][e] = IF e = dn /\ h \in hs \ failed /\ Tells(h, new, old)
                            THEN Object(new) ELSE told[h][e]
  BY <1>2, <1>4
<1> QED  BY <1>6, <1>7 DEF call, CallTold

LEMMA DeleteTells ==
  ASSUME Typed, NEW dn \in DNs, NEW old, NEW failed
  PROVE  \A h \in Handlers, e \in DNs :
           HandlersDelete(dn, old, failed)[h][e] =
             IF /\ e = dn /\ h \notin failed
                /\ h \in Always \/ (old # None /\ h \in old.modules)
               THEN None ELSE told[h][e]
<1> DEFINE listed == IF old = None THEN {} ELSE old.modules
           after == HandlersDelete(dn, old, failed)
<1>1. after = [h \in Handlers |-> IF h \in (listed \cup Always) \ failed
                                   THEN [told[h] EXCEPT ![dn] = None] ELSE told[h]]
  BY DEF HandlersDelete
<1>2. told \in [Handlers -> [DNs -> Objects \cup {None}]]
  BY DEF Typed, TypeOK
<1>3. \A h : h \in (listed \cup Always) \ failed <=>
               h \notin failed /\ (h \in Always \/ (old # None /\ h \in old.modules))
  OBVIOUS
<1> HIDE DEF listed, after
<1>4. ASSUME NEW h \in Handlers, NEW e \in DNs
      PROVE  after[h][e] = IF e = dn /\ h \in (listed \cup Always) \ failed
                             THEN None ELSE told[h][e]
  <2>1. told[h] \in [DNs -> Objects \cup {None}]
    BY <1>2
  <2>2. CASE h \in (listed \cup Always) \ failed
    BY <1>1, <2>1, <2>2
  <2>3. CASE h \notin (listed \cup Always) \ failed
    BY <1>1, <2>3
  <2> QED  BY <2>2, <2>3
<1> QED  BY <1>3, <1>4 DEF after


-----------------------------------------------------------------------------
(* What carries over *)

LEMMA SameTelling ==
  ASSUME Telling, Visible' = Visible,
         UNCHANGED <<cache, told, states, import, pc, cur, prev, found, severed>>
  PROVE  Telling'
<1>1. /\ cache' = cache /\ told' = told /\ states' = states /\ import' = import
      /\ pc' = pc /\ cur' = cur /\ prev' = prev /\ found' = found /\ severed' = severed
      /\ Visible' = Visible
  OBVIOUS
<1>2. Reliable' = Reliable
  BY <1>1 DEF Reliable, Served, Importing
<1>3. ListedMatches'
  BY <1>1 DEF Telling, ListedMatches, AllMatch, Matches
<1>4. ListedTold'
  <2>1. \A dn : Unwritten(dn)' <=> Unwritten(dn)
    BY <1>1 DEF Unwritten
  <2>2. \A h, dn : /\ Knows(h, dn)' <=> Knows(h, dn)
                   /\ Agrees(h, dn, cache[dn])' <=> Agrees(h, dn, cache[dn])
                   /\ ListedIn(h, cache[dn])' <=> ListedIn(h, cache[dn])
    BY <1>1 DEF Knows, Agrees, ListedIn
  <2>3. AllTold(found.dn, found.entry)' <=> AllTold(found.dn, found.entry)
    BY <1>1, <1>2 DEF AllTold, Sure, Knows, Agrees
  <2>4. AllTold(cur.dn, cur.cache)' <=> AllTold(cur.dn, cur.cache)
    BY <1>1, <1>2 DEF AllTold, Sure, Knows, Agrees
  <2>5. ListedTold
    BY DEF Telling
  <2> QED  BY <1>1, <1>2, <2>1, <2>2, <2>3, <2>4, <2>5 DEF ListedTold
<1>5. MatchAll' /\ (Uncached = {})' => ToldListed'
  BY <1>1, <1>2 DEF Telling, ToldListed, MatchAll, ListedIn, InFlight, Unwritten
<1> QED  BY <1>3, <1>4, <1>5 DEF Telling

\* The places where Telling says more than what is cached and told.
Underway == {"store", "drop"} \cup Moving

LEMMA TellingKept ==
  ASSUME Telling, UNCHANGED <<cache, told>>, Visible' = Visible,
         severed \subseteq severed', Reliable' \subseteq Reliable,
         pc \notin Underway, pc' \notin Underway
  PROVE  Telling'
<1>1. cache' = cache /\ told' = told
  OBVIOUS
<1>2. /\ pc \notin {"store", "drop", "move", "move_from", "move_to", "move_store"}
      /\ pc' \notin {"store", "drop", "move", "move_from", "move_to", "move_store"}
  BY DEF Underway, Moving
<1>3. ListedMatches'
  <2>1. \A dn \in DNs : Valid(cache[dn]) # None => AllMatch(cache[dn])
    BY DEF Telling, ListedMatches
  <2> QED  BY <1>1, <1>2, <2>1 DEF ListedMatches, AllMatch, Matches, Moving
<1>4. ListedTold'
  <2>1. ListedTold
    BY DEF Telling
  <2>2. \A dn \in DNs, h \in Reliable : ListedIn(h, cache[dn]) => Sure(h, dn, cache[dn])
    BY <1>2, <2>1 DEF ListedTold, Unwritten, Sure
  <2>3. \A h, dn : Sure(h, dn, cache[dn]) => Sure(h, dn, cache[dn])'
    BY <1>1 DEF Sure, Knows, Agrees
  <2> QED  BY <1>1, <1>2, <2>2, <2>3 DEF ListedTold, ListedIn, Sure
<1>5. MatchAll' /\ (Uncached = {})' => ToldListed'
  <2> SUFFICES ASSUME MatchAll, Uncached = {}  PROVE ToldListed'
    BY DEF MatchAll
  <2>1. ToldListed
    BY DEF Telling
  <2> QED  BY <1>1, <1>2, <2>1 DEF ToldListed, ListedIn, InFlight, Unwritten
<1> QED  BY <1>3, <1>4, <1>5 DEF Telling

-----------------------------------------------------------------------------
(* slapd *)

\* A name that comes into sight is one that no waiting transaction is about.
LEMMA AppearsUnawaited ==
  ASSUME Typed, ~Reuse, Slapd, NEW dn \in Visible', dn \notin Visible
  PROVE  dn \in DNs /\ \A p \in Done + 1..Len(log) : log[p].dn # dn
<1>1. dn \in DNs /\ ldap'[dn] # None /\ ldap[dn] = None
  BY DEF Visible
<1>2. Free(dn) => \A p \in Done + 1..Len(log) : log[p].dn # dn
  BY DEF Free, Done
<1>3. ldap \in [DNs -> Objects \cup {None}]
  BY DEF Typed, TypeOK
<1>4. CASE \E d \in DNs, val \in Vals : LdapAdd(d, val)
  BY <1>1, <1>2, <1>3, <1>4 DEF LdapAdd
<1>5. CASE \E d \in DNs, val \in Vals : LdapModify(d, val)
  BY <1>1, <1>3, <1>5 DEF LdapModify
<1>6. CASE \E d \in DNs : LdapDelete(d)
  BY <1>1, <1>3, <1>6 DEF LdapDelete
<1>7. CASE \E d, to \in DNs : LdapMove(d, to)
  BY <1>1, <1>2, <1>3, <1>7 DEF LdapMove
<1> QED  BY <1>4, <1>5, <1>6, <1>7 DEF Slapd

\* So the entry cached under it, or about to be, is none that modules are listed in.
LEMMA SlapdTelling ==
  ASSUME Typed, ~Reuse, NEW who, Following(who), Telling, Slapd
  PROVE  Telling'
<1>1. /\ cache' = cache /\ told' = told /\ states' = states /\ import' = import
      /\ pc' = pc /\ cur' = cur /\ prev' = prev /\ found' = found /\ severed' = severed
  BY DEF Slapd, LdapAdd, LdapModify, LdapDelete, LdapMove, Operation, disk, loaded
<1>2. Reliable' = Reliable
  BY <1>1 DEF Reliable, Served, Importing
<1>3. ASSUME NEW dn \in Visible', dn \notin Visible
      PROVE  dn \in DNs /\ \A n \in Nat : Done <= n => ~Waits(n, dn, Leave)
  <2>1. dn \in DNs /\ \A p \in Done + 1..Len(log) : log[p].dn # dn
    BY <1>3, AppearsUnawaited
  <2>2. Done \in Nat /\ Len(log) \in Nat
    BY Typing
  <2> QED  BY <2>1, <2>2 DEF Waits
<1>4. Handled \in Nat /\ Done <= Handled
  BY HandledType DEF Following
<1>5. ListedMatches'
  BY <1>1 DEF Telling, ListedMatches, AllMatch, Matches
<1>6. ListedTold
  BY DEF Telling
<1>7. ASSUME NEW dn \in DNs, NEW h \in Reliable, ListedIn(h, cache[dn])
      PROVE  Knows(h, dn)'
  <2>1. CASE dn \in Visible \/ dn \notin Visible'
    BY <1>1, <1>6, <1>7, <2>1 DEF ListedTold, Knows
  <2>2. CASE dn \in Visible' /\ dn \notin Visible
    <3>1. Waits(Handled, dn, Leave)
      BY <1>7, <2>2 DEF Following, Cached, Fits, ListedIn
    <3> QED  BY <1>3, <1>4, <2>2, <3>1
  <2> QED  BY <2>1, <2>2
<1>8. pc = "store" => AllTold(found.dn, found.entry)'
  <2> SUFFICES ASSUME pc = "store", NEW h \in Reliable \cap found.entry.modules
               PROVE  Sure(h, found.dn, found.entry)'
    BY <1>1, <1>2 DEF AllTold
  <2>1. Sure(h, found.dn, found.entry)
    BY <1>6 DEF ListedTold, AllTold
  <2>2. found.dn \in Visible' => found.dn \in Visible
    <3> SUFFICES ASSUME found.dn \in Visible', found.dn \notin Visible  PROVE FALSE
      OBVIOUS
    <3>1. Waits(id, found.dn, Leave)
      BY DEF Following, Seen, Updating
    <3>2. id \in Nat /\ Done <= id
      BY Typing DEF Following, Placed, Worked, Working
    <3> QED  BY <1>3, <3>1, <3>2
  <2> QED  BY <1>1, <2>1, <2>2 DEF Sure, Knows, Agrees
<1>9. pc = "move_store" => AllTold(cur.dn, cur.cache)'
  <2> SUFFICES ASSUME pc = "move_store", NEW h \in Reliable \cap cur.cache.modules
               PROVE  Sure(h, cur.dn, cur.cache)'
    BY <1>1, <1>2 DEF AllTold
  <2>1. Sure(h, cur.dn, cur.cache)
    BY <1>6 DEF ListedTold, AllTold
  <2>2. cur.dn \in Visible' => cur.dn \in Visible
    <3>1. id \in Done + 1..Len(log) /\ log[id].dn = cur.dn
      BY DEF Following, Placed, Worked, Working, Moving
    <3> QED  BY <3>1, AppearsUnawaited
  <2> QED  BY <1>1, <2>1, <2>2 DEF Sure, Knows, Agrees
<1>10. ListedTold'
  <2>1. \A dn : Unwritten(dn)' <=> Unwritten(dn)
    BY <1>1 DEF Unwritten
  <2>2. \A h, dn : /\ Agrees(h, dn, cache[dn])' <=> Agrees(h, dn, cache[dn])
                   /\ ListedIn(h, cache[dn])' <=> ListedIn(h, cache[dn])
    BY <1>1 DEF Agrees, ListedIn
  <2> QED  BY <1>1, <1>2, <1>6, <1>7, <1>8, <1>9, <2>1, <2>2 DEF ListedTold
<1>11. MatchAll' /\ (Uncached = {})' => ToldListed'
  BY <1>1, <1>2 DEF Telling, ToldListed, MatchAll, ListedIn, InFlight, Unwritten
<1> QED  BY <1>5, <1>10, <1>11 DEF Telling

-----------------------------------------------------------------------------
(* The transactions *)

LEMMA QuietTelling ==
  ASSUME Typed, Typed', Telling,
         Fetch \/ Finish \/ WritePrev \/ WriteCur \/ Commit \/ Restart \/ Listen
  PROVE  Telling'
<1>1. /\ UNCHANGED <<cache, told, states>>
      /\ severed' = severed /\ Visible' = Visible
      /\ pc \in {"listen", "finish", "write_prev", "write_cur", "commit", "exit", "init"}
      /\ pc' \in {"listen", "search", "exit", "write_prev", "write_cur", "commit", "init"}
  BY DEF Fetch, Finish, WritePrev, WriteCur, Commit, Restart, Listen, disk, loaded,
         slapd, Visible
<1>2. Reliable' \subseteq Reliable
  BY <1>1 DEF Reliable, Served, Importing
<1>3. pc \notin Underway /\ pc' \notin Underway
  BY <1>1 DEF Underway, Moving
<1> QED  BY <1>1, <1>2, <1>3, TellingKept

LEMMA SearchTelling ==
  ASSUME Typed, Typed', NEW who, Following(who), Telling, SearchUuid \/ SearchDn
  PROVE  Telling'
<1>1. /\ cache' = cache /\ told' = told /\ states' = states /\ import' = import
      /\ severed' = severed /\ Visible' = Visible /\ pc \in {"search", "retry_dn"}
      /\ pc' \in {"update", "finish", "move", "delete", "retry_dn"}
      /\ pc' = "move" => IsMove(cur) /\ cur' = cur
  BY DEF SearchUuid, SearchDn, Dispatch, disk, loaded, slapd, Visible
<1>2. Reliable' \subseteq Reliable
  BY <1>1 DEF Reliable, Served, Importing
<1>3. pc \notin Underway
  BY <1>1 DEF Underway, Moving
<1>4. CASE pc' # "move"
  <2>1. pc' \notin Underway
    BY <1>1, <1>4 DEF Underway, Moving
  <2> QED  BY <1>1, <1>2, <1>3, <2>1, TellingKept
<1>5. CASE pc' = "move"
  <2>1. prev # None /\ cur' = cur /\ prev \in Ops
    BY <1>1, <1>5 DEF IsMove, Typed, TypeOK
  <2>2. /\ pc = "search" /\ cache[prev.dn] = prev.cache /\ prev.cache # None
        /\ cur.cache = prev.cache /\ prev.dn \in DNs /\ prev.cache \in CacheEntries
    BY <1>1, <2>1 DEF Following, Stashed, AtHand, Ops
  <2>3. \A dn \in DNs : Valid(cache[dn]) # None => AllMatch(cache[dn])
    BY DEF Telling, ListedMatches
  <2>4. AllMatch(cur.cache)
    BY <2>2, <2>3, Telltale
  <2>5. ListedMatches'
    BY <1>1, <1>5, <2>1, <2>3, <2>4 DEF ListedMatches, AllMatch, Matches
  <2>6. ListedTold'
    <3>1. ListedTold
      BY DEF Telling
    <3>2. \A dn \in DNs, h \in Reliable : ListedIn(h, cache[dn]) => Sure(h, dn, cache[dn])
      BY <1>1, <3>1 DEF ListedTold, Unwritten, Sure
    <3>3. \A h, dn : Sure(h, dn, cache[dn]) => Sure(h, dn, cache[dn])'
      BY <1>1 DEF Sure, Knows, Agrees
    <3> QED  BY <1>1, <1>2, <1>5, <3>2, <3>3 DEF ListedTold, ListedIn, Sure
  <2>7. MatchAll' /\ (Uncached = {})' => ToldListed'
    <3> SUFFICES ASSUME MatchAll, Uncached = {}  PROVE ToldListed'
      BY DEF MatchAll
    <3>1. ToldListed
      BY <1>1 DEF Telling
    <3> QED  BY <1>1, <1>2, <1>5, <3>1 DEF ToldListed, ListedIn, InFlight, Unwritten
  <2> QED  BY <2>5, <2>6, <2>7 DEF Telling
<1> QED  BY <1>4, <1>5

\* A module listed in an entry that is just what it was has been told of it.
LEMMA UpToDateIsTold ==
  ASSUME Typed, Telling, pc = "update", NEW dn \in DNs, NEW new \in CacheEntries,
         NEW h \in Handlers, UpToDate(h, new, Valid(cache[dn]))
  PROVE  Matches(h, new) /\ (h \in Reliable => Sure(h, dn, new))
<1>1. /\ Valid(cache[dn]) # None /\ Valid(cache[dn]) = cache[dn]
      /\ cache[dn] \in CacheEntries /\ h \in cache[dn].modules
  BY Telltale DEF UpToDate
<1>2. /\ new.val = cache[dn].val
      /\ h \notin Watched => Object(new) = Object(cache[dn])
  BY <1>1, Telltale DEF UpToDate
<1>3. Matches(h, cache[dn])
  BY <1>1 DEF Telling, ListedMatches, AllMatch
<1>4. h \in Reliable => Sure(h, dn, cache[dn])
  BY <1>1 DEF Telling, ListedTold, ListedIn, Unwritten, Sure
<1> QED  BY <1>2, <1>3, <1>4 DEF Matches, Sure, Agrees

LEMMA UpdateHandlersTelling ==
  ASSUME Typed, Typed', NEW who, Following(who), Telling, UpdateHandlers
  PROVE  Telling'
<1>1. /\ cache' = cache /\ states' = states /\ import' = import
      /\ severed' = severed /\ Visible' = Visible
      /\ pc = "update" /\ pc' = "store" /\ cur' = cur
  BY DEF UpdateHandlers, loaded, slapd, Visible
<1>2. Reliable' = Reliable /\ Reliable \subseteq Handlers
  BY <1>1, ReliableType DEF Reliable, Served, Importing
<1>3. found \in Found /\ found.dn \in DNs /\ found.entry \in CacheEntries
  BY <1>1 DEF Typed, TypeOK, InHand, Found
<1>4. found.entry.modules = {}
  BY <1>1 DEF Following, Seen, Updating
<1> DEFINE dn == found.dn
           new == found.entry
           old == Valid(cache[dn])
<1>5. PICK failed \in Failing :
        /\ told' = CallHandlers(Handlers, dn, new, old, failed).told
        /\ found' = [found EXCEPT !.entry = CallHandlers(Handlers, dn, new, old, failed).entry]
  BY DEF UpdateHandlers, HandlersUpdate
<1>6. failed \cap Reliable = {}
  BY <1>1, <1>5, ReliableSucceed
<1> DEFINE entry == CallHandlers(Handlers, dn, new, old, failed).entry
<1>7. /\ \A h \in Reliable, e \in DNs : told'[h][e] =
           IF e = dn /\ Tells(h, new, old) THEN Object(new) ELSE told[h][e]
      /\ \A h \in entry.modules :
           h \in Handlers /\ (UpToDate(h, new, old) \/ Tells(h, new, old))
      /\ \A h \in Reliable :
           UpToDate(h, new, old) \/ Tells(h, new, old) => h \in entry.modules
  <2>1. CallTold(CallHandlers(Handlers, dn, new, old, failed),
                 Handlers, dn, new, old, failed)
    BY <1>3, CallTells
  <2>2. told' = CallHandlers(Handlers, dn, new, old, failed).told /\ new.modules = {}
    BY <1>4, <1>5
  <2>3. \A h \in Reliable : h \in Handlers \ failed
    BY <1>2, <1>6
  <2> HIDE DEF dn, new, old
  <2> QED  BY <2>1, <2>2, <2>3 DEF CallTold
<1>8. found'.dn = dn /\ found'.entry = entry /\ Object(entry) = Object(new)
      /\ entry.val = new.val
  <2>1. Object(entry) = Object(new) /\ entry.val = new.val
    BY <1>3 DEF CallHandlers, CacheEntries, Object
  <2> HIDE DEF entry
  <2> QED  BY <1>3, <1>5, <2>1 DEF Found, entry
<1>9. Object(new) # None /\ Object(new).val = new.val
  BY <1>3, Telltale
<1>10. \A h \in Handlers : UpToDate(h, new, old) =>
         Matches(h, new) /\ (h \in Reliable => Sure(h, dn, new))
  BY <1>1, <1>3, UpToDateIsTold
<1> HIDE DEF entry, new, old, dn
<1>11. ListedMatches'
  <2>1. \A e \in DNs : Valid(cache[e]) # None => AllMatch(cache[e])
    BY DEF Telling, ListedMatches
  <2>2. \A h \in entry.modules : new.val \in Filter[h]
    BY <1>2, <1>7, <1>10 DEF Matches, Tells
  <2> QED  BY <1>1, <1>8, <2>1, <2>2 DEF ListedMatches, AllMatch, Matches, Moving
<1>12. ListedTold'
  <2>1. \A e \in DNs, h \in Reliable : ListedIn(h, cache[e]) => Sure(h, e, cache[e])
    BY <1>1 DEF Telling, ListedTold, Unwritten, Sure
  <2>2. ASSUME NEW e \in DNs, NEW h \in Reliable, ListedIn(h, cache[e])
        PROVE  /\ Knows(h, e)'
               /\ Uncached = {} /\ e \notin severed => e = dn \/ Agrees(h, e, cache[e])'
    BY <1>1, <1>2, <1>7, <1>9, <2>1, <2>2 DEF Sure, Knows, Agrees
  <2>3. ASSUME NEW h \in Reliable, h \in entry.modules
        PROVE  Sure(h, found.dn, found.entry)'
    <3>1. /\ dn \in DNs /\ h \in Handlers /\ found'.dn = dn
          /\ Object(found'.entry) = Object(new) /\ found'.entry.val = new.val
      BY <1>2, <1>3, <1>8 DEF dn
    <3>2. CASE Tells(h, new, old)
      <4>1. told'[h][dn] = Object(new)
        BY <1>7, <3>1, <3>2
      <4> QED  BY <1>9, <3>1, <4>1 DEF Sure, Knows, Agrees
    <3>3. CASE ~Tells(h, new, old)
      <4>1. told'[h][dn] = told[h][dn] /\ UpToDate(h, new, old)
        BY <1>7, <2>3, <3>1, <3>3
      <4>2. Sure(h, dn, new)
        BY <1>10, <3>1, <4>1
      <4> QED  BY <1>1, <3>1, <4>1, <4>2 DEF Sure, Knows, Agrees
    <3> QED  BY <3>2, <3>3
  <2>4. AllTold(found.dn, found.entry)'
    BY <1>2, <1>8, <2>3 DEF AllTold
  <2> QED  BY <1>1, <1>2, <1>8, <2>2, <2>4 DEF ListedTold, ListedIn, Unwritten
<1>13. MatchAll' /\ (Uncached = {})' => ToldListed'
  <2> SUFFICES ASSUME MatchAll, Uncached = {}  PROVE ToldListed'
    BY DEF MatchAll
  <2>1. ToldListed
    BY <1>1 DEF Telling
  <2>2. ASSUME NEW h \in Reliable  PROVE h \in entry.modules
    <3>1. Matches(h, new)
      BY <1>2, <1>3 DEF MatchAll, Matches, CacheEntries, new
    <3>2. UpToDate(h, new, old) \/ Tells(h, new, old)
      BY <3>1 DEF Tells
    <3> QED  BY <1>2, <1>7, <3>2
  <2>3. ASSUME NEW e \in DNs \ severed, NEW h \in Reliable, e # dn, told'[h][e] # None
        PROVE  ListedIn(h, cache[e])
    <3>1. told[h][e] # None
      BY <1>2, <1>7, <2>3
    <3> QED  BY <1>1, <2>1, <3>1 DEF ToldListed
  <2> QED  BY <1>1, <1>2, <1>8, <2>2, <2>3 DEF ToldListed, ListedIn, InFlight, Unwritten
<1> QED  BY <1>11, <1>12, <1>13 DEF Telling

\* The entry that was to be written is, unless the filter keeps it out.
LEMMA WrittenTelling ==
  ASSUME Typed, Telling, NEW dn \in DNs, NEW entry \in CacheEntries,
         \/ pc = "store" /\ dn = found.dn /\ entry = found.entry
         \/ pc = "move_store" /\ dn = cur.dn /\ entry = cur.cache,
         cache' = Stored(dn, entry), UNCHANGED <<told, states, import, severed>>,
         Visible' = Visible, pc' \in {"finish", "update"}
  PROVE  Telling'
<1>1. /\ told' = told /\ states' = states /\ import' = import /\ severed' = severed
  OBVIOUS
<1>2. Reliable' = Reliable
  BY <1>1 DEF Reliable, Served, Importing
<1>3. \A e \in DNs : IF e = dn
                       THEN cache'[e] = entry \/ (cache'[e] = cache[e] /\ Uncached # {})
                       ELSE cache'[e] = cache[e]
  BY Telltale DEF Stored
<1>4. AllMatch(entry)
  BY DEF Telling, ListedMatches, Moving
<1>5. \A e : /\ Unwritten(e) <=> e = dn
             /\ InFlight(e) <=> e = dn
  BY DEF InFlight, Unwritten
<1>6. \A e : ~InFlight(e)' /\ ~Unwritten(e)'
  BY DEF InFlight, Unwritten
<1>7. ListedMatches'
  <2>1. \A e \in DNs : Valid(cache[e]) # None => AllMatch(cache[e])
    BY DEF Telling, ListedMatches
  <2>2. ASSUME NEW e \in DNs, Valid(cache'[e]) # None  PROVE AllMatch(cache'[e])
    BY <1>3, <1>4, <2>1, <2>2
  <2> QED  BY <2>2 DEF ListedMatches, AllMatch, Matches, Moving
<1>8. ListedTold'
  <2>1. AllTold(dn, entry)
    BY DEF Telling, ListedTold
  <2>2. ASSUME NEW e \in DNs, NEW h \in Reliable, ListedIn(h, cache[e])
        PROVE  /\ Knows(h, e)
               /\ Uncached = {} /\ e \notin severed => e = dn \/ Agrees(h, e, cache[e])
    BY <1>5, <2>2 DEF Telling, ListedTold
  <2>3. ASSUME NEW e \in DNs, NEW h \in Reliable, ListedIn(h, cache[e])'
        PROVE  Sure(h, e, cache[e])'
    <3>1. CASE cache'[e] = cache[e] /\ (e # dn \/ Uncached # {})
      BY <1>1, <2>2, <2>3, <3>1 DEF ListedIn, Sure, Knows, Agrees
    <3>2. CASE e = dn /\ cache'[e] = entry
      BY <1>1, <2>1, <2>3, <3>2 DEF ListedIn, AllTold, Sure, Knows, Agrees
    <3> QED  BY <1>3, <3>1, <3>2
  <2> QED  BY <1>2, <2>3 DEF ListedTold, Sure
<1>9. MatchAll' /\ (Uncached = {})' => ToldListed'
  <2> SUFFICES ASSUME MatchAll, Uncached = {}  PROVE ToldListed'
    BY DEF MatchAll
  <2>1. ToldListed
    BY DEF Telling
  <2>2. Valid(entry) # None
    BY Telltale
  <2>3. ASSUME NEW e \in DNs \ severed, NEW h \in Reliable, told[h][e] # None
        PROVE  ListedIn(h, cache[e])'
    <3>1. CASE e # dn
      BY <1>3, <2>1, <2>3, <3>1 DEF ToldListed, ListedIn
    <3>2. CASE e = dn
      <4>1. h \in entry.modules
        BY <1>5, <2>1, <2>3, <3>2 DEF ToldListed
      <4>2. cache'[e] = entry
        BY <1>3, <3>2
      <4> QED  BY <2>2, <4>1, <4>2 DEF ListedIn
    <3> QED  BY <3>1, <3>2
  <2> QED  BY <1>1, <1>2, <1>6, <2>3 DEF ToldListed
<1> QED  BY <1>7, <1>8, <1>9 DEF Telling

LEMMA StoreTelling ==
  ASSUME Typed, Telling, Store \/ MoveStore
  PROVE  Telling'
<1>1. /\ UNCHANGED <<told, states, import, severed>> /\ Visible' = Visible
      /\ pc' \in {"finish", "update"}
  BY DEF Store, MoveStore, loaded, slapd, Visible
<1>2. CASE Store
  <2>1. found \in Found /\ pc = "store" /\ cache' = Stored(found.dn, found.entry)
    BY <1>2 DEF Store, Typed, TypeOK, InHand
  <2>2. found.dn \in DNs /\ found.entry \in CacheEntries
    BY <2>1 DEF Found
  <2> QED  BY <1>1, <2>1, <2>2, WrittenTelling
<1>3. CASE MoveStore
  <2>1. cur \in Ops /\ pc = "move_store" /\ cache' = Stored(cur.dn, cur.cache)
        /\ cur.cache # None
    BY <1>3 DEF MoveStore, Typed, TypeOK, InHand, Moving, Working
  <2>2. cur.dn \in DNs /\ cur.cache \in CacheEntries
    BY <2>1 DEF Ops
  <2> QED  BY <1>1, <2>1, <2>2, WrittenTelling
<1> QED  BY <1>2, <1>3

LEMMA DeleteHandlersTelling ==
  ASSUME Typed, Typed', NEW who, Following(who), Telling, DeleteHandlers
  PROVE  Telling'
<1>1. /\ cache' = cache /\ states' = states /\ import' = import
      /\ severed' = severed /\ Visible' = Visible
      /\ pc = "delete" /\ pc' = "drop" /\ cur' = cur
  BY DEF DeleteHandlers, loaded, slapd, Visible
<1>2. Reliable' = Reliable /\ Reliable \subseteq Handlers
  BY <1>1, ReliableType DEF Reliable, Served, Importing
<1>3. cur \in Ops /\ cur.dn \in DNs
  BY <1>1 DEF Typed, TypeOK, InHand, Working, Ops
<1>4. prev = None /\ cur.cache = Valid(cache[cur.dn])
  BY <1>1 DEF Following, Stashed, AtHand, Deleting
<1>5. PICK failed \in Failing : told' = HandlersDelete(cur.dn, cur.cache, failed)
  BY DEF DeleteHandlers
<1>6. failed \cap Reliable = {}
  BY <1>1, ReliableSucceed
<1>7. \A h \in Handlers, e \in DNs :
        told'[h][e] = IF /\ e = cur.dn /\ h \notin failed
                         /\ h \in Always \/ (cur.cache # None /\ h \in cur.cache.modules)
                        THEN None ELSE told[h][e]
  BY <1>3, <1>5, DeleteTells
<1>8. \A e : /\ InFlight(e)' <=> e = cur.dn
             /\ ~Unwritten(e)'
  BY <1>1 DEF InFlight, Unwritten
<1>9. ListedMatches'
  <2>1. \A e \in DNs : Valid(cache[e]) # None => AllMatch(cache[e])
    BY DEF Telling, ListedMatches
  <2> QED  BY <1>1, <2>1 DEF ListedMatches, AllMatch, Matches, Moving
<1>10. ListedTold'
  <2>1. \A e \in DNs, h \in Reliable : ListedIn(h, cache[e]) => Sure(h, e, cache[e])
    BY <1>1 DEF Telling, ListedTold, Unwritten, Sure
  <2>2. cur.dn \notin Visible
    BY <1>1 DEF Following, AtHand, Deleting
  <2>3. ASSUME NEW e \in DNs, NEW h \in Reliable, ListedIn(h, cache[e])
        PROVE  Sure(h, e, cache[e])'
    <3>1. CASE e # cur.dn
      <4>1. told'[h][e] = told[h][e]
        BY <1>2, <1>7, <3>1
      <4> QED  BY <1>1, <2>1, <2>3, <4>1 DEF Sure, Knows, Agrees
    <3>2. CASE e = cur.dn
      <4>1. cur.cache # None /\ h \in cur.cache.modules
        BY <1>4, <2>3, <3>2, Telltale DEF ListedIn
      <4>2. h \in Handlers /\ h \notin failed
        BY <1>2, <1>6
      <4>3. told'[h][e] = None
        BY <1>7, <3>2, <4>1, <4>2
      <4> QED  BY <1>1, <2>2, <3>2, <4>3 DEF Sure, Knows, Agrees
    <3> QED  BY <3>1, <3>2
  <2> QED  BY <1>1, <1>2, <2>3 DEF ListedTold, ListedIn, Sure
<1>11. MatchAll' /\ (Uncached = {})' => ToldListed'
  <2> SUFFICES ASSUME MatchAll, Uncached = {}  PROVE ToldListed'
    BY DEF MatchAll
  <2>1. ToldListed
    BY <1>1 DEF Telling
  <2>2. ASSUME NEW e \in DNs \ severed, NEW h \in Reliable, told'[h][e] # None
        PROVE  e # cur.dn /\ ListedIn(h, cache[e])
    <3>1. told[h][e] # None
      BY <1>2, <1>7, <2>2
    <3>2. ListedIn(h, cache[e])
      BY <1>1, <2>1, <3>1 DEF ToldListed
    <3>3. h \in Handlers /\ h \notin failed
      BY <1>2, <1>6
    <3>4. ASSUME e = cur.dn  PROVE FALSE
      <4>1. cur.cache # None /\ h \in cur.cache.modules
        BY <1>3, <1>4, <3>2, <3>4, Telltale DEF ListedIn
      <4> QED  BY <1>3, <1>7, <2>2, <3>3, <3>4, <4>1
    <3> QED  BY <3>2, <3>4
  <2> QED  BY <1>1, <1>2, <1>8, <2>2 DEF ToldListed, ListedIn
<1> QED  BY <1>9, <1>10, <1>11 DEF Telling

LEMMA DropTelling ==
  ASSUME Typed, Typed', NEW who, Following(who), Telling, Drop
  PROVE  Telling'
<1>1. /\ told' = told /\ states' = states /\ import' = import
      /\ severed' = severed /\ Visible' = Visible
      /\ pc = "drop" /\ pc' = "finish"
      /\ cache' = IF cur.cache = None THEN cache ELSE [cache EXCEPT ![cur.dn] = None]
  BY DEF Drop, loaded, slapd, Visible
<1>2. Reliable' = Reliable
  BY <1>1 DEF Reliable, Served, Importing
<1>3. cur \in Ops /\ cur.dn \in DNs
  BY <1>1 DEF Typed, TypeOK, InHand, Working, Ops
<1>4. cur.cache = Valid(cache[cur.dn])
  BY <1>1 DEF Following, Stashed, AtHand, Deleting
<1>5. /\ Valid(cache'[cur.dn]) = None
      /\ \A e \in DNs : e # cur.dn => cache'[e] = cache[e]
  BY <1>1, <1>3, <1>4, Telltale
<1>6. \A e : InFlight(e) <=> e = cur.dn
  BY <1>1 DEF InFlight, Unwritten
<1>7. \A e : ~InFlight(e)' /\ ~Unwritten(e)'
  BY <1>1 DEF InFlight, Unwritten
<1>8. ListedMatches'
  <2>1. \A e \in DNs : Valid(cache[e]) # None => AllMatch(cache[e])
    BY DEF Telling, ListedMatches
  <2> QED  BY <1>1, <1>5, <2>1 DEF ListedMatches, AllMatch, Matches, Moving
<1>9. ListedTold'
  <2>1. \A e \in DNs, h \in Reliable : ListedIn(h, cache[e]) => Sure(h, e, cache[e])
    BY <1>1 DEF Telling, ListedTold, Unwritten, Sure
  <2>2. ASSUME NEW e \in DNs, NEW h \in Reliable, ListedIn(h, cache[e])'
        PROVE  Sure(h, e, cache[e])'
    <3>1. cache'[e] = cache[e]
      BY <1>5, <2>2 DEF ListedIn
    <3> QED  BY <1>1, <2>1, <2>2, <3>1 DEF ListedIn, Sure, Knows, Agrees
  <2> QED  BY <1>1, <1>2, <2>2 DEF ListedTold, Sure
<1>10. MatchAll' /\ (Uncached = {})' => ToldListed'
  <2> SUFFICES ASSUME MatchAll, Uncached = {}  PROVE ToldListed'
    BY DEF MatchAll
  <2>1. ToldListed
    BY <1>1 DEF Telling
  <2>2. ASSUME NEW e \in DNs \ severed, NEW h \in Reliable, told[h][e] # None
        PROVE  ListedIn(h, cache[e]) /\ e # cur.dn
    BY <1>1, <1>6, <2>1, <2>2 DEF ToldListed
  <2>3. ASSUME NEW e \in DNs \ severed, NEW h \in Reliable, told[h][e] # None
        PROVE  ListedIn(h, cache[e])'
    BY <1>5, <2>2, <2>3 DEF ListedIn
  <2> QED  BY <1>1, <1>2, <1>7, <2>3 DEF ToldListed
<1> QED  BY <1>8, <1>9, <1>10 DEF Telling

-----------------------------------------------------------------------------
(* Moves *)

LEMMA MoveDropTelling ==
  ASSUME Typed, Typed', NEW who, Following(who), Telling, MoveDrop
  PROVE  Telling'
<1>1. /\ told' = told /\ states' = states /\ import' = import
      /\ severed' = severed /\ Visible' = Visible
      /\ pc = "move" /\ pc' = "move_from" /\ cur' = cur /\ prev' = prev
      /\ cache' = [cache EXCEPT ![prev.dn] = None]
  BY DEF MoveDrop, loaded, slapd, Visible
<1>2. Reliable' = Reliable
  BY <1>1 DEF Reliable, Served, Importing
<1>3. prev # None /\ prev \in Ops /\ prev.dn \in DNs
  BY <1>1 DEF Following, AtHand, Moving, Typed, TypeOK, Ops
<1>4. prev.cache = cache[prev.dn]
  BY <1>1, <1>3 DEF Following, Stashed
<1>5. \A e \in DNs : cache'[e] = IF e = prev.dn THEN None ELSE cache[e]
  BY <1>1, <1>3, Telltale
<1>6. ListedMatches'
  <2>1. /\ \A e \in DNs : Valid(cache[e]) # None => AllMatch(cache[e])
        /\ AllMatch(cur.cache)
    BY <1>1 DEF Telling, ListedMatches, Moving
  <2> QED  BY <1>1, <1>5, <2>1, Telltale DEF ListedMatches, AllMatch, Matches
<1>7. ListedTold'
  <2>1. \A e \in DNs, h \in Reliable : ListedIn(h, cache[e]) => Sure(h, e, cache[e])
    BY <1>1 DEF Telling, ListedTold, Unwritten, Sure
  <2>2. ASSUME NEW e \in DNs, NEW h \in Reliable, ListedIn(h, cache[e])'
        PROVE  Sure(h, e, cache[e])'
    <3>1. cache'[e] = cache[e]
      BY <1>5, <2>2, Telltale DEF ListedIn
    <3> QED  BY <1>1, <2>1, <2>2, <3>1 DEF ListedIn, Sure, Knows, Agrees
  <2> QED  BY <1>1, <1>2, <2>2 DEF ListedTold, Sure
<1>8. MatchAll' /\ (Uncached = {})' => ToldListed'
  <2> SUFFICES ASSUME MatchAll, Uncached = {}  PROVE ToldListed'
    BY DEF MatchAll
  <2>1. ToldListed
    BY <1>1 DEF Telling
  <2>2. \A e \in DNs \ severed, h \in Reliable : told[h][e] # None => ListedIn(h, cache[e])
    BY <1>1, <2>1 DEF ToldListed
  <2> QED  BY <1>1, <1>2, <1>4, <1>5, <2>2 DEF ToldListed, ListedIn, InFlight, Unwritten
<1> QED  BY <1>6, <1>7, <1>8 DEF Telling

LEMMA MoveFromTelling ==
  ASSUME Typed, Typed', NEW who, Following(who), Telling, MoveFrom
  PROVE  Telling'
<1>1. /\ cache' = cache /\ states' = states /\ import' = import
      /\ severed' = severed /\ Visible' = Visible
      /\ pc = "move_from" /\ pc' = "move_to" /\ cur' = cur /\ prev' = prev
  BY DEF MoveFrom, loaded, slapd, Visible
<1>2. Reliable' = Reliable /\ Reliable \subseteq Handlers
  BY <1>1, ReliableType DEF Reliable, Served, Importing
<1>3. prev # None /\ prev \in Ops /\ prev.dn \in DNs
  BY <1>1 DEF Following, AtHand, Moving, Typed, TypeOK, Ops
<1>4. prev.cache # None /\ cache[prev.dn] = None
  BY <1>1, <1>3 DEF Following, Stashed, Worked, Working, Moving
<1>5. PICK failed \in Failing : told' = HandlersDelete(prev.dn, prev.cache, failed)
  BY DEF MoveFrom
<1>6. failed \cap Reliable = {}
  BY <1>1, ReliableSucceed
<1>7. \A h \in Handlers, e \in DNs :
        told'[h][e] = IF /\ e = prev.dn /\ h \notin failed
                         /\ h \in Always \/ (prev.cache # None /\ h \in prev.cache.modules)
                        THEN None ELSE told[h][e]
  BY <1>3, <1>5, DeleteTells
<1>8. ListedMatches'
  <2>1. /\ \A e \in DNs : Valid(cache[e]) # None => AllMatch(cache[e])
        /\ AllMatch(cur.cache)
    BY <1>1 DEF Telling, ListedMatches, Moving
  <2> QED  BY <1>1, <2>1 DEF ListedMatches, AllMatch, Matches
<1>9. ListedTold'
  <2>1. \A e \in DNs, h \in Reliable : ListedIn(h, cache[e]) => Sure(h, e, cache[e])
    BY <1>1 DEF Telling, ListedTold, Unwritten, Sure
  <2>2. ASSUME NEW e \in DNs, NEW h \in Reliable, ListedIn(h, cache[e])
        PROVE  Sure(h, e, cache[e])'
    <3>1. e # prev.dn
      BY <1>4, <2>2, Telltale DEF ListedIn
    <3>2. told'[h][e] = told[h][e]
      BY <1>2, <1>7, <3>1
    <3> QED  BY <1>1, <2>1, <2>2, <3>2 DEF Sure, Knows, Agrees
  <2> QED  BY <1>1, <1>2, <2>2 DEF ListedTold, ListedIn, Sure
<1>10. MatchAll' /\ (Uncached = {})' => ToldListed'
  <2> SUFFICES ASSUME MatchAll, Uncached = {}  PROVE ToldListed'
    BY DEF MatchAll
  <2>1. ToldListed
    BY <1>1 DEF Telling
  <2>2. ASSUME NEW e \in DNs \ severed, NEW h \in Reliable, told'[h][e] # None
        PROVE  ListedIn(h, cache[e])
    <3>1. told[h][e] # None /\ h \in Handlers /\ h \notin failed
      BY <1>2, <1>6, <1>7, <2>2
    <3>2. ListedIn(h, cache[e]) \/ (e = prev.dn /\ h \in prev.cache.modules)
      BY <1>1, <2>1, <3>1 DEF ToldListed
    <3> QED  BY <1>3, <1>4, <1>7, <2>2, <3>1, <3>2
  <2> QED  BY <1>1, <1>2, <2>2 DEF ToldListed, ListedIn, InFlight, Unwritten
<1> QED  BY <1>8, <1>9, <1>10 DEF Telling

LEMMA MoveToTelling ==
  ASSUME Typed, Typed', NEW who, Following(who), Telling, MoveTo
  PROVE  Telling'
<1>1. /\ cache' = cache /\ states' = states /\ import' = import
      /\ severed' = severed /\ Visible' = Visible
      /\ pc = "move_to" /\ pc' = "move_store"
  BY DEF MoveTo, loaded, slapd, Visible
<1>2. Reliable' = Reliable /\ Reliable \subseteq Handlers
  BY <1>1, ReliableType DEF Reliable, Served, Importing
<1>3. cur \in Ops /\ cur.dn \in DNs /\ cur.cache \in CacheEntries
  BY <1>1 DEF Typed, TypeOK, InHand, Moving, Working, Ops
<1> DEFINE dn == cur.dn
           new == cur.cache
<1>5. PICK failed \in Failing :
        /\ told' = CallHandlers(Handlers, dn, new, None, failed).told
        /\ cur' = [cur EXCEPT !.cache = CallHandlers(Handlers, dn, new, None, failed).entry]
  BY Telltale DEF MoveTo, HandlersUpdate
<1>6. failed \cap Reliable = {}
  BY <1>1, ReliableSucceed
<1> DEFINE entry == CallHandlers(Handlers, dn, new, None, failed).entry
<1>7. /\ \A h \in Reliable, e \in DNs : told'[h][e] =
           IF e = dn /\ Matches(h, new) THEN Object(new) ELSE told[h][e]
      /\ \A h \in entry.modules : h \in new.modules \/ Matches(h, new)
      /\ \A h \in Reliable : Matches(h, new) => h \in entry.modules
  <2>1. CallTold(CallHandlers(Handlers, dn, new, None, failed),
                 Handlers, dn, new, None, failed)
    BY <1>3, CallTells
  <2>2. \A h \in Reliable : h \in Handlers \ failed
    BY <1>2, <1>6
  <2>3. \A h : ~UpToDate(h, new, None) /\ (Tells(h, new, None) <=> Matches(h, new))
    BY DEF UpToDate, Tells
  <2> HIDE DEF dn, new
  <2> QED  BY <1>5, <2>1, <2>2, <2>3 DEF CallTold
<1>8. cur'.dn = dn /\ cur'.cache = entry /\ Object(entry) = Object(new)
      /\ entry.val = new.val
  <2>1. Object(entry) = Object(new) /\ entry.val = new.val
    BY <1>3 DEF CallHandlers, CacheEntries, Object
  <2> HIDE DEF entry
  <2> QED  BY <1>3, <1>5, <2>1 DEF Ops, entry
<1>9. Object(new) # None /\ Object(new).val = new.val
  BY <1>3, Telltale
<1>10. AllMatch(new)
  BY <1>1 DEF Telling, ListedMatches, Moving
<1> HIDE DEF entry, new, dn
<1>11. ListedMatches'
  <2>1. \A e \in DNs : Valid(cache[e]) # None => AllMatch(cache[e])
    BY DEF Telling, ListedMatches
  <2>2. \A h \in entry.modules : new.val \in Filter[h]
    BY <1>7, <1>10 DEF Matches, AllMatch
  <2> QED  BY <1>1, <1>8, <2>1, <2>2 DEF ListedMatches, AllMatch, Matches
<1>12. ListedTold'
  <2>1. \A e \in DNs, h \in Reliable : ListedIn(h, cache[e]) => Sure(h, e, cache[e])
    BY <1>1 DEF Telling, ListedTold, Unwritten, Sure
  <2>2. ASSUME NEW e \in DNs, NEW h \in Reliable, ListedIn(h, cache[e])
        PROVE  /\ Knows(h, e)'
               /\ Uncached = {} /\ e \notin severed => e = dn \/ Agrees(h, e, cache[e])'
    BY <1>1, <1>2, <1>7, <1>9, <2>1, <2>2 DEF Sure, Knows, Agrees
  <2>3. ASSUME NEW h \in Reliable, h \in entry.modules
        PROVE  Sure(h, cur.dn, cur.cache)'
    <3>1. /\ dn \in DNs /\ h \in Handlers /\ Matches(h, new)
          /\ cur'.dn = dn /\ Object(cur'.cache) = Object(new) /\ cur'.cache.val = new.val
      BY <1>2, <1>3, <1>7, <1>8, <1>10, <2>3 DEF dn, AllMatch
    <3>2. told'[h][dn] = Object(new)
      BY <1>7, <3>1
    <3> QED  BY <1>9, <3>1, <3>2 DEF Sure, Knows, Agrees
  <2>4. AllTold(cur.dn, cur.cache)'
    BY <1>2, <1>8, <2>3 DEF AllTold
  <2> QED  BY <1>1, <1>2, <1>8, <2>2, <2>4 DEF ListedTold, ListedIn, Unwritten
<1>13. MatchAll' /\ (Uncached = {})' => ToldListed'
  <2> SUFFICES ASSUME MatchAll, Uncached = {}  PROVE ToldListed'
    BY DEF MatchAll
  <2>1. ToldListed
    BY <1>1 DEF Telling
  <2>2. ASSUME NEW h \in Reliable  PROVE h \in entry.modules
    <3>1. Matches(h, new)
      BY <1>2, <1>3 DEF MatchAll, Matches, CacheEntries, new
    <3> QED  BY <1>7, <3>1
  <2>3. ASSUME NEW e \in DNs \ severed, NEW h \in Reliable, e # dn, told'[h][e] # None
        PROVE  ListedIn(h, cache[e])
    <3>1. told[h][e] # None
      BY <1>2, <1>7, <2>3
    <3> QED  BY <1>1, <2>1, <3>1 DEF ToldListed
  <2> QED  BY <1>1, <1>2, <1>8, <2>2, <2>3 DEF ToldListed, ListedIn, InFlight, Unwritten
<1> QED  BY <1>11, <1>12, <1>13 DEF Telling

-----------------------------------------------------------------------------
(* Crashes, and the modules' initialisation *)

\* A crash leaves what it tears apart to the names it makes severed.
LEMMA CrashTelling ==
  ASSUME Typed, Typed', NEW who, Following(who), Telling, Crash
  PROVE  Telling'
<1>1. /\ cache' = cache /\ told' = told /\ states' = states /\ Visible' = Visible
      /\ pc' = "exit" /\ severed' = severed \cup Apart
  BY DEF Crash, disk, slapd, Visible
<1>2. Reliable' \subseteq Reliable
  BY <1>1 DEF Reliable, Served, Importing
<1>3. \A dn \in DNs : Unwritten(dn) => dn \in severed'
  BY <1>1 DEF Unwritten, Apart
<1>4. ListedMatches'
  <2>1. \A dn \in DNs : Valid(cache[dn]) # None => AllMatch(cache[dn])
    BY DEF Telling, ListedMatches
  <2> QED  BY <1>1, <2>1 DEF ListedMatches, AllMatch, Matches, Moving
<1>5. ListedTold'
  <2>1. ASSUME NEW dn \in DNs, NEW h \in Reliable, ListedIn(h, cache[dn])
        PROVE  Sure(h, dn, cache[dn])'
    <3>1. /\ Knows(h, dn)
          /\ Uncached = {} /\ dn \notin severed => Unwritten(dn) \/ Agrees(h, dn, cache[dn])
      BY <2>1 DEF Telling, ListedTold
    <3> QED  BY <1>1, <1>3, <3>1 DEF Sure, Knows, Agrees
  <2> QED  BY <1>1, <1>2, <2>1 DEF ListedTold, ListedIn, Sure
<1>6. MatchAll' /\ (Uncached = {})' => ToldListed'
  <2> SUFFICES ASSUME MatchAll, Uncached = {}  PROVE ToldListed'
    BY DEF MatchAll
  <2>1. ToldListed
    BY DEF Telling
  <2>2. ASSUME NEW dn \in DNs \ severed', NEW h \in Reliable, told[h][dn] # None
        PROVE  ListedIn(h, cache[dn])
    <3>1. /\ dn \in DNs \ severed /\ ~(pc = "store" /\ dn = found.dn)
          /\ ~(pc = "move_store" /\ dn = cur.dn) /\ ~(pc = "move_from" /\ dn = prev.dn)
      BY <1>1, <2>2 DEF Apart
    <3> QED  BY <2>1, <2>2, <3>1 DEF ToldListed
  <2> QED  BY <1>1, <1>2, <2>2 DEF ToldListed, ListedIn, InFlight, Unwritten
<1> QED  BY <1>4, <1>5, <1>6 DEF Telling

LEMMA ResyncTelling ==
  ASSUME Typed, Telling, NEW h \in Handlers, Resync(h)
  PROVE  Telling'
<1>1. /\ UNCHANGED <<cache, told>> /\ pc = "exit" /\ pc' = "exit"
      /\ severed' = severed /\ Visible' = Visible
      /\ states' \subseteq states
  BY DEF Resync, disk, slapd, Visible
<1>2. Reliable' \subseteq Reliable
  BY <1>1 DEF Reliable, Served, Importing
<1>3. pc \notin Underway /\ pc' \notin Underway
  BY <1>1 DEF Underway, Moving
<1> QED  BY <1>1, <1>2, <1>3, TellingKept

LEMMA SearchModuleTelling ==
  ASSUME Typed, Typed', Telling, SearchModule \/ ImportAborts
  PROVE  Telling'
<1>1. /\ UNCHANGED <<cache, told>> /\ states' = states
      /\ severed' = severed /\ Visible' = Visible
      /\ pc \in {"search_module", "import"} /\ pc' = "import"
  BY DEF SearchModule, ImportAborts, disk, slapd, Visible
<1>2. import \in Imports
  BY <1>1 DEF Typed, TypeOK, InHand
<1>3. import'.module = import.module
  BY <1>2 DEF SearchModule, ImportAborts, Imports
<1>4. Reliable' = Reliable
  BY <1>1, <1>3 DEF Reliable, Served, Importing
<1>5. pc \notin Underway /\ pc' \notin Underway
  BY <1>1 DEF Underway, Moving
<1> QED  BY <1>1, <1>4, <1>5, TellingKept

LEMMA ImportDoneTelling ==
  ASSUME Typed, Typed', NEW who, Following(who), Telling, ImportDone
  PROVE  Telling'
<1>1. /\ UNCHANGED <<cache, told>>
      /\ severed' = severed /\ Visible' = Visible
      /\ pc = "import" /\ pc' = "init"
      /\ states' \subseteq ready
  BY DEF ImportDone, disk, slapd, Visible
<1>2. ready = Served
  BY <1>1 DEF Following, Loading
<1>3. Reliable' \subseteq Reliable
  BY <1>1, <1>2 DEF Reliable, Served, Importing
<1>4. pc \notin Underway /\ pc' \notin Underway
  BY <1>1 DEF Underway, Moving
<1> QED  BY <1>1, <1>3, <1>4, TellingKept

\* The module initialised is told of nothing, and nowhere listed.
LEMMA InitModuleTelling ==
  ASSUME Typed, Typed', NEW who, Following(who), Telling, NEW h \in Handlers, InitModule(h)
  PROVE  Telling'
<1> DEFINE rest(entry) == IF Valid(entry) = None \/ entry.modules \subseteq {h}
                            THEN None ELSE [entry EXCEPT !.modules = @ \ {h}]
<1>1. /\ states' = states
      /\ severed' = severed /\ Visible' = Visible
      /\ pc = "init" /\ pc' = "search_module" /\ h \in pending
      /\ told' = [told EXCEPT ![h] = [dn \in DNs |-> None]]
      /\ cache' = [dn \in DNs |-> rest(cache[dn])]
      /\ import'.module = h
  BY DEF InitModule, slapd, Visible
<1>2. h \notin states /\ states \subseteq Handlers
  BY <1>1, Telltale DEF Following, Loading
<1>3. Reliable = states \ MayFail /\ Reliable' = (states \cup {h}) \ MayFail
  BY <1>1 DEF Reliable, Served, Importing
<1>4. \A dn \in DNs : /\ told'[h][dn] = None
                      /\ \A k \in states : told'[k][dn] = told[k][dn]
  BY <1>1, <1>2, Telltale
<1>5. ASSUME NEW dn \in DNs, Valid(cache'[dn]) # None
      PROVE  /\ Valid(cache[dn]) # None /\ cache[dn] \in CacheEntries
             /\ cache'[dn].modules = cache[dn].modules \ {h}
             /\ cache'[dn].val = cache[dn].val
             /\ Object(cache'[dn]) = Object(cache[dn])
  <2>1. cache'[dn] = rest(cache[dn]) /\ Valid(None) = None
    BY <1>1, Telltale
  <2>2. Valid(cache[dn]) # None /\ cache'[dn] = [cache[dn] EXCEPT !.modules = @ \ {h}]
    BY <1>5, <2>1
  <2>3. cache[dn] \in CacheEntries
    BY <2>2, Telltale
  <2> QED  BY <2>2, <2>3 DEF CacheEntries, Object
<1>6. ASSUME NEW dn \in DNs, NEW k \in states, ListedIn(k, cache[dn])
      PROVE  ListedIn(k, cache[dn])'
  <2>1. cache[dn] \in CacheEntries /\ k \in cache[dn].modules /\ k # h
    BY <1>2, <1>6, Telltale DEF ListedIn
  <2>2. cache'[dn] = [cache[dn] EXCEPT !.modules = @ \ {h}]
    BY <1>1, <1>6, <2>1 DEF ListedIn
  <2>3. cache'[dn] \in CacheEntries /\ k \in cache'[dn].modules
    BY <2>1, <2>2 DEF CacheEntries
  <2> QED  BY <2>3, Telltale DEF ListedIn
<1> HIDE DEF rest
<1>7. ListedMatches'
  <2>1. \A dn \in DNs : Valid(cache[dn]) # None => AllMatch(cache[dn])
    BY DEF Telling, ListedMatches
  <2> QED  BY <1>1, <1>5, <2>1 DEF ListedMatches, AllMatch, Matches, Moving
<1>8. ListedTold'
  <2>1. ASSUME NEW dn \in DNs, NEW k \in Reliable', ListedIn(k, cache[dn])'
        PROVE  Sure(k, dn, cache[dn])'
    <3>1. k \in states \cap Reliable /\ ListedIn(k, cache[dn])
      BY <1>3, <1>5, <2>1 DEF ListedIn
    <3>2. Sure(k, dn, cache[dn])
      BY <1>1, <3>1 DEF Telling, ListedTold, Unwritten, Sure
    <3>3. told'[k][dn] = told[k][dn]
      BY <1>4, <3>1
    <3> QED  BY <1>1, <1>5, <2>1, <3>2, <3>3 DEF ListedIn, Sure, Knows, Agrees
  <2> QED  BY <1>1, <2>1 DEF ListedTold, Sure
<1>9. MatchAll' /\ (Uncached = {})' => ToldListed'
  <2> SUFFICES ASSUME MatchAll, Uncached = {}  PROVE ToldListed'
    BY DEF MatchAll
  <2>1. ToldListed
    BY <1>1 DEF Telling
  <2>2. ASSUME NEW dn \in DNs \ severed, NEW k \in Reliable', told'[k][dn] # None
        PROVE  ListedIn(k, cache[dn])'
    <3>1. k \in states \cap Reliable /\ told[k][dn] # None
      BY <1>3, <1>4, <2>2
    <3> QED  BY <1>1, <1>3, <1>6, <2>1, <3>1 DEF ToldListed
  <2> QED  BY <1>1, <2>2 DEF ToldListed, InFlight, Unwritten
<1> QED  BY <1>7, <1>8, <1>9 DEF Telling

\* The module initialised is told what the cache or LDAP says, and listed for it.
LEMMA ImportEntryTelling ==
  ASSUME Typed, Typed', NEW who, Following(who), Telling,
         NEW dn \in DNs, ImportEntry(dn)
  PROVE  Telling'
<1> DEFINE h == import.module
           new == IF cache[dn] # None THEN cache[dn]
                  ELSE IF dn \in Visible THEN Entry(ldap[dn], {}) ELSE Empty
<1>1. /\ states' = states /\ severed' = severed /\ Visible' = Visible
      /\ pc = "import" /\ pc' = "import" /\ dn \in import.names
  BY DEF ImportEntry, slapd, Visible
<1>2. import \in Imports /\ h \in Handlers
  BY <1>1 DEF Typed, TypeOK, InHand, Imports
<1>3. import'.module = h
  BY <1>2 DEF ImportEntry, Imports
<1>4. Reliable' = Reliable /\ Reliable \subseteq Handlers
  BY <1>1, <1>2, <1>3, ReliableType DEF Reliable, Served, Importing
<1>5. cache[dn] # Empty
  BY <1>1 DEF Following, Loading
<1>6. \A e : ~InFlight(e) /\ ~InFlight(e)'
  BY <1>1 DEF InFlight, Unwritten
<1>7. \A e \in DNs : Valid(cache[e]) # None => AllMatch(cache[e])
  BY DEF Telling, ListedMatches
<1>8. \A e \in DNs, k \in Reliable : ListedIn(k, cache[e]) => Sure(k, e, cache[e])
  BY <1>1 DEF Telling, ListedTold, Unwritten, Sure
<1>9. MatchAll /\ Uncached = {} =>
        \A e \in DNs \ severed, k \in Reliable : told[k][e] # None => ListedIn(k, cache[e])
  BY <1>1 DEF Telling, ToldListed
\* What becomes of the other names, and what of this one.
<1>10. SUFFICES
        /\ \A e \in DNs : e # dn => /\ cache'[e] = cache[e]
                                    /\ \A k \in Reliable : told'[k][e] = told[k][e]
        /\ Valid(cache'[dn]) # None => AllMatch(cache'[dn])
        /\ \A k \in Reliable : ListedIn(k, cache[dn])' => Sure(k, dn, cache[dn])'
        /\ MatchAll /\ Uncached = {} /\ dn \notin severed =>
             \A k \in Reliable : told'[k][dn] # None => ListedIn(k, cache[dn])'
  <2>1. ListedMatches'
    <3>1. \A e \in DNs : Valid(cache'[e]) # None => AllMatch(cache'[e])
      BY <1>7, <1>10
    <3> QED  BY <1>1, <3>1 DEF ListedMatches, AllMatch, Matches, Moving
  <2>2. ListedTold'
    <3>1. ASSUME NEW e \in DNs, NEW k \in Reliable, ListedIn(k, cache[e])'
          PROVE  Sure(k, e, cache[e])'
      <4>1. CASE e = dn
        BY <1>10, <3>1, <4>1
      <4>2. CASE e # dn
        <5>1. cache'[e] = cache[e] /\ told'[k][e] = told[k][e]
          BY <1>10, <4>2
        <5> QED  BY <1>1, <1>8, <3>1, <5>1 DEF ListedIn, Sure, Knows, Agrees
      <4> QED  BY <4>1, <4>2
    <3> QED  BY <1>1, <1>4, <3>1 DEF ListedTold, Sure
  <2>3. MatchAll' /\ (Uncached = {})' => ToldListed'
    <3> SUFFICES ASSUME MatchAll, Uncached = {}  PROVE ToldListed'
      BY DEF MatchAll
    <3>1. ASSUME NEW e \in DNs \ severed, NEW k \in Reliable, told'[k][e] # None
          PROVE  ListedIn(k, cache[e])'
      <4>1. CASE e = dn
        BY <1>10, <3>1, <4>1
      <4>2. CASE e # dn
        BY <1>4, <1>9, <1>10, <3>1, <4>2 DEF ListedIn
      <4> QED  BY <4>1, <4>2
    <3> QED  BY <1>1, <1>4, <1>6, <3>1 DEF ToldListed
  <2> QED  BY <2>1, <2>2, <2>3 DEF Telling
<1>11. CASE new = Empty
  <2>1. told' = told /\ cache' = [cache EXCEPT ![dn] = Empty]
    BY <1>11 DEF ImportEntry
  <2>2. cache[dn] = None
    BY <1>5, <1>11
  <2>3. \A e \in DNs : cache'[e] = IF e = dn THEN Empty ELSE cache[e]
    BY <2>1, Telltale
  <2>4. Valid(cache'[dn]) = None /\ Valid(cache[dn]) = None
    BY <2>2, <2>3, Telltale
  <2> QED  BY <1>9, <2>1, <2>3, <2>4 DEF ListedIn
<1>12. CASE new # Empty
  <2>1. new \in CacheEntries
    BY <1>12, Telltale, Typing, EntryType DEF Visible
  <2>2. PICK failed \in SUBSET MayFail :
        /\ told' = CallHandlers({h}, dn, new, None, failed).told
        /\ cache' = Stored(dn, CallHandlers({h}, dn, new, None, failed).entry)
    BY <1>12 DEF ImportEntry
  <2>3. cache[dn] = None => new.modules = {}
    BY <1>12 DEF Entry
  <2>4. cache[dn] # None => new = cache[dn] /\ Valid(cache[dn]) # None
    BY <1>5, Telltale DEF Valid
  <2>5. AllMatch(new)
    BY <1>7, <2>3, <2>4 DEF AllMatch
  <2> DEFINE entry == CallHandlers({h}, dn, new, None, failed).entry
  <2>6. /\ \A k \in Reliable, e \in DNs : told'[k][e] =
             IF e = dn /\ k = h /\ Matches(h, new) THEN Object(new) ELSE told[k][e]
        /\ \A k : k \in entry.modules => k \in new.modules \/ (k = h /\ Matches(h, new))
        /\ \A k : k \in new.modules => k \in entry.modules
        /\ Matches(h, new) /\ h \in Reliable => h \in entry.modules
    <3>1. CallTold(CallHandlers({h}, dn, new, None, failed), {h}, dn, new, None, failed)
      <4>1. {h} \in SUBSET Handlers
        BY <1>2
      <4> HIDE DEF h, new
      <4> QED  BY <2>1, <4>1, CallTells
    <3>2. \A k : ~UpToDate(k, new, None) /\ (Tells(k, new, None) <=> Matches(k, new))
      BY DEF UpToDate, Tells
    <3>3. \A k \in Reliable : k \in Handlers /\ k \notin failed
      BY <1>4, <2>2 DEF Reliable
    <3> HIDE DEF h, new
    <3> QED  BY <2>2, <3>1, <3>2, <3>3 DEF CallTold
  <2>7. Object(entry) = Object(new) /\ entry.val = new.val
    BY <2>1 DEF CallHandlers, CacheEntries, Object
  <2>8. entry \in CacheEntries
    <3>1. TellsType /\ {h} \in SUBSET Handlers
      BY <1>2, Telltale DEF TellsType
    <3> HIDE DEF h, new
    <3> QED  BY <2>1, <3>1, CallType
  <2>9. \A e \in DNs : IF e = dn
                         THEN cache'[e] = entry \/ (cache'[e] = cache[e] /\ Uncached # {})
                         ELSE cache'[e] = cache[e]
    <3> HIDE DEF entry
    <3> QED  BY <2>2, <2>8, Telltale DEF Stored, entry
  <2>10. Valid(entry) = entry /\ entry # None /\ Object(new) # None
         /\ Object(new).val = new.val
    <3> HIDE DEF entry, new
    <3> QED  BY <2>1, <2>8, Telltale
  <2> HIDE DEF entry, new
  <2>11. Valid(cache'[dn]) # None => AllMatch(cache'[dn])
    BY <1>7, <2>5, <2>6, <2>7, <2>9 DEF AllMatch, Matches
  <2>12. ASSUME NEW k \in Reliable, ListedIn(k, cache[dn])'
         PROVE  Sure(k, dn, cache[dn])'
    <3>1. k \in Handlers
      BY <1>4
    <3>2. CASE k = h /\ Matches(h, new)
      <4>1. told'[k][dn] = Object(new)
        BY <2>6, <3>1, <3>2
      <4> QED  BY <2>7, <2>9, <2>10, <4>1 DEF Sure, Knows, Agrees
    <3>3. CASE ~(k = h /\ Matches(h, new))
      <4>1. told'[k][dn] = told[k][dn]
        BY <2>6, <3>1, <3>3
      <4>2. ListedIn(k, cache[dn])
            /\ Object(cache'[dn]) = Object(cache[dn]) /\ cache'[dn].val = cache[dn].val
        BY <2>3, <2>4, <2>6, <2>7, <2>9, <2>12, <3>3 DEF ListedIn
      <4> QED  BY <1>1, <1>8, <4>1, <4>2 DEF Sure, Knows, Agrees
    <3> QED  BY <3>2, <3>3
  <2>13. ASSUME MatchAll, Uncached = {}, dn \notin severed, NEW k \in Reliable,
                told'[k][dn] # None
         PROVE  ListedIn(k, cache[dn])'
    <3>1. cache'[dn] = entry /\ k \in Handlers /\ Valid(entry) # None
      BY <1>4, <2>9, <2>10, <2>13
    <3>2. Matches(h, new)
      BY <1>2, <2>1, <2>13 DEF MatchAll, Matches, CacheEntries
    <3>3. k \in entry.modules
      <4>1. CASE k = h
        BY <2>6, <3>2, <4>1
      <4>2. CASE k # h
        <5>1. ListedIn(k, cache[dn])
          BY <1>9, <2>6, <2>13, <3>1, <4>2
        <5> QED  BY <2>4, <2>6, <5>1, Telltale DEF ListedIn
      <4> QED  BY <4>1, <4>2
    <3> QED  BY <3>1, <3>3 DEF ListedIn
  <2>14. \A e \in DNs : e # dn => /\ cache'[e] = cache[e]
                                  /\ \A k \in Reliable : told'[k][e] = told[k][e]
    BY <2>6, <2>9
  <2> QED  BY <2>11, <2>12, <2>13, <2>14
<1> QED  BY <1>11, <1>12

-----------------------------------------------------------------------------
(* Every behaviour *)

LEMMA InitTelling == Init /\ Typed => Telling
<1> SUFFICES ASSUME Init, Typed  PROVE Telling
  OBVIOUS
<1>1. pc \in {"exit", "listen"} /\ states \subseteq Handlers
  BY Telltale DEF Init
<1>2. Served = states /\ Reliable \subseteq Handlers
  BY <1>1, ReliableType DEF Served, Importing
<1> DEFINE shown(dn) == ~Fresh /\ dn \in Visible
           matching(dn) == {h \in Handlers : Matches(h, ldap[dn])}
<1>3. ASSUME NEW dn \in DNs, NEW h \in Handlers
      PROVE  told[h][dn] = IF shown(dn) /\ Matches(h, ldap[dn]) THEN ldap[dn] ELSE None
  BY <1>3 DEF Init
<1>4. ASSUME NEW dn \in DNs
      PROVE  cache[dn] = IF shown(dn) /\ ldap[dn].val \notin Uncached
                           THEN Entry(ldap[dn], matching(dn)) ELSE None
  BY <1>4 DEF Init
<1>5. ASSUME NEW dn \in DNs, shown(dn)
      PROVE  /\ ldap[dn] \in Objects /\ ldap[dn] # None
             /\ Entry(ldap[dn], matching(dn)) \in CacheEntries
             /\ Object(Entry(ldap[dn], matching(dn))) = ldap[dn]
             /\ Entry(ldap[dn], matching(dn)).val = ldap[dn].val
             /\ Entry(ldap[dn], matching(dn)).modules = matching(dn)
  <2>1. ldap[dn] \in Objects /\ ldap[dn] # None
    BY <1>5, Typing DEF Visible
  <2>2. matching(dn) \subseteq Handlers
    OBVIOUS
  <2> HIDE DEF matching
  <2> QED  BY <2>1, <2>2 DEF Entry, Object, Objects, CacheEntries
<1> HIDE DEF shown
<1>6. ASSUME NEW dn \in DNs, Valid(cache[dn]) # None, NEW h \in cache[dn].modules
      PROVE  /\ h \in Handlers /\ Matches(h, cache[dn])
             /\ told[h][dn] = Object(cache[dn]) /\ told[h][dn].val = cache[dn].val
             /\ told[h][dn] # None
  <2>1. shown(dn) /\ cache[dn] = Entry(ldap[dn], matching(dn))
    BY <1>4, <1>6, Telltale
  <2>2. h \in Handlers /\ Matches(h, ldap[dn])
    BY <1>5, <1>6, <2>1
  <2> QED  BY <1>3, <1>5, <2>1, <2>2 DEF Matches
<1>7. ListedMatches
  BY <1>1, <1>6 DEF ListedMatches, AllMatch, Moving
<1>8. ListedTold
  BY <1>1, <1>2, <1>6, ReliableType DEF ListedTold, ListedIn, Knows, Agrees
<1>9. ASSUME Uncached = {}  PROVE ToldListed
  <2>1. ASSUME NEW dn \in DNs \ severed, NEW h \in Reliable, told[h][dn] # None
        PROVE  ListedIn(h, cache[dn])
    <3>1. h \in Handlers /\ shown(dn) /\ Matches(h, ldap[dn])
      BY <1>1, <1>2, <1>3, <2>1
    <3>2. cache[dn] = Entry(ldap[dn], matching(dn)) /\ h \in matching(dn)
      BY <1>4, <1>9, <3>1
    <3> HIDE DEF matching
    <3> QED  BY <1>5, <3>1, <3>2, Telltale DEF ListedIn
  <2> QED  BY <1>1, <2>1 DEF ToldListed, InFlight, Unwritten
<1> QED  BY <1>7, <1>8, <1>9 DEF Telling

LEMMA StepTelling ==
  ~Reuse /\ Typed /\ Typed' /\ Converging /\ Telling /\ [Next]_vars => Telling'
<1> SUFFICES ASSUME ~Reuse, Typed, Typed', Converging, Telling, [Next]_vars
             PROVE  Telling'
  OBVIOUS
<1>1. PICK who : Following(who)
  BY DEF Converging
<1>2. CASE Slapd
  BY <1>1, <1>2, SlapdTelling
<1>3. CASE ResyncLdif \/ UNCHANGED vars
  <2>1. /\ UNCHANGED <<cache, told, states, import, pc, cur, prev, found, severed>>
        /\ Visible' = Visible
    BY <1>3 DEF ResyncLdif, vars, disk, loaded, slapd, Visible
  <2> QED  BY <2>1, SameTelling
<1>4. CASE Process
  <2>1. CASE Fetch \/ Finish \/ WritePrev \/ WriteCur \/ Commit \/ Restart \/ Listen
    BY <2>1, QuietTelling
  <2>2. CASE SearchUuid \/ SearchDn
    BY <1>1, <2>2, SearchTelling
  <2>3. CASE UpdateHandlers
    BY <1>1, <2>3, UpdateHandlersTelling
  <2>4. CASE Store \/ MoveStore
    BY <2>4, StoreTelling
  <2>5. CASE DeleteHandlers
    BY <1>1, <2>5, DeleteHandlersTelling
  <2>6. CASE Drop
    BY <1>1, <2>6, DropTelling
  <2>7. CASE MoveDrop
    BY <1>1, <2>7, MoveDropTelling
  <2>8. CASE MoveFrom
    BY <1>1, <2>8, MoveFromTelling
  <2>9. CASE MoveTo
    BY <1>1, <2>9, MoveToTelling
  <2>10. CASE SearchModule \/ ImportAborts
    BY <2>10, SearchModuleTelling
  <2>11. CASE ImportDone
    BY <1>1, <2>11, ImportDoneTelling
  <2>12. CASE \E h \in Handlers : InitModule(h)
    BY <1>1, <2>12, InitModuleTelling
  <2>13. CASE \E dn \in DNs : ImportEntry(dn)
    BY <1>1, <2>13, ImportEntryTelling
  <2> QED  BY <1>4, <2>1, <2>2, <2>3, <2>4, <2>5, <2>6, <2>7, <2>8, <2>9, <2>10, <2>11,
              <2>12, <2>13 DEF Process
<1>5. CASE Crash
  BY <1>1, <1>5, CrashTelling
<1>6. CASE \E h \in Handlers : Resync(h)
  BY <1>6, ResyncTelling
<1> QED  BY <1>2, <1>3, <1>4, <1>5, <1>6 DEF Next

LEMMA AlwaysTelling ==
  Undisturbed /\ NoneForgotten => (Spec => [](Typed /\ Converging /\ Telling))
<1> SUFFICES ASSUME Undisturbed, NoneForgotten
             PROVE  Spec => [](Typed /\ Converging /\ Telling)
  OBVIOUS
<1>1. Spec => []Converging
  BY AlwaysConverging
<1>2. Init /\ Typed => Telling
  BY InitTelling
<1>3. Typed /\ Typed' /\ Converging /\ Telling /\ [Next]_vars => Telling'
  BY StepTelling DEF Undisturbed
<1> QED  BY <1>1, <1>2, <1>3, AlwaysTyped, PTL DEF Spec

-----------------------------------------------------------------------------
(* What the modules know *)

\* The listener has caught up: nothing waits, and who is served is ready.
LEMMA NothingWaits ==
  ASSUME Typed, Converging, CaughtUp
  PROVE  /\ pc = "listen" /\ ready = states /\ Served = states
         /\ \A dn \in DNs : Fits(dn, Len(log)) /\ \A cs : ~Waits(Len(log), dn, cs)
<1>1. PICK who : Following(who)
  BY DEF Converging
<1>2. Cached /\ Placed /\ Loading
  BY <1>1 DEF Following
<1>3. pc = "listen" /\ prev = None /\ id = Len(log)
  BY DEF CaughtUp
<1>4. Served = states /\ ready = states
  BY <1>2, <1>3 DEF Loading, Served, Importing
<1>5. Handled = Len(log) /\ Len(log) \in Nat
  BY <1>2, <1>3, Typing DEF Placed, Between, Handled, Finished
<1>6. \A dn \in DNs : \A cs : ~Waits(Len(log), dn, cs)
  BY <1>5 DEF Waits
<1> QED  BY <1>2, <1>3, <1>4, <1>5, <1>6 DEF Cached

\* Once the listener has worked off all transactions, each module that is ready and
\* does not fail has been told of every object that matches its filter, in its current
\* state, whatever the other modules do and wherever the process crashed: except under
\* the names a crash left apart.
THEOREM ModulesAreTold ==
  Undisturbed /\ NoneForgotten /\ Uncached = {} => (Spec => []ModulesConverge)
<1> SUFFICES ASSUME Undisturbed, NoneForgotten, Uncached = {}
             PROVE  Spec => []ModulesConverge
  OBVIOUS
<1>1. Spec => [](Typed /\ Converging /\ Telling)
  BY AlwaysTelling
<1>2. Typed /\ Converging /\ Telling => ModulesConverge
  <2> SUFFICES ASSUME Typed, Converging, Telling, CaughtUp, NEW dn \in Visible \ severed,
                      NEW h \in ready \ MayFail, Matches(h, ldap[dn])
               PROVE  /\ told[h][dn] # None
                      /\ h \notin Watched => told[h][dn] = ldap[dn]
                      /\ told[h][dn].val = ldap[dn].val
    BY DEF ModulesConverge
  <2>1. pc = "listen" /\ h \in states \cap Reliable /\ h \notin MayFail /\ dn \in DNs
    BY NothingWaits, Typing DEF Reliable
  <2>2. UpToDateAt(dn)
    <3>1. Fits(dn, Len(log)) /\ ~Waits(Len(log), dn, Change)
      BY <2>1, NothingWaits
    <3> QED  BY <2>1, <3>1 DEF Fits
  <2>3. ListedIn(h, cache[dn]) /\ Object(cache[dn]) = ldap[dn]
    BY <2>1, <2>2 DEF UpToDateAt, ListedIn
  <2>4. told[h][dn] # None /\ Agrees(h, dn, cache[dn])
    BY <2>1, <2>3 DEF Telling, ListedTold, Unwritten, Knows
  <2> QED  BY <2>1, <2>3, <2>4, Telltale DEF Agrees, ListedIn
<1> QED  BY <1>1, <1>2, PTL

\* A module that an entry lists, is ready and does not fail has accepted the object,
\* whatever the other modules do, wherever the process crashed and with any cache
\* filter.
THEOREM ListedModulesSucceeded ==
  Undisturbed /\ NoneForgotten => (Spec => []ModulesSucceeded)
<1> SUFFICES ASSUME Undisturbed, NoneForgotten  PROVE Spec => []ModulesSucceeded
  OBVIOUS
<1>1. Spec => [](Typed /\ Converging /\ Telling)
  BY AlwaysTelling
<1>2. Typed /\ Converging /\ Telling => ModulesSucceeded
  <2> SUFFICES ASSUME Typed, Converging, Telling, CaughtUp, NEW dn \in DNs,
                      Valid(cache[dn]) # None,
                      NEW h \in (cache[dn].modules \cap ready) \ MayFail
               PROVE  told[h][dn] # None
    BY DEF ModulesSucceeded
  <2>1. h \in Reliable /\ ListedIn(h, cache[dn])
    BY NothingWaits DEF Reliable, ListedIn
  <2>2. dn \in Visible
    <3>1. Fits(dn, Len(log)) /\ ~Waits(Len(log), dn, Leave)
      BY NothingWaits
    <3> QED  BY <3>1 DEF Fits
  <2> QED  BY <2>1, <2>2 DEF Telling, ListedTold, Knows
<1> QED  BY <1>1, <1>2, PTL

\* A module that has been told of an object and does not fail is listed in the entry,
\* so that it is called when the object is deleted, if the filters match every object
\* and all of them are cached: except under the names a crash left apart.
THEOREM ToldModulesAreListed ==
  Undisturbed /\ NoneForgotten /\ Uncached = {} /\ MatchAll =>
    (Spec => []ModuleIsStillCalled)
<1> SUFFICES ASSUME Undisturbed, NoneForgotten, Uncached = {}, MatchAll
             PROVE  Spec => []ModuleIsStillCalled
  OBVIOUS
<1>1. Spec => [](Typed /\ Converging /\ Telling)
  BY AlwaysTelling
<1>2. Typed /\ Converging /\ Telling => ModuleIsStillCalled
  <2> SUFFICES ASSUME Typed, Converging, Telling, CaughtUp, NEW dn \in DNs \ severed,
                      NEW h \in ready \ MayFail, told[h][dn] # None
               PROVE  Valid(cache[dn]) # None /\ h \in cache[dn].modules
    BY DEF ModuleIsStillCalled
  <2>1. pc = "listen" /\ h \in Reliable
    BY NothingWaits DEF Reliable
  <2> QED  BY <2>1 DEF Telling, ToldListed, ListedIn
<1> QED  BY <1>1, <1>2, PTL

=============================================================================
