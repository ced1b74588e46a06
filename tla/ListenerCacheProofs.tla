------------------------- MODULE ListenerCacheProofs -------------------------
(***************************************************************************)
(* What the listener's cache comes to: whatever the objects go through     *)
(* while the listener lags behind, and however often it is restarted, once *)
(* it has worked off the transactions the cache is what LDAP shows.        *)
(*                                                                         *)
(* The code does not achieve this for every installation.  The theorem     *)
(* names what it needs; section 7 of the README tells what happens         *)
(* without it.                                                             *)
(***************************************************************************)
EXTENDS ListenerProofs

\* No object vanishes from this system's sight while a transaction is worked
\* on, and no name is taken again while transactions about it wait.
Undisturbed ==
  /\ ~Reuse
  /\ "delete" \notin Racing
  /\ "move" \in Racing => Restricted = {}

\* The modules that may have to be initialised.
Resettable == IF Fresh THEN Handlers ELSE Resyncable

\* Initialising a module drops the entries that no other module has handled, so
\* a module that failed must not be left behind with such an entry.
NoneForgotten == \A h \in MayFail, k \in Resettable : h = k

-----------------------------------------------------------------------------
(* The transactions that wait *)

Done == IF master = None THEN 0 ELSE master

\* The transaction is worked off and has only to be committed.
Finished ==
  pc \in {"write_prev", "write_cur", "commit"} \/ (pc = "finish" /\ cur # None)
Handled == IF Finished THEN id ELSE Done

Change == {"a", "m"}
Leave == {"d", "r"}

Waits(from, dn, commands) ==
  \E p \in from + 1..Len(log) : log[p].dn = dn /\ log[p].command \in commands

\* A name that is waited for is that of one object, until it leaves.
LeftInTheEnd ==
  \A p \in Done + 1..Len(log) : ldap[log[p].dn] = None =>
    \E q \in p..Len(log) : log[q].dn = log[p].dn /\ log[q].command \in Leave
NotTakenAgain ==
  \A p \in Done + 1..Len(log) :
    log[p].command \in Leave => ldap[log[p].dn] = None
AddedFirst ==
  \A p, q \in Done + 1..Len(log) :
    p < q /\ log[q].command = "a" => log[p].dn # log[q].dn
OneName ==
  \A d, e \in DNs : /\ ldap[d] # None /\ ldap[e] # None
                    /\ ldap[d].uuid = ldap[e].uuid
                    => d = e
Known == \A dn \in DNs : ldap[dn] # None => ldap[dn].uuid <= Len(log)

Directory ==
  MovesAreWhole /\ LeftInTheEnd /\ NotTakenAgain /\ AddedFirst /\ OneName /\ Known

\* who[p] is the object transaction p is about.
Attributed(who) ==
  /\ who \in [1..Len(log) -> Nat]
  /\ \A p \in 1..Len(log) - 1 : log[p].command = "r" => who[p + 1] = who[p]
  /\ \A p, q \in Done + 1..Len(log) : log[p].dn = log[q].dn => who[p] = who[q]
  /\ \A p \in Done + 1..Len(log) :
       /\ ldap[log[p].dn] # None => ldap[log[p].dn].uuid = who[p]
       /\ Valid(cache[log[p].dn]) # None => cache[log[p].dn].uuid = who[p]

-----------------------------------------------------------------------------
(* The cache *)

\* The entry is what LDAP shows, and lists the modules it should; or it will be
\* replaced; or nobody wants it.
UpToDateAt(dn) ==
  /\ Valid(cache[dn]) # None /\ Object(cache[dn]) = ldap[dn]
  /\ \A h \in states \ MayFail :
       Matches(h, ldap[dn]) => h \in cache[dn].modules
Fits(dn, from) ==
  /\ Valid(cache[dn]) # None /\ ldap[dn] # None => cache[dn].uuid = ldap[dn].uuid
  /\ Valid(cache[dn]) # None /\ dn \notin Visible => Waits(from, dn, Leave)
  /\ dn \in Visible =>
       \/ UpToDateAt(dn)
       \/ Waits(from, dn, Change)
       \/ ldap[dn].val \in Uncached
       \/ Valid(cache[dn]) = None /\ \A h \in states : ~Matches(h, ldap[dn])

Cached == \A dn \in DNs : Fits(dn, Handled)

-----------------------------------------------------------------------------
(* The modules that are ready *)

Importing == pc \in {"search_module", "import"}
Served == states \cup IF Importing THEN {import.module} ELSE {}

\* A name that is not, or no longer, to be looked at by the import.
Imported(dn) ==
  Matches(import.module, ldap[dn]) =>
    \/ Waits(Done, dn, Change)
    \/ ldap[dn].val \in Uncached
    \/ /\ Valid(cache[dn]) # None /\ Object(cache[dn]) = ldap[dn]
       /\ import.module \in cache[dn].modules \cup MayFail

Loading ==
  /\ Handlers \ states \subseteq Resettable
  /\ master = None => /\ pc = "exit" /\ states = {}
                      /\ \A dn \in DNs : cache[dn] = None
  /\ pc # "exit" => ready = Served
  /\ pc = "init" => pending \cap states = {}
  /\ Importing => import.module \in Handlers \ states /\ pending \cap Served = {}
  /\ pc = "search_module" =>
       import.rv = "success" /\ \A dn \in DNs : cache[dn] # Empty
  /\ pc = "import" =>
       /\ import.names \subseteq DNs /\ (import.rv = "other" => import.names = {})
       /\ \A dn \in import.names : cache[dn] # Empty
       /\ import.rv # "other" => \A dn \in Visible \ import.names : Imported(dn)

-----------------------------------------------------------------------------
(* The transaction that is worked on *)

Worked == pc \in Working \/ Finished
Searching == pc \in {"search", "retry_dn"}
Deleting == pc \in {"delete", "drop"}
Updating == pc \in {"update", "store"} \cup Moving

\* An 'r' has just been stashed, or is.
Between == pc = "listen" \/ (pc = "finish" /\ cur = None)

Placed ==
  /\ Done <= Len(log)
  /\ Worked => /\ cur # None /\ cur.id = id /\ id \in Done + 1..Len(log)
               /\ cur.command = log[id].command /\ cur.dn = log[id].dn
  /\ Worked /\ pc \notin {"write_cur", "commit"} =>
       id = Done + IF prev = None THEN 1 ELSE 2
  /\ Between => id = Done + IF prev = None THEN 0 ELSE 1
  /\ pc \in {"init", "search_module", "import"} => id = Done /\ prev = None
  /\ pc \in {"write_cur", "commit"} => prev = None
  /\ pc \in {"listen", "init", "search_module", "import"} => cur = None

\* An 'r' is stashed only if its object has been found, and then nothing hides
\* the object until its 'a' has been found, too.
Stashed(who) ==
  prev # None /\ pc # "exit" =>
    /\ prev.id = Done + 1 /\ prev.id <= Len(log)
    /\ log[prev.id].command = "r" /\ prev.dn = log[prev.id].dn
    /\ prev.cache # None /\ prev.uuid = who[prev.id]
    /\ prev.cache.uuid = prev.uuid
    /\ ~Deleting /\ pc # "retry_dn"
    /\ Worked => log[id].command = "a"
    /\ Between \/ pc \in {"search", "move"} => cache[prev.dn] = prev.cache
    /\ Between \/ pc = "search" => \E dn \in Visible : ldap[dn].uuid = prev.uuid
    /\ Worked /\ pc \notin {"search", "move"} => cache[prev.dn] = None

\* What was cached under the transaction's name when it was fetched.
AtHand(who) ==
  /\ Searching /\ cur.uuid # None =>
       cur.cache # None /\ cur.uuid = who[id] /\ cur.cache.uuid = cur.uuid
  /\ (Searching \/ Deleting) /\ prev = None => cur.cache = Valid(cache[cur.dn])
  /\ Deleting => cur.dn \notin Visible
  /\ Searching /\ prev # None => cur.uuid # None
  /\ pc \in Moving => prev # None /\ cur.cache.uuid = who[id]
  /\ pc \in {"search", "move", "move_from", "move_to"} /\ prev # None =>
       cur.cache = prev.cache

\* What the search has found, which LDAP may have left behind since.
Seen(who) ==
  Updating =>
    /\ IF found.dn \in Visible
         THEN Object(found.entry) = ldap[found.dn] \/ Waits(id, found.dn, Change)
         ELSE Waits(id, found.dn, Leave)
    /\ ldap[found.dn] # None => ldap[found.dn].uuid = found.entry.uuid
    /\ \A p \in Done + 1..Len(log) :
         log[p].dn = found.dn => who[p] = found.entry.uuid
    /\ found.dn = cur.dn \/ ldap[cur.dn] = None
    /\ prev # None => found.dn # prev.dn
    /\ log[id].command \in Change
    /\ pc # "store" => found.entry.modules = {}
    /\ pc \in {"update", "store"} /\ prev # None => found.dn = cur.dn
    /\ pc = "store" => \A h \in states \ MayFail :
         Matches(h, found.entry) => h \in found.entry.modules

Following(who) ==
  /\ Directory /\ Attributed(who) /\ Cached /\ Loading
  /\ Placed /\ Stashed(who) /\ AtHand(who) /\ Seen(who)

-----------------------------------------------------------------------------
(* What the conditions mean when little changes *)

LEMMA Typing ==
  ASSUME Typed
  PROVE  /\ Len(log) \in Nat /\ DOMAIN log = 1..Len(log) /\ Done \in Nat /\ id \in Nat
         /\ \A p \in 1..Len(log) : log[p].dn \in DNs
                                     /\ log[p].command \in Change \cup Leave
         /\ \A dn \in DNs : /\ ldap[dn] \in Objects \cup {None}
                            /\ cache[dn] \in CacheEntries \cup {None, Empty}
         /\ Visible \subseteq DNs
<1>1. log \in Seq(Transactions) /\ master \in Ids \cup {None} /\ id \in Ids
      /\ ldap \in [DNs -> Objects \cup {None}]
      /\ cache \in [DNs -> CacheEntries \cup {None, Empty}]
  BY DEF Typed, TypeOK
<1>2. Ids \subseteq Nat
  BY ListenerAssumption DEF ListenerAssumption, Ids
<1>3. Len(log) \in Nat /\ DOMAIN log = 1..Len(log)
      /\ \A p \in 1..Len(log) : log[p] \in Transactions
  BY <1>1
<1>4. Done \in Nat
  BY <1>1, <1>2 DEF Done
<1> QED  BY <1>1, <1>2, <1>3, <1>4 DEF Transactions, Change, Leave, Visible

LEMMA DoneTypeNext == Typed' => (Done \in Nat)'
<1>1. Typed => Done \in Nat
  BY Typing
<1> QED  BY <1>1, PTL

LEMMA HandledType ==
  Typed /\ Placed => Handled \in Nat /\ Done <= Handled /\ Handled <= Len(log)
BY Typing DEF Placed, Handled, Worked

LEMMA HandledTypeNext == Typed' /\ Placed' => (Handled \in Nat)'
<1>1. Typed /\ Placed => Handled \in Nat
  BY HandledType
<1> QED  BY <1>1, PTL

LEMMA WaitsEarlier ==
  ASSUME NEW a \in Int, NEW b \in Int, a <= b, Len(log) \in Nat,
         NEW dn, NEW cs, Waits(b, dn, cs)
  PROVE  Waits(a, dn, cs)
BY DEF Waits

LEMMA FitsEarlier ==
  ASSUME NEW a \in Int, NEW b \in Int, a <= b, Len(log) \in Nat,
         NEW dn, Fits(dn, b)
  PROVE  Fits(dn, a)
<1>1. \A cs : Waits(b, dn, cs) => Waits(a, dn, cs)
  BY WaitsEarlier
<1> QED  BY <1>1 DEF Fits

LEMMA FitsLater ==
  ASSUME NEW a \in Nat, NEW b \in Nat, a <= b, Len(log) \in Nat, NEW dn, Fits(dn, a),
         \A p \in a + 1..b : p \in 1..Len(log) => log[p].dn # dn
  PROVE  Fits(dn, b)
<1>1. \A cs : Waits(a, dn, cs) => Waits(b, dn, cs)
  BY DEF Waits
<1> QED  BY <1>1 DEF Fits

LEMMA FitsKept ==
  ASSUME NEW from, NEW dn \in DNs, Fits(dn, from),
         UNCHANGED slapd, cache'[dn] = cache[dn], states' \subseteq states
  PROVE  Fits(dn, from)'
<1>1. ldap' = ldap /\ log' = log /\ Visible' = Visible
  BY DEF slapd, Visible
<1>2. \A cs : Waits(from, dn, cs)' <=> Waits(from, dn, cs)
  BY <1>1 DEF Waits
<1>3. UpToDateAt(dn) => UpToDateAt(dn)'
  BY <1>1 DEF UpToDateAt
<1>4. \A h : Matches(h, ldap[dn])' <=> Matches(h, ldap[dn])
  BY <1>1 DEF Matches
<1> QED  BY <1>1, <1>2, <1>3, <1>4 DEF Fits

\* Of a step that is neither slapd's nor changes the cache.
LEMMA DirectoryKept ==
  ASSUME Typed, Directory, UNCHANGED slapd, Done' \in Nat, Done <= Done'
  PROVE  Directory'
<1>1. ldap' = ldap /\ log' = log
  BY DEF slapd
<1>2. Done \in Nat /\ Len(log) \in Nat
  BY Typing
<1>3. Done' + 1..Len(log) \subseteq Done + 1..Len(log)
  BY <1>2
<1>4. LeftInTheEnd' /\ NotTakenAgain' /\ AddedFirst'
  <2>1. LeftInTheEnd'
    BY <1>1, <1>3 DEF Directory, LeftInTheEnd
  <2>2. NotTakenAgain'
    BY <1>1, <1>3 DEF Directory, NotTakenAgain
  <2>3. AddedFirst'
    BY <1>1, <1>3 DEF Directory, AddedFirst
  <2> QED  BY <2>1, <2>2, <2>3
<1>5. MovesAreWhole' /\ OneName' /\ Known'
  BY <1>1 DEF Directory, MovesAreWhole, OneName, Known
<1> QED  BY <1>4, <1>5 DEF Directory

\* A name has an entry of the object the transactions that wait are about, or none.
LEMMA AttributedKept ==
  ASSUME Typed, NEW who, Attributed(who), UNCHANGED slapd,
         Done' \in Nat, Done <= Done',
         \A p \in Done' + 1..Len(log) :
           LET dn == log[p].dn IN
             cache'[dn] = cache[dn] \/ (Valid(cache'[dn]) # None => cache'[dn].uuid = who[p])
  PROVE  Attributed(who)'
<1>1. ldap' = ldap /\ log' = log
  BY DEF slapd
<1>2. Done \in Nat /\ Len(log) \in Nat
  BY Typing
<1>3. Done' + 1..Len(log) \subseteq Done + 1..Len(log)
  BY <1>2
<1>4. \A p \in Done' + 1..Len(log) :
        Valid(cache'[log[p].dn]) # None => cache'[log[p].dn].uuid = who[p]
  BY <1>3 DEF Attributed
<1>5. \A p \in Done' + 1..Len(log) :
        /\ \A q \in Done' + 1..Len(log) : log[p].dn = log[q].dn => who[p] = who[q]
        /\ ldap[log[p].dn] # None => ldap[log[p].dn].uuid = who[p]
  BY <1>3 DEF Attributed
<1> QED  BY <1>1, <1>4, <1>5 DEF Attributed, Valid

LEMMA CachedKept ==
  ASSUME Typed, Typed', Placed, Placed', Cached, UNCHANGED <<slapd, cache>>,
         states' \subseteq states, Handled' <= Handled
  PROVE  Cached'
<1> SUFFICES ASSUME NEW dn \in DNs  PROVE Fits(dn, Handled)'
  BY DEF Cached
<1>1. Handled \in Nat /\ Handled' \in Nat /\ Len(log) \in Nat
  <2>1. Handled' \in Nat
    BY HandledTypeNext
  <2> QED  BY <2>1, HandledType, Typing
<1>2. PICK n \in Nat : n = Handled'
  BY <1>1
<1>3. Fits(dn, n)
  BY <1>1, <1>2, FitsEarlier DEF Cached
<1>4. Fits(dn, n)'
  BY <1>3, FitsKept
<1> QED  BY <1>2, <1>4 DEF Fits

-----------------------------------------------------------------------------
(* slapd *)

\* What an LDAP operation on the object u does to the names and the transactions.
Writes(u) ==
  LET n == Len(log)
      New == n + 1..Len(log')
  IN /\ u \in Nat /\ u <= Len(log') /\ Len(log') \in Nat /\ n < Len(log')
     /\ \A p \in 1..n : log'[p] = log[p]
     /\ \A p \in New :
          LET dn == log'[p].dn
              command == log'[p].command
          IN /\ dn \in DNs /\ command \in Change \cup Leave
             /\ command \in Change => ldap'[dn] # None /\ ldap'[dn].uuid = u
             /\ command \in Leave => ldap'[dn] = None
             /\ command # "a" => ldap[dn] # None /\ ldap[dn].uuid = u
             /\ command = "a" =>
                  ldap[dn] = None /\ \A q \in Done + 1..n : log[q].dn # dn
             /\ command = "r" => p < Len(log') /\ log'[p + 1].command = "a"
     /\ \A p, q \in New : p # q =>
          /\ log'[p].dn # log'[q].dn
          /\ log'[p].command \in Leave \/ log'[q].command \in Leave
     /\ \A dn \in DNs :
          ldap'[dn] # ldap[dn] \/ (ldap[dn] # None /\ ldap[dn].uuid = u)
            => \E p \in New : log'[p].dn = dn
     /\ prev # None =>
          \A dn \in Visible : \E e \in Visible' : ldap'[e].uuid = ldap[dn].uuid

LEMMA OneMore ==
  ASSUME Len(log) \in Nat, log \in Seq(Transactions), NEW t, log' = log \o <<t>>
  PROVE  /\ Len(log') = Len(log) + 1 /\ log'[Len(log) + 1] = t
         /\ \A p \in 1..Len(log) : log'[p] = log[p]
OBVIOUS

LEMMA TwoMore ==
  ASSUME Len(log) \in Nat, log \in Seq(Transactions), NEW s, NEW t, log' = log \o <<s, t>>
  PROVE  /\ Len(log') = Len(log) + 2
         /\ log'[Len(log) + 1] = s /\ log'[Len(log) + 2] = t
         /\ \A p \in 1..Len(log) : log'[p] = log[p]
OBVIOUS

LEMMA AddWrites ==
  ASSUME Typed, Directory, Undisturbed, NEW dn \in DNs, NEW val \in Vals,
         LdapAdd(dn, val)
  PROVE  \E u : Writes(u)
<1> DEFINE n == Len(log)
           object == [uuid |-> n + 1, val |-> val, csn |-> n + 1]
<1>1. /\ n \in Nat /\ log \in Seq(Transactions) /\ Done \in Nat
      /\ ldap \in [DNs -> Objects \cup {None}] /\ Visible \subseteq DNs
  BY Typing DEF Typed, TypeOK
<1>2. /\ ldap[dn] = None /\ \A q \in Done + 1..n : log[q].dn # dn
      /\ ldap' = [ldap EXCEPT ![dn] = object]
      /\ log' = log \o <<T("a", dn)>> /\ n + 1 <= MaxLog
  <2>1. Free(dn) /\ ldap' = [ldap EXCEPT ![dn] = object]
        /\ Operation("add", <<T("a", dn)>>)
    BY DEF LdapAdd, Next_id
  <2> HIDE DEF object
  <2> QED  BY <1>1, <2>1 DEF Free, Undisturbed, Done, Operation
<1>3. /\ Len(log') = n + 1 /\ log'[n + 1] = T("a", dn)
      /\ \A p \in 1..n : log'[p] = log[p]
  BY <1>1, <1>2, OneMore
<1>4. object \in Objects /\ object # None
  <2>1. n + 1 \in Ids
    BY <1>1, <1>2, ListenerAssumption DEF ListenerAssumption, Ids
  <2>2. object \in Objects
    BY <2>1 DEF Objects
  <2> QED  BY <2>2, NoneAssumption DEF NoneAssumption
<1>5. object.uuid = n + 1
  OBVIOUS
<1> HIDE DEF object
<1>6. /\ ldap'[dn] = object /\ \A e \in DNs : e # dn => ldap'[e] = ldap[e]
  BY <1>1, <1>2
<1>7. \A e \in DNs : ldap[e] # None => ldap[e].uuid # n + 1
  <2>1. \A e \in DNs : ldap[e] # None => ldap[e].uuid \in Nat /\ ldap[e].uuid <= n
    <3>1. Ids \subseteq Nat
      BY ListenerAssumption DEF ListenerAssumption, Ids
    <3> QED  BY <1>1, <3>1 DEF Directory, Known, Objects
  <2> QED  BY <1>1, <2>1
<1>8. ASSUME NEW e \in Visible  PROVE e \in Visible' /\ ldap'[e].uuid = ldap[e].uuid
  BY <1>2, <1>6, <1>8 DEF Visible
<1>9. T("a", dn).command = "a" /\ T("a", dn).dn = dn
  BY DEF T
<1>10. /\ "a" \in Change /\ "a" \notin Leave /\ "a" # "r"
  BY DEF Change, Leave
<1>11. n + 1..Len(log') = {n + 1}
  BY <1>1, <1>3
<1>12. Writes(n + 1)
  <2>1. /\ n + 1 \in Nat /\ n + 1 <= Len(log') /\ Len(log') \in Nat /\ n < Len(log')
    BY <1>1, <1>3
  <2>2. \A e \in DNs : ldap'[e] # ldap[e] \/ (ldap[e] # None /\ ldap[e].uuid = n + 1)
            => \E p \in n + 1..Len(log') : log'[p].dn = e
    BY <1>3, <1>6, <1>7, <1>9, <1>11
  <2> QED  BY <2>1, <2>2, <1>2, <1>3, <1>4, <1>5, <1>6, <1>8, <1>9, <1>10, <1>11 DEF Writes
<1> QED  BY <1>12

LEMMA ModifyWrites ==
  ASSUME Typed, Directory, NEW dn \in DNs, NEW val \in Vals, LdapModify(dn, val)
  PROVE  \E u : Writes(u)
<1> DEFINE n == Len(log)
           object == [ldap[dn] EXCEPT !.val = val, !.csn = n + 1]
           u == ldap[dn].uuid
<1>1. /\ n \in Nat /\ log \in Seq(Transactions)
      /\ ldap \in [DNs -> Objects \cup {None}] /\ Visible \subseteq DNs
  BY Typing DEF Typed, TypeOK
<1>2. /\ ldap[dn] # None /\ ldap[dn] \in Objects
      /\ ldap' = [ldap EXCEPT ![dn] = object]
      /\ log' = log \o <<T("m", dn)>> /\ n + 1 <= MaxLog
  <2>1. ldap[dn] # None /\ ldap[dn] \in Objects
        /\ ldap' = [ldap EXCEPT ![dn].val = val, ![dn].csn = n + 1]
        /\ Operation("modify", <<T("m", dn)>>)
    BY <1>1 DEF LdapModify, Next_id
  <2>2. ldap' = [ldap EXCEPT ![dn] = object]
    BY <1>1, <2>1
  <2> HIDE DEF object
  <2> QED  BY <1>1, <2>1, <2>2 DEF Operation
<1>3. /\ Len(log') = n + 1 /\ log'[n + 1] = T("m", dn)
      /\ \A p \in 1..n : log'[p] = log[p]
  BY <1>1, <1>2, OneMore
<1>4. object \in Objects /\ object # None /\ object.uuid = u
  <2>1. n + 1 \in Ids
    BY <1>1, <1>2, ListenerAssumption DEF ListenerAssumption, Ids
  <2>2. object \in Objects /\ object.uuid = u
    BY <1>2, <2>1 DEF Objects
  <2> QED  BY <2>2, NoneAssumption DEF NoneAssumption
<1> HIDE DEF object
<1>5. /\ ldap'[dn] = object /\ \A e \in DNs : e # dn => ldap'[e] = ldap[e]
  BY <1>1, <1>2
<1>6. \A e \in DNs : ldap[e] # None /\ ldap[e].uuid = u => e = dn
  BY <1>2 DEF Directory, OneName
<1>7. ASSUME NEW e \in Visible  PROVE e \in Visible' /\ ldap'[e].uuid = ldap[e].uuid
  BY <1>1, <1>4, <1>5, <1>7 DEF Visible
<1>8. T("m", dn).command = "m" /\ T("m", dn).dn = dn
  BY DEF T
<1>9. /\ "m" \in Change /\ "m" \notin Leave /\ "m" # "r" /\ "m" # "a"
  BY DEF Change, Leave
<1>10. n + 1..Len(log') = {n + 1}
  BY <1>1, <1>3
<1>11. u \in Nat /\ u <= n
  <2>1. Ids \subseteq Nat
    BY ListenerAssumption DEF ListenerAssumption, Ids
  <2> QED  BY <1>2, <2>1 DEF Directory, Known, Objects
<1> HIDE DEF u
<1>12. Writes(u)
  <2>1. /\ u \in Nat /\ u <= Len(log') /\ Len(log') \in Nat /\ n < Len(log')
    BY <1>1, <1>3, <1>11
  <2>2. \A e \in DNs : ldap'[e] # ldap[e] \/ (ldap[e] # None /\ ldap[e].uuid = u)
            => \E p \in n + 1..Len(log') : log'[p].dn = e
    BY <1>3, <1>5, <1>6, <1>8, <1>10
  <2>3. ldap[dn].uuid = u
    BY DEF u
  <2> QED  BY <2>1, <2>2, <2>3, <1>2, <1>3, <1>4, <1>5, <1>7, <1>8, <1>9, <1>10 DEF Writes
<1> QED  BY <1>12

LEMMA DeleteWrites ==
  ASSUME Typed, Directory, Undisturbed, NEW dn \in DNs, LdapDelete(dn)
  PROVE  \E u : Writes(u)
<1> DEFINE n == Len(log)
           u == ldap[dn].uuid
<1>1. /\ n \in Nat /\ log \in Seq(Transactions)
      /\ ldap \in [DNs -> Objects \cup {None}] /\ Visible \subseteq DNs
  BY Typing DEF Typed, TypeOK
<1>2. /\ ldap[dn] # None /\ ldap[dn] \in Objects
      /\ ldap' = [ldap EXCEPT ![dn] = None]
      /\ log' = log \o <<T("d", dn)>> /\ prev = None
  BY <1>1 DEF LdapDelete, Operation, Undisturbed, Idle
<1>3. /\ Len(log') = n + 1 /\ log'[n + 1] = T("d", dn)
      /\ \A p \in 1..n : log'[p] = log[p]
  BY <1>1, <1>2, OneMore
<1>5. /\ ldap'[dn] = None /\ \A e \in DNs : e # dn => ldap'[e] = ldap[e]
  BY <1>1, <1>2
<1>6. \A e \in DNs : ldap[e] # None /\ ldap[e].uuid = u => e = dn
  BY <1>2 DEF Directory, OneName
<1>8. T("d", dn).command = "d" /\ T("d", dn).dn = dn
  BY DEF T
<1>9. /\ "d" \notin Change /\ "d" \in Leave /\ "d" # "r" /\ "d" # "a"
  BY DEF Change, Leave
<1>10. n + 1..Len(log') = {n + 1}
  BY <1>1, <1>3
<1>11. u \in Nat /\ u <= n
  <2>1. Ids \subseteq Nat
    BY ListenerAssumption DEF ListenerAssumption, Ids
  <2> QED  BY <1>2, <2>1 DEF Directory, Known, Objects
<1> HIDE DEF u
<1>12. Writes(u)
  <2>1. /\ u \in Nat /\ u <= Len(log') /\ Len(log') \in Nat /\ n < Len(log')
    BY <1>1, <1>3, <1>11
  <2>2. \A e \in DNs : ldap'[e] # ldap[e] \/ (ldap[e] # None /\ ldap[e].uuid = u)
            => \E p \in n + 1..Len(log') : log'[p].dn = e
    BY <1>3, <1>5, <1>6, <1>8, <1>10
  <2>3. ldap[dn].uuid = u
    BY DEF u
  <2> QED  BY <2>1, <2>2, <2>3, <1>2, <1>3, <1>5, <1>8, <1>9, <1>10 DEF Writes
<1> QED  BY <1>12

LEMMA MoveWrites ==
  ASSUME Typed, Directory, Undisturbed, NEW from \in DNs, NEW to \in DNs,
         LdapMove(from, to)
  PROVE  \E u : Writes(u)
<1> DEFINE n == Len(log)
           u == ldap[from].uuid
           object == [ldap[from] EXCEPT !.csn = n + 1]
<1>1. /\ n \in Nat /\ log \in Seq(Transactions) /\ Done \in Nat
      /\ ldap \in [DNs -> Objects \cup {None}] /\ Visible \subseteq DNs
  BY Typing DEF Typed, TypeOK
<1>2. /\ ldap[from] # None /\ ldap[from] \in Objects
      /\ ldap[to] = None /\ \A q \in Done + 1..n : log[q].dn # to
      /\ ldap' = [ldap EXCEPT ![from] = None, ![to] = object]
      /\ log' = log \o <<T("r", from), T("a", to)>>
      /\ n + 2 <= MaxLog
      /\ prev # None => Restricted = {}
  <2>1. /\ ldap[from] # None /\ ldap[from] \in Objects /\ Free(to)
        /\ ldap' = [ldap EXCEPT ![from] = None, ![to] = object]
        /\ Operation("move", <<T("r", from), T("a", to)>>)
    BY <1>1 DEF LdapMove, Next_id
  <2> HIDE DEF object
  <2>2. ldap[to] = None /\ \A q \in Done + 1..n : log[q].dn # to
    BY <1>1, <2>1 DEF Free, Undisturbed, Done
  <2>3. log' = log \o <<T("r", from), T("a", to)>> /\ n + 2 <= MaxLog
    BY <1>1, <2>1 DEF Operation
  <2>4. prev # None => Restricted = {}
    BY <2>1 DEF Operation, Idle, Undisturbed
  <2> QED  BY <2>1, <2>2, <2>3, <2>4
<1>3. /\ Len(log') = n + 2 /\ log'[n + 1] = T("r", from) /\ log'[n + 2] = T("a", to)
      /\ \A p \in 1..n : log'[p] = log[p]
  BY <1>1, <1>2, TwoMore
<1>4. object \in Objects /\ object # None /\ object.uuid = u
  <2>1. n + 1 \in Ids
    BY <1>1, <1>2, ListenerAssumption DEF ListenerAssumption, Ids
  <2>2. object \in Objects /\ object.uuid = u
    BY <1>2, <2>1 DEF Objects
  <2> QED  BY <2>2, NoneAssumption DEF NoneAssumption
<1> HIDE DEF object
<1>5. /\ from # to /\ ldap'[from] = None /\ ldap'[to] = object
      /\ \A e \in DNs : e \notin {from, to} => ldap'[e] = ldap[e]
  BY <1>1, <1>2
<1>6. \A e \in DNs : ldap[e] # None /\ ldap[e].uuid = u => e = from
  BY <1>2 DEF Directory, OneName
<1>7. ASSUME prev # None, NEW e \in Visible
      PROVE  \E d \in Visible' : ldap'[d].uuid = ldap[e].uuid
  <2>1. CASE e = from
    BY <1>2, <1>4, <1>5, <1>7, <2>1 DEF Visible
  <2>2. CASE e # from
    <3>1. e \in Visible' /\ ldap'[e] = ldap[e]
      BY <1>2, <1>5, <1>7, <2>2 DEF Visible
    <3> QED  BY <3>1
  <2> QED  BY <2>1, <2>2
<1>8. /\ T("r", from).command = "r" /\ T("r", from).dn = from
      /\ T("a", to).command = "a" /\ T("a", to).dn = to
  BY DEF T
<1>9. /\ "r" \notin Change /\ "r" \in Leave /\ "a" \notin Leave /\ "a" \in Change
  BY DEF Change, Leave
<1>10. n + 1..Len(log') = {n + 1, n + 2} /\ n + 1 + 1 = n + 2
  BY <1>1, <1>3
<1>11. u \in Nat /\ u <= n
  <2>1. Ids \subseteq Nat
    BY ListenerAssumption DEF ListenerAssumption, Ids
  <2> QED  BY <1>2, <2>1 DEF Directory, Known, Objects
<1>12. ldap[from].uuid = u
  OBVIOUS
<1> HIDE DEF u
<1>13. Writes(u)
  <2> DEFINE New == n + 1..Len(log')
  <2>1. /\ u \in Nat /\ u <= Len(log') /\ Len(log') \in Nat /\ n < Len(log')
    BY <1>1, <1>3, <1>11
  <2>2. \A e \in DNs : ldap'[e] # ldap[e] \/ (ldap[e] # None /\ ldap[e].uuid = u)
            => \E p \in New : log'[p].dn = e
    BY <1>3, <1>5, <1>6, <1>8, <1>10
  <2>3. ASSUME NEW p \in New
        PROVE  LET dn == log'[p].dn
                   command == log'[p].command
               IN /\ dn \in DNs /\ command \in Change \cup Leave
                  /\ command \in Change => ldap'[dn] # None /\ ldap'[dn].uuid = u
                  /\ command \in Leave => ldap'[dn] = None
                  /\ command # "a" => ldap[dn] # None /\ ldap[dn].uuid = u
                  /\ command = "a" =>
                       ldap[dn] = None /\ \A q \in Done + 1..n : log[q].dn # dn
                  /\ command = "r" => p < Len(log') /\ log'[p + 1].command = "a"
    <3>1. CASE p = n + 1
      BY <3>1, <1>1, <1>2, <1>3, <1>5, <1>8, <1>9, <1>12
    <3>2. CASE p = n + 2
      BY <3>2, <1>1, <1>2, <1>3, <1>4, <1>5, <1>8, <1>9
    <3> QED  BY <3>1, <3>2, <1>10
  <2>4. \A p, q \in New : p # q =>
          /\ log'[p].dn # log'[q].dn
          /\ log'[p].command \in Leave \/ log'[q].command \in Leave
    BY <1>3, <1>5, <1>8, <1>9, <1>10
  <2> QED  BY <2>1, <2>2, <2>3, <2>4, <1>3, <1>7 DEF Writes
<1> QED  BY <1>13

LEMMA SlapdWrites ==
  ASSUME Typed, Directory, Undisturbed, Slapd
  PROVE  /\ \E u : Writes(u)
         /\ UNCHANGED <<disk, loaded, pc, id, cur, prev, found, crashes, severed>>
<1>1. UNCHANGED <<disk, loaded, pc, id, cur, prev, found, crashes, severed>>
  BY DEF Slapd, LdapAdd, LdapModify, LdapDelete, LdapMove, Operation
<1>2. PICK dn \in DNs :
        \/ \E val \in Vals : LdapAdd(dn, val) \/ LdapModify(dn, val)
        \/ LdapDelete(dn)
        \/ \E to \in DNs : LdapMove(dn, to)
  BY DEF Slapd
<1> QED  BY <1>1, <1>2, AddWrites, ModifyWrites, DeleteWrites, MoveWrites

LEMMA WritesDirectory ==
  ASSUME Typed, Typed', Directory, NEW u, Writes(u), UNCHANGED master
  PROVE  Directory'
<1> DEFINE n == Len(log)
           New == n + 1..Len(log')
<1>1. /\ n \in Nat /\ Len(log') \in Nat /\ n < Len(log') /\ Done \in Nat
      /\ DOMAIN log = 1..n
      /\ \A p \in 1..n : log[p].dn \in DNs
      /\ \A p \in 1..n : log'[p] = log[p]
      /\ Done' = Done
  BY Typing DEF Writes, Done
<1>2. \A p \in New :
        /\ log'[p].dn \in DNs /\ log'[p].command \in Change \cup Leave
        /\ log'[p].command \in Change =>
             ldap'[log'[p].dn] # None /\ ldap'[log'[p].dn].uuid = u
        /\ log'[p].command \in Leave => ldap'[log'[p].dn] = None
        /\ log'[p].command # "a" => ldap[log'[p].dn] # None /\ ldap[log'[p].dn].uuid = u
        /\ log'[p].command = "a" => /\ ldap[log'[p].dn] = None
                                    /\ \A q \in Done + 1..n : log[q].dn # log'[p].dn
        /\ log'[p].command = "r" => p < Len(log') /\ log'[p + 1].command = "a"
  BY DEF Writes
<1>3. \A p, q \in New : p # q => /\ log'[p].dn # log'[q].dn
                                 /\ log'[p].command \in Leave \/ log'[q].command \in Leave
  BY DEF Writes
<1>4. \A dn \in DNs : ldap'[dn] # ldap[dn] \/ (ldap[dn] # None /\ ldap[dn].uuid = u)
                        => \E p \in New : log'[p].dn = dn
  BY DEF Writes
<1>5. u \in Nat /\ u <= Len(log')
  BY DEF Writes
<1>6. \A p \in 1..Len(log') : p \in 1..n \/ p \in New
  BY <1>1
<1>7. Change \cap Leave = {} /\ "a" \in Change
  BY DEF Change, Leave
<1>8. DOMAIN log' = 1..Len(log')
  BY DEF Typed, TypeOK
<1> HIDE DEF New
<1>9. MovesAreWhole'
  <2> SUFFICES ASSUME NEW p \in 1..Len(log'), log'[p].command = "r"
               PROVE  p + 1 \in 1..Len(log') /\ log'[p + 1].command = "a"
    BY <1>8 DEF MovesAreWhole
  <2>1. CASE p \in 1..n
    <3>1. p + 1 \in 1..n /\ log[p + 1].command = "a"
      BY <1>1, <2>1 DEF Directory, MovesAreWhole
    <3> QED  BY <1>1, <3>1
  <2>2. CASE p \in New
    BY <1>1, <1>2, <2>2
  <2> QED  BY <1>6, <2>1, <2>2
<1>10. LeftInTheEnd'
  <2> SUFFICES ASSUME NEW p \in Done + 1..Len(log'), ldap'[log'[p].dn] = None
               PROVE  \E q \in p..Len(log') : log'[q].dn = log'[p].dn
                                              /\ log'[q].command \in Leave
    BY <1>1 DEF LeftInTheEnd
  <2>1. CASE p \in 1..n /\ ldap[log[p].dn] = None
    <3>1. PICK q \in p..n : log[q].dn = log[p].dn /\ log[q].command \in Leave
      BY <1>1, <2>1 DEF Directory, LeftInTheEnd
    <3>2. q \in p..Len(log') /\ q \in 1..n
      BY <1>1, <2>1
    <3> QED  BY <1>1, <2>1, <3>1, <3>2
  <2>2. CASE p \in 1..n /\ ldap[log[p].dn] # None
    <3>1. log'[p].dn = log[p].dn /\ log[p].dn \in DNs
      BY <1>1, <2>2
    <3>2. PICK q \in New : log'[q].dn = log[p].dn
      BY <1>4, <2>2, <3>1
    <3>3. q \in p..Len(log')
      BY <1>1, <2>2, <3>2 DEF New
    <3>4. log'[q].command \in Leave
      BY <1>2, <3>1, <3>2
    <3> QED  BY <3>1, <3>2, <3>3, <3>4
  <2>3. CASE p \in New
    <3>1. log'[p].command \in Leave
      BY <1>2, <2>3
    <3> QED  BY <1>1, <2>3, <3>1 DEF New
  <2> QED  BY <1>1, <1>6, <2>1, <2>2, <2>3
\* A name that was free is occupied only if nothing about it waits.
<1>11. ASSUME NEW p \in Done + 1..n, ldap[log[p].dn] = None
       PROVE  ldap'[log[p].dn] = None
  <2>1. p \in 1..n /\ log[p].dn \in DNs
    BY <1>1
  <2>2. ASSUME NEW q \in New, log'[q].dn = log[p].dn  PROVE FALSE
    BY <1>2, <1>11, <2>2
  <2> QED  BY <1>4, <1>11, <2>1, <2>2
<1>12. NotTakenAgain'
  <2> SUFFICES ASSUME NEW p \in Done + 1..Len(log'), log'[p].command \in Leave
               PROVE  ldap'[log'[p].dn] = None
    BY <1>1 DEF NotTakenAgain
  <2>1. CASE p \in 1..n
    <3>1. p \in Done + 1..n /\ log'[p] = log[p]
      BY <1>1, <2>1
    <3> QED  BY <1>11, <3>1 DEF Directory, NotTakenAgain
  <2>2. CASE p \in New
    BY <1>2, <2>2
  <2> QED  BY <1>1, <1>6, <2>1, <2>2
<1>13. AddedFirst'
  <2> SUFFICES ASSUME NEW p \in Done + 1..Len(log'), NEW q \in Done + 1..Len(log'),
                      p < q, log'[q].command = "a"
               PROVE  log'[p].dn # log'[q].dn
    BY <1>1 DEF AddedFirst
  <2>1. CASE q \in 1..n
    <3>1. p \in Done + 1..n /\ q \in Done + 1..n /\ log'[p] = log[p] /\ log'[q] = log[q]
      BY <1>1, <2>1
    <3> QED  BY <3>1 DEF Directory, AddedFirst
  <2>2. CASE p \in 1..n /\ q \in New
    <3>1. p \in Done + 1..n /\ log'[p] = log[p]
      BY <1>1, <2>2
    <3> QED  BY <1>2, <2>2, <3>1
  <2>3. CASE p \in New /\ q \in New
    BY <1>1, <1>3, <2>3
  <2>4. p \in New => q \notin 1..n
    BY <1>1 DEF New
  <2> QED  BY <1>1, <1>6, <2>1, <2>2, <2>3, <2>4
\* Where the objects are now.
<1>14. ASSUME NEW d \in DNs, ldap'[d] # None
       PROVE  \/ ldap[d] = ldap'[d] /\ ldap[d].uuid # u
              \/ /\ ldap'[d].uuid = u
                 /\ \E p \in New : log'[p].dn = d /\ log'[p].command \in Change
  <2>1. CASE \E p \in New : log'[p].dn = d
    BY <1>2, <1>14, <2>1
  <2>2. CASE ~\E p \in New : log'[p].dn = d
    BY <1>4, <1>14, <2>2
  <2> QED  BY <2>1, <2>2
<1>15. OneName'
  <2> SUFFICES ASSUME NEW d \in DNs, NEW e \in DNs, ldap'[d] # None, ldap'[e] # None,
                      ldap'[d].uuid = ldap'[e].uuid
               PROVE  d = e
    BY DEF OneName
  <2>1. CASE ldap'[d].uuid = u
    <3>1. PICK p \in New : log'[p].dn = d /\ log'[p].command \in Change
      BY <1>14, <2>1
    <3>2. PICK q \in New : log'[q].dn = e /\ log'[q].command \in Change
      BY <1>14, <2>1
    <3> QED  BY <1>3, <1>7, <3>1, <3>2
  <2>2. CASE ldap'[d].uuid # u
    <3>1. ldap[d] = ldap'[d] /\ ldap[e] = ldap'[e]
      BY <1>14, <2>2
    <3> QED  BY <3>1 DEF Directory, OneName
  <2> QED  BY <2>1, <2>2
<1>16. Known'
  <2> SUFFICES ASSUME NEW d \in DNs, ldap'[d] # None
               PROVE  ldap'[d].uuid <= Len(log')
    BY DEF Known
  <2>1. CASE ldap'[d].uuid = u
    BY <1>5, <2>1
  <2>2. CASE ldap[d] = ldap'[d]
    <3>1. ldap[d].uuid \in Nat
      <4>1. ldap[d] \in Objects /\ Ids \subseteq Nat
        BY <2>2, Typing, ListenerAssumption DEF ListenerAssumption, Ids
      <4> QED  BY <4>1 DEF Objects
    <3>2. ldap[d].uuid <= n
      BY <2>2 DEF Directory, Known
    <3> QED  BY <1>1, <2>2, <3>1, <3>2
  <2> QED  BY <1>14, <2>1, <2>2
<1> QED  BY <1>9, <1>10, <1>12, <1>13, <1>15, <1>16 DEF Directory

\* A name that slapd takes has no entry, and no transaction about it waits.
LEMMA TakenIsFree ==
  ASSUME Typed, Placed, Cached, NEW u, Writes(u),
         NEW p \in Len(log) + 1..Len(log'), log'[p].command = "a"
  PROVE  /\ log'[p].dn \in DNs /\ ldap[log'[p].dn] = None
         /\ Valid(cache[log'[p].dn]) = None
         /\ \A q \in Done + 1..Len(log) : log[q].dn # log'[p].dn
<1> DEFINE dn == log'[p].dn
<1>1. /\ dn \in DNs /\ ldap[dn] = None
      /\ \A q \in Done + 1..Len(log) : log[q].dn # dn
  BY DEF Writes
<1>2. Fits(dn, Handled) /\ dn \notin Visible
  BY <1>1 DEF Cached, Visible
<1>3. ~Waits(Handled, dn, Leave)
  BY <1>1, HandledType, Typing DEF Waits
<1>4. Valid(cache[dn]) = None
  BY <1>2, <1>3 DEF Fits
<1> QED  BY <1>1, <1>4

LEMMA WritesAttributed ==
  ASSUME Typed, Directory, Placed, Cached, NEW who, Attributed(who),
         NEW u, Writes(u), UNCHANGED <<master, cache>>
  PROVE  \E new : /\ Attributed(new)'
                  /\ \A p \in 1..Len(log) : new[p] = who[p]
                  /\ \A p \in Len(log) + 1..Len(log') : new[p] = u
<1> DEFINE n == Len(log)
           New == n + 1..Len(log')
           extended == [p \in 1..Len(log') |-> IF p <= n THEN who[p] ELSE u]
<1>1. /\ n \in Nat /\ Len(log') \in Nat /\ n < Len(log') /\ Done \in Nat
      /\ \A p \in 1..n : log[p].dn \in DNs
      /\ \A p \in 1..n : log'[p] = log[p]
      /\ Done' = Done /\ u \in Nat /\ Done <= n
  BY Typing DEF Writes, Done, Placed
<1>2. \A p \in New :
        /\ log'[p].dn \in DNs
        /\ ldap'[log'[p].dn] # None => ldap'[log'[p].dn].uuid = u
        /\ log'[p].command # "a" => ldap[log'[p].dn] # None /\ ldap[log'[p].dn].uuid = u
  BY DEF Writes
<1>3. \A p, q \in New : p # q => log'[p].dn # log'[q].dn
  BY DEF Writes
<1>4. \A dn \in DNs : ldap'[dn] # ldap[dn] => \E p \in New : log'[p].dn = dn
  BY DEF Writes
<1>5. \A p \in 1..Len(log') : p \in 1..n \/ p \in New
  BY <1>1
<1>6. PICK new : /\ new \in [1..Len(log') -> Nat]
                 /\ \A p \in 1..n : new[p] = who[p]
                 /\ \A p \in New : new[p] = u
  <2>1. \A p \in 1..Len(log') : (IF p <= n THEN who[p] ELSE u) \in Nat
    BY <1>1 DEF Attributed
  <2>2. \A p \in New : p \in 1..Len(log') /\ ~(p <= n)
    BY <1>1
  <2>3. \A p \in 1..n : p \in 1..Len(log') /\ p <= n
    BY <1>1
  <2>4. /\ extended \in [1..Len(log') -> Nat]
        /\ \A p \in 1..n : extended[p] = who[p]
        /\ \A p \in New : extended[p] = u
    BY <2>1, <2>2, <2>3
  <2> HIDE DEF extended
  <2> QED  BY <2>4
<1> HIDE DEF New
<1>7. \A p \in 1..Len(log') - 1 : log'[p].command = "r" => new[p + 1] = new[p]
  <2> SUFFICES ASSUME NEW p \in 1..Len(log') - 1, log'[p].command = "r"
               PROVE  new[p + 1] = new[p]
    OBVIOUS
  <2>1. CASE p \in 1..n
    <3>1. p + 1 \in 1..n
      BY <1>1, <2>1, Typing DEF Directory, MovesAreWhole
    <3>2. p \in 1..n - 1 /\ log[p].command = "r"
      BY <1>1, <2>1, <3>1
    <3> QED  BY <1>6, <2>1, <3>1, <3>2 DEF Attributed
  <2>2. CASE p \notin 1..n
    <3>1. p \in New /\ p + 1 \in New
      BY <1>1, <2>2 DEF New
    <3> QED  BY <1>6, <3>1
  <2> QED  BY <2>1, <2>2
\* A new transaction and one that waited are about the same name.
<1>8. ASSUME NEW p \in Done + 1..n, NEW q \in New, log[p].dn = log'[q].dn
      PROVE  who[p] = u
  <2>1. ldap[log[p].dn] # None /\ ldap[log[p].dn].uuid = u
    <3>1. log'[q].command # "a"
      BY <1>1, <1>8, TakenIsFree DEF New
    <3> QED  BY <1>2, <1>8, <3>1
  <2> QED  BY <1>8, <2>1 DEF Attributed
<1>9. ASSUME NEW p \in Done + 1..Len(log'), NEW q \in Done + 1..Len(log'),
             log'[p].dn = log'[q].dn
      PROVE  new[p] = new[q]
  <2>1. (p \in Done + 1..n /\ p \in 1..n) \/ p \in New
    BY <1>1 DEF New
  <2>2. (q \in Done + 1..n /\ q \in 1..n) \/ q \in New
    BY <1>1 DEF New
  <2>3. CASE p \in Done + 1..n /\ p \in 1..n /\ q \in Done + 1..n /\ q \in 1..n
    BY <1>1, <1>6, <1>9, <2>3 DEF Attributed
  <2>4. CASE p \in Done + 1..n /\ p \in 1..n /\ q \in New
    BY <1>1, <1>6, <1>8, <1>9, <2>4
  <2>5. CASE p \in New /\ q \in Done + 1..n /\ q \in 1..n
    BY <1>1, <1>6, <1>8, <1>9, <2>5
  <2>6. CASE p \in New /\ q \in New
    BY <1>6, <2>6
  <2> QED  BY <2>1, <2>2, <2>3, <2>4, <2>5, <2>6
<1>10. ASSUME NEW p \in Done + 1..Len(log')
       PROVE  /\ ldap'[log'[p].dn] # None => ldap'[log'[p].dn].uuid = new[p]
              /\ Valid(cache[log'[p].dn]) # None => cache[log'[p].dn].uuid = new[p]
  <2>1. CASE p \in New
    <3>1. ldap'[log'[p].dn] # None => ldap'[log'[p].dn].uuid = new[p]
      BY <1>2, <1>6, <2>1
    <3>2. CASE log'[p].command = "a"
      <4>1. Valid(cache[log'[p].dn]) = None
        BY <2>1, <3>2, TakenIsFree DEF New
      <4> QED  BY <3>1, <4>1
    <3>3. CASE log'[p].command # "a"
      <4>1. /\ log'[p].dn \in DNs /\ ldap[log'[p].dn] # None
            /\ ldap[log'[p].dn].uuid = u /\ new[p] = u
        BY <1>2, <1>6, <2>1, <3>3
      <4>2. Fits(log'[p].dn, Handled)
        BY <4>1 DEF Cached
      <4> QED  BY <3>1, <4>1, <4>2 DEF Fits
    <3> QED  BY <3>2, <3>3
  <2>2. CASE p \in 1..n
    <3>1. p \in Done + 1..n /\ log'[p] = log[p] /\ new[p] = who[p]
      BY <1>1, <1>6, <2>2
    <3>2. Valid(cache[log[p].dn]) # None => cache[log[p].dn].uuid = who[p]
      BY <3>1 DEF Attributed
    <3>3. CASE ldap'[log[p].dn] = ldap[log[p].dn]
      BY <3>1, <3>2, <3>3 DEF Attributed
    <3>4. CASE ldap'[log[p].dn] # ldap[log[p].dn]
      <4>1. PICK q \in New : log'[q].dn = log[p].dn
        BY <1>1, <1>4, <2>2, <3>4
      <4> QED  BY <1>2, <1>8, <3>1, <3>2, <4>1
    <3> QED  BY <3>3, <3>4
  <2> QED  BY <1>1, <1>5, <2>1, <2>2
<1>11. Attributed(new)'
  <2>1. \A p \in Done + 1..Len(log') :
          Valid(cache'[log'[p].dn]) # None => cache'[log'[p].dn].uuid = new[p]
    BY <1>1, <1>5, <1>10
  <2>2. \A p \in Done + 1..Len(log') :
          ldap'[log'[p].dn] # None => ldap'[log'[p].dn].uuid = new[p]
    BY <1>10
  <2>3. Done' = Done
    BY <1>1
  <2> QED  BY <1>6, <1>7, <1>9, <2>1, <2>2, <2>3 DEF Attributed, Valid
<1> QED  BY <1>6, <1>11, Zenon DEF New


\* A name whose object has changed is waited for.
LEMMA WritesWait ==
  ASSUME Typed, NEW u, Writes(u)
  PROVE  /\ \A from \in Nat, dn \in DNs, cs \in {Change, Leave} :
              Waits(from, dn, cs) => Waits(from, dn, cs)'
         /\ \A from \in 0..Len(log), dn \in DNs : ldap'[dn] # ldap[dn] =>
              /\ ldap'[dn] = None => Waits(from, dn, Leave)'
              /\ ldap'[dn] # None => Waits(from, dn, Change)'
         /\ \A dn \in DNs :
              \/ ldap'[dn] = None \/ ldap[dn] = None
              \/ ldap'[dn].uuid = ldap[dn].uuid
         /\ \A dn \in DNs : ldap'[dn] # None /\ ldap[dn] = None =>
              \A q \in Done + 1..Len(log) : log[q].dn # dn
<1> DEFINE n == Len(log)
           New == n + 1..Len(log')
<1>1. /\ n \in Nat /\ Len(log') \in Nat /\ n < Len(log')
      /\ \A p \in 1..n : log'[p] = log[p]
  BY Typing DEF Writes
<1>2. \A p \in New :
        /\ log'[p].command \in Change \cup Leave
        /\ log'[p].command \in Change =>
             ldap'[log'[p].dn] # None /\ ldap'[log'[p].dn].uuid = u
        /\ log'[p].command \in Leave => ldap'[log'[p].dn] = None
        /\ log'[p].command # "a" => ldap[log'[p].dn] # None /\ ldap[log'[p].dn].uuid = u
        /\ log'[p].command = "a" => /\ ldap[log'[p].dn] = None
                                    /\ \A q \in Done + 1..n : log[q].dn # log'[p].dn
  BY DEF Writes
<1>3. \A dn \in DNs : ldap'[dn] # ldap[dn] => \E p \in New : log'[p].dn = dn
  BY DEF Writes
<1> HIDE DEF New
<1>4. ASSUME NEW from \in Nat, NEW dn \in DNs, NEW cs, Waits(from, dn, cs)
      PROVE  Waits(from, dn, cs)'
  <2>1. PICK p \in from + 1..n : log[p].dn = dn /\ log[p].command \in cs
    BY <1>4 DEF Waits
  <2>2. p \in from + 1..Len(log') /\ log'[p] = log[p]
    BY <1>1
  <2> QED  BY <2>1, <2>2 DEF Waits
<1>5. ASSUME NEW from \in 0..n, NEW dn \in DNs, ldap'[dn] # ldap[dn]
      PROVE  /\ ldap'[dn] = None => Waits(from, dn, Leave)'
             /\ ldap'[dn] # None => Waits(from, dn, Change)'
  <2>1. PICK p \in New : log'[p].dn = dn
    BY <1>3, <1>5
  <2>2. p \in from + 1..Len(log')
    BY <1>1 DEF New
  <2>3. /\ ldap'[dn] = None => log'[p].command \in Leave
        /\ ldap'[dn] # None => log'[p].command \in Change
    BY <1>2, <2>1
  <2> QED  BY <2>1, <2>2, <2>3 DEF Waits
<1>6. ASSUME NEW dn \in DNs, ldap'[dn] # None, ldap[dn] # None
      PROVE  ldap'[dn].uuid = ldap[dn].uuid
  <2>1. CASE ldap'[dn] # ldap[dn]
    <3>1. PICK p \in New : log'[p].dn = dn
      BY <1>3, <2>1
    <3> QED  BY <1>2, <1>6, <3>1
  <2> QED  BY <2>1
<1>7. ASSUME NEW dn \in DNs, ldap'[dn] # None, ldap[dn] = None
      PROVE  \A q \in Done + 1..n : log[q].dn # dn
  <2>1. PICK p \in New : log'[p].dn = dn
    BY <1>3, <1>7
  <2> QED  BY <1>2, <1>7, <2>1
<1> QED  BY <1>4, <1>5, <1>6, <1>7

LEMMA WritesFits ==
  ASSUME Typed, Placed, Cached, NEW u, Writes(u), UNCHANGED <<master, cache, states>>,
         NEW from \in Nat, Done <= from, from <= Len(log), NEW dn \in DNs, Fits(dn, from)
  PROVE  Fits(dn, from)'
<1>1. /\ Waits(from, dn, Change) => Waits(from, dn, Change)'
      /\ Waits(from, dn, Leave) => Waits(from, dn, Leave)'
      /\ ldap'[dn] # ldap[dn] =>
           /\ ldap'[dn] = None => Waits(from, dn, Leave)'
           /\ ldap'[dn] # None => Waits(from, dn, Change)'
      /\ ldap'[dn] # None /\ ldap[dn] # None => ldap'[dn].uuid = ldap[dn].uuid
      /\ ldap'[dn] # None /\ ldap[dn] = None =>
           \A q \in Done + 1..Len(log) : log[q].dn # dn
  <2>1. from \in 0..Len(log)
    BY Typing
  <2> QED  BY <2>1, WritesWait
<1>2. dn \in Visible' <=> dn \notin Restricted /\ ldap'[dn] # None
  BY DEF Visible
<1>3. dn \in Visible <=> dn \notin Restricted /\ ldap[dn] # None
  BY DEF Visible
<1>4. cache' = cache /\ Valid(cache[dn])' = Valid(cache[dn])
  BY DEF Valid
<1>5. ldap'[dn] # None /\ ldap[dn] = None => Valid(cache[dn]) = None
  <2> SUFFICES ASSUME ldap'[dn] # None, ldap[dn] = None, Waits(from, dn, Leave)
               PROVE  FALSE
    BY <1>3 DEF Fits
  <2>1. PICK p \in from + 1..Len(log) : log[p].dn = dn
    BY DEF Waits
  <2>2. p \in Done + 1..Len(log)
    BY Typing
  <2> QED  BY <1>1, <2>1, <2>2
<1>6. (Valid(cache[dn]) # None /\ ldap[dn] # None => cache[dn].uuid = ldap[dn].uuid)'
  BY <1>1, <1>4, <1>5 DEF Fits
<1>7. (Valid(cache[dn]) # None /\ dn \notin Visible => Waits(from, dn, Leave))'
  BY <1>1, <1>2, <1>3, <1>4 DEF Fits
<1>8. ASSUME dn \in Visible'
      PROVE  \/ UpToDateAt(dn)'
             \/ Waits(from, dn, Change)'
             \/ (ldap[dn].val \in Uncached)'
             \/ (Valid(cache[dn]) = None /\ \A h \in states : ~Matches(h, ldap[dn]))'
  <2>1. CASE ldap'[dn] # ldap[dn]
    BY <1>1, <1>2, <1>8, <2>1
  <2>2. CASE ldap'[dn] = ldap[dn]
    <3>1. dn \in Visible
      BY <1>2, <1>3, <1>8, <2>2
    <3>2. UpToDateAt(dn) => UpToDateAt(dn)'
      BY <1>4, <2>2 DEF UpToDateAt
    <3>3. \A h : Matches(h, ldap[dn])' <=> Matches(h, ldap[dn])
      BY <2>2 DEF Matches
    <3> QED  BY <1>1, <1>4, <2>2, <3>1, <3>2, <3>3 DEF Fits
  <2> QED  BY <2>1, <2>2
<1> QED  BY <1>6, <1>7, <1>8 DEF Fits

\* A name that a transaction waits for is not taken.
LEMMA WritesBusy ==
  ASSUME Typed, NEW u, Writes(u), NEW dn \in DNs, ldap[dn] = None,
         NEW p \in Done + 1..Len(log), log[p].dn = dn
  PROVE  ldap'[dn] = None
BY WritesWait

LEMMA WritesSeen ==
  ASSUME Typed, Placed, NEW who, Seen(who), NEW u, Writes(u),
         UNCHANGED <<master, states, pc, id, cur, prev, found>>,
         NEW new, \A p \in 1..Len(log) : new[p] = who[p],
         \A p \in Len(log) + 1..Len(log') : new[p] = u
  PROVE  Seen(new)'
<1> SUFFICES ASSUME Updating  PROVE Seen(new)'
  BY DEF Seen, Updating, Moving
<1> DEFINE n == Len(log)
           f == found.dn
<1>1. /\ n \in Nat /\ Len(log') \in Nat /\ n < Len(log') /\ Done \in Nat /\ Done' = Done
      /\ \A p \in 1..n : log'[p] = log[p]
  BY Typing DEF Writes, Done
<1>2. /\ cur # None /\ cur.id = id /\ id \in Done + 1..n
      /\ cur.dn = log[id].dn /\ cur.dn \in DNs
  BY Typing DEF Placed, Worked, Updating, Working
<1>3. f \in DNs /\ id \in 0..n
  <2>1. found \in Found
    BY DEF Typed, TypeOK, InHand, Updating
  <2> QED  BY <1>1, <1>2, <2>1 DEF Found
<1>4. /\ IF f \in Visible
           THEN Object(found.entry) = ldap[f] \/ Waits(id, f, Change)
           ELSE Waits(id, f, Leave)
      /\ ldap[f] # None => ldap[f].uuid = found.entry.uuid
      /\ \A p \in Done + 1..n : log[p].dn = f => who[p] = found.entry.uuid
      /\ f = cur.dn \/ ldap[cur.dn] = None
  BY DEF Seen
<1>5. /\ Waits(id, f, Change) => Waits(id, f, Change)'
      /\ Waits(id, f, Leave) => Waits(id, f, Leave)'
      /\ ldap'[f] # ldap[f] =>
           /\ ldap'[f] = None => Waits(id, f, Leave)'
           /\ ldap'[f] # None => Waits(id, f, Change)'
      /\ ldap'[f] # None /\ ldap[f] # None => ldap'[f].uuid = ldap[f].uuid
  BY <1>1, <1>3, WritesWait
<1>6. f \in Visible' <=> f \notin Restricted /\ ldap'[f] # None
  BY <1>3 DEF Visible
<1>7. f \in Visible <=> f \notin Restricted /\ ldap[f] # None
  BY <1>3 DEF Visible
\* A name that has been found is not taken again.
<1>8. ASSUME ldap[f] = None  PROVE ldap'[f] = None /\ \E p \in Done + 1..n : log[p].dn = f
  <2>1. Waits(id, f, Leave)
    BY <1>4, <1>7, <1>8
  <2>2. PICK p \in id + 1..n : log[p].dn = f
    BY <2>1 DEF Waits
  <2>3. p \in Done + 1..n
    BY <1>1, <1>2, <2>2
  <2> QED  BY <1>3, <1>8, <2>2, <2>3, WritesBusy
<1>9. /\ f \in Visible' => Object(found.entry) = ldap'[f] \/ Waits(id, f, Change)'
      /\ f \notin Visible' => Waits(id, f, Leave)'
  BY <1>4, <1>5, <1>6, <1>7
<1>10. ldap'[f] # None => ldap'[f].uuid = found.entry.uuid
  BY <1>4, <1>5, <1>8
<1>11. ASSUME NEW p \in Done + 1..Len(log'), log'[p].dn = f
       PROVE  new[p] = found.entry.uuid
  <2>1. CASE p \in 1..n
    <3>1. p \in Done + 1..n /\ log'[p] = log[p] /\ new[p] = who[p]
      BY <1>1, <2>1
    <3> QED  BY <1>4, <1>11, <3>1
  <2>2. CASE p \in n + 1..Len(log')
    <3>1. log'[p].command # "a" => ldap[f] # None /\ ldap[f].uuid = u
      BY <1>11, <2>2 DEF Writes
    <3>2. log'[p].command = "a" =>
            ldap[f] = None /\ \A q \in Done + 1..n : log[q].dn # f
      BY <1>11, <2>2 DEF Writes
    <3> QED  BY <1>4, <1>8, <2>2, <3>1, <3>2
  <2> QED  BY <1>1, <2>1, <2>2
<1>12. f = cur.dn \/ ldap'[cur.dn] = None
  BY <1>2, <1>4, WritesBusy
<1>13. /\ prev # None => f # prev.dn
       /\ log[id].command \in Change /\ log'[id] = log[id]
       /\ pc # "store" => found.entry.modules = {}
       /\ pc \in {"update", "store"} /\ prev # None => f = cur.dn
       /\ pc = "store" => \A h \in states \ MayFail :
            Matches(h, found.entry) => h \in found.entry.modules
  BY <1>1, <1>2 DEF Seen
<1>14. \A h : Matches(h, found.entry)' <=> Matches(h, found.entry)
  BY DEF Matches
<1> QED  BY <1>1, <1>9, <1>10, <1>11, <1>12, <1>13, <1>14 DEF Seen, Updating

LEMMA WritesLoading ==
  ASSUME Typed, Placed, Loading, NEW u, Writes(u),
         UNCHANGED <<disk, loaded, pc, id, cur, prev, found>>
  PROVE  Loading'
<1>1. /\ Len(log) \in Nat /\ Done \in Nat /\ Done \in 0..Len(log) /\ Done' = Done
      /\ cache' = cache /\ master' = master
      /\ states' = states /\ ready' = ready /\ pending' = pending /\ import' = import
  BY Typing DEF Placed, Done, disk, loaded
<1>2. ASSUME NEW dn \in Visible', pc = "import", dn \notin import.names,
             import.rv # "other"
      PROVE  Imported(dn)'
  <2>1. /\ dn \in DNs /\ ldap'[dn] # None
        /\ ldap[dn] # None => dn \in Visible
    BY DEF Visible
  <2>2. PICK done \in 0..Len(log) : done = Done
    BY <1>1
  <2>3. /\ Waits(done, dn, Change) => Waits(done, dn, Change)'
        /\ ldap'[dn] # ldap[dn] => Waits(done, dn, Change)'
    BY <1>1, <2>1, WritesWait
  <2>4. Waits(Done, dn, Change)' <=> Waits(done, dn, Change)'
    BY <1>1, <2>2 DEF Waits
  <2>5. CASE ldap'[dn] # ldap[dn]
    BY <2>3, <2>4, <2>5 DEF Imported
  <2>6. CASE ldap'[dn] = ldap[dn]
    <3>1. dn \in Visible /\ Imported(dn)
      BY <1>2, <2>1, <2>6 DEF Loading
    <3> QED  BY <1>1, <2>2, <2>3, <2>4, <2>6, <3>1 DEF Imported, Matches, Valid
  <2> QED  BY <2>5, <2>6
<1> QED  BY <1>1, <1>2 DEF Loading, Importing, Served

LEMMA SlapdFollowing ==
  ASSUME Typed, Typed', Undisturbed, NEW who, Following(who), Slapd
  PROVE  \E new : Following(new)'
<1>1. /\ Directory /\ Attributed(who) /\ Cached /\ Loading
      /\ Placed /\ Stashed(who) /\ AtHand(who) /\ Seen(who)
  BY DEF Following
<1>2. PICK u : /\ Writes(u)
               /\ UNCHANGED <<disk, loaded, pc, id, cur, prev, found, crashes, severed>>
  BY <1>1, SlapdWrites
<1>3. /\ UNCHANGED <<master, cache, states, ready, pending, import>>
      /\ pc' = pc /\ id' = id /\ cur' = cur /\ prev' = prev /\ found' = found
  BY <1>2 DEF disk, loaded
<1>4. PICK new : /\ Attributed(new)'
                 /\ \A p \in 1..Len(log) : new[p] = who[p]
                 /\ \A p \in Len(log) + 1..Len(log') : new[p] = u
  BY <1>1, <1>2, <1>3, WritesAttributed
<1>5. /\ Len(log) \in Nat /\ Len(log') \in Nat /\ Len(log) < Len(log')
      /\ \A p \in 1..Len(log) : log'[p] = log[p]
      /\ Done \in Nat /\ Done' = Done
  BY <1>2, <1>3, Typing DEF Writes, Done
<1>6. Directory'
  BY <1>1, <1>2, <1>3, WritesDirectory
<1>7. /\ Finished' = Finished /\ Worked' = Worked /\ Between' = Between
      /\ Searching' = Searching /\ Deleting' = Deleting /\ Handled' = Handled
  BY <1>3, <1>5 DEF Finished, Worked, Between, Searching, Deleting, Handled
<1>8. Cached'
  <2> SUFFICES ASSUME NEW dn \in DNs  PROVE Fits(dn, Handled)'
    BY DEF Cached
  <2>1. PICK h \in Nat : h = Handled /\ Done <= h /\ h <= Len(log)
    BY <1>1, HandledType
  <2>2. Fits(dn, h)
    BY <1>1, <2>1 DEF Cached
  <2>3. Fits(dn, h)'
    BY <1>1, <1>2, <1>3, <2>1, <2>2, WritesFits
  <2>4. h = Handled'
    BY <1>7, <2>1
  <2> QED  BY <2>3, <2>4 DEF Fits
<1>9. Loading'
  BY <1>1, <1>2, WritesLoading
<1>10. Placed'
  BY <1>1, <1>3, <1>5, <1>7 DEF Placed
<1>11. Worked => id \in Done + 1..Len(log) /\ id \in 1..Len(log) /\ cur.dn = log[id].dn
                 /\ cur.dn \in DNs
  BY <1>1, <1>5, Typing DEF Placed
<1>12. Stashed(new)'
  <2> SUFFICES ASSUME prev # None, pc # "exit"  PROVE Stashed(new)'
    BY <1>3 DEF Stashed
  <2>1. /\ prev.id \in 1..Len(log) /\ new[prev.id] = who[prev.id]
        /\ log'[prev.id] = log[prev.id]
    BY <1>1, <1>4, <1>5 DEF Stashed
  <2>2. Between \/ pc = "search" => \E dn \in Visible' : ldap'[dn].uuid = prev.uuid
    <3>1. ASSUME NEW dn \in Visible  PROVE \E e \in Visible' : ldap'[e].uuid = ldap[dn].uuid
      BY <1>2 DEF Writes
    <3> QED  BY <1>1, <3>1 DEF Stashed
  <2>3. Worked => log'[id] = log[id]
    BY <1>5, <1>11
  <2> QED  BY <1>1, <1>3, <1>5, <1>7, <2>1, <2>2, <2>3 DEF Stashed
<1>13. AtHand(new)'
  <2>1. (Searching \/ Deleting \/ pc \in Moving) => Worked
    BY DEF Searching, Deleting, Worked, Working, Moving
  <2>2. Worked => new[id] = who[id]
    BY <1>4, <1>11
  <2>3. Deleting => cur.dn \notin Visible'
    <3> SUFFICES ASSUME Deleting, cur.dn \in Visible'  PROVE FALSE
      OBVIOUS
    <3>1. cur.dn \in DNs /\ cur.dn \notin Restricted /\ ldap'[cur.dn] # None
      BY DEF Visible
    <3>2. ldap[cur.dn] = None
      BY <1>1, <3>1 DEF AtHand, Visible
    <3> QED  BY <1>2, <1>11, <2>1, <3>1, <3>2, WritesBusy
  <2>5. Valid(cache[cur.dn])' = Valid(cache[cur.dn])
    BY <1>3 DEF Valid
  <2> QED  BY <1>1, <1>3, <1>7, <2>1, <2>2, <2>3, <2>5 DEF AtHand
<1>14. Seen(new)'
  BY <1>1, <1>2, <1>3, <1>4, WritesSeen
<1> QED  BY <1>4, <1>6, <1>8, <1>9, <1>10, <1>12, <1>13, <1>14 DEF Following

-----------------------------------------------------------------------------
(* notifier_listen *)

\* Of a step that neither changes the cache nor does a transaction.
LEMMA Kept ==
  ASSUME Typed, Typed', Placed, Placed', Directory, NEW who, Attributed(who), Cached,
         UNCHANGED <<slapd, cache>>, states' \subseteq states,
         Done <= Done', Handled' <= Handled
  PROVE  Directory' /\ Attributed(who)' /\ Cached'
<1>1. Done' \in Nat
  BY DoneTypeNext
<1>2. Directory'
  BY <1>1, DirectoryKept
<1>3. Attributed(who)'
  BY <1>1, AttributedKept
<1>4. Cached'
  BY CachedKept
<1> QED  BY <1>2, <1>3, <1>4

\* Of a step of notifier_listen.
LEMMA LoadingKept ==
  ASSUME Loading, UNCHANGED <<slapd, states, ready>>,
         master' = master \/ master' \in Nat,
         pc \notin {"exit", "init", "search_module", "import"},
         pc' \notin {"init", "search_module", "import"}
  PROVE  Loading'
BY NoneAssumption DEF Loading, Importing, Served, NoneAssumption

\* Of a step that is in the middle of a transaction, before and after.
LEMMA PlaceKept ==
  ASSUME Typed, Placed, pc \in Working, pc' \in Working \cup {"finish"},
         UNCHANGED <<slapd, master, id, prev>>, cur' # None,
         cur'.id = cur.id, cur'.command = cur.command, cur'.dn = cur.dn
  PROVE  /\ Placed'
         /\ Handled = Done
         /\ Handled' = IF pc' = "finish" THEN id ELSE Done
         /\ Done' = Done
<1>1. log' = log /\ Done' = Done /\ master' = master /\ id' = id /\ prev' = prev
  BY DEF slapd, Done
<1>2. ~Finished /\ Worked /\ Worked' /\ ~Between /\ ~Between'
  BY DEF Finished, Worked, Between, Working, Moving
<1>3. pc' # "finish" => ~Finished'
  BY DEF Finished, Working, Moving
<1>4. pc' = "finish" => Finished'
  BY DEF Finished
<1> QED  BY <1>1, <1>2, <1>3, <1>4 DEF Placed, Handled, Working, Moving

LEMMA FetchFollowing ==
  ASSUME Typed, Typed', NEW who, Following(who), Fetch
  PROVE  Following(who)'
<1> DEFINE t == log[id + 1]
           cached == Valid(cache[t.dn])
           op == [id |-> id + 1, command |-> t.command, dn |-> t.dn,
                  uuid |-> None, cache |-> cached]
           history == prev # None /\ prev.cache # None
<1>1. /\ Directory /\ Attributed(who) /\ Cached /\ Loading /\ Placed /\ Stashed(who)
  BY DEF Following
<1>2. /\ pc = "listen" /\ id < Len(log) /\ id' = id + 1
      /\ cur' = IF prev = None /\ cached # None
                    THEN [op EXCEPT !.uuid = cached.uuid]
                  ELSE IF history
                    THEN [op EXCEPT !.uuid = prev.uuid, !.cache = prev.cache]
                  ELSE op
      /\ pc' = IF history /\ ~IsMove(op) THEN "exit" ELSE "search"
      /\ UNCHANGED <<slapd, disk, loaded, prev, found, crashes, severed>>
  BY Zenon DEF Fetch
<1>3. /\ log' = log /\ cache' = cache /\ master' = master /\ states' = states
      /\ ready' = ready /\ prev' = prev /\ found' = found /\ ldap' = ldap
      /\ Visible' = Visible /\ Done' = Done
  BY <1>2 DEF slapd, disk, loaded, Visible, Done
<1>4. /\ Done \in Nat /\ id \in Nat /\ Len(log) \in Nat
      /\ id + 1 \in Done + 1..Len(log) /\ id + 1 \in 1..Len(log)
      /\ id = Done + IF prev = None THEN 0 ELSE 1
  BY <1>1, <1>2, Typing DEF Placed, Between
<1>5. /\ ~Finished /\ ~Finished' /\ ~Worked /\ Between /\ ~Between' /\ ~Deleting'
      /\ (Worked' <=> pc' = "search") /\ (Searching' <=> pc' = "search")
      /\ ~Updating' /\ pc' \notin Moving /\ pc' \in {"search", "exit"}
  BY <1>2 DEF Finished, Worked, Between, Deleting, Searching, Updating, Working, Moving
<1>6. /\ cur'.id = id + 1 /\ cur'.command = t.command /\ cur'.dn = t.dn
      /\ prev = None => cur'.cache = cached
      /\ prev = None /\ cached # None => cur'.uuid = cached.uuid
      /\ prev = None /\ cached = None => cur'.uuid = None
      /\ history => cur'.cache = prev.cache /\ cur'.uuid = prev.uuid
  BY <1>2
<1>7. pc' = "search" => cur' # None
  BY DEF Typed, InHand, Working
<1>8. Placed'
  BY <1>2, <1>3, <1>4, <1>5, <1>6, <1>7 DEF Placed
<1>9. Handled = Done /\ Handled' = Done
  BY <1>3, <1>5 DEF Handled
<1>10. Directory' /\ Attributed(who)' /\ Cached'
  BY <1>1, <1>2, <1>3, <1>4, <1>8, <1>9, Kept
<1>11. Loading'
  BY <1>1, <1>2, <1>3, <1>5, LoadingKept
\* The 'a' that follows an 'r' is about the same object.
<1>12. prev # None =>
         /\ history /\ prev.id = id /\ who[id + 1] = prev.uuid
         /\ prev.cache.uuid = prev.uuid /\ cache[prev.dn] = prev.cache
         /\ \E dn \in Visible : ldap[dn].uuid = prev.uuid
  BY <1>1, <1>2, <1>4, <1>5 DEF Stashed, Attributed
<1>13. Stashed(who)'
  <2> SUFFICES ASSUME prev # None, pc' = "search"  PROVE Stashed(who)'
    BY <1>3, <1>5 DEF Stashed
  <2>1. t.command = "a"
    BY <1>2, <1>12 DEF IsMove
  <2> QED  BY <1>1, <1>2, <1>3, <1>4, <1>5, <1>12, <2>1 DEF Stashed
<1>14. AtHand(who)'
  <2> SUFFICES ASSUME pc' = "search"  PROVE AtHand(who)'
    BY <1>5 DEF AtHand
  <2>1. prev = None /\ cached # None => cached = cache[t.dn] /\ cached.uuid = who[id + 1]
    BY <1>1, <1>4 DEF Attributed, Valid
  <2>2. prev # None => prev.uuid # None
    BY <1>1, <1>4, <1>12, NoneAssumption DEF Attributed, NoneAssumption
  <2>3. cur'.uuid # None =>
          cur'.cache # None /\ cur'.uuid = who[id + 1] /\ cur'.cache.uuid = cur'.uuid
    <3>1. CASE prev = None
      BY <1>6, <2>1, <3>1
    <3>2. CASE prev # None
      BY <1>6, <1>12, <3>2
    <3> QED  BY <3>1, <3>2
  <2>4. prev = None => cur'.cache = Valid(cache[cur'.dn])
    BY <1>6
  <2>5. prev # None => cur'.uuid # None /\ cur'.cache = prev.cache
    BY <1>6, <1>12, <2>2
  <2> QED  BY <1>2, <1>3, <1>5, <2>3, <2>4, <2>5 DEF AtHand, Valid
<1>15. Seen(who)'
  BY <1>5 DEF Seen
<1> QED  BY <1>8, <1>10, <1>11, <1>13, <1>14, <1>15 DEF Following

\* What a transaction that is worked on is about.
LEMMA AtWorkOn ==
  ASSUME Typed, Directory, Placed, NEW who, Attributed(who),
         Worked, pc \notin {"write_cur", "commit"}
  PROVE  /\ cur # None /\ cur.dn \in DNs /\ cur.dn = log[id].dn
         /\ cur.command = log[id].command
         /\ id \in Done + 1..Len(log) /\ id \in 1..Len(log) /\ Done \in Nat
         /\ id = Done + IF prev = None THEN 1 ELSE 2
         /\ cur.command \in Change \cup Leave
         /\ cur.command \in Leave => ldap[cur.dn] = None
         /\ ldap[cur.dn] # None => ldap[cur.dn].uuid = who[id]
BY Typing DEF Placed, Directory, NotTakenAgain, Attributed

\* ... and what the transaction before is about, if it is an 'r'.
LEMMA StashedIsGone ==
  ASSUME Typed, Directory, Placed, NEW who, Attributed(who), Stashed(who),
         Worked, prev # None, pc \notin {"write_cur", "commit"}
  PROVE  /\ prev.dn \in DNs /\ prev.dn = log[Done + 1].dn /\ Done + 1 \in Done + 1..Len(log)
         /\ ldap[prev.dn] = None /\ prev.dn # cur.dn
         /\ log[id].command = "a" /\ cur.command = "a"
         /\ who[id] = prev.uuid /\ prev.id + 1 = id /\ prev.cache # None
         /\ prev.uuid # None
<1>1. pc # "exit"
  BY DEF Worked, Working, Moving, Finished
<1>2. /\ prev.id = Done + 1 /\ prev.id <= Len(log)
      /\ log[prev.id].command = "r" /\ prev.dn = log[prev.id].dn
      /\ prev.cache # None /\ prev.uuid = who[prev.id] /\ log[id].command = "a"
  BY <1>1 DEF Stashed
<1>3. /\ id \in Done + 1..Len(log) /\ id = Done + 2 /\ cur.dn = log[id].dn
      /\ cur.command = log[id].command
      /\ Done \in Nat /\ Len(log) \in Nat
  BY Typing DEF Placed
<1>4. Done + 1 \in Done + 1..Len(log) /\ Done + 1 \in 1..Len(log) /\ Done + 1 \in 1..Len(log) - 1
  BY <1>3
<1>5. prev.dn \in DNs /\ ldap[prev.dn] = None
  BY <1>2, <1>4, Typing DEF Directory, NotTakenAgain, Leave
<1>6. prev.dn # cur.dn
  BY <1>2, <1>3, <1>4 DEF Directory, AddedFirst
<1>7. who[id] = prev.uuid /\ prev.uuid \in Nat
  BY <1>2, <1>3, <1>4 DEF Attributed
<1> QED  BY <1>2, <1>3, <1>4, <1>5, <1>6, <1>7, NoneAssumption DEF NoneAssumption

\* An object that is looked for is not at two names.
LEMMA ElsewhereIsGone ==
  ASSUME Typed, Directory, Placed, NEW who, Attributed(who),
         Worked, pc \notin {"write_cur", "commit"},
         NEW dn \in DNs, ldap[dn] # None, ldap[dn].uuid = who[id], dn # cur.dn
  PROVE  ldap[cur.dn] = None
BY AtWorkOn DEF Directory, OneName

\* A name that is gone although the transaction is not about its end.
LEMMA GoneIsWaitedFor ==
  ASSUME Typed, Directory, Placed, Worked, log[id].command \in Change,
         NEW dn, dn = log[id].dn, ldap[dn] = None
  PROVE  Waits(id, dn, Leave)
<1>1. id \in Done + 1..Len(log) /\ id \in Nat
  BY Typing DEF Placed
<1>2. PICK q \in id..Len(log) : log[q].dn = dn /\ log[q].command \in Leave
  BY <1>1 DEF Directory, LeftInTheEnd
<1>3. q # id
  BY <1>2 DEF Change, Leave
<1> QED  BY <1>1, <1>2, <1>3, Typing DEF Waits

LEMMA FitsGone ==
  ASSUME NEW from, NEW dn, ldap[dn] = None,
         Valid(cache[dn]) = None \/ Waits(from, dn, Leave)
  PROVE  Fits(dn, from)
BY DEF Fits, Visible

\* The names that the transaction at hand is not about.
LEMMA FitsOthers ==
  ASSUME Typed, Directory, Placed, NEW who, Attributed(who), Stashed(who),
         Worked, pc \notin {"write_cur", "commit"},
         NEW dn, Fits(dn, Done), dn # cur.dn, prev # None => dn # prev.dn
  PROVE  Fits(dn, id)
<1>1. /\ id \in Nat /\ Done \in Nat /\ Done <= id /\ Len(log) \in Nat
      /\ id = Done + IF prev = None THEN 1 ELSE 2
      /\ cur.dn = log[id].dn
  BY AtWorkOn, Typing
<1>2. prev # None => prev.dn = log[Done + 1].dn
  BY StashedIsGone
<1>3. \A p \in Done + 1..id : p = id \/ (prev # None /\ p = Done + 1)
  BY <1>1
<1>4. \A p \in Done + 1..id : log[p].dn # dn
  BY <1>1, <1>2, <1>3
<1> QED  BY <1>1, <1>4, FitsLater

\* The object the transaction is about is at dn.
LEMMA FoundIt ==
  ASSUME Typed, NEW who, Following(who), Searching, NEW dn \in Visible,
         dn = cur.dn \/ (cur.uuid # None /\ ldap[dn].uuid = cur.uuid)
  PROVE  /\ dn \in DNs /\ ldap[dn] \in Objects /\ ldap[dn] # None
         /\ ldap[dn].uuid = who[id]
         /\ dn # cur.dn => ldap[cur.dn] = None
         /\ dn = cur.dn => log[id].command \in Change
         /\ dn # cur.dn => cur.uuid # None
         /\ prev # None => pc = "search" /\ cur.uuid # None /\ dn # prev.dn
         /\ cur.uuid # None =>
              cur.cache # None /\ cur.uuid = who[id] /\ cur.cache.uuid = who[id]
<1>1. /\ Directory /\ Attributed(who) /\ Placed /\ Stashed(who) /\ AtHand(who)
      /\ Worked /\ pc \notin {"write_cur", "commit", "exit"}
  BY DEF Following, Searching, Worked, Working
<1>2. dn \in DNs /\ ldap[dn] # None /\ ldap[dn] \in Objects
  BY Typing DEF Visible
<1>3. /\ cur.uuid # None =>
           cur.cache # None /\ cur.uuid = who[id] /\ cur.cache.uuid = who[id]
      /\ prev # None => cur.uuid # None /\ pc = "search"
  BY <1>1 DEF AtHand, Stashed, Searching
<1>4. ldap[dn].uuid = who[id]
  BY <1>1, <1>2, <1>3, AtWorkOn
<1>5. dn # cur.dn => ldap[cur.dn] = None
  BY <1>1, <1>2, <1>4, ElsewhereIsGone
<1>6. dn = cur.dn => log[id].command \in Change
  BY <1>1, <1>2, AtWorkOn
<1>7. prev # None => dn # prev.dn
  BY <1>1, <1>2, StashedIsGone
<1> QED  BY <1>2, <1>3, <1>4, <1>5, <1>6, <1>7

\* change_update_cache: the object is there, or has been moved on.
LEMMA UpdateFollowing ==
  ASSUME Typed, Typed', NEW who, Following(who), Searching, NEW dn \in Visible,
         dn = cur.dn \/ (cur.uuid # None /\ ldap[dn].uuid = cur.uuid),
         UNCHANGED <<slapd, disk, loaded, id, crashes, severed, cur, prev>>,
         found' = [dn |-> dn, entry |-> Entry(ldap[dn], {})],
         log[id].command \in Change,
         pc' = IF prev # None THEN "move" ELSE "update"
  PROVE  Following(who)'
<1>1. /\ Directory /\ Attributed(who) /\ Placed /\ Stashed(who) /\ AtHand(who)
      /\ Cached /\ Loading
      /\ Worked /\ pc \notin {"write_cur", "commit", "exit"} /\ pc \in {"search", "retry_dn"}
  BY DEF Following, Searching, Worked, Working
<1>2. /\ log' = log /\ cache' = cache /\ master' = master /\ states' = states
      /\ ready' = ready /\ prev' = prev /\ cur' = cur /\ id' = id /\ ldap' = ldap
      /\ Visible' = Visible
  BY DEF slapd, disk, loaded, Visible
<1>3. /\ dn \in DNs /\ ldap[dn] \in Objects /\ ldap[dn] # None
      /\ ldap[dn].uuid = who[id]
      /\ dn # cur.dn => ldap[cur.dn] = None
      /\ prev # None => pc = "search" /\ cur.uuid # None /\ dn # prev.dn
      /\ cur.uuid # None => cur.cache # None /\ cur.cache.uuid = who[id]
  BY FoundIt
<1>4. /\ Placed' /\ Handled = Done /\ Handled' = Done /\ Done' = Done
  <2>1. pc \in Working /\ pc' \in Working \cup {"finish"} /\ pc' # "finish"
    BY <1>1 DEF Working, Moving
  <2>2. cur' # None /\ cur'.id = cur.id /\ cur'.command = cur.command /\ cur'.dn = cur.dn
    BY <1>1, <1>2 DEF Placed
  <2> QED  BY <1>1, <1>2, <2>1, <2>2, PlaceKept
<1>5. Directory' /\ Attributed(who)' /\ Cached'
  <2>1. Done \in Nat
    BY Typing
  <2> QED  BY <1>1, <1>2, <1>4, <2>1, Kept
<1>6. Loading'
  BY <1>1, <1>2, LoadingKept
<1>7. Stashed(who)'
  <2>1. /\ ~Deleting' /\ ~Between' /\ Worked' /\ (prev # None => pc' = "move")
        /\ (pc' = "move" => prev # None) /\ pc' \notin {"exit", "retry_dn", "search"}
    BY <1>1 DEF Deleting, Between, Worked, Working, Moving
  <2> QED  BY <1>1, <1>2, <1>3, <1>4, <2>1 DEF Stashed
<1>8. AtHand(who)'
  <2>1. ~Searching' /\ ~Deleting' /\ (pc' \in Moving <=> prev # None)
        /\ pc' \notin {"search", "move_from", "move_to"}
    BY DEF Searching, Deleting, Moving
  <2>2. prev # None => cur.cache = prev.cache
    BY <1>1, <1>3 DEF AtHand
  <2> QED  BY <1>2, <1>3, <2>1, <2>2 DEF AtHand
<1>9. Seen(who)'
  <2>1. /\ found'.dn = dn /\ found'.entry = Entry(ldap[dn], {})
        /\ Object(Entry(ldap[dn], {})) = ldap[dn]
        /\ Entry(ldap[dn], {}).uuid = ldap[dn].uuid
        /\ Entry(ldap[dn], {}).modules = {}
    BY <1>3 DEF Entry, Object, Objects
  <2>2. \A p \in Done + 1..Len(log) : log[p].dn = dn => who[p] = ldap[dn].uuid
    BY <1>1, <1>3 DEF Attributed
  <2>3. /\ pc' # "store" /\ (pc' \in {"update", "store"} <=> prev = None)
    OBVIOUS
  <2> QED  BY <1>2, <1>3, <1>4, <2>1, <2>2, <2>3 DEF Seen
<1> QED  BY <1>4, <1>5, <1>6, <1>7, <1>8, <1>9 DEF Following

\* An object that has been moved on is left to the transactions about the move.
LEMMA ElsewhereFollowing ==
  ASSUME Typed, Typed', NEW who, Following(who), Searching, NEW dn \in Visible,
         dn # cur.dn, cur.uuid # None, ldap[dn].uuid = cur.uuid,
         UNCHANGED <<slapd, disk, loaded, id, crashes, severed, cur, prev>>,
         log[id].command = "m", pc' = "finish"
  PROVE  Following(who)'
<1>1. /\ Directory /\ Attributed(who) /\ Placed /\ Stashed(who) /\ AtHand(who)
      /\ Cached /\ Loading
      /\ Worked /\ pc \notin {"write_cur", "commit", "exit"} /\ pc \in {"search", "retry_dn"}
  BY DEF Following, Searching, Worked, Working
<1>2. /\ log' = log /\ cache' = cache /\ master' = master /\ states' = states
      /\ ready' = ready /\ prev' = prev /\ cur' = cur /\ id' = id /\ ldap' = ldap
      /\ Visible' = Visible
  BY DEF slapd, disk, loaded, Visible
<1>3. prev = None
  BY <1>1, StashedIsGone
<1>4. /\ Placed' /\ Handled = Done /\ Handled' = id /\ Done' = Done /\ id \in Nat
  <2>1. pc \in Working /\ pc' \in Working \cup {"finish"}
    BY <1>1 DEF Working, Moving
  <2>2. cur' # None /\ cur'.id = cur.id /\ cur'.command = cur.command /\ cur'.dn = cur.dn
    BY <1>1, <1>2 DEF Placed
  <2> QED  BY <1>1, <1>2, <2>1, <2>2, PlaceKept, Typing
<1>5. Directory' /\ Attributed(who)'
  <2>1. Done \in Nat
    BY Typing
  <2> QED  BY <1>1, <1>2, <1>4, <2>1, DirectoryKept, AttributedKept
<1>6. Cached'
  <2> SUFFICES ASSUME NEW d \in DNs  PROVE Fits(d, Handled)'
    BY DEF Cached
  <2>1. Fits(d, Done)
    BY <1>1, <1>4 DEF Cached
  <2>2. PICK i \in Nat : i = id
    BY <1>4
  <2>3. CASE d = cur.dn
    <3>1. ldap[d] = None /\ d = log[id].dn
      BY <1>1, <2>3, FoundIt, AtWorkOn
    <3>2. Waits(id, d, Leave)
      BY <1>1, <3>1, GoneIsWaitedFor DEF Change
    <3>3. Fits(d, i)
      BY <2>2, <3>1, <3>2, FitsGone
    <3>4. Fits(d, i)'
      BY <1>2, <3>3, FitsKept
    <3> QED  BY <1>4, <1>2, <2>2, <3>4 DEF Fits
  <2>4. CASE d # cur.dn
    <3>1. Fits(d, i)
      BY <1>1, <1>3, <2>1, <2>2, <2>4, FitsOthers
    <3>2. Fits(d, i)'
      BY <1>2, <3>1, FitsKept
    <3> QED  BY <1>4, <1>2, <2>2, <3>2 DEF Fits
  <2> QED  BY <2>3, <2>4
<1>7. Loading'
  BY <1>1, <1>2, LoadingKept
<1>8. Stashed(who)' /\ AtHand(who)' /\ Seen(who)'
  BY <1>2, <1>3 DEF Stashed, AtHand, Seen, Searching, Deleting, Moving, Updating
<1> QED  BY <1>4, <1>5, <1>6, <1>7, <1>8 DEF Following

\* The object is not there: either LDAP says so or the transaction.
LEMMA GoneFollowing ==
  ASSUME Typed, Typed', NEW who, Following(who), Searching, prev = None,
         UNCHANGED <<slapd, disk, loaded, id, crashes, severed, cur, prev>>,
         \/ pc' = "delete" /\ cur.dn \notin Visible
         \/ pc' = "retry_dn"
  PROVE  Following(who)'
<1>1. /\ Directory /\ Attributed(who) /\ Placed /\ Stashed(who) /\ AtHand(who)
      /\ Cached /\ Loading
      /\ Worked /\ pc \notin {"write_cur", "commit", "exit"} /\ pc \in {"search", "retry_dn"}
  BY DEF Following, Searching, Worked, Working
<1>2. /\ log' = log /\ cache' = cache /\ master' = master /\ states' = states
      /\ ready' = ready /\ prev' = prev /\ cur' = cur /\ id' = id /\ ldap' = ldap
      /\ Visible' = Visible
  BY DEF slapd, disk, loaded, Visible
<1>3. /\ Placed' /\ Handled = Done /\ Handled' = Done /\ Done' = Done
  <2>1. pc \in Working /\ pc' \in Working \cup {"finish"} /\ pc' # "finish"
    BY <1>1 DEF Working, Moving
  <2>2. cur' # None /\ cur'.id = cur.id /\ cur'.command = cur.command /\ cur'.dn = cur.dn
    BY <1>1, <1>2 DEF Placed
  <2> QED  BY <1>1, <1>2, <2>1, <2>2, PlaceKept
<1>4. Directory' /\ Attributed(who)' /\ Cached'
  <2>1. Done \in Nat
    BY Typing
  <2> QED  BY <1>1, <1>2, <1>3, <2>1, Kept
<1>5. Loading'
  BY <1>1, <1>2, LoadingKept
<1>6. Stashed(who)' /\ Seen(who)'
  BY <1>2 DEF Stashed, Seen, Moving, Updating
<1>7. AtHand(who)'
  <2>1. pc' \notin Moving /\ (Deleting' => pc' = "delete")
    BY DEF Moving, Deleting
  <2> QED  BY <1>1, <1>2, <2>1 DEF AtHand, Searching, Valid
<1> QED  BY <1>3, <1>4, <1>5, <1>6, <1>7 DEF Following

\* The 'r' of an object that has been found is kept for its 'a'.
LEMMA StashFollowing ==
  ASSUME Typed, Typed', NEW who, Following(who), Searching, NEW dn \in Visible,
         dn = cur.dn \/ (cur.uuid # None /\ ldap[dn].uuid = cur.uuid),
         UNCHANGED <<slapd, disk, loaded, id, crashes, severed>>,
         log[id].command = "r", prev' = cur, cur' = None, pc' = "finish"
  PROVE  Following(who)'
<1>1. /\ Directory /\ Attributed(who) /\ Placed /\ Stashed(who) /\ AtHand(who)
      /\ Cached /\ Loading
      /\ Worked /\ pc \notin {"write_cur", "commit", "exit"} /\ pc \in {"search", "retry_dn"}
  BY DEF Following, Searching, Worked, Working
<1>2. /\ log' = log /\ cache' = cache /\ master' = master /\ states' = states
      /\ ready' = ready /\ id' = id /\ ldap' = ldap
      /\ Visible' = Visible /\ Done' = Done
  BY DEF slapd, disk, loaded, Visible, Done
<1>3. prev = None
  BY <1>1, StashedIsGone
<1>4. /\ cur # None /\ cur.dn = log[id].dn /\ cur.command = log[id].command
      /\ cur.id = id /\ id = Done + 1 /\ id \in Done + 1..Len(log)
      /\ id \in Nat /\ Done \in Nat
  BY <1>1, <1>3, AtWorkOn, Typing DEF Placed
<1>5. /\ ~Finished /\ ~Finished' /\ ~Worked' /\ Between' /\ ~Deleting' /\ ~Searching'
      /\ ~Updating' /\ pc' \notin Moving
  BY <1>1 DEF Finished, Worked, Between, Deleting, Searching, Updating, Working, Moving
<1>6. Placed'
  BY <1>1, <1>2, <1>4, <1>5 DEF Placed
<1>7. Handled = Done /\ Handled' = Done
  BY <1>2, <1>5 DEF Handled
<1>8. Directory' /\ Attributed(who)' /\ Cached'
  BY <1>1, <1>2, <1>4, <1>6, <1>7, Kept
<1>9. Loading'
  BY <1>1, <1>2, LoadingKept
\* Since the name is free the object has been found by its entryUUID.
<1>10. /\ dn # cur.dn /\ cur.uuid # None /\ cur.cache # None
       /\ cur.uuid = who[id] /\ cur.cache.uuid = cur.uuid /\ ldap[dn].uuid = cur.uuid
  BY FoundIt DEF Change
<1>11. cache[cur.dn] = cur.cache
  <2>1. cur.cache = Valid(cache[cur.dn])
    BY <1>1, <1>3 DEF AtHand, Searching
  <2> QED  BY <1>10, <2>1 DEF Valid
<1>12. Stashed(who)'
  BY <1>2, <1>4, <1>5, <1>10, <1>11 DEF Stashed
<1>13. AtHand(who)' /\ Seen(who)'
  BY <1>5 DEF AtHand, Seen, Moving
<1> QED  BY <1>6, <1>8, <1>9, <1>12, <1>13 DEF Following

LEMMA SearchFollowing ==
  ASSUME Typed, Typed', NEW who, Following(who), SearchUuid \/ SearchDn
  PROVE  Following(who)'
<1>1. /\ Directory /\ Attributed(who) /\ Placed /\ Stashed(who) /\ AtHand(who)
  BY DEF Following
<1>2. Searching /\ Worked /\ pc \notin {"write_cur", "commit", "exit"}
  BY DEF SearchUuid, SearchDn, Searching, Worked, Working
<1>3. UNCHANGED <<slapd, disk, loaded, id, crashes, severed>>
  BY DEF SearchUuid, SearchDn
<1>4. /\ cur.command = log[id].command /\ id = Done + IF prev = None THEN 1 ELSE 2
      /\ id \in 1..Len(log) /\ Done \in Nat
  BY <1>1, <1>2, AtWorkOn
<1>5. /\ prev # None =>
           /\ log[id].command = "a" /\ IsMove(cur) /\ prev.cache # None /\ pc = "search"
           /\ cur.uuid # None /\ \E dn \in Visible : ldap[dn].uuid = cur.uuid
  <2> SUFFICES ASSUME prev # None
               PROVE  /\ log[id].command = "a" /\ IsMove(cur) /\ prev.cache # None
                      /\ pc = "search" /\ cur.uuid # None
                      /\ \E dn \in Visible : ldap[dn].uuid = cur.uuid
    OBVIOUS
  <2>1. /\ log[id].command = "a" /\ cur.command = "a" /\ who[id] = prev.uuid
        /\ prev.id + 1 = id /\ prev.cache # None
    BY <1>1, <1>2, StashedIsGone
  <2>2. pc = "search" /\ cur.uuid # None /\ cur.uuid = who[id]
    BY <1>1, <1>2 DEF AtHand, Stashed, Searching
  <2>3. \E dn \in Visible : ldap[dn].uuid = prev.uuid
    BY <1>1, <1>2, <2>2 DEF Stashed
  <2>4. cur.id = id
    BY <1>1, <1>2 DEF Placed
  <2> QED  BY <2>1, <2>2, <2>3, <2>4 DEF IsMove
<1>6. ASSUME NEW dn \in Visible, Dispatch(dn),
             dn = cur.dn \/ (cur.uuid # None /\ ldap[dn].uuid = cur.uuid)
      PROVE  Following(who)'
  <2>1. /\ found' = [dn |-> dn, entry |-> Entry(ldap[dn], {})]
        /\ \/ /\ cur.command = "m"
              /\ pc' = IF dn = cur.dn THEN "update" ELSE "finish"
              /\ UNCHANGED <<cur, prev>>
           \/ /\ cur.command = "a"
              /\ pc' = IF IsMove(cur) /\ prev.cache # None THEN "move" ELSE "update"
              /\ UNCHANGED <<cur, prev>>
           \/ /\ cur.command = "d"
              /\ pc' = "delete"
              /\ UNCHANGED <<cur, prev>>
           \/ /\ cur.command = "r"
              /\ prev' = cur /\ cur' = None
              /\ pc' = "finish"
    BY <1>6 DEF Dispatch
  <2>2. CASE cur.command = "m" /\ dn = cur.dn
    <3>1. prev = None /\ pc' = "update" /\ UNCHANGED <<cur, prev>>
          /\ log[id].command \in Change
      BY <1>4, <1>5, <2>1, <2>2 DEF Change
    <3> QED  BY <1>2, <1>3, <1>6, <2>1, <3>1, UpdateFollowing
  <2>3. CASE cur.command = "m" /\ dn # cur.dn
    <3>1. pc' = "finish" /\ UNCHANGED <<cur, prev>> /\ log[id].command = "m"
      BY <1>4, <2>1, <2>3
    <3> QED  BY <1>2, <1>3, <1>6, <2>3, <3>1, ElsewhereFollowing
  <2>4. CASE cur.command = "a"
    <3>1. /\ pc' = IF prev # None THEN "move" ELSE "update"
          /\ UNCHANGED <<cur, prev>> /\ log[id].command \in Change
      BY <1>4, <1>5, <2>1, <2>4 DEF Change, IsMove
    <3> QED  BY <1>2, <1>3, <1>6, <2>1, <3>1, UpdateFollowing
  <2>5. CASE cur.command = "d"
    <3>1. prev = None /\ pc' = "delete" /\ UNCHANGED <<cur, prev>>
      BY <1>4, <1>5, <2>1, <2>5
    <3>2. cur.dn \notin Visible
      BY <1>1, <1>2, <2>5, AtWorkOn DEF Leave, Visible
    <3> QED  BY <1>2, <1>3, <3>1, <3>2, GoneFollowing
  <2>6. CASE cur.command = "r"
    <3>1. prev' = cur /\ cur' = None /\ pc' = "finish" /\ log[id].command = "r"
      BY <1>4, <2>1, <2>6
    <3> QED  BY <1>2, <1>3, <1>6, <3>1, StashFollowing
  <2> QED  BY <2>1, <2>2, <2>3, <2>4, <2>5, <2>6
<1>7. CASE SearchUuid
  <2>1. /\ cur.uuid # None
        /\ \/ \E dn \in Visible : ldap[dn].uuid = cur.uuid /\ Dispatch(dn)
           \/ /\ \A dn \in Visible : ldap[dn].uuid # cur.uuid
              /\ pc' = "retry_dn" /\ UNCHANGED <<cur, prev, found>>
    BY <1>7 DEF SearchUuid
  <2>2. CASE \E dn \in Visible : ldap[dn].uuid = cur.uuid /\ Dispatch(dn)
    BY <1>6, <2>1, <2>2
  <2>3. CASE /\ \A dn \in Visible : ldap[dn].uuid # cur.uuid
             /\ pc' = "retry_dn" /\ UNCHANGED <<cur, prev, found>>
    <3>1. prev = None
      BY <1>5, <2>3
    <3> QED  BY <1>2, <1>3, <2>3, <3>1, GoneFollowing
  <2> QED  BY <2>1, <2>2, <2>3
<1>8. CASE SearchDn
  <2>1. CASE cur.dn \in Visible /\ Dispatch(cur.dn)
    BY <1>6, <2>1
  <2>2. CASE cur.dn \notin Visible /\ pc' = "delete" /\ UNCHANGED <<cur, prev, found>>
    <3>1. prev = None
      BY <1>5, <1>8 DEF SearchDn
    <3> QED  BY <1>2, <1>3, <2>2, <3>1, GoneFollowing
  <2> QED  BY <1>8, <2>1, <2>2 DEF SearchDn
<1> QED  BY <1>7, <1>8

-----------------------------------------------------------------------------
(* Calling the modules *)

\* Calling modules changes what an entry says of them, and nothing else.  After
\* it the entry lists the modules that are ready and match it.
Rewritten(entry, new, hs) ==
  /\ entry \in CacheEntries /\ Object(entry) = Object(new)
  /\ entry.uuid = new.uuid /\ entry.val = new.val
  /\ new.modules \subseteq entry.modules
  /\ \A h \in hs : Matches(h, new) => h \in entry.modules

LEMMA CallEntry ==
  ASSUME NEW hs \in SUBSET Handlers, NEW dn, NEW old, NEW failed,
         NEW new \in CacheEntries
  PROVE  Rewritten(CallHandlers(hs, dn, new, old, failed).entry, new, hs \ failed)
<1> DEFINE called == {h \in hs : ~UpToDate(h, new, old) /\ Matches(h, new)}
           current == {h \in hs : UpToDate(h, new, old)}
           entry == CallHandlers(hs, dn, new, old, failed).entry
<1>1. entry = [new EXCEPT !.modules = @ \cup current \cup (called \ failed)]
  BY DEF CallHandlers
<1>2. \A h \in hs \ failed : Matches(h, new) => h \in current \cup (called \ failed)
  OBVIOUS
<1>3. called \subseteq Handlers /\ current \subseteq Handlers
  OBVIOUS
<1> HIDE DEF called, current, entry
<1>4. /\ entry.uuid = new.uuid /\ entry.val = new.val /\ entry.csn = new.csn
      /\ entry.modules = new.modules \cup current \cup (called \ failed)
      /\ entry \in CacheEntries
  BY <1>1, <1>3 DEF CacheEntries
<1>5. Rewritten(entry, new, hs \ failed)
  BY <1>2, <1>4 DEF Object, Rewritten
<1> QED  BY <1>5 DEF entry

LEMMA UpdateEntry ==
  ASSUME NEW dn, NEW old, NEW failed, NEW new \in CacheEntries
  PROVE  Rewritten(HandlersUpdate(dn, new, old, failed).entry, new, Handlers \ failed)
BY CallEntry DEF HandlersUpdate

\* Of a step in the middle of a transaction that leaves the cache alone.
LEMMA WorkKept ==
  ASSUME Typed, Typed', NEW who, Following(who), pc \in Working, pc' \in Working,
         UNCHANGED <<slapd, loaded, cache, master, id, prev>>, cur' # None,
         cur'.id = cur.id, cur'.command = cur.command, cur'.dn = cur.dn
  PROVE  /\ log' = log /\ ldap' = ldap /\ Visible' = Visible /\ Done' = Done
         /\ cache' = cache /\ states' = states /\ prev' = prev /\ id' = id
         /\ Directory' /\ Attributed(who)' /\ Cached' /\ Loading' /\ Placed'
<1>1. /\ Directory /\ Attributed(who) /\ Cached /\ Loading /\ Placed
  BY DEF Following
<1>2. /\ log' = log /\ ldap' = ldap /\ Visible' = Visible /\ states' = states
      /\ ready' = ready
  BY DEF slapd, loaded, Visible
<1>3. /\ Placed' /\ Handled = Done /\ Handled' = Done /\ Done' = Done
  <2>1. pc' # "finish"
    BY DEF Working, Moving
  <2> QED  BY <1>1, <2>1, PlaceKept
<1>4. Directory' /\ Attributed(who)' /\ Cached'
  BY <1>1, <1>2, <1>3, Kept, Typing
<1>5. Loading'
  BY <1>1, <1>2, LoadingKept DEF Working, Moving
<1> QED  BY <1>2, <1>3, <1>4, <1>5

LEMMA UpdateHandlersFollowing ==
  ASSUME Typed, Typed', NEW who, Following(who), UpdateHandlers
  PROVE  Following(who)'
<1>1. /\ Loading /\ Placed /\ Stashed(who) /\ AtHand(who) /\ Seen(who)
  BY DEF Following
<1>2. /\ pc = "update" /\ pc' = "store" /\ cur' = cur /\ found \in Found
      /\ UNCHANGED <<slapd, loaded, cache, master, id, prev>> /\ cur # None
  BY DEF UpdateHandlers, Typed, TypeOK, InHand, Working
<1>3. /\ log' = log /\ ldap' = ldap /\ Visible' = Visible /\ Done' = Done
      /\ cache' = cache /\ states' = states /\ prev' = prev /\ id' = id
      /\ Directory' /\ Attributed(who)' /\ Cached' /\ Loading' /\ Placed'
  BY <1>2, WorkKept DEF Working
<1>4. PICK raised \in SUBSET MayFail :
        found' = [found EXCEPT !.entry =
                    HandlersUpdate(found.dn, found.entry, cache[found.dn],
                                   raised \cup (Handlers \ ready)).entry]
  BY DEF UpdateHandlers, Failing
<1> DEFINE failed == raised \cup (Handlers \ ready)
<1> DEFINE call == HandlersUpdate(found.dn, found.entry, cache[found.dn], failed)
<1>5. /\ Object(call.entry) = Object(found.entry)
      /\ call.entry.uuid = found.entry.uuid /\ call.entry.val = found.entry.val
      /\ \A h \in Handlers \ failed : Matches(h, found.entry) => h \in call.entry.modules
  <2>1. found.entry \in CacheEntries
    BY <1>2 DEF Found
  <2>2. Rewritten(call.entry, found.entry, Handlers \ failed)
    BY <2>1, UpdateEntry
  <2> QED  BY <2>2 DEF Rewritten
<1>6. found'.dn = found.dn /\ found'.entry = call.entry
  <2> HIDE DEF call
  <2> QED  BY <1>2, <1>4 DEF Found, call
<1>7. states \ MayFail \subseteq Handlers \ failed
  <2>1. ready = states /\ states \subseteq Handlers
    BY <1>1, <1>2 DEF Loading, Served, Importing, Typed, TypeOK
  <2> QED  BY <2>1
<1> HIDE DEF call, failed
<1>8. Seen(who)'
  <2>1. \A h \in states \ MayFail : Matches(h, found'.entry) => h \in found'.entry.modules
    BY <1>5, <1>6, <1>7 DEF Matches
  <2>2. /\ IF found.dn \in Visible
             THEN Object(found.entry) = ldap[found.dn] \/ Waits(id, found.dn, Change)
             ELSE Waits(id, found.dn, Leave)
        /\ ldap[found.dn] # None => ldap[found.dn].uuid = found.entry.uuid
        /\ \A p \in Done + 1..Len(log) :
             log[p].dn = found.dn => who[p] = found.entry.uuid
        /\ found.dn = cur.dn \/ ldap[cur.dn] = None
        /\ prev # None => found.dn # prev.dn
        /\ log[id].command \in Change
        /\ prev # None => found.dn = cur.dn
    BY <1>1, <1>2 DEF Seen, Updating
  <2>4. /\ Waits(id, found.dn, Change) => Waits(id, found.dn, Change)'
        /\ Waits(id, found.dn, Leave) => Waits(id, found.dn, Leave)'
    BY <1>3, <1>6 DEF Waits
  <2> QED  BY <1>2, <1>3, <1>5, <1>6, <2>1, <2>2, <2>4 DEF Seen, Matches
<1>9. Stashed(who)'
  BY <1>1, <1>2, <1>3 DEF Stashed, Between, Deleting, Worked, Working
<1>10. AtHand(who)'
  BY <1>2 DEF AtHand, Searching, Deleting, Moving
<1> QED  BY <1>3, <1>8, <1>9, <1>10 DEF Following

LEMMA DeleteHandlersFollowing ==
  ASSUME Typed, Typed', NEW who, Following(who), DeleteHandlers
  PROVE  Following(who)'
<1>1. /\ Stashed(who) /\ AtHand(who)
  BY DEF Following
<1>2. /\ pc = "delete" /\ pc' = "drop" /\ cur' = cur /\ found' = found
      /\ UNCHANGED <<slapd, loaded, cache, master, id, prev>> /\ cur # None
  BY DEF DeleteHandlers, Typed, InHand, Working
<1>3. /\ log' = log /\ ldap' = ldap /\ Visible' = Visible /\ Done' = Done
      /\ cache' = cache /\ states' = states /\ prev' = prev /\ id' = id
      /\ Directory' /\ Attributed(who)' /\ Cached' /\ Loading' /\ Placed'
  BY <1>2, WorkKept DEF Working
<1>4. Stashed(who)'
  BY <1>1, <1>2, <1>3 DEF Stashed, Deleting
<1>5. AtHand(who)' /\ Seen(who)'
  BY <1>1, <1>2, <1>3 DEF AtHand, Seen, Searching, Deleting, Updating, Moving, Valid
<1> QED  BY <1>3, <1>4, <1>5 DEF Following

\* process_move calls the modules for the old and for the new name.
LEMMA MoveHandlersFollowing ==
  ASSUME Typed, Typed', NEW who, Following(who), MoveFrom \/ MoveTo
  PROVE  Following(who)'
<1>1. /\ Placed /\ Stashed(who) /\ AtHand(who) /\ Seen(who)
  BY DEF Following
<1>2. /\ pc \in {"move_from", "move_to"} /\ pc' \in {"move_to", "move_store"}
      /\ (pc' = "move_to" => cur' = cur)
      /\ found' = found
      /\ UNCHANGED <<slapd, loaded, cache, master, id, prev>>
      /\ cur # None /\ cur.cache # None /\ cur \in Ops
  BY DEF MoveFrom, MoveTo, Typed, TypeOK, InHand, Working, Moving
<1>3. /\ cur' # None /\ cur'.id = cur.id /\ cur'.command = cur.command
      /\ cur'.dn = cur.dn /\ cur'.cache.uuid = cur.cache.uuid
  <2>1. CASE MoveFrom
    BY <1>2, <2>1 DEF MoveFrom
  <2>2. CASE MoveTo
    <3>1. PICK failed : cur' = [cur EXCEPT !.cache =
                                  HandlersUpdate(cur.dn, cur.cache, None, failed).entry]
      BY <2>2 DEF MoveTo
    <3>2. cur.cache \in CacheEntries
      BY <1>2 DEF Ops
    <3>3. HandlersUpdate(cur.dn, cur.cache, None, failed).entry.uuid = cur.cache.uuid
      BY <3>2, UpdateEntry DEF Rewritten
    <3>4. cur' # None
      BY <1>2 DEF Typed, InHand, Working, Moving
    <3> QED  BY <1>2, <3>1, <3>3, <3>4 DEF Ops
  <2> QED  BY <2>1, <2>2
<1>4. /\ log' = log /\ ldap' = ldap /\ Visible' = Visible /\ Done' = Done
      /\ cache' = cache /\ states' = states /\ prev' = prev /\ id' = id
      /\ Directory' /\ Attributed(who)' /\ Cached' /\ Loading' /\ Placed'
  BY <1>2, <1>3, WorkKept DEF Working, Moving
<1>5. pc # "exit" /\ Worked /\ Updating /\ Updating'
  BY <1>2 DEF Worked, Working, Moving, Updating
<1>6. Stashed(who)'
  BY <1>1, <1>2, <1>4, <1>5 DEF Stashed, Deleting, Between
<1>7. AtHand(who)'
  BY <1>1, <1>2, <1>3, <1>4 DEF AtHand, Searching, Deleting, Moving
<1>8. Seen(who)'
  <2>1. /\ Waits(id, found.dn, Change) <=> Waits(id, found.dn, Change)'
        /\ Waits(id, found.dn, Leave) <=> Waits(id, found.dn, Leave)'
    BY <1>2, <1>4 DEF Waits
  <2> QED  BY <1>1, <1>2, <1>3, <1>4, <1>5, <2>1 DEF Seen
<1> QED  BY <1>4, <1>6, <1>7, <1>8 DEF Following

-----------------------------------------------------------------------------
(* Storing the entries *)

LEMMA StoredAt ==
  ASSUME Typed, NEW dn \in DNs, NEW entry
  PROVE  /\ \A e \in DNs : e # dn => Stored(dn, entry)[e] = cache[e]
         /\ Stored(dn, entry)[dn] = IF entry.val \in Uncached THEN cache[dn] ELSE entry
BY Typing DEF Stored, Typed, TypeOK

\* Whatever is cached under a name that is gone.
LEMMA FitsGoneNext ==
  ASSUME UNCHANGED slapd, NEW from, NEW dn, ldap[dn] = None,
         Valid(cache'[dn]) = None \/ Waits(from, dn, Leave)
  PROVE  Fits(dn, from)'
<1>1. ldap' = ldap /\ log' = log
  BY DEF slapd
<1>2. Waits(from, dn, Leave) => Waits(from, dn, Leave)'
  BY <1>1 DEF Waits
<1> QED  BY <1>1, <1>2 DEF Fits, Visible, Valid

\* The names that a transaction which is now done was not about.
LEMMA OthersDone ==
  ASSUME Typed, Directory, Placed, NEW who, Attributed(who), Stashed(who), Cached,
         pc \in Working, pc \notin {"search", "move"}, UNCHANGED <<slapd, states>>,
         NEW i, i = id, NEW dn \in DNs, dn # cur.dn, cache'[dn] = cache[dn]
  PROVE  Fits(dn, i)'
<1>1. Worked /\ pc \notin {"write_cur", "commit", "exit"} /\ ~Finished
  BY DEF Worked, Working, Moving, Finished
<1>2. Fits(dn, Done)
  BY <1>1 DEF Cached, Handled
<1>3. Fits(dn, i)
  <2>1. CASE prev # None /\ dn = prev.dn
    <3>1. ldap[dn] = None
      BY <1>1, <2>1, StashedIsGone
    <3>2. Valid(cache[dn]) = None
      <4>1. cache[dn] = None
        BY <1>1, <2>1 DEF Stashed
      <4> QED  BY <4>1, NoneAssumption DEF Valid, NoneAssumption
    <3> QED  BY <3>1, <3>2, FitsGone
  <2>2. CASE prev # None => dn # prev.dn
    BY <1>1, <1>2, <2>2, FitsOthers
  <2> QED  BY <2>1, <2>2
<1> QED  BY <1>3, FitsKept

LEMMA StoreFollowing ==
  ASSUME Typed, Typed', NEW who, Following(who), Store
  PROVE  Following(who)'
<1> DEFINE f == found.dn
           entry == found.entry
<1>1. /\ Directory /\ Attributed(who) /\ Cached /\ Loading /\ Placed
      /\ Stashed(who) /\ AtHand(who) /\ Seen(who)
  BY DEF Following
<1>2. /\ pc = "store" /\ pc' = "finish" /\ cache' = Stored(f, entry)
      /\ cur # None /\ found \in Found
      /\ cur' = cur /\ prev' = prev /\ id' = id /\ found' = found /\ master' = master
      /\ states' = states /\ ready' = ready /\ log' = log /\ ldap' = ldap
      /\ UNCHANGED slapd
  BY DEF Store, Typed, TypeOK, InHand, Working, loaded, slapd
<1>3. f \in DNs /\ entry \in CacheEntries /\ Valid(entry) = entry /\ entry # None
  BY <1>2, NoneAssumption DEF Found, Valid, NoneAssumption
<1>4. /\ \A e \in DNs : e # f => cache'[e] = cache[e]
      /\ cache'[f] = IF entry.val \in Uncached THEN cache[f] ELSE entry
  BY <1>2, <1>3, StoredAt
<1>5. /\ pc \in Working /\ Worked /\ pc \notin {"search", "move", "write_cur", "commit", "exit"}
      /\ Updating /\ ~Finished
  BY <1>2 DEF Worked, Working, Updating, Finished
<1>6. /\ Placed' /\ Handled = Done /\ Handled' = id /\ Done' = Done
  BY <1>1, <1>2, <1>5, PlaceKept
<1>7. /\ IF f \in Visible
           THEN Object(entry) = ldap[f] \/ Waits(id, f, Change)
           ELSE Waits(id, f, Leave)
      /\ ldap[f] # None => ldap[f].uuid = entry.uuid
      /\ \A p \in Done + 1..Len(log) : log[p].dn = f => who[p] = entry.uuid
      /\ f = cur.dn \/ ldap[cur.dn] = None
      /\ prev # None => f # prev.dn
      /\ log[id].command \in Change
      /\ \A h \in states \ MayFail : Matches(h, entry) => h \in entry.modules
  BY <1>1, <1>2, <1>5 DEF Seen
<1>8. /\ id \in Nat /\ Done \in Nat /\ cur.dn = log[id].dn /\ cur.dn \in DNs
      /\ Len(log) \in Nat /\ Done <= id
  BY <1>1, <1>5, AtWorkOn, Typing
<1>9. PICK i \in Nat : i = id
  BY <1>8
\* The name the object was found at.
<1>10. ASSUME NEW dn \in DNs, dn = f  PROVE Fits(dn, i)'
  <2>1. /\ Waits(id, dn, Change) => Waits(i, dn, Change)'
        /\ Waits(id, dn, Leave) => Waits(i, dn, Leave)'
        /\ Visible' = Visible
    BY <1>2, <1>9 DEF Waits, Visible
  <2>2. Fits(dn, Done)
    BY <1>1, <1>6 DEF Cached
  <2>3. Valid(cache'[dn]) # None /\ ldap[dn] # None => cache'[dn].uuid = ldap[dn].uuid
    BY <1>3, <1>4, <1>7, <1>10, <2>2 DEF Fits
  <2>4. dn \notin Visible => Waits(i, dn, Leave)'
    BY <1>7, <1>10, <2>1
  <2>5. ASSUME dn \in Visible, ~Waits(i, dn, Change)', ldap[dn].val \notin Uncached
        PROVE  UpToDateAt(dn)'
    <3>1. Object(entry) = ldap[dn]
      BY <1>7, <1>10, <2>1, <2>5
    <3>2. entry.val = ldap[dn].val
      BY <3>1 DEF Object
    <3>3. cache'[dn] = entry
      BY <1>4, <1>10, <2>5, <3>2
    <3> QED  BY <1>2, <1>3, <1>7, <3>1, <3>2, <3>3 DEF UpToDateAt, Matches, Valid
  <2> QED  BY <1>2, <2>1, <2>3, <2>4, <2>5 DEF Fits, Valid
<1>11. Cached'
  <2> SUFFICES ASSUME NEW dn \in DNs  PROVE Fits(dn, i)'
    BY <1>6, <1>9 DEF Cached, Fits, Waits
  <2>1. CASE dn = f
    BY <1>10, <2>1
  <2>2. CASE dn = cur.dn /\ dn # f
    <3>1. ldap[dn] = None
      BY <1>7, <2>2
    <3>2. Waits(i, dn, Leave)
      BY <1>1, <1>5, <1>7, <1>8, <1>9, <2>2, <3>1, GoneIsWaitedFor
    <3> QED  BY <1>2, <3>1, <3>2, FitsGoneNext
  <2>3. CASE dn # cur.dn /\ dn # f
    <3>1. cache'[dn] = cache[dn]
      BY <1>4, <2>3
    <3> QED  BY <1>1, <1>2, <1>5, <1>9, <2>3, <3>1, OthersDone
  <2> QED  BY <2>1, <2>2, <2>3
<1>12. Directory'
  BY <1>1, <1>2, <1>6, <1>8, DirectoryKept
<1>13. Attributed(who)'
  <2>1. ASSUME NEW p \in Done + 1..Len(log)
        PROVE  \/ cache'[log[p].dn] = cache[log[p].dn]
               \/ Valid(cache'[log[p].dn]) # None => cache'[log[p].dn].uuid = who[p]
    <3>1. log[p].dn \in DNs
      BY <1>8, Typing
    <3> QED  BY <1>4, <1>7, <2>1, <3>1
  <2> QED  BY <1>1, <1>2, <1>6, <1>8, <2>1, AttributedKept
<1>14. Loading'
  BY <1>1, <1>2, LoadingKept
<1>15. Stashed(who)'
  <2>1. ~Deleting' /\ Worked' /\ ~Between' /\ pc' \notin {"exit", "retry_dn", "search", "move"}
    BY <1>2 DEF Deleting, Worked, Finished, Between
  <2>2. prev # None => cache'[prev.dn] = None
    <3> SUFFICES ASSUME prev # None  PROVE cache'[prev.dn] = None
      OBVIOUS
    <3>1. prev.dn \in DNs /\ prev.dn # f /\ cache[prev.dn] = None
      BY <1>1, <1>2, <1>5, <1>7, StashedIsGone DEF Stashed
    <3> QED  BY <1>4, <3>1
  <2> QED  BY <1>1, <1>2, <1>5, <1>6, <2>1, <2>2 DEF Stashed
<1>16. AtHand(who)' /\ Seen(who)'
  BY <1>2 DEF AtHand, Seen, Searching, Deleting, Moving, Updating
<1> QED  BY <1>6, <1>11, <1>12, <1>13, <1>14, <1>15, <1>16 DEF Following

LEMMA DropFollowing ==
  ASSUME Typed, Typed', NEW who, Following(who), Drop
  PROVE  Following(who)'
<1>1. /\ Directory /\ Attributed(who) /\ Cached /\ Loading /\ Placed
      /\ Stashed(who) /\ AtHand(who)
  BY DEF Following
<1>2. /\ pc = "drop" /\ pc' = "finish" /\ cur # None
      /\ cache' = IF cur.cache = None THEN cache ELSE [cache EXCEPT ![cur.dn] = None]
      /\ cur' = cur /\ prev' = prev /\ id' = id /\ master' = master
      /\ states' = states /\ ready' = ready /\ log' = log /\ ldap' = ldap
      /\ UNCHANGED slapd
  BY DEF Drop, Typed, InHand, Working, loaded, slapd
<1>3. /\ pc \in Working /\ Worked /\ pc \notin {"search", "move", "write_cur", "commit", "exit"}
      /\ Deleting /\ ~Finished
  BY <1>2 DEF Worked, Working, Deleting, Finished
<1>4. /\ Placed' /\ Handled = Done /\ Handled' = id /\ Done' = Done
  BY <1>1, <1>2, <1>3, PlaceKept
<1>5. /\ prev = None /\ cur.cache = Valid(cache[cur.dn]) /\ cur.dn \notin Visible
  BY <1>1, <1>3 DEF Stashed, AtHand
<1>6. /\ id \in Nat /\ Done \in Nat /\ cur.dn = log[id].dn /\ cur.dn \in DNs
      /\ Len(log) \in Nat /\ Done <= id
  BY <1>1, <1>3, AtWorkOn, Typing
<1>7. /\ \A dn \in DNs : dn # cur.dn => cache'[dn] = cache[dn]
      /\ Valid(cache'[cur.dn]) = None
  <2>1. cache \in [DNs -> CacheEntries \cup {None, Empty}]
    BY DEF Typed, TypeOK
  <2> QED  BY <1>2, <1>5, <1>6, <2>1, NoneAssumption DEF Valid, NoneAssumption
<1>8. PICK i \in Nat : i = id
  BY <1>6
<1>9. Cached'
  <2> SUFFICES ASSUME NEW dn \in DNs  PROVE Fits(dn, i)'
    BY <1>4, <1>8 DEF Cached, Fits, Waits
  <2>1. CASE dn = cur.dn
    <3>1. dn \notin Visible' /\ Valid(cache'[dn]) = None
      BY <1>2, <1>5, <1>7, <2>1 DEF Visible
    <3> QED  BY <3>1 DEF Fits, Valid
  <2>2. CASE dn # cur.dn
    <3>1. cache'[dn] = cache[dn]
      BY <1>7, <2>2
    <3> QED  BY <1>1, <1>2, <1>3, <1>8, <2>2, <3>1, OthersDone
  <2> QED  BY <2>1, <2>2
<1>10. Directory'
  BY <1>1, <1>2, <1>4, <1>6, DirectoryKept
<1>11. Attributed(who)'
  <2>1. ASSUME NEW p \in Done + 1..Len(log)
        PROVE  \/ cache'[log[p].dn] = cache[log[p].dn]
               \/ Valid(cache'[log[p].dn]) # None => cache'[log[p].dn].uuid = who[p]
    <3>1. log[p].dn \in DNs
      BY <1>6, Typing
    <3> QED  BY <1>7, <3>1
  <2> QED  BY <1>1, <1>2, <1>4, <1>6, <2>1, AttributedKept
<1>12. Loading'
  BY <1>1, <1>2, LoadingKept
<1>13. Stashed(who)' /\ AtHand(who)' /\ Seen(who)'
  BY <1>2, <1>5 DEF Stashed, AtHand, Seen, Searching, Deleting, Moving, Updating
<1> QED  BY <1>4, <1>9, <1>10, <1>11, <1>12, <1>13 DEF Following

LEMMA MoveDropFollowing ==
  ASSUME Typed, Typed', NEW who, Following(who), MoveDrop
  PROVE  Following(who)'
<1>1. /\ Directory /\ Attributed(who) /\ Cached /\ Loading /\ Placed
      /\ Stashed(who) /\ AtHand(who) /\ Seen(who)
  BY DEF Following
<1>2. /\ pc = "move" /\ pc' = "move_from" /\ cur # None
      /\ cache' = [cache EXCEPT ![prev.dn] = None]
      /\ cur' = cur /\ prev' = prev /\ id' = id /\ found' = found /\ master' = master
      /\ states' = states /\ ready' = ready /\ log' = log /\ ldap' = ldap
      /\ UNCHANGED slapd
  BY DEF MoveDrop, Typed, InHand, Working, Moving, loaded, slapd
<1>3. /\ pc \in Working /\ pc' \in Working /\ pc' # "finish"
      /\ Worked /\ pc \notin {"write_cur", "commit", "exit"}
      /\ Updating /\ Updating' /\ ~Finished /\ Worked'
  BY <1>2 DEF Worked, Working, Moving, Updating, Finished
<1>4. /\ Placed' /\ Handled = Done /\ Handled' = Done /\ Done' = Done
  BY <1>1, <1>2, <1>3, PlaceKept
<1>5. /\ prev # None /\ prev.dn \in DNs /\ ldap[prev.dn] = None
      /\ Done \in Nat /\ Len(log) \in Nat
  <2>1. prev # None
    BY <1>1, <1>2 DEF AtHand, Moving
  <2> QED  BY <1>1, <1>3, <2>1, StashedIsGone, Typing
<1>6. /\ \A dn \in DNs : dn # prev.dn => cache'[dn] = cache[dn]
      /\ cache'[prev.dn] = None /\ Valid(cache'[prev.dn]) = None
  <2>1. cache \in [DNs -> CacheEntries \cup {None, Empty}]
    BY DEF Typed, TypeOK
  <2> QED  BY <1>2, <1>5, <2>1, NoneAssumption DEF Valid, NoneAssumption
<1>7. PICK i \in Nat : i = Done
  BY <1>5
<1>8. Cached'
  <2> SUFFICES ASSUME NEW dn \in DNs  PROVE Fits(dn, i)'
    BY <1>4, <1>7 DEF Cached, Fits, Waits
  <2>1. CASE dn = prev.dn
    BY <1>2, <1>5, <1>6, <2>1, FitsGoneNext
  <2>2. CASE dn # prev.dn
    <3>1. Fits(dn, i) /\ cache'[dn] = cache[dn]
      BY <1>1, <1>4, <1>6, <1>7, <2>2 DEF Cached
    <3> QED  BY <1>2, <3>1, FitsKept
  <2> QED  BY <2>1, <2>2
<1>9. Directory'
  BY <1>1, <1>2, <1>4, <1>5, DirectoryKept
<1>10. Attributed(who)'
  <2>1. ASSUME NEW p \in Done + 1..Len(log)
        PROVE  \/ cache'[log[p].dn] = cache[log[p].dn]
               \/ Valid(cache'[log[p].dn]) # None => cache'[log[p].dn].uuid = who[p]
    <3>1. log[p].dn \in DNs
      BY <1>5, Typing
    <3> QED  BY <1>6, <3>1
  <2> QED  BY <1>1, <1>2, <1>4, <1>5, <2>1, AttributedKept
<1>11. Loading'
  BY <1>1, <1>2, LoadingKept
<1>12. Stashed(who)'
  BY <1>1, <1>2, <1>3, <1>4, <1>6 DEF Stashed, Deleting, Between
<1>13. AtHand(who)'
  BY <1>1, <1>2 DEF AtHand, Searching, Deleting, Moving
<1>14. Seen(who)'
  <2>1. /\ Waits(id, found.dn, Change) <=> Waits(id, found.dn, Change)'
        /\ Waits(id, found.dn, Leave) <=> Waits(id, found.dn, Leave)'
        /\ Visible' = Visible
    BY <1>2 DEF Waits, Visible
  <2> QED  BY <1>1, <1>2, <1>3, <1>4, <2>1 DEF Seen
<1> QED  BY <1>4, <1>8, <1>9, <1>10, <1>11, <1>12, <1>13, <1>14 DEF Following

LEMMA MoveStoreFollowing ==
  ASSUME Typed, Typed', NEW who, Following(who), MoveStore
  PROVE  Following(who)'
<1> DEFINE c == cur.dn
           entry == cur.cache
<1>1. /\ Directory /\ Attributed(who) /\ Cached /\ Loading /\ Placed
      /\ Stashed(who) /\ AtHand(who) /\ Seen(who)
  BY DEF Following
<1>2. /\ pc = "move_store" /\ pc' = IF cur.dn = found.dn THEN "update" ELSE "finish"
      /\ cur # None /\ cur \in Ops /\ cur.cache # None
      /\ cache' = Stored(c, entry)
      /\ cur' = cur /\ prev' = prev /\ id' = id /\ found' = found /\ master' = master
      /\ states' = states /\ ready' = ready /\ log' = log /\ ldap' = ldap
      /\ UNCHANGED slapd
  BY DEF MoveStore, Typed, TypeOK, InHand, Working, Moving, loaded, slapd
<1>3. /\ pc \in Working /\ pc' \in Working \cup {"finish"}
      /\ Worked /\ pc \notin {"search", "move", "write_cur", "commit", "exit"}
      /\ Updating /\ ~Finished
  BY <1>2 DEF Worked, Working, Moving, Updating, Finished
<1>4. /\ Placed' /\ Handled = Done /\ Done' = Done
      /\ Handled' = IF c = found.dn THEN Done ELSE id
  BY <1>1, <1>2, <1>3, PlaceKept
<1>5. /\ prev # None /\ prev.dn \in DNs /\ prev.dn # c /\ ldap[prev.dn] = None
      /\ cache[prev.dn] = None
  <2>1. prev # None
    BY <1>1, <1>2 DEF AtHand, Moving
  <2> QED  BY <1>1, <1>2, <1>3, <2>1, StashedIsGone DEF Stashed
<1>6. /\ c \in DNs /\ c = log[id].dn /\ id \in Done + 1..Len(log) /\ id \in Nat
      /\ Done \in Nat /\ Len(log) \in Nat /\ Done <= id
      /\ ldap[c] # None => ldap[c].uuid = who[id]
  BY <1>1, <1>3, AtWorkOn, Typing
<1>7. /\ \A dn \in DNs : dn # c => cache'[dn] = cache[dn]
      /\ cache'[c] = IF entry.val \in Uncached THEN cache[c] ELSE entry
  BY <1>2, <1>6, StoredAt
<1>8. /\ found.dn \notin Visible => Waits(id, found.dn, Leave)
      /\ found.dn = c \/ ldap[c] = None
      /\ log[id].command \in Change /\ entry.uuid = who[id]
  BY <1>1, <1>2, <1>3 DEF Seen, AtHand, Moving
<1>9. PICK i \in Nat : i = id
  BY <1>6
<1>10. PICK done \in Nat : done = Done
  BY <1>6
\* The object is there: it is updated next.
\* The object is there: it is updated next.
<1>11. ASSUME c = found.dn, NEW dn \in DNs  PROVE Fits(dn, done)'
  <2>1. Fits(dn, done)
    BY <1>1, <1>4, <1>10 DEF Cached
  <2>2. CASE dn # c
    BY <1>2, <1>7, <2>1, <2>2, FitsKept
  <2>3. CASE dn = c
    <3>1. Waits(done, dn, Change)'
      BY <1>2, <1>6, <1>8, <1>10, <2>3 DEF Waits
    <3>2. dn \notin Visible => Waits(done, dn, Leave)'
      <4>1. Waits(id, dn, Leave) => Waits(done, dn, Leave)
        BY <1>6, <1>10, WaitsEarlier
      <4>2. Waits(done, dn, Leave) => Waits(done, dn, Leave)'
        BY <1>2 DEF Waits
      <4> QED  BY <1>8, <1>11, <2>3, <4>1, <4>2
    <3>3. Valid(cache'[dn]) # None /\ ldap[dn] # None => cache'[dn].uuid = ldap[dn].uuid
      BY <1>6, <1>7, <1>8, <2>1, <2>3 DEF Fits
    <3>4. Visible' = Visible
      BY <1>2 DEF Visible
    <3> QED  BY <1>2, <3>1, <3>2, <3>3, <3>4 DEF Fits, Valid
  <2> QED  BY <2>2, <2>3
\* It has been moved on, or deleted: the transaction is done.
<1>12. ASSUME c # found.dn, NEW dn \in DNs  PROVE Fits(dn, i)'
  <2>1. CASE dn = c
    <3>1. ldap[dn] = None
      BY <1>8, <1>12, <2>1
    <3>2. Waits(i, dn, Leave)
      BY <1>1, <1>3, <1>6, <1>8, <1>9, <2>1, <3>1, GoneIsWaitedFor
    <3> QED  BY <1>2, <3>1, <3>2, FitsGoneNext
  <2>2. CASE dn # c
    BY <1>1, <1>2, <1>3, <1>7, <1>9, <2>2, OthersDone
  <2> QED  BY <2>1, <2>2
<1>13. Cached'
  <2> SUFFICES ASSUME NEW dn \in DNs  PROVE Fits(dn, Handled)'
    BY DEF Cached
  <2>1. CASE c = found.dn
    <3>1. done = Handled'
      BY <1>4, <1>10, <2>1
    <3> QED  BY <1>11, <2>1, <3>1 DEF Fits
  <2>2. CASE c # found.dn
    <3>1. i = Handled'
      BY <1>4, <1>9, <2>2
    <3> QED  BY <1>12, <2>2, <3>1 DEF Fits
  <2> QED  BY <2>1, <2>2
<1>14. Directory'
  BY <1>1, <1>2, <1>4, <1>6, DirectoryKept
<1>15. Attributed(who)'
  <2>1. ASSUME NEW p \in Done + 1..Len(log)
        PROVE  \/ cache'[log[p].dn] = cache[log[p].dn]
               \/ Valid(cache'[log[p].dn]) # None => cache'[log[p].dn].uuid = who[p]
    <3>1. log[p].dn \in DNs
      BY <1>6, Typing
    <3>2. log[p].dn = c => who[p] = who[id]
      BY <1>1, <1>6 DEF Attributed
    <3> QED  BY <1>7, <1>8, <3>1, <3>2
  <2> QED  BY <1>1, <1>2, <1>4, <1>6, <2>1, AttributedKept
<1>16. Loading'
  BY <1>1, <1>2, LoadingKept
<1>17. Stashed(who)'
  <2>1. /\ ~Deleting' /\ Worked' /\ ~Between'
        /\ pc' \notin {"exit", "retry_dn", "search", "move"}
    BY <1>2 DEF Deleting, Worked, Finished, Between, Working
  <2>2. cache'[prev.dn] = None
    BY <1>5, <1>7
  <2> QED  BY <1>1, <1>2, <1>3, <1>4, <2>1, <2>2 DEF Stashed
<1>18. AtHand(who)'
  BY <1>2 DEF AtHand, Searching, Deleting, Moving
<1>19. Seen(who)'
  <2>1. /\ Waits(id, found.dn, Change) <=> Waits(id, found.dn, Change)'
        /\ Waits(id, found.dn, Leave) <=> Waits(id, found.dn, Leave)'
        /\ Visible' = Visible
    BY <1>2 DEF Waits, Visible
  <2>2. Updating' => pc' = "update" /\ found.dn = cur.dn
    BY <1>2 DEF Updating, Moving
  <2> QED  BY <1>1, <1>2, <1>3, <1>4, <2>1, <2>2 DEF Seen
<1> QED  BY <1>4, <1>13, <1>14, <1>15, <1>16, <1>17, <1>18, <1>19 DEF Following

-----------------------------------------------------------------------------
(* Doing a transaction *)

LEMMA FinishFollowing ==
  ASSUME Typed, Typed', NEW who, Following(who), Finish
  PROVE  Following(who)'
<1>1. /\ Directory /\ Attributed(who) /\ Cached /\ Loading /\ Placed /\ Stashed(who)
  BY DEF Following
<1>2. /\ pc = "finish"
      /\ pc' = IF failed_ldif THEN "exit" ELSE IF cur = None THEN "listen"
               ELSE IF prev # None THEN "write_prev" ELSE "write_cur"
      /\ cur' = cur /\ prev' = prev /\ id' = id /\ master' = master
      /\ cache' = cache /\ states' = states /\ ready' = ready /\ log' = log /\ ldap' = ldap
      /\ Visible' = Visible /\ Done' = Done /\ UNCHANGED <<slapd, cache>>
  BY DEF Finish, loaded, slapd, disk, Visible, Done
<1>3. /\ (Worked <=> cur # None) /\ (Finished <=> cur # None)
      /\ (Worked' <=> cur # None /\ pc' # "exit") /\ (Finished' <=> cur # None /\ pc' # "exit")
      /\ (Between <=> cur = None) /\ (Between' <=> cur = None /\ pc' # "exit")
      /\ ~Deleting /\ ~Deleting' /\ ~Searching' /\ ~Updating' /\ pc' \notin Moving
  BY <1>2 DEF Worked, Finished, Working, Moving, Between, Deleting, Searching, Updating
<1>4. Placed'
  BY <1>1, <1>2, <1>3 DEF Placed
<1>5. Handled' <= Handled
  <2>1. /\ Done \in Nat /\ id \in Nat /\ (Worked => id \in Done + 1..Len(log))
    BY <1>1, Typing DEF Placed
  <2> QED  BY <1>2, <1>3, <2>1 DEF Handled
<1>6. Directory' /\ Attributed(who)' /\ Cached'
  BY <1>1, <1>2, <1>4, <1>5, Kept, Typing
<1>7. Loading'
  BY <1>1, <1>2, LoadingKept
<1>8. Stashed(who)'
  BY <1>1, <1>2, <1>3 DEF Stashed
<1>9. AtHand(who)' /\ Seen(who)'
  BY <1>2, <1>3 DEF AtHand, Seen
<1> QED  BY <1>4, <1>6, <1>7, <1>8, <1>9 DEF Following

LEMMA WriteFollowing ==
  ASSUME Typed, Typed', NEW who, Following(who), WritePrev \/ WriteCur
  PROVE  Following(who)'
<1>1. /\ Directory /\ Attributed(who) /\ Cached /\ Loading /\ Placed
  BY DEF Following
<1>2. /\ pc \in {"write_prev", "write_cur"} /\ pc' \in {"write_cur", "commit"}
      /\ cur' = cur /\ prev' = None /\ id' = id /\ master' = master
      /\ cache' = cache /\ states' = states /\ ready' = ready /\ log' = log /\ ldap' = ldap
      /\ Visible' = Visible /\ Done' = Done /\ UNCHANGED <<slapd, cache>>
  BY <1>1 DEF WritePrev, WriteCur, loaded, slapd, disk, Visible, Done, Placed
<1>3. /\ Worked /\ Finished /\ Worked' /\ Finished' /\ ~Between /\ ~Between'
      /\ ~Deleting' /\ ~Searching' /\ ~Updating' /\ pc' \notin Moving
  BY <1>2 DEF Worked, Finished, Working, Moving, Between, Deleting, Searching, Updating
<1>4. Placed'
  BY <1>1, <1>2, <1>3 DEF Placed
<1>5. Handled' <= Handled
  <2>1. id \in Nat
    BY Typing
  <2> QED  BY <1>2, <1>3, <2>1 DEF Handled
<1>6. Directory' /\ Attributed(who)' /\ Cached'
  BY <1>1, <1>2, <1>4, <1>5, Kept, Typing
<1>7. Loading'
  BY <1>1, <1>2, LoadingKept
<1>8. Stashed(who)' /\ AtHand(who)' /\ Seen(who)'
  BY <1>2, <1>3 DEF AtHand, Seen, Stashed
<1> QED  BY <1>4, <1>6, <1>7, <1>8 DEF Following

LEMMA CommitFollowing ==
  ASSUME Typed, Typed', NEW who, Following(who), Commit
  PROVE  Following(who)'
<1>1. /\ Directory /\ Attributed(who) /\ Cached /\ Loading /\ Placed
  BY DEF Following
<1>2. /\ pc = "commit" /\ pc' = "listen" /\ cur' = None /\ prev' = prev /\ id' = id
      /\ master' = id /\ prev = None
      /\ cache' = cache /\ states' = states /\ ready' = ready /\ log' = log
      /\ UNCHANGED <<slapd, cache>>
  BY <1>1 DEF Commit, loaded, slapd, Placed
<1>3. /\ Worked /\ Finished /\ ~Worked' /\ ~Finished'
  BY <1>2 DEF Worked, Finished, Working, Moving
<1>4. /\ id \in Nat /\ Done \in Nat /\ Done <= id /\ Done' = id /\ id <= Len(log)
      /\ Handled = id /\ Handled' = id
  <2>1. id \in Nat /\ Done \in Nat /\ id \in Done + 1..Len(log) /\ Len(log) \in Nat
    BY <1>1, <1>3, Typing DEF Placed
  <2>2. Done' = id
    BY <1>2, <2>1, NoneAssumption DEF Done, NoneAssumption
  <2> QED  BY <1>2, <1>3, <2>1, <2>2 DEF Handled
<1>5. Placed'
  BY <1>2, <1>3, <1>4 DEF Placed, Between
<1>6. Directory' /\ Attributed(who)' /\ Cached'
  BY <1>1, <1>2, <1>4, <1>5, Kept
<1>7. Loading'
  BY <1>1, <1>2, <1>4, LoadingKept
<1>8. Stashed(who)' /\ AtHand(who)' /\ Seen(who)'
  BY <1>2 DEF AtHand, Seen, Stashed, Searching, Deleting, Updating, Moving
<1> QED  BY <1>5, <1>6, <1>7, <1>8 DEF Following

-----------------------------------------------------------------------------
(* The end of the process, and its next start *)

LEMMA CrashFollowing ==
  ASSUME Typed, Typed', NEW who, Following(who), Crash
  PROVE  Following(who)'
<1>1. /\ Directory /\ Attributed(who) /\ Cached /\ Loading /\ Placed
  BY DEF Following
<1>2. /\ pc # "exit" /\ pc' = "exit" /\ cur' = cur /\ prev' = prev /\ id' = id
      /\ master' = master /\ states' = states /\ log' = log /\ Done' = Done
      /\ UNCHANGED <<slapd, cache>>
  BY DEF Crash, slapd, disk, Done
<1>3. ~Worked' /\ ~Finished' /\ ~Between' /\ ~Importing'
  BY <1>2 DEF Worked, Finished, Working, Moving, Between, Importing
<1>4. Placed'
  BY <1>1, <1>2, <1>3 DEF Placed
<1>5. Handled' <= Handled
  <2>1. Done \in Nat /\ Done <= Handled /\ Handled' = Done
    BY <1>1, <1>2, <1>3, HandledType, Typing DEF Handled
  <2> QED  BY <2>1
<1>6. Directory' /\ Attributed(who)' /\ Cached'
  BY <1>1, <1>2, <1>4, <1>5, Kept, Typing
<1>7. Loading'
  BY <1>1, <1>2, <1>3 DEF Loading
<1>8. Stashed(who)' /\ AtHand(who)' /\ Seen(who)'
  BY <1>2 DEF AtHand, Seen, Stashed, Searching, Deleting, Updating, Moving
<1> QED  BY <1>4, <1>6, <1>7, <1>8 DEF Following

LEMMA RestartFollowing ==
  ASSUME Typed, Typed', NEW who, Following(who), Restart
  PROVE  Following(who)'
<1>1. /\ Directory /\ Attributed(who) /\ Cached /\ Loading /\ Placed
  BY DEF Following
<1>2. /\ pc = "exit" /\ pc' = "init" /\ cur' = None /\ prev' = None /\ id' = master'
      /\ master' \in IF master = None THEN 0..Len(log) ELSE {master}
      /\ cache' = cache /\ states' = states /\ ready' = states
      /\ pending' = Handlers \ states
      /\ log' = log /\ ldap' = ldap /\ Visible' = Visible /\ UNCHANGED slapd
  BY DEF Restart, slapd, Visible
<1>3. /\ ~Worked' /\ ~Finished /\ ~Finished' /\ ~Between' /\ ~Importing'
  BY <1>2 DEF Worked, Finished, Working, Moving, Between, Importing
<1>4. /\ Done \in Nat /\ Done <= Len(log) /\ Len(log) \in Nat
      /\ master \in Nat \cup {None}
  <2>1. master # None => Done = master
    BY DEF Done
  <2>2. Done \in Nat /\ Len(log) \in Nat
    BY Typing
  <2>3. master # None => master \in Nat
    BY <2>1, <2>2
  <2> QED  BY <1>1, <2>2, <2>3 DEF Placed
<1>5. /\ master' \in Nat /\ master' # None /\ Done' = master' /\ Done' \in Nat
      /\ Done <= Done' /\ Done' <= Len(log) /\ (master # None => Done' = Done)
      /\ Handled = Done /\ Handled' = Done'
  <2>1. master' \in Nat /\ master' # None
    BY <1>2, <1>4, NoneAssumption DEF NoneAssumption
  <2>2. Done' = master'
    BY <2>1 DEF Done
  <2>3. master = None => Done = 0
    BY DEF Done
  <2>4. master # None => Done = master
    BY DEF Done
  <2> QED  BY <1>2, <1>3, <1>4, <2>1, <2>2, <2>3, <2>4 DEF Handled
<1>6. Placed'
  BY <1>2, <1>3, <1>5 DEF Placed
<1>7. Directory'
  BY <1>1, <1>2, <1>5, DirectoryKept
<1>8. Attributed(who)'
  BY <1>1, <1>2, <1>5, AttributedKept
<1>9. Cached'
  <2>1. CASE master = None
    <3> SUFFICES ASSUME NEW dn \in DNs  PROVE Fits(dn, Handled)'
      BY DEF Cached
    <3>1. cache'[dn] = None /\ states' = {}
      BY <1>1, <1>2, <2>1 DEF Loading
    <3>2. Valid(cache'[dn]) = None
      BY <3>1, NoneAssumption DEF Valid, NoneAssumption
    <3> QED  BY <3>1, <3>2 DEF Fits, Valid
  <2>2. CASE master # None
    <3>1. Handled' <= Handled
      BY <1>5, <2>2
    <3> QED  BY <1>1, <1>2, <1>6, <3>1, CachedKept
  <2> QED  BY <2>1, <2>2
<1>10. Loading'
  BY <1>1, <1>2, <1>3, <1>5 DEF Loading, Served
<1>11. Stashed(who)' /\ AtHand(who)' /\ Seen(who)'
  BY <1>2 DEF AtHand, Seen, Stashed, Searching, Deleting, Updating, Moving
<1> QED  BY <1>6, <1>7, <1>8, <1>9, <1>10, <1>11 DEF Following

LEMMA ListenFollowing ==
  ASSUME Typed, Typed', NEW who, Following(who), Listen
  PROVE  Following(who)'
<1>1. /\ Directory /\ Attributed(who) /\ Cached /\ Loading /\ Placed
  BY DEF Following
<1>2. /\ pc = "init" /\ pc' = "listen" /\ cur' = cur /\ prev' = prev /\ id' = id
      /\ master' = master /\ cache' = cache /\ states' = states /\ ready' = ready
      /\ UNCHANGED <<slapd, cache>> /\ log' = log /\ Done' = Done
      /\ id = Done /\ prev = None /\ cur = None
  BY <1>1 DEF Listen, slapd, disk, loaded, Done, Placed
<1>3. /\ ~Worked' /\ ~Finished /\ ~Finished' /\ ~Importing /\ ~Importing'
  BY <1>2 DEF Worked, Finished, Working, Moving, Importing
<1>4. Done \in Nat /\ Handled = Done /\ Handled' = Done
  BY <1>2, <1>3, Typing DEF Handled
<1>5. Placed'
  BY <1>1, <1>2, <1>3, <1>4 DEF Placed
<1>6. Directory' /\ Attributed(who)' /\ Cached'
  BY <1>1, <1>2, <1>4, <1>5, Kept
<1>7. Loading'
  BY <1>1, <1>2, <1>3 DEF Loading, Served
<1>8. Stashed(who)' /\ AtHand(who)' /\ Seen(who)'
  BY <1>2 DEF AtHand, Seen, Stashed, Searching, Deleting, Updating, Moving
<1> QED  BY <1>5, <1>6, <1>7, <1>8 DEF Following

\* A module that is to be resynced is one that may have to be initialised.
LEMMA ResyncFollowing ==
  ASSUME Typed, Typed', NEW who, Following(who), NEW h \in Handlers, Resync(h)
  PROVE  Following(who)'
<1>1. /\ Directory /\ Attributed(who) /\ Cached /\ Loading /\ Placed
  BY DEF Following
<1>2. /\ pc = "exit" /\ pc' = "exit" /\ h \in Resyncable /\ h \in states
      /\ states' = states \ {h} /\ prev' = prev
      /\ master' = master /\ cache' = cache
      /\ UNCHANGED <<slapd, cache>> /\ log' = log /\ Done' = Done
  BY DEF Resync, slapd, disk, Done
<1>3. /\ ~Worked' /\ ~Finished /\ ~Finished' /\ ~Importing' /\ ~Between'
  BY <1>2 DEF Worked, Finished, Working, Moving, Importing, Between
<1>4. Done \in Nat /\ Handled = Done /\ Handled' = Done
  BY <1>2, <1>3, Typing DEF Handled
<1>5. Placed'
  BY <1>1, <1>2, <1>3, <1>4 DEF Placed
<1>6. Directory' /\ Attributed(who)' /\ Cached'
  BY <1>1, <1>2, <1>4, <1>5, Kept
<1>7. Loading'
  BY <1>1, <1>2, <1>3 DEF Loading, Resettable
<1>8. Stashed(who)' /\ AtHand(who)' /\ Seen(who)'
  BY <1>2 DEF AtHand, Seen, Stashed, Searching, Deleting, Updating, Moving
<1> QED  BY <1>5, <1>6, <1>7, <1>8 DEF Following

LEMMA SameFollowing ==
  ASSUME NEW who, Following(who),
         UNCHANGED <<slapd, cache, master, loaded, pc, id, cur, prev, found>>
  PROVE  Following(who)'
<1>1. /\ log' = log /\ ldap' = ldap /\ cache' = cache /\ master' = master
      /\ states' = states /\ ready' = ready /\ pending' = pending /\ import' = import
      /\ pc' = pc /\ id' = id /\ cur' = cur /\ prev' = prev /\ found' = found
  BY DEF slapd, loaded
<1>2. /\ Directory' /\ Attributed(who)'
  BY <1>1 DEF Following, Directory, MovesAreWhole, LeftInTheEnd, NotTakenAgain, AddedFirst,
              OneName, Known, Done, Attributed, Valid
<1>3. Cached'
  BY <1>1 DEF Following, Cached, Fits, UpToDateAt, Waits, Visible, Matches, Valid,
              Handled, Finished, Done
<1>4. Loading'
  BY <1>1 DEF Following, Loading, Imported, Importing, Served, Waits, Visible, Matches,
              Valid, Done
<1>5. Placed' /\ Stashed(who)'
  BY <1>1 DEF Following, Placed, Stashed, Worked, Finished, Between, Deleting, Visible, Done
<1>6. AtHand(who)' /\ Seen(who)'
  BY <1>1 DEF Following, AtHand, Seen, Searching, Deleting, Updating, Waits, Visible,
              Matches, Valid, Done
<1> QED  BY <1>2, <1>3, <1>4, <1>5, <1>6 DEF Following

-----------------------------------------------------------------------------
(* Initialising the modules *)

Initialising == {"init", "search_module", "import"}

\* Nothing is in hand while modules are initialised.
LEMMA InitialisingKept ==
  ASSUME Typed, NEW who, Following(who), pc \in Initialising, pc' \in Initialising,
         UNCHANGED <<slapd, master, id, cur, prev>>
  PROVE  /\ log' = log /\ ldap' = ldap /\ Visible' = Visible /\ Done' = Done
         /\ master # None /\ Done \in Nat /\ Len(log) \in Nat
         /\ Handled = Done /\ Handled' = Done
         /\ Placed' /\ Directory' /\ Stashed(who)' /\ AtHand(who)' /\ Seen(who)'
<1>1. /\ Directory /\ Loading /\ Placed
  BY DEF Following
<1>2. /\ log' = log /\ ldap' = ldap /\ Visible' = Visible /\ Done' = Done
      /\ master' = master /\ id' = id /\ cur' = cur /\ prev' = prev /\ UNCHANGED slapd
  BY DEF slapd, Visible, Done
<1>3. /\ ~Worked' /\ ~Finished /\ ~Finished' /\ ~Between' /\ pc # "exit"
  BY DEF Initialising, Worked, Finished, Working, Moving, Between
<1>4. /\ id = Done /\ prev = None /\ cur = None /\ Done \in Nat /\ Len(log) \in Nat
      /\ Handled = Done /\ Handled' = Done /\ master # None
  BY <1>1, <1>2, <1>3, Typing DEF Placed, Initialising, Handled, Loading
<1>5. Placed'
  BY <1>1, <1>2, <1>3, <1>4 DEF Placed
<1>6. Directory'
  BY <1>1, <1>2, <1>4, DirectoryKept
<1>7. Stashed(who)' /\ AtHand(who)' /\ Seen(who)'
  BY <1>2, <1>4 DEF AtHand, Seen, Stashed, Searching, Deleting, Updating, Moving, Initialising
<1> QED  BY <1>2, <1>4, <1>5, <1>6, <1>7

LEMMA InitModuleFollowing ==
  ASSUME Typed, Typed', NoneForgotten, NEW who, Following(who),
         NEW h \in Handlers, InitModule(h)
  PROVE  Following(who)'
<1>1. /\ Attributed(who) /\ Cached /\ Loading
  BY DEF Following
<1> DEFINE rest(entry) == IF Valid(entry) = None \/ entry.modules \subseteq {h}
                            THEN None ELSE [entry EXCEPT !.modules = @ \ {h}]
<1>2. /\ pc = "init" /\ pc' = "search_module" /\ h \in pending
      /\ pending' = pending \ {h} /\ ready' = ready \cup {h} /\ states' = states
      /\ cache' = [dn \in DNs |-> rest(cache[dn])]
      /\ import' = [module |-> h, names |-> {}, rv |-> "success"]
      /\ UNCHANGED <<slapd, master, id, cur, prev>>
  BY DEF InitModule
<1>3. /\ log' = log /\ ldap' = ldap /\ Visible' = Visible /\ Done' = Done
      /\ master # None /\ Done \in Nat /\ Len(log) \in Nat
      /\ Handled = Done /\ Handled' = Done
      /\ Placed' /\ Directory' /\ Stashed(who)' /\ AtHand(who)' /\ Seen(who)'
  BY <1>2, InitialisingKept DEF Initialising
<1>4. h \notin states /\ \A k \in MayFail : k \notin states \/ k = h
  BY <1>1, <1>2 DEF Loading, NoneForgotten
<1>5. ASSUME NEW dn \in DNs
      PROVE  /\ cache'[dn] # Empty
             /\ cache'[dn] # None =>
                  /\ Valid(cache[dn]) # None /\ cache[dn] \in CacheEntries
                  /\ ~(cache[dn].modules \subseteq {h})
                  /\ cache'[dn].uuid = cache[dn].uuid
                  /\ Object(cache'[dn]) = Object(cache[dn])
                  /\ cache'[dn].modules = cache[dn].modules \ {h}
             /\ cache'[dn] = None =>
                  Valid(cache[dn]) = None \/ cache[dn].modules \subseteq {h}
  <2>1. cache'[dn] = rest(cache[dn])
    BY <1>2
  <2>2. Valid(cache[dn]) # None => cache[dn] \in CacheEntries
    BY Typing DEF Valid
  <2>3. CASE Valid(cache[dn]) = None \/ cache[dn].modules \subseteq {h}
    BY <2>1, <2>3, NoneAssumption DEF NoneAssumption
  <2>4. CASE ~(Valid(cache[dn]) = None \/ cache[dn].modules \subseteq {h})
    <3>1. cache'[dn] = [cache[dn] EXCEPT !.modules = @ \ {h}] /\ cache[dn] \in CacheEntries
      BY <2>1, <2>2, <2>4
    <3>2. cache'[dn] \in CacheEntries
      BY <3>1 DEF CacheEntries
    <3> QED  BY <2>4, <3>1, <3>2, NoneAssumption DEF NoneAssumption, CacheEntries, Object
  <2> QED  BY <2>3, <2>4
<1>6. Valid(None) = None /\ \A dn \in DNs : Valid(cache'[dn]) = cache'[dn]
  BY <1>5, NoneAssumption DEF Valid, NoneAssumption
<1>7. Cached'
  <2> SUFFICES ASSUME NEW dn \in DNs  PROVE Fits(dn, Handled)'
    BY DEF Cached
  <2>1. PICK done \in Nat : done = Done
    BY <1>3
  <2>2. Fits(dn, done)
    BY <1>1, <1>3, <2>1 DEF Cached
  <2>3. \A cs : Waits(done, dn, cs)' <=> Waits(done, dn, cs)
    BY <1>3 DEF Waits
  <2>4. UpToDateAt(dn) =>
          UpToDateAt(dn)' \/ (cache'[dn] = None /\ \A k \in states : ~Matches(k, ldap[dn]))
    <3> SUFFICES ASSUME UpToDateAt(dn)
                 PROVE  \/ UpToDateAt(dn)'
                        \/ cache'[dn] = None /\ \A k \in states : ~Matches(k, ldap[dn])
      OBVIOUS
    <3>1. CASE cache'[dn] = None
      <4>1. cache[dn].modules \subseteq {h}
        BY <1>5, <3>1 DEF UpToDateAt
      <4>2. ASSUME NEW k \in states, Matches(k, ldap[dn])  PROVE FALSE
        <5>1. k \notin MayFail
          BY <1>4, <4>2
        <5> QED  BY <1>4, <4>1, <4>2, <5>1 DEF UpToDateAt
      <4> QED  BY <3>1, <4>2
    <3>2. CASE cache'[dn] # None
      BY <1>2, <1>3, <1>4, <1>5, <1>6, <3>2 DEF UpToDateAt, Matches, Valid
    <3> QED  BY <3>1, <3>2
  <2>5. Fits(dn, done)'
    BY <1>2, <1>3, <1>5, <1>6, <2>2, <2>3, <2>4 DEF Fits, Valid, Matches
  <2>6. done = Handled'
    BY <1>3, <2>1
  <2> QED  BY <2>5, <2>6 DEF Fits
<1>8. Attributed(who)'
  <2>1. ASSUME NEW p \in Done + 1..Len(log)
        PROVE  \/ cache'[log[p].dn] = cache[log[p].dn]
               \/ Valid(cache'[log[p].dn]) # None => cache'[log[p].dn].uuid = who[p]
    <3>1. log[p].dn \in DNs
      BY <1>3, Typing
    <3>2. Valid(cache[log[p].dn]) # None => cache[log[p].dn].uuid = who[p]
      BY <1>1 DEF Attributed
    <3> QED  BY <1>5, <1>6, <3>1, <3>2
  <2>2. UNCHANGED slapd /\ Done' \in Nat /\ Done <= Done'
    BY <1>2, <1>3
  <2>3. \A p \in Done' + 1..Len(log) :
          \/ cache'[log[p].dn] = cache[log[p].dn]
          \/ Valid(cache'[log[p].dn]) # None => cache'[log[p].dn].uuid = who[p]
    BY <1>3, <2>1
  <2> QED  BY <1>1, <2>2, <2>3, AttributedKept
<1>9. Loading'
  <2>1. ready = states /\ pending \cap states = {}
    BY <1>1, <1>2 DEF Loading, Served, Importing
  <2>2. Importing' /\ Served' = states \cup {h} /\ import'.rv = "success" /\ import'.module = h
    BY <1>2 DEF Importing, Served
  <2>3. master' = master /\ master' # None
    BY <1>2, <1>3
  <2> QED  BY <1>1, <1>2, <1>5, <2>1, <2>2, <2>3 DEF Loading
<1> QED  BY <1>3, <1>7, <1>8, <1>9 DEF Following

\* Of a step of the initialisation that changes neither the cache nor the states.
LEMMA ImportKept ==
  ASSUME Typed, Typed', NEW who, Following(who), pc \in Initialising, pc' \in Initialising,
         UNCHANGED <<slapd, cache, master, id, cur, prev, states>>
  PROVE  Attributed(who)' /\ Cached'
<1>1. /\ log' = log /\ ldap' = ldap /\ Done' = Done
      /\ master # None /\ Done \in Nat /\ Len(log) \in Nat
      /\ Handled = Done /\ Handled' = Done /\ Placed'
  BY InitialisingKept
<1>2. Placed /\ Directory /\ Attributed(who) /\ Cached /\ UNCHANGED <<slapd, cache>>
      /\ states' \subseteq states
  BY DEF Following
<1> QED  BY <1>1, <1>2, Kept

LEMMA SearchModuleFollowing ==
  ASSUME Typed, Typed', NEW who, Following(who), SearchModule \/ ImportAborts
  PROVE  Following(who)'
<1>1. Loading
  BY DEF Following
<1>2. /\ pc \in {"search_module", "import"} /\ pc' = "import"
      /\ UNCHANGED <<slapd, cache, master, id, cur, prev, states>>
      /\ states' = states /\ ready' = ready /\ pending' = pending /\ cache' = cache
      /\ master' = master /\ import \in Imports
      /\ \/ /\ pc = "search_module"
            /\ import' = [import EXCEPT
                 !.names = {dn \in Visible : Matches(import.module, ldap[dn])}]
         \/ import' = [import EXCEPT !.names = {}, !.rv = "other"]
  BY DEF SearchModule, ImportAborts, disk, Typed, TypeOK, InHand
<1>3. /\ ldap' = ldap /\ Visible' = Visible
      /\ Placed' /\ Directory' /\ Stashed(who)' /\ AtHand(who)' /\ Seen(who)'
      /\ Attributed(who)' /\ Cached' /\ master # None
  BY <1>2, InitialisingKept, ImportKept DEF Initialising
<1>4. import'.module = import.module
  BY <1>2 DEF Imports
<1>5. /\ import'.names \subseteq Visible
      /\ \/ /\ pc = "search_module" /\ import'.rv = import.rv
            /\ import'.names = {dn \in Visible : Matches(import.module, ldap[dn])}
         \/ import'.names = {} /\ import'.rv = "other"
  BY <1>2 DEF Imports
<1>6. Loading'
  <2>1. Importing /\ Importing' /\ Served' = Served
    BY <1>2, <1>4 DEF Importing, Served
  <2>2. /\ pc = "search_module" => import.rv = "success" /\ \A dn \in DNs : cache[dn] # Empty
    BY <1>1 DEF Loading
  <2>3. Visible \subseteq DNs
    BY DEF Visible
  <2>4. \A dn \in import'.names : cache[dn] # Empty
    BY <1>5, <2>2, <2>3
  <2>5. import'.rv = "other" => import'.names = {}
    BY <1>5, <2>2
  <2>6. import'.rv # "other" => \A dn \in Visible' \ import'.names : Imported(dn)'
    BY <1>3, <1>4, <1>5 DEF Imported, Matches
  <2> QED  BY <1>1, <1>2, <1>3, <1>4, <1>5, <2>1, <2>3, <2>4, <2>5, <2>6 DEF Loading
<1> QED  BY <1>3, <1>6 DEF Following

\* What the module is told of an object: what the cache says, or LDAP.
LEMMA ImportEntryFollowing ==
  ASSUME Typed, Typed', NEW who, Following(who), NEW dn \in DNs, ImportEntry(dn)
  PROVE  Following(who)'
<1> DEFINE h == import.module
           entry == IF cache[dn] # None THEN cache[dn]
                    ELSE IF dn \in Visible THEN Entry(ldap[dn], {}) ELSE Empty
<1>1. /\ Attributed(who) /\ Cached /\ Loading
  BY DEF Following
<1>2. /\ pc = "import" /\ pc' = "import" /\ dn \in import.names
      /\ import' = [import EXCEPT
                      !.names = @ \ {dn},
                      !.rv = IF entry = Empty /\ cache[dn] = None
                               THEN "no_such_object" ELSE "success"]
      /\ UNCHANGED <<slapd, master, id, cur, prev, states>>
      /\ states' = states /\ ready' = ready /\ pending' = pending /\ master' = master
      /\ import \in Imports
  BY DEF ImportEntry, Typed, TypeOK, InHand
<1>3. /\ log' = log /\ ldap' = ldap /\ Visible' = Visible /\ Done' = Done
      /\ master # None /\ Done \in Nat /\ Len(log) \in Nat
      /\ Handled = Done /\ Handled' = Done
      /\ Placed' /\ Directory' /\ Stashed(who)' /\ AtHand(who)' /\ Seen(who)'
  BY <1>2, InitialisingKept DEF Initialising
<1>4. /\ import'.module = h /\ import'.names = import.names \ {dn} /\ import'.rv # "other"
      /\ h \in Handlers
  <2> HIDE DEF entry
  <2> QED  BY <1>2 DEF Imports
<1>5. /\ cache[dn] # Empty /\ import.rv # "other" /\ import.names \subseteq DNs
      /\ \A e \in import.names : cache[e] # Empty
      /\ \A e \in Visible \ import.names : Imported(e)
  BY <1>1, <1>2 DEF Loading
<1>6. /\ \A e \in DNs : e # dn => cache'[e] = cache[e]
      /\ \/ /\ cache[dn] = None /\ dn \notin Visible /\ cache'[dn] = Empty
         \/ /\ cache'[dn] \in CacheEntries \/ cache'[dn] = cache[dn]
            /\ entry \in CacheEntries
            /\ entry.val \in Uncached => cache'[dn] = cache[dn]
            /\ entry.val \notin Uncached =>
                 /\ cache'[dn] \in CacheEntries
                 /\ Object(cache'[dn]) = Object(entry)
                 /\ cache'[dn].uuid = entry.uuid
                 /\ entry.modules \subseteq cache'[dn].modules
                 /\ Matches(h, entry) => h \in cache'[dn].modules \cup MayFail
  <2>0. cache \in [DNs -> CacheEntries \cup {None, Empty}]
    BY DEF Typed, TypeOK
  <2>1. CASE entry = Empty
    <3>1. cache' = [cache EXCEPT ![dn] = Empty]
      BY <2>1 DEF ImportEntry
    <3>2. cache[dn] = None /\ dn \notin Visible
      <4>1. dn \in Visible => Entry(ldap[dn], {}) \in CacheEntries
        BY Typing, EntryType DEF Visible
      <4> QED  BY <1>5, <2>1, <4>1, NoneAssumption DEF NoneAssumption
    <3> QED  BY <2>0, <3>1, <3>2
  <2>2. CASE entry # Empty
    <3>1. entry \in CacheEntries
      <4>1. dn \in Visible => Entry(ldap[dn], {}) \in CacheEntries
        BY Typing, EntryType DEF Visible
      <4> QED  BY <2>0, <2>2, <4>1
    <3>2. PICK failed \in SUBSET MayFail :
            cache' = Stored(dn, CallHandlers({h}, dn, entry, None, failed).entry)
      BY <2>2 DEF ImportEntry
    <3> DEFINE new == CallHandlers({h}, dn, entry, None, failed).entry
    <3>3. Rewritten(new, entry, {h} \ failed)
      <4> HIDE DEF entry
      <4>1. {h} \in SUBSET Handlers
        BY <1>4
      <4> QED  BY <3>1, <4>1, CallEntry
    <3>4. cache' = Stored(dn, new)
      BY <3>2
    <3> HIDE DEF new, entry
    <3>5. /\ \A e \in DNs : e # dn => cache'[e] = cache[e]
          /\ cache'[dn] = IF new.val \in Uncached THEN cache[dn] ELSE new
      BY <3>4, StoredAt
    <3> QED  BY <3>1, <3>3, <3>5 DEF Rewritten
  <2> QED  BY <2>1, <2>2
\* An entry that was there only comes to list the module; a new one is LDAP's.
<1>7. /\ cache[dn] # None =>
           entry = cache[dn] /\ Valid(cache[dn]) = cache[dn] /\ cache[dn] \in CacheEntries
      /\ cache[dn] = None /\ dn \in Visible =>
           /\ Object(entry) = ldap[dn] /\ entry.uuid = ldap[dn].uuid
           /\ entry.val = ldap[dn].val /\ Valid(cache[dn]) = None
      /\ cache[dn] = None /\ dn \notin Visible => entry = Empty
      /\ Valid(Empty) = None /\ Empty \notin CacheEntries /\ Empty # None
      /\ None \notin CacheEntries
  BY <1>5, Typing, NoneAssumption
     DEF Valid, NoneAssumption, Entry, Object, Objects, Visible
<1> HIDE DEF entry
<1>8. PICK done \in Nat : done = Done
  BY <1>3
<1>9. /\ \A cs : Waits(done, dn, cs)' <=> Waits(done, dn, cs)
      /\ Fits(dn, done)
  BY <1>1, <1>3, <1>8 DEF Waits, Cached
<1>10. Fits(dn, done)'
  <2>1. CASE cache'[dn] = cache[dn]
    BY <1>2, <1>9, <2>1, FitsKept
  <2>2. CASE cache[dn] = None /\ dn \notin Visible /\ cache'[dn] = Empty
    BY <1>3, <1>7, <2>2 DEF Fits, Valid
  <2>3. CASE cache[dn] # None /\ cache'[dn] # cache[dn]
    <3>1. /\ Valid(cache'[dn]) = cache'[dn] /\ cache'[dn] \in CacheEntries
          /\ Object(cache'[dn]) = Object(cache[dn]) /\ cache'[dn].uuid = cache[dn].uuid
          /\ cache[dn].modules \subseteq cache'[dn].modules
      BY <1>6, <1>7, <2>3 DEF Valid
    <3>2. UpToDateAt(dn) => UpToDateAt(dn)'
      BY <1>2, <1>3, <1>7, <3>1 DEF UpToDateAt, Matches, Valid
    <3> QED  BY <1>2, <1>3, <1>7, <1>9, <2>3, <3>1, <3>2 DEF Fits, Valid, Matches
  <2>4. CASE cache[dn] = None /\ dn \in Visible /\ cache'[dn] # cache[dn]
    <3>1. /\ Valid(cache'[dn]) = cache'[dn] /\ cache'[dn] \in CacheEntries
          /\ Object(cache'[dn]) = ldap[dn] /\ cache'[dn].uuid = ldap[dn].uuid
      BY <1>6, <1>7, <2>4 DEF Valid
    <3>2. (\A k \in states : ~Matches(k, ldap[dn])) => UpToDateAt(dn)'
      BY <1>2, <1>3, <1>7, <3>1 DEF UpToDateAt, Matches, Valid
    <3> QED  BY <1>2, <1>3, <1>7, <1>9, <2>4, <3>1, <3>2 DEF Fits, Valid, UpToDateAt
  <2> QED  BY <1>6, <1>7, <2>1, <2>2, <2>3, <2>4
<1>11. ASSUME dn \in Visible  PROVE Imported(dn)'
  <2>1. (Waits(Done, dn, Change) => Waits(Done, dn, Change)')
    BY <1>3, <1>8, <1>9 DEF Waits
  <2>2. CASE cache[dn] # None
    <3>1. CASE UpToDateAt(dn) /\ ldap[dn].val \notin Uncached
      <4>1. entry.val = ldap[dn].val /\ Object(entry) = ldap[dn]
        BY <1>7, <2>2, <3>1 DEF UpToDateAt, Object
      <4>2. /\ Object(cache'[dn]) = ldap[dn] /\ cache'[dn] \in CacheEntries
            /\ Matches(h, ldap[dn]) => h \in cache'[dn].modules \cup MayFail
        BY <1>6, <1>7, <2>2, <3>1, <4>1 DEF Matches
      <4> QED  BY <1>3, <1>4, <1>7, <4>2 DEF Imported, Matches, Valid
    <3>2. CASE Waits(Done, dn, Change) \/ ldap[dn].val \in Uncached
      BY <1>3, <2>1, <3>2 DEF Imported
    <3> QED  BY <1>7, <1>8, <1>9, <1>11, <2>2, <3>1, <3>2 DEF Fits
  <2>3. CASE cache[dn] = None
    <3>1. CASE ldap[dn].val \notin Uncached
      <4>1. /\ Object(cache'[dn]) = ldap[dn] /\ cache'[dn] \in CacheEntries
            /\ Matches(h, ldap[dn]) => h \in cache'[dn].modules \cup MayFail
        BY <1>6, <1>7, <1>11, <2>3, <3>1 DEF Matches
      <4> QED  BY <1>3, <1>4, <1>7, <4>1 DEF Imported, Matches, Valid
    <3>2. CASE ldap[dn].val \in Uncached
      BY <1>3, <3>2 DEF Imported
    <3> QED  BY <3>1, <3>2
  <2> QED  BY <2>2, <2>3
<1>12. Cached'
  <2> SUFFICES ASSUME NEW e \in DNs  PROVE Fits(e, Handled)'
    BY DEF Cached
  <2>1. Fits(e, done)'
    <3>1. CASE e = dn
      BY <1>10, <3>1
    <3>2. CASE e # dn
      <4>1. Fits(e, done) /\ cache'[e] = cache[e]
        BY <1>1, <1>3, <1>6, <1>8, <3>2 DEF Cached
      <4> QED  BY <1>2, <4>1, FitsKept
    <3> QED  BY <3>1, <3>2
  <2>2. done = Handled'
    BY <1>3, <1>8
  <2> QED  BY <2>1, <2>2 DEF Fits
<1>13. Attributed(who)'
  <2>1. ASSUME NEW p \in Done + 1..Len(log)
        PROVE  \/ cache'[log[p].dn] = cache[log[p].dn]
               \/ Valid(cache'[log[p].dn]) # None => cache'[log[p].dn].uuid = who[p]
    <3>1. /\ log[p].dn \in DNs
          /\ ldap[log[p].dn] # None => ldap[log[p].dn].uuid = who[p]
          /\ Valid(cache[log[p].dn]) # None => cache[log[p].dn].uuid = who[p]
      BY <1>1, <1>3, Typing DEF Attributed
    <3>2. CASE log[p].dn # dn
      BY <1>6, <3>1, <3>2
    <3>3. CASE log[p].dn = dn
      <4>1. dn \in Visible => ldap[dn] # None
        BY DEF Visible
      <4>2. entry \in CacheEntries => entry.uuid = who[p]
        BY <1>7, <3>1, <3>3, <4>1
      <4> QED  BY <1>6, <1>7, <3>3, <4>2
    <3> QED  BY <3>2, <3>3
  <2>2. UNCHANGED slapd /\ Done' \in Nat /\ Done <= Done'
    BY <1>2, <1>3
  <2>3. \A p \in Done' + 1..Len(log) :
          \/ cache'[log[p].dn] = cache[log[p].dn]
          \/ Valid(cache'[log[p].dn]) # None => cache'[log[p].dn].uuid = who[p]
    BY <1>3, <2>1
  <2> QED  BY <1>1, <2>2, <2>3, AttributedKept
<1>14. Loading'
  <2>1. Importing /\ Importing' /\ Served' = Served
    BY <1>2, <1>4 DEF Importing, Served
  <2>2. ASSUME NEW e \in Visible, e \notin import'.names  PROVE Imported(e)'
    <3>1. CASE e = dn
      BY <1>11, <2>2, <3>1
    <3>2. CASE e # dn
      <4>1. e \in DNs /\ Imported(e) /\ cache'[e] = cache[e]
        BY <1>4, <1>5, <1>6, <2>2, <3>2 DEF Visible
      <4> QED  BY <1>3, <1>4, <4>1 DEF Imported, Matches, Waits, Valid
    <3> QED  BY <3>1, <3>2
  <2>3. \A e \in import'.names : cache'[e] # Empty
    BY <1>4, <1>5, <1>6
  <2> QED  BY <1>1, <1>2, <1>3, <1>4, <1>5, <2>1, <2>2, <2>3 DEF Loading
<1> QED  BY <1>3, <1>12, <1>13, <1>14 DEF Following

LEMMA ImportDoneFollowing ==
  ASSUME Typed, Typed', NEW who, Following(who), ImportDone
  PROVE  Following(who)'
<1> DEFINE h == import.module
<1>1. /\ Attributed(who) /\ Cached /\ Loading /\ Directory
  BY DEF Following
<1>2. /\ pc = "import" /\ pc' = "init" /\ import.names = {}
      /\ ready' = IF import.rv = "success" THEN ready ELSE ready \ {h}
      /\ states' = ready' /\ pending' = pending /\ cache' = cache
      /\ UNCHANGED <<slapd, cache, master, id, cur, prev>> /\ master' = master
  BY DEF ImportDone, disk
<1>3. /\ log' = log /\ ldap' = ldap /\ Visible' = Visible /\ Done' = Done
      /\ master # None /\ Done \in Nat /\ Len(log) \in Nat
      /\ Handled = Done /\ Handled' = Done
      /\ Placed' /\ Directory' /\ Stashed(who)' /\ AtHand(who)' /\ Seen(who)'
  BY <1>2, InitialisingKept DEF Initialising
<1>4. /\ ready = states \cup {h} /\ h \notin states /\ pending \cap ready = {}
      /\ import.rv # "other" => \A dn \in Visible : Imported(dn)
  BY <1>1, <1>2 DEF Loading, Importing, Served
<1>5. states' = IF import.rv = "success" THEN states \cup {h} ELSE states
  BY <1>2, <1>4
<1>6. Attributed(who)'
  BY <1>1, <1>2, <1>3, AttributedKept
<1>7. Cached'
  <2> SUFFICES ASSUME NEW dn \in DNs  PROVE Fits(dn, Handled)'
    BY DEF Cached
  <2>1. PICK done \in Nat : done = Done
    BY <1>3
  <2>2. Fits(dn, done)
    BY <1>1, <1>3, <2>1 DEF Cached
  <2>3. Fits(dn, done)'
    <3>1. CASE states' = states
      BY <1>2, <2>2, <3>1, FitsKept
    <3>2. CASE states' = states \cup {h} /\ import.rv = "success"
      <4>1. /\ \A cs : Waits(done, dn, cs)' <=> Waits(done, dn, cs)
            /\ Waits(Done, dn, Change) <=> Waits(done, dn, Change)
            /\ \A k : Matches(k, ldap[dn])' <=> Matches(k, ldap[dn])
            /\ Valid(cache[dn])' = Valid(cache[dn])
        BY <1>2, <1>3, <2>1 DEF Waits, Matches, Valid
      <4>2. ASSUME dn \in Visible, UpToDateAt(dn)
            PROVE  \/ UpToDateAt(dn)' \/ Waits(done, dn, Change)
                   \/ ldap[dn].val \in Uncached
        BY <1>2, <1>3, <1>4, <3>2, <4>1, <4>2 DEF UpToDateAt, Imported
      <4>3. ASSUME dn \in Visible, Valid(cache[dn]) = None,
                   \A k \in states : ~Matches(k, ldap[dn])
            PROVE  \/ \A k \in states' : ~Matches(k, ldap[dn])
                   \/ Waits(done, dn, Change)
                   \/ ldap[dn].val \in Uncached
        BY <1>4, <3>2, <4>1, <4>3 DEF Imported
      <4> QED  BY <1>2, <1>3, <2>2, <4>1, <4>2, <4>3 DEF Fits
    <3> QED  BY <1>5, <3>1, <3>2
  <2>4. done = Handled'
    BY <1>3, <2>1
  <2> QED  BY <2>3, <2>4 DEF Fits
<1>8. Loading'
  <2>1. ~Importing' /\ Served' = states' /\ master' # None
    BY <1>2, <1>3 DEF Importing, Served
  <2> QED  BY <1>1, <1>2, <1>4, <1>5, <2>1 DEF Loading
<1> QED  BY <1>3, <1>6, <1>7, <1>8 DEF Following

-----------------------------------------------------------------------------
(* The cache converges *)

Converging == \E who : Following(who)

LEMMA InitConverging ==
  ASSUME Init, Typed
  PROVE  Converging
<1>1. /\ log = <<>> /\ Len(log) = 0 /\ id = 0 /\ cur = None /\ prev = None
      /\ master = (IF Fresh THEN None ELSE 0) /\ pending = {}
      /\ pc = (IF Fresh THEN "exit" ELSE "listen")
      /\ states = (IF Fresh THEN {} ELSE Handlers) /\ ready = states
      /\ \A dn, other \in DNs : ldap[dn] # None /\ ldap[other] # None => dn = other
      /\ ldap \in [DNs -> [uuid : {0}, val : Vals, csn : {0}] \cup {None}]
  BY DEF Init
<1>2. Done = 0 /\ Handled = 0 /\ ~Finished /\ ~Worked /\ ~Importing
  BY <1>1 DEF Done, Handled, Finished, Worked, Working, Moving, Importing
<1>3. DOMAIN log = {} /\ Done + 1..Len(log) = {} /\ 1..Len(log) = {} /\ 1..Len(log) - 1 = {}
  BY <1>1, <1>2
<1>4. ASSUME NEW dn \in DNs
      PROVE  /\ ldap[dn] # None => ldap[dn].uuid = 0 /\ ldap[dn] \in Objects
             /\ cache[dn] = IF ~Fresh /\ dn \in Visible /\ ldap[dn].val \notin Uncached
                              THEN Entry(ldap[dn], {h \in Handlers : Matches(h, ldap[dn])})
                              ELSE None
  <2>1. ldap[dn] # None => ldap[dn].uuid = 0 /\ ldap[dn] \in Objects
    BY <1>1, Typing
  <2>2. cache[dn] = IF ~Fresh /\ dn \in Visible /\ ldap[dn].val \notin Uncached
                      THEN Entry(ldap[dn], {h \in Handlers : Matches(h, ldap[dn])})
                      ELSE None
    BY DEF Init
  <2> QED  BY <2>1, <2>2
<1>5. Directory
  BY <1>1, <1>3, <1>4
     DEF Directory, MovesAreWhole, LeftInTheEnd, NotTakenAgain, AddedFirst, OneName, Known
<1>6. PICK who : who = [p \in {} |-> 0]
  OBVIOUS
<1>7. Attributed(who)
  <2>1. who \in [1..Len(log) -> Nat]
    BY <1>3, <1>6
  <2> QED  BY <1>3, <2>1 DEF Attributed
<1>8. Cached
  <2> SUFFICES ASSUME NEW dn \in DNs  PROVE Fits(dn, Handled)
    BY DEF Cached
  <2> DEFINE listed == {h \in Handlers : Matches(h, ldap[dn])}
  <2>1. CASE ~Fresh /\ dn \in Visible /\ ldap[dn].val \notin Uncached
    <3>1. cache[dn] = Entry(ldap[dn], listed) /\ ldap[dn] \in Objects
      BY <1>4, <2>1 DEF Visible
    <3>2. listed \subseteq Handlers /\ \A h \in states : Matches(h, ldap[dn]) => h \in listed
      BY DEF Typed, TypeOK
    <3> HIDE DEF listed
    <3>3. /\ cache[dn] \in CacheEntries /\ Object(cache[dn]) = ldap[dn]
          /\ cache[dn].uuid = ldap[dn].uuid /\ cache[dn].modules = listed
      BY <3>1, <3>2 DEF Entry, Object, Objects, CacheEntries
    <3>4. Valid(cache[dn]) # None
      BY <3>3, NoneAssumption DEF Valid, NoneAssumption
    <3> QED  BY <2>1, <3>2, <3>3, <3>4 DEF Fits, UpToDateAt
  <2>2. CASE ~(~Fresh /\ dn \in Visible /\ ldap[dn].val \notin Uncached)
    <3>1. Valid(cache[dn]) = None
      BY <1>4, <2>2, NoneAssumption DEF Valid, NoneAssumption
    <3> QED  BY <1>1, <2>2, <3>1 DEF Fits
  <2> QED  BY <2>1, <2>2
<1>9. Loading
  <2>1. Fresh => \A dn \in DNs : cache[dn] = None
    BY <1>4
  <2>2. Fresh \in BOOLEAN
    BY ListenerAssumption DEF ListenerAssumption
  <2> QED  BY <1>1, <1>2, <2>1, <2>2, NoneAssumption
           DEF Loading, Served, Resettable, NoneAssumption
<1>10. Placed /\ Stashed(who) /\ AtHand(who) /\ Seen(who)
  BY <1>1, <1>2 DEF Placed, Stashed, AtHand, Seen, Between, Searching, Deleting, Updating, Moving
<1> QED  BY <1>5, <1>7, <1>8, <1>9, <1>10 DEF Following, Converging

LEMMA StepConverging ==
  Undisturbed /\ NoneForgotten =>
    (Typed /\ Typed' /\ Converging /\ [Next]_vars => Converging')
<1> SUFFICES ASSUME Undisturbed, NoneForgotten, Typed, Typed', Converging, [Next]_vars
             PROVE  Converging'
  OBVIOUS
<1>1. PICK who : Following(who)
  BY DEF Converging
<1>2. ASSUME NEW new, Following(new)'  PROVE Converging'
  BY <1>2 DEF Converging
<1>3. CASE Slapd
  BY <1>1, <1>2, <1>3, SlapdFollowing
<1>4. Process => Following(who)'
  <2>1. CASE Fetch
    BY <1>1, <2>1, FetchFollowing
  <2>2. CASE SearchUuid \/ SearchDn
    BY <1>1, <2>2, SearchFollowing
  <2>3. CASE UpdateHandlers
    BY <1>1, <2>3, UpdateHandlersFollowing
  <2>4. CASE Store
    BY <1>1, <2>4, StoreFollowing
  <2>5. CASE DeleteHandlers
    BY <1>1, <2>5, DeleteHandlersFollowing
  <2>6. CASE Drop
    BY <1>1, <2>6, DropFollowing
  <2>7. CASE MoveDrop
    BY <1>1, <2>7, MoveDropFollowing
  <2>8. CASE MoveFrom \/ MoveTo
    BY <1>1, <2>8, MoveHandlersFollowing
  <2>9. CASE MoveStore
    BY <1>1, <2>9, MoveStoreFollowing
  <2>10. CASE Finish
    BY <1>1, <2>10, FinishFollowing
  <2>11. CASE WritePrev \/ WriteCur
    BY <1>1, <2>11, WriteFollowing
  <2>12. CASE Commit
    BY <1>1, <2>12, CommitFollowing
  <2>13. CASE Restart
    BY <1>1, <2>13, RestartFollowing
  <2>14. CASE SearchModule \/ ImportAborts
    BY <1>1, <2>14, SearchModuleFollowing
  <2>15. CASE ImportDone
    BY <1>1, <2>15, ImportDoneFollowing
  <2>16. CASE Listen
    BY <1>1, <2>16, ListenFollowing
  <2>17. CASE \E h \in Handlers : InitModule(h)
    BY <1>1, <2>17, InitModuleFollowing
  <2>18. CASE \E dn \in DNs : ImportEntry(dn)
    BY <1>1, <2>18, ImportEntryFollowing
  <2> QED  BY <2>1, <2>2, <2>3, <2>4, <2>5, <2>6, <2>7, <2>8, <2>9, <2>10, <2>11, <2>12,
              <2>13, <2>14, <2>15, <2>16, <2>17, <2>18 DEF Process
<1>5. CASE Crash
  BY <1>1, <1>2, <1>5, CrashFollowing
<1>6. CASE \E h \in Handlers : Resync(h)
  BY <1>1, <1>2, <1>6, ResyncFollowing
<1>7. CASE ResyncLdif \/ UNCHANGED vars
  <2>1. UNCHANGED <<slapd, cache, master, loaded, pc, id, cur, prev, found>>
    BY <1>7 DEF ResyncLdif, vars, disk
  <2> QED  BY <1>1, <1>2, <2>1, SameFollowing
<1> QED  BY <1>2, <1>3, <1>4, <1>5, <1>6, <1>7 DEF Next

LEMMA AlwaysConverging == Undisturbed /\ NoneForgotten => (Spec => []Converging)
<1> SUFFICES ASSUME Undisturbed, NoneForgotten  PROVE Spec => []Converging
  OBVIOUS
<1>1. Init /\ Typed => Converging
  BY InitConverging
<1>2. Typed /\ Typed' /\ Converging /\ [Next]_vars => Converging'
  BY StepConverging
<1> QED  BY <1>1, <1>2, AlwaysTyped, PTL DEF Spec

\* Once all transactions are done nothing waits, and what no transaction is to
\* change is what LDAP shows.
LEMMA ConvergedCache ==
  ASSUME Typed, Converging
  PROVE  CacheConverges
<1> SUFFICES ASSUME CaughtUp, NEW dn \in DNs
             PROVE  \/ Plain(cache[dn]) = IF dn \in Visible THEN ldap[dn] ELSE None
                    \/ dn \in Visible /\ ldap[dn].val \in Uncached
                    \/ Plain(cache[dn]) = None /\ \A h \in ready : ~Matches(h, ldap[dn])
  BY DEF CacheConverges
<1>1. PICK who : Following(who)
  BY DEF Converging
<1>2. Cached /\ Placed /\ Loading
  BY <1>1 DEF Following
<1>3. pc = "listen" /\ prev = None /\ id = Len(log)
  BY DEF CaughtUp
<1>4. ready = states
  BY <1>2, <1>3 DEF Loading, Served, Importing
<1>5. Handled = Len(log) /\ Len(log) \in Nat
  BY <1>2, <1>3, Typing DEF Placed, Between, Handled, Finished
<1>6. \A cs : ~Waits(Handled, dn, cs)
  BY <1>5 DEF Waits
<1>7. Fits(dn, Handled)
  BY <1>2 DEF Cached
<1>8. CASE dn \notin Visible
  BY <1>6, <1>7, <1>8 DEF Fits, Plain
<1>9. CASE dn \in Visible
  <2>1. Valid(cache[dn]) # None => Plain(cache[dn]) = Object(cache[dn])
    BY DEF Plain
  <2>2. Valid(cache[dn]) = None => Plain(cache[dn]) = None
    BY DEF Plain
  <2> QED  BY <1>4, <1>6, <1>7, <1>9, <2>1, <2>2 DEF Fits, UpToDateAt
<1> QED  BY <1>8, <1>9

\* Once the listener has worked off all transactions its cache is what LDAP shows
\* it, for any objects, modules, filters, crashes and restarts - unless an object
\* vanishes or its name is taken again before its transactions are worked on, or a
\* module that may fail is left behind when another is initialised.
THEOREM CacheIsRight == Undisturbed /\ NoneForgotten => (Spec => []CacheConverges)
<1> SUFFICES ASSUME Undisturbed, NoneForgotten  PROVE Spec => []CacheConverges
  OBVIOUS
<1>1. Spec => []Converging
  BY AlwaysConverging
<1>2. Typed /\ Converging => CacheConverges
  BY ConvergedCache
<1> QED  BY <1>1, <1>2, AlwaysTyped, PTL

=============================================================================
