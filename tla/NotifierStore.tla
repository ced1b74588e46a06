---------------------------- MODULE NotifierStore ----------------------------
(***************************************************************************)
(* Where the notifier finds a transaction a listener asks for (GET_DN): in *)
(* the ring cache, else in the transaction file through its index.  The    *)
(* file and the index are written through stdio buffers, so a crash may    *)
(* leave a line half written and the index ahead of the file; after it the *)
(* batch in listener.priv is appended once more.                           *)
(*                                                                         *)
(* A line is two bytes: a head, which has the id, and a tail, which ends   *)
(* with the newline.  Positions count from 1.                              *)
(***************************************************************************)
EXTENDS Integers, Sequences, FiniteSets, FiniteSetsExt

CONSTANTS
  MaxId,      \* bound on the transactions
  MaxCrash,   \* bound on the crashes of the notifier
  CacheSize,  \* notifier_cache_size, option -C
  None

ASSUME StoreAssumption ==
  MaxId \in Nat \ {0} /\ MaxCrash \in Nat /\ CacheSize \in Nat \ {0}

VARIABLES
  tf,          \* the bytes of the transaction file on disk
  buf,         \* bytes in its stdio buffer
  idx,         \* the index on disk: position of the line, by id; 0: not valid
  ibuf,        \* the index entry in its stdio buffer
  done,        \* ids up to here have been unlinked from listener.priv
  last,        \* listener.priv has the ids done + 1..last
  pc, pos,     \* where the notifier is, and at which id
  lastId,      \* notify_last_id
  cache, entry_min_pos, max_filled,
  crashes

files == <<tf, buf, idx, ibuf>>
ring == <<cache, entry_min_pos, max_filled>>
vars == <<files, done, last, pc, pos, lastId, ring, crashes>>

----------------------------------------------------------------------------
(* The transaction file and its index *)

Ids == 0..MaxId
Bytes == [id : Ids, part : {"head", "tail"}]
Line(n) == <<[id |-> n, part |-> "head"], [id |-> n, part |-> "tail"]>>

\* None is a null pointer: no line and no index entry.
ASSUME NoneAssumption == None \notin Seq(Bytes) /\ None \notin [id : Ids, pos : Nat]

LineEnds == {k \in DOMAIN tf : tf[k].part = "tail"}
LineStarts == {k \in DOMAIN tf : k = 1 \/ k - 1 \in LineEnds}

\* fgets: from a position to the end of the line or of the file.
LineAt(k) == SubSeq(tf, k, Min({e \in LineEnds : e >= k} \cup {Len(tf)}))

\* An index entry that points into a line: sscanf may leave id undefined.
Parses(line, n) == IF line[1].part = "head" THEN {line[1].id = n} ELSE BOOLEAN

\* The loop over the whole file: it stops at the first complete line of the id
\* and sets the index for each line on its way.
Scanned(n) ==
  LET starts == {s \in LineStarts : \E e \in LineEnds : e >= s}
      hits == {s \in starts : tf[s].id = n}
      passed == {s \in starts : \A h \in hits : s <= h}
  IN [line |-> IF hits = {} THEN None ELSE LineAt(Min(hits)),
      idx |-> [m \in Ids |->
                 LET of == {s \in passed : tf[s].id = m}
                 IN IF of = {} THEN idx[m] ELSE Max(of)]]

\* notify_transcation_get_one_dn: what it may return, and the index after it.
GetOneDn(n) ==
  LET line == IF idx[n] = 0 THEN <<>> ELSE LineAt(idx[n])
  IN {IF found THEN [line |-> line, idx |-> idx] ELSE Scanned(n) :
        found \in IF line = <<>> THEN {FALSE} ELSE Parses(line, n)}

\* notify_transaction_get_last_notify_id: the line may be torn.
LastNotifyId == IF tf = <<>> THEN 0 ELSE tf[Max(LineStarts)].id

\* index_set seeks, which flushes the entry set before.
Flushed == IF ibuf = None THEN idx ELSE [idx EXCEPT ![ibuf.id] = ibuf.pos]
IndexSet(n, k) == idx' = Flushed /\ ibuf' = [id |-> n, pos |-> k]

----------------------------------------------------------------------------
(* The ring cache *)

Slots == 0..CacheSize - 1
Empty == [id |-> 0, line |-> None]

\* Mutant: the ring is searched from the back.
CacheHitBackwards(n) ==
  LET hits == {i \in 0..max_filled - 1 : cache[i].id = n}
  IN IF hits = {} THEN None ELSE cache[Max(hits)].line

\* notifier_cache_get looks at the slots below max_filled only.
CacheHit(n) ==
  LET hits == {i \in 0..max_filled - 1 : cache[i].id = n}
  IN IF hits = {} THEN None ELSE cache[Min(hits)].line

\* Mutant: the ring wraps one slot late.
WrapsLate == IF entry_min_pos < CacheSize THEN entry_min_pos + 1 ELSE 0

Wraps == IF entry_min_pos < CacheSize - 1 THEN entry_min_pos + 1 ELSE 0

\* notifier_cache_add: the first entry goes to slot 1 of an empty cache.
CacheAdd(n) ==
  LET entry == [id |-> n, line |-> Line(n)]
  IN \/ /\ max_filled < CacheSize - 1
        /\ max_filled' = max_filled + 1
        /\ cache' = [cache EXCEPT ![max_filled + 1] = entry]
        /\ UNCHANGED entry_min_pos
     \/ /\ max_filled >= CacheSize - 1
        /\ cache' = [cache EXCEPT ![entry_min_pos] = entry]
        /\ entry_min_pos' = Wraps
        /\ UNCHANGED max_filled

----------------------------------------------------------------------------
(* main: the last id, the cache, then the callback *)

First == lastId - (CacheSize - 1)

\* Mutant: requests are served before the callback has run.
StartServing ==
  /\ pc = "down"
  /\ lastId' = LastNotifyId
  /\ \E found \in GetOneDn(lastId') : idx' = found.idx
  /\ cache' = [i \in Slots |-> Empty] /\ entry_min_pos' = 0 /\ max_filled' = 0
  /\ pc' = "serve" /\ UNCHANGED pos
  /\ UNCHANGED <<tf, buf, ibuf, done, last, crashes>>

\* The loop counter is compared as an unsigned number: below 0 there is no loop.
Start ==
  /\ pc = "down"
  /\ lastId' = LastNotifyId
  /\ \E found \in GetOneDn(lastId') : idx' = found.idx
  /\ cache' = [i \in Slots |-> Empty] /\ entry_min_pos' = 0 /\ max_filled' = 0
  /\ IF First' < 0 THEN pc' = "take" /\ UNCHANGED pos
                   ELSE pc' = "init" /\ pos' = First'
  /\ UNCHANGED <<tf, buf, ibuf, done, last, crashes>>

\* notifier_cache_init, one id per step.
CacheInit ==
  /\ pc = "init"
  /\ \E found \in GetOneDn(pos) :
       /\ idx' = found.idx
       /\ IF found.line = None
            THEN /\ max_filled' = pos - First /\ pc' = "take"
                 /\ UNCHANGED <<cache, pos>>
            ELSE /\ cache' = [cache EXCEPT ![pos - First] =
                                [id |-> IF found.line[1].part = "head"
                                          THEN found.line[1].id ELSE 0,
                                 line |-> found.line]]
                 /\ IF pos = lastId
                      THEN max_filled' = pos - First + 1 /\ pc' = "take"
                      ELSE UNCHANGED <<max_filled, pc>>
                 /\ pos' = pos + 1
  /\ UNCHANGED <<tf, buf, ibuf, done, last, lastId, entry_min_pos, crashes>>

----------------------------------------------------------------------------
(* notify_listener_change_callback, from listener.priv to the broadcast *)

\* A left-over listener.priv, else what slapd has written by now.
Take ==
  /\ pc = "take"
  /\ last' \in IF last > done THEN {last} ELSE done..MaxId
  /\ pos' = done + 1
  /\ pc' = IF last' = done THEN "serve" ELSE "dump"
  /\ UNCHANGED <<files, done, lastId, ring, crashes>>

\* The buffer of stdio holds more than any one line; when a line fills it up, all
\* that fits goes to the disk, and the line may be cut.
Fprintf(line) ==
  \/ buf' = buf \o line /\ UNCHANGED tf
  \/ /\ Len(buf) >= 2
     /\ \E cut \in {0, 1} : /\ tf' = tf \o buf \o SubSeq(line, 1, cut)
                           /\ buf' = SubSeq(line, cut + 1, 2)

\* notify_dump_to_files: the index first, then the line.
DumpLine ==
  /\ pc = "dump"
  /\ IndexSet(pos, Len(tf) + Len(buf) + 1)
  /\ Fprintf(Line(pos))
  /\ pos' = pos + 1 /\ pc' = IF pos = last THEN "close" ELSE "dump"
  /\ UNCHANGED <<done, last, lastId, ring, crashes>>

CloseIndex ==
  /\ pc = "close" /\ ibuf # None
  /\ idx' = Flushed /\ ibuf' = None
  /\ UNCHANGED <<tf, buf, done, last, pc, pos, lastId, ring, crashes>>

CloseFile ==
  /\ pc = "close" /\ ibuf = None
  /\ tf' = tf \o buf /\ buf' = <<>>
  /\ pc' = "unlink"
  /\ UNCHANGED <<idx, ibuf, done, last, pos, lastId, ring, crashes>>

Unlink ==
  /\ pc = "unlink"
  /\ done' = last /\ pos' = done + 1
  /\ pc' = "publish"
  /\ UNCHANGED <<files, last, lastId, ring, crashes>>

Publish ==
  /\ pc = "publish"
  /\ CacheAdd(pos) /\ lastId' = pos
  /\ pos' = pos + 1 /\ pc' = IF pos = last THEN "serve" ELSE "publish"
  /\ UNCHANGED <<files, done, last, crashes>>

----------------------------------------------------------------------------
(* Requests, crashes and the administrator *)

\* What a listener is told: the cache first, then the file.
Answers(n) == IF CacheHit(n) # None THEN {CacheHit(n)}
                                    ELSE {found.line : found \in GetOneDn(n)}

GetDn(n) ==
  /\ pc = "serve" /\ n <= lastId /\ CacheHit(n) = None
  /\ \E found \in GetOneDn(n) : idx' = found.idx
  /\ UNCHANGED <<tf, buf, ibuf, done, last, pc, pos, lastId, ring, crashes>>

Signal ==
  /\ pc = "serve" /\ done < MaxId
  /\ pc' = "take"
  /\ UNCHANGED <<files, done, last, pos, lastId, ring, crashes>>

Crash ==
  /\ pc # "down" /\ crashes < MaxCrash
  /\ crashes' = crashes + 1
  /\ pc' = "down" /\ pos' = 0 /\ lastId' = 0
  /\ buf' = <<>> /\ ibuf' = None
  /\ cache' = [i \in Slots |-> Empty] /\ entry_min_pos' = 0 /\ max_filled' = 0
  /\ UNCHANGED <<tf, idx, done, last>>

\* No line is torn, and none has swallowed another.
WholeLines == \A s \in LineStarts : LineAt(s) = Line(tf[s].id)

\* univention-translog removes the index after it has repaired the file;
\* index_open makes a new one.
RemoveIndex ==
  /\ pc \in {"down", "serve"} /\ WholeLines
  /\ idx' = [n \in Ids |-> 0]
  /\ UNCHANGED <<tf, buf, ibuf, done, last, pc, pos, lastId, ring, crashes>>

Init ==
  /\ tf = <<>> /\ buf = <<>> /\ idx = [n \in Ids |-> 0] /\ ibuf = None
  /\ done = 0 /\ last = 0 /\ pc = "down" /\ pos = 0 /\ lastId = 0
  /\ cache = [i \in Slots |-> Empty] /\ entry_min_pos = 0 /\ max_filled = 0
  /\ crashes = 0

Next == \/ Start \/ CacheInit \/ Take \/ DumpLine
        \/ CloseIndex \/ CloseFile \/ Unlink \/ Publish
        \/ Signal \/ Crash \/ RemoveIndex
        \/ \E n \in 1..MaxId : GetDn(n)

Spec == Init /\ [][Next]_vars

----------------------------------------------------------------------------
(* Properties *)

TypeOK ==
  /\ tf \in Seq(Bytes) /\ buf \in Seq(Bytes)
  /\ idx \in [Ids -> Nat]
  /\ ibuf = None \/ ibuf \in [id : Ids, pos : Nat]
  /\ done \in Ids /\ last \in done..MaxId
  /\ pc \in {"down", "init", "take", "dump", "close", "unlink", "publish",
             "serve"}
  /\ pos \in 0..MaxId + 1 /\ lastId \in Ids
  /\ \A i \in Slots : /\ cache[i].id \in Ids
                      /\ cache[i].line = None \/ cache[i].line \in Seq(Bytes)
  /\ DOMAIN cache = Slots
  /\ entry_min_pos \in Slots /\ max_filled \in 0..CacheSize
  /\ crashes \in 0..MaxCrash

\* Whatever lines crashes have torn and whatever the cache picked up from them
\* at the start, a listener that asks for a published transaction gets that one:
\* it is neither told another nor disconnected.
GetDnIsRight ==
  pc = "serve" => \A n \in 1..lastId : Answers(n) = {Line(n)}

\* The last id read from a torn line is put right before requests are served:
\* nothing is served that is not done, and nothing that is done is refused.
LastIdIsDone == pc = "serve" => lastId = done

=============================================================================
