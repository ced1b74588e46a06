----------------------------- MODULE Allocators -----------------------------
(***************************************************************************)
(* How Univention Directory Manager gives users and groups their numbers   *)
(* and keeps names and numbers unique: allocators.py and locking.py, as    *)
(* the create() and remove() of users/user and groups/group call them.     *)
(*                                                                         *)
(* A lock is an LDAP object below cn=temporary,cn=univention with a        *)
(* lockTime; there is no other coordination between the UDM processes of a *)
(* domain.  Every LDAP operation of a process is one action: between two   *)
(* of them any other process may act, time may pass and the process may    *)
(* die.                                                                    *)
(***************************************************************************)
EXTENDS Integers, Sequences, FiniteSets

CONSTANTS
  Procs,      \* UDM processes; each does one job
  Jobs,       \* what a process may be asked to do
  Existing,   \* the users and groups that are there at the start
  Stale,      \* the locks that processes which died earlier have left
  Names,      \* user and group names
  NoProc,     \* the creator of the existing objects
  Ranges,     \* the ranges request() passes to acquireRange()
  Timeout,    \* the life of a lock, 300 s in the code
  MaxTime,    \* bound on the clock
  MaxCrash    \* bound on the number of processes that die

NoNumber == 0     \* a job that leaves the number to the allocator
Free == 0     \* lockTime of a lock that does not exist
Start == 1    \* the time at the start

Kinds == {"user", "group"}
Last == LET ends == {Ranges[i].last : i \in DOMAIN Ranges}
        IN CHOOSE m \in ends : \A e \in ends : e <= m
\* The loop tries one number more than the range has.
Numbers == 1 .. Last + 1
Objects == [kind : Kinds, name : Names, number : Numbers, by : Procs \cup {NoProc}]

NumberLock(kind, n) == <<IF kind = "user" THEN "uidNumber" ELSE "gidNumber", n>>
NameLock(kind, name) == <<IF kind = "user" THEN "uid" ELSE "groupName", name>>
Other(kind) == IF kind = "user" THEN "group" ELSE "user"

NumberLocks == {NumberLock(k, n) : k \in Kinds, n \in Numbers}
NameLocks == {NameLock(k, n) : k \in Kinds, n \in Names}
LockDns == NumberLocks \cup NameLocks

ASSUME RangesAssumption ==
  /\ Ranges \in Seq([first : Nat \ {0}, last : Nat \ {0}]) /\ Ranges # <<>>
  /\ Last \in Nat
  /\ \A i \in DOMAIN Ranges : Ranges[i].first <= Last /\ Ranges[i].last <= Last
ASSUME JobAssumption ==
  /\ Jobs \subseteq [op : {"create", "remove"}, kind : Kinds, name : Names,
                     number : Numbers \cup {NoNumber}]
  /\ Existing \subseteq {o \in Objects : o.by = NoProc}
  /\ NoProc \notin Procs
  /\ Stale \subseteq LockDns
ASSUME ExistingAssumption ==
  \A o1, o2 \in Existing :
    o1 # o2 /\ o1.kind = o2.kind =>
      /\ o1.number # o2.number
      /\ o1.kind = "user" => o1.name # o2.name
ASSUME TimeAssumption == Timeout \in Nat \ {0} /\ MaxTime \in Nat /\ MaxCrash \in Nat

VARIABLES
  locks,    \* [LockDns -> lockTime], Free when there is no lock object
  objects,  \* the users and groups in LDAP
  lastUsed, \* univentionLastUsedValue of uidNumber and gidNumber, 0 when unset
  clock,    \* the wall clock, the same for all processes
  crashes,
  job,      \* [Procs -> Jobs]
  pc,       \* the next LDAP operation of a process
  stage,    \* the lock a process is after: "name", "number" or "other"
  id,       \* startID of acquireRange, or the number asked for
  range,    \* the index of _range in acquireRange
  now,      \* lock(): the time at its start
  old,      \* lock(): the lockTime it read
  alloc,    \* self.alloc: the locks to confirm or to release
  mine,     \* history: the locks a process has taken and not yet deleted
  spoilt    \* history: the locks that were taken away from a live holder
          
ldap == <<locks, objects, lastUsed>>
env == <<clock, crashes, job>>
local == <<pc, stage, id, range, now, old, alloc>>
vars == <<ldap, env, local, mine, spoilt>>

Kind(p) == job[p].kind
IsAuto(p) == job[p].number = NoNumber

\* The lock that lock() or unlock() is called for in the present stage.
Target(p) ==
  CASE stage[p] = "name"   -> NameLock(Kind(p), job[p].name)
    [] stage[p] = "number" -> NumberLock(Kind(p), id[p])
    [] stage[p] = "other"  -> NumberLock(Other(Kind(p)), id[p])

Goto(p, l) == pc' = [pc EXCEPT ![p] = l]
GotoStage(p, l, s) == Goto(p, l) /\ stage' = [stage EXCEPT ![p] = s]

-----------------------------------------------------------------------------
(* Steps that several operations share.                                    *)

\* Where a creation turns to its number: a number of its own is the lock to
\* get, otherwise acquireRange() starts with univentionLastUsedValue.
StartNumber(p) ==
  IF IsAuto(p)
  THEN GotoStage(p, "lastused", "number") /\ UNCHANGED id
  ELSE GotoStage(p, "get", "number") /\ id' = [id EXCEPT ![p] = job[p].number]

Append1(p, l, update) ==
  alloc' = [alloc EXCEPT ![p] = Append(@, [lock |-> l, update |-> update])]

\* The number is reserved.  A user is checked against the groups next; a group
\* notes its name in self.alloc BEFORE it asks for the lock of that name.
NumberReserved(p) ==
  LET number == [lock |-> NumberLock(Kind(p), id[p]), update |-> IsAuto(p)]
      name == [lock |-> NameLock("group", job[p].name), update |-> FALSE]
  IN IF Kind(p) = "user"
     THEN /\ alloc' = [alloc EXCEPT ![p] = Append(@, number)]
          /\ Goto(p, "check") /\ UNCHANGED stage
     ELSE /\ alloc' = [alloc EXCEPT ![p] = @ \o <<number, name>>]
          /\ GotoStage(p, "get", "name")

\* lock() raised noLock or objectExists.  acquireRange() tries the next number,
\* every other caller gives up and releases what it has noted.
Refused(p) ==
  /\ Goto(p, IF stage[p] # "name" /\ IsAuto(p) THEN "next" ELSE "cancel")
  /\ UNCHANGED stage

\* Mutant: the number is not locked for the other kind before the search.
AcquiredAlone(p) ==
  /\ mine' = [mine EXCEPT ![p] = @ \cup {Target(p)}]
  /\ Goto(p, "search")
  /\ stage' = [stage EXCEPT ![p] = IF @ = "number" /\ IsAuto(p) THEN "other" ELSE @]

Acquired(p) ==
  /\ mine' = [mine EXCEPT ![p] = @ \cup {Target(p)}]
  /\ IF stage[p] = "number" /\ IsAuto(p)
     THEN GotoStage(p, "get", "other")
     ELSE Goto(p, "search") /\ UNCHANGED stage

\* unlock(): the lock object is deleted, whoever created it.
Unlock(p, l) ==
  /\ locks' = [locks EXCEPT ![l] = Free]
  /\ mine' = [mine EXCEPT ![p] = @ \ {l}]

-----------------------------------------------------------------------------
Init ==
  /\ locks = [l \in LockDns |-> IF l \in Stale THEN Start ELSE Free]
  /\ objects = Existing
  /\ lastUsed = [k \in Kinds |-> 0]
  /\ clock = Start
  /\ crashes = 0
  /\ job \in [Procs -> Jobs]
  /\ pc = [p \in Procs |-> "start"]
  /\ stage = [p \in Procs |-> "name"]
  /\ id = [p \in Procs |-> 0]
  /\ range = [p \in Procs |-> 1]
  /\ now = [p \in Procs |-> 0]
  /\ old = [p \in Procs |-> 0]
  /\ alloc = [p \in Procs |-> <<>>]
  /\ mine = [p \in Procs |-> {}]
  /\ spoilt = {}

(* create(): a user first reserves its name (_ldap_pre_ready), a group is  *)
(* first checked against the users' numbers (_ldap_pre_create).            *)
\* Mutant: the name is searched without its lock.
StartUserUnlocked(p) ==
  /\ pc[p] = "start" /\ job[p].op = "create" /\ Kind(p) = "user"
  /\ GotoStage(p, "search", "name")
  /\ UNCHANGED <<ldap, env, id, range, now, old, alloc, mine, spoilt>>

StartUser(p) ==
  /\ pc[p] = "start" /\ job[p].op = "create" /\ Kind(p) = "user"
  /\ GotoStage(p, "get", "name")
  /\ UNCHANGED <<ldap, env, id, range, now, old, alloc, mine, spoilt>>

StartGroup(p) ==
  /\ pc[p] = "start" /\ job[p].op = "create" /\ Kind(p) = "group"
  /\ Goto(p, "check")
  /\ UNCHANGED <<ldap, env, stage, id, range, now, old, alloc, mine, spoilt>>

(* _check_uid_gid_uniqueness(): a user has its number by then, a group     *)
(* only the one it was asked to take.                                      *)
CheckUniqueness(p) ==
  /\ pc[p] = "check"
  /\ LET number == IF Kind(p) = "user" THEN id[p] ELSE job[p].number
         taken == \E o \in objects : o.kind # Kind(p) /\ o.number = number
     IN \/ taken /\ Goto(p, "cancel") /\ UNCHANGED <<stage, id>>
        \/ ~taken /\ Kind(p) = "user" /\ Goto(p, "add") /\ UNCHANGED <<stage, id>>
        \/ ~taken /\ Kind(p) = "group" /\ StartNumber(p)
  /\ UNCHANGED <<ldap, env, range, now, old, alloc, mine, spoilt>>

(* acquireRange(): startID is the last value used, or the first of the     *)
(* first range.                                                            *)
ReadLastUsed(p) ==
  /\ pc[p] = "lastused"
  /\ LET first == Ranges[1].first
     IN id' = [id EXCEPT ![p] = IF lastUsed[Kind(p)] < first THEN first
                                ELSE lastUsed[Kind(p)]]
  /\ range' = [range EXCEPT ![p] = 1]
  /\ Goto(p, "next")
  /\ UNCHANGED <<ldap, env, stage, now, old, alloc, mine, spoilt>>

(* The head of its loop.  After a number whose second lock was refused the *)
(* first one is given back - unless the range ends there.                  *)
\* Mutant: the loop runs one number further.
NextNumberTooFar(p) ==
  /\ pc[p] = "next"
  /\ id[p] <= Ranges[range[p]].last + 1
  /\ id' = [id EXCEPT ![p] = @ + 1]
  /\ GotoStage(p, IF stage[p] = "other" THEN "giveprev" ELSE "get", "number")
  /\ UNCHANGED <<ldap, env, range, now, old, alloc, mine, spoilt>>

NextNumber(p) ==
  /\ pc[p] = "next"
  /\ id[p] < Ranges[range[p]].last + 1
  /\ id' = [id EXCEPT ![p] = @ + 1]
  /\ GotoStage(p, IF stage[p] = "other" THEN "giveprev" ELSE "get", "number")
  /\ UNCHANGED <<ldap, env, range, now, old, alloc, mine, spoilt>>

NextRange(p) ==
  /\ pc[p] = "next"
  /\ id[p] >= Ranges[range[p]].last + 1
  /\ stage' = [stage EXCEPT ![p] = "number"]
  /\ IF range[p] = Len(Ranges)
     THEN Goto(p, "cancel") /\ UNCHANGED <<id, range>>
     ELSE LET first == Ranges[range[p] + 1].first
          IN /\ range' = [range EXCEPT ![p] = @ + 1]
             /\ id' = [id EXCEPT ![p] = IF @ < first THEN first ELSE @]
             /\ UNCHANGED pc
  /\ UNCHANGED <<ldap, env, now, old, alloc, mine, spoilt>>

\* Mutant: the number that is about to be locked is unlocked.
GiveBackCurrent(p) ==
  /\ pc[p] = "giveprev"
  /\ Unlock(p, NumberLock(Kind(p), id[p]))
  /\ Goto(p, "get")
  /\ UNCHANGED <<objects, lastUsed, env, stage, id, range, now, old, alloc, spoilt>>

\* unlock(atype, startID - 1)
GiveBackPrevious(p) ==
  /\ pc[p] = "giveprev"
  /\ Unlock(p, NumberLock(Kind(p), id[p] - 1))
  /\ Goto(p, "get")
  /\ UNCHANGED <<objects, lastUsed, env, stage, id, range, now, old, alloc, spoilt>>

-----------------------------------------------------------------------------
(* lock(): look the lock up, add it, or take it over when it has expired.  *)
LockLookup(p) ==
  /\ pc[p] = "get"
  /\ now' = [now EXCEPT ![p] = clock]
  /\ Goto(p, IF locks[Target(p)] = Free THEN "lock" ELSE "read")
  /\ UNCHANGED <<ldap, env, stage, id, range, old, alloc, mine, spoilt>>

LockAdd(p) ==
  /\ pc[p] = "lock"
  /\ IF locks[Target(p)] = Free
     THEN /\ locks' = [locks EXCEPT ![Target(p)] = now[p] + Timeout]
          /\ Acquired(p)
     ELSE Refused(p) /\ UNCHANGED <<locks, mine>>
  /\ UNCHANGED <<objects, lastUsed, env, id, range, now, old, alloc, spoilt>>

LockRead(p) ==
  /\ pc[p] = "read"
  /\ old' = [old EXCEPT ![p] = locks[Target(p)]]
  /\ IF old'[p] # Free /\ old'[p] < now[p]
     THEN Goto(p, "takeover") /\ UNCHANGED stage
     ELSE Refused(p)
  /\ UNCHANGED <<ldap, env, id, range, now, alloc, mine, spoilt>>

\* univention.uldap's modify() replaces the value: what is there by now is not
\* compared with what was read.  A lock that is gone raises an LDAP error.
LockTakeover(p) ==
  /\ pc[p] = "takeover"
  /\ IF locks[Target(p)] # Free
     THEN /\ locks' = [locks EXCEPT ![Target(p)] = now[p] + Timeout]
          /\ spoilt' = spoilt \cup {l \in {Target(p)} : \E q \in Procs : l \in mine[q]}
          /\ Acquired(p)
     ELSE Goto(p, "cancel") /\ UNCHANGED <<locks, stage, mine, spoilt>>
  /\ UNCHANGED <<objects, lastUsed, env, id, range, now, old, alloc>>

-----------------------------------------------------------------------------
(* acquireUnique() for a name: users and groups share the names, but not   *)
(* the lock.  A user notes its name only now.                              *)
SearchName(p) ==
  /\ pc[p] = "search" /\ stage[p] = "name"
  /\ IF \E o \in objects : o.name = job[p].name
     THEN Goto(p, "cancel") /\ UNCHANGED <<stage, id, alloc>>
     ELSE IF Kind(p) = "user"
          THEN Append1(p, Target(p), FALSE) /\ StartNumber(p)
          ELSE Goto(p, "add") /\ UNCHANGED <<stage, id, alloc>>
  /\ UNCHANGED <<ldap, env, range, now, old, mine, spoilt>>

(* acquireUnique() for a given number: only the attribute of its own kind  *)
(* is searched; a number in use raises noLock and leaves the lock behind.  *)
SearchUnique(p) ==
  /\ pc[p] = "search" /\ stage[p] = "number"
  /\ IF \E o \in objects : o.kind = Kind(p) /\ o.number = id[p]
     THEN Goto(p, "cancel") /\ UNCHANGED <<stage, alloc>>
     ELSE NumberReserved(p)
  /\ UNCHANGED <<ldap, env, id, range, now, old, mine, spoilt>>

(* acquireRange() with both locks: a number that a user or a group has is  *)
(* given back, a new one gives back the second lock only.                  *)
SearchRange(p) ==
  /\ pc[p] = "search" /\ stage[p] = "other"
  /\ Goto(p, IF \E o \in objects : o.number = id[p] THEN "giveback" ELSE "found")
  /\ UNCHANGED <<ldap, env, stage, id, range, now, old, alloc, mine, spoilt>>

GiveBack(p) ==
  /\ pc[p] = "giveback"
  /\ Unlock(p, NumberLock(Kind(p), id[p]))
  /\ Goto(p, "giveother")
  /\ UNCHANGED <<objects, lastUsed, env, stage, id, range, now, old, alloc, spoilt>>

GiveBackOther(p) ==
  /\ pc[p] = "giveother"
  /\ Unlock(p, Target(p))
  /\ GotoStage(p, "next", "number")
  /\ UNCHANGED <<objects, lastUsed, env, id, range, now, old, alloc, spoilt>>

\* Mutant: the lock of the number itself is given back.
TakeNumberUnlocked(p) ==
  /\ pc[p] = "found"
  /\ Unlock(p, NumberLock(Kind(p), id[p]))
  /\ NumberReserved(p)
  /\ UNCHANGED <<objects, lastUsed, env, id, range, now, old, spoilt>>

TakeNumber(p) ==
  /\ pc[p] = "found"
  /\ Unlock(p, Target(p))
  /\ NumberReserved(p)
  /\ UNCHANGED <<objects, lastUsed, env, id, range, now, old, spoilt>>

-----------------------------------------------------------------------------
(* _create(): the object is added, then _ldap_post_create() confirms the   *)
(* locks, the last one first.                                              *)
AddObject(p) ==
  /\ pc[p] = "add"
  /\ objects' = objects \cup
       {[kind |-> Kind(p), name |-> job[p].name, number |-> id[p], by |-> p]}
  /\ Goto(p, "confirm")
  /\ UNCHANGED <<locks, lastUsed, env, stage, id, range, now, old, alloc, mine, spoilt>>

\* lo.add() is refused (permissions, schema, the DN exists): cancel().
AddFails(p) ==
  /\ pc[p] = "add"
  /\ Goto(p, "cancel")
  /\ UNCHANGED <<ldap, env, stage, id, range, now, old, alloc, mine, spoilt>>

TopLock(p) == alloc[p][Len(alloc[p])]
Pop(p) == alloc' = [alloc EXCEPT ![p] = SubSeq(@, 1, Len(@) - 1)]

ConfirmLastUsed(p) ==
  /\ pc[p] = "confirm" /\ alloc[p] # <<>> /\ TopLock(p).update
  /\ lastUsed' = [lastUsed EXCEPT ![Kind(p)] = TopLock(p).lock[2]]
  /\ Goto(p, "confirmed")
  /\ UNCHANGED <<locks, objects, env, stage, id, range, now, old, alloc, mine, spoilt>>

ConfirmUnlock(p) ==
  /\ \/ pc[p] = "confirm" /\ alloc[p] # <<>> /\ ~TopLock(p).update
     \/ pc[p] = "confirmed"
  /\ Unlock(p, TopLock(p).lock)
  /\ Pop(p)
  /\ Goto(p, "confirm")
  /\ UNCHANGED <<objects, lastUsed, env, stage, id, range, now, old, spoilt>>

(* cancel(): release everything in self.alloc.                             *)
Release(p) ==
  /\ pc[p] = "cancel" /\ alloc[p] # <<>>
  /\ LET l == TopLock(p).lock
     IN /\ Unlock(p, l)
        /\ spoilt' = spoilt \cup
             {k \in {l} : /\ job[p].op = "remove"
                          /\ \E q \in Procs : k \in mine[q]}
  /\ Pop(p)
  /\ UNCHANGED <<objects, lastUsed, env, pc, stage, id, range, now, old>>

Finish(p) ==
  /\ pc[p] \in {"confirm", "cancel"} /\ alloc[p] = <<>>
  /\ Goto(p, "end")
  /\ mine' = [mine EXCEPT ![p] = {}]
  /\ UNCHANGED <<ldap, env, stage, id, range, now, old, alloc, spoilt>>

(* remove(): the object is deleted, then _ldap_post_remove() releases the  *)
(* locks of its values - a group only that of its number.                  *)
Remove(p) ==
  /\ pc[p] = "start" /\ job[p].op = "remove"
  /\ \E o \in objects :
       /\ o.kind = Kind(p)
       /\ objects' = objects \ {o}
       /\ LET Entry(l) == [lock |-> l, update |-> FALSE]
              number == Entry(NumberLock(o.kind, o.number))
              name == Entry(NameLock(o.kind, o.name))
          IN alloc' = [alloc EXCEPT ![p] = IF o.kind = "user" THEN <<name, number>>
                                           ELSE <<number>>]
  /\ Goto(p, "cancel")
  /\ UNCHANGED <<locks, lastUsed, env, stage, id, range, now, old, mine, spoilt>>

-----------------------------------------------------------------------------
(* The process dies: its locks stay in LDAP.                               *)
Crash(p) ==
  /\ crashes < MaxCrash /\ pc[p] # "end"
  /\ crashes' = crashes + 1
  /\ Goto(p, "end")
  /\ mine' = [mine EXCEPT ![p] = {}]
  /\ UNCHANGED <<ldap, clock, job, stage, id, range, now, old, alloc, spoilt>>

Tick ==
  /\ clock < MaxTime
  /\ clock' = clock + 1
  /\ UNCHANGED <<ldap, crashes, job, local, mine, spoilt>>

Create(p) ==
  \/ StartUser(p) \/ StartGroup(p) \/ CheckUniqueness(p)
  \/ ReadLastUsed(p) \/ NextNumber(p) \/ NextRange(p) \/ GiveBackPrevious(p)
  \/ LockLookup(p) \/ LockAdd(p) \/ LockRead(p) \/ LockTakeover(p)
  \/ SearchName(p) \/ SearchUnique(p) \/ SearchRange(p)
  \/ GiveBack(p) \/ GiveBackOther(p) \/ TakeNumber(p)
  \/ AddObject(p) \/ AddFails(p) \/ ConfirmLastUsed(p) \/ ConfirmUnlock(p)
  \/ Release(p) \/ Finish(p)

Next == Tick \/ \E p \in Procs : Create(p) \/ Remove(p) \/ Crash(p)

Spec == Init /\ [][Next]_vars

-----------------------------------------------------------------------------
\* Only numbers are written to univentionLastUsedValue.
Entry == [lock : NumberLocks, update : BOOLEAN]
         \cup [lock : NameLocks, update : {FALSE}]

Labels == {"start", "check", "lastused", "next", "giveprev", "get", "lock", "read",
           "takeover", "search", "giveback", "giveother", "found", "add",
           "confirm", "confirmed", "cancel", "end"}

TypeOK ==
  /\ locks \in [LockDns -> Nat]
  /\ objects \subseteq Objects
  /\ lastUsed \in [Kinds -> Numbers \cup {0}]
  /\ clock \in Nat /\ crashes \in Nat
  /\ job \in [Procs -> Jobs]
  /\ pc \in [Procs -> Labels]
  /\ stage \in [Procs -> {"name", "number", "other"}]
  /\ id \in [Procs -> Numbers \cup {0}]
  /\ range \in [Procs -> DOMAIN Ranges]
  /\ now \in [Procs -> Nat] /\ old \in [Procs -> Nat]
  /\ alloc \in [Procs -> Seq(Entry)]
  /\ mine \in [Procs -> SUBSET LockDns]
  /\ spoilt \subseteq LockDns

\* The locks that protect uniqueness (groupName does not: see the README).
Guarded == NumberLocks \cup {NameLock("user", n) : n \in Names}

(* A lock that a live process holds exists, and no other live process      *)
(* holds it - unless somebody took it over after it had expired, or        *)
(* somebody removed an object with that value.                             *)
LockIsHeldOnce ==
  \A p \in Procs : \A l \in (mine[p] \cap Guarded) \ spoilt :
    /\ locks[l] # Free
    /\ \A q \in Procs \ {p} : l \notin mine[q]

(* Two users never get the same number, nor do two groups, whether it was  *)
(* allocated or asked for, while the lock of that number is respected.     *)
NumbersUnique ==
  \A o1, o2 \in objects :
    o1 # o2 /\ o1.kind = o2.kind /\ o1.number = o2.number
      => NumberLock(o1.kind, o1.number) \in spoilt

(* Neither do a user and a group whose numbers were both allocated, though *)
(* each of them holds only the lock of its own kind when it is added.      *)
Allocated(o) == o.by # NoProc /\ IsAuto(o.by)
UsersAndGroupsApart ==
  \A o1, o2 \in objects :
    o1.kind # o2.kind /\ o1.number = o2.number /\ Allocated(o1) /\ Allocated(o2)
      => {NumberLock(k, o1.number) : k \in Kinds} \cap spoilt # {}

(* Two users never get the same name while its lock is respected.          *)
UserNamesUnique ==
  \A o1, o2 \in objects :
    o1 # o2 /\ o1.kind = "user" /\ o2.kind = "user" /\ o1.name = o2.name
      => NameLock("user", o1.name) \in spoilt

(* What lock() documents: the time it returns is until when the lock is    *)
(* acquired, and noLock is raised if it cannot be acquired.  A lock that   *)
(* has not expired would never be overwritten.                             *)
ValidLockIsKept ==
  [][\A l \in LockDns : locks[l] >= clock => locks'[l] \in {locks[l], Free}]_vars
=============================================================================
