-------------------------- MODULE AllocatorsProofs --------------------------
(***************************************************************************)
(* Uniqueness of numbers and names, for any number of processes, any jobs, *)
(* ranges and lives of the locks.                                          *)
(*                                                                         *)
(* The argument: from its search for a number or a name until its object   *)
(* is added a process holds the lock of it, so that nobody else adds an    *)
(* object with that value; a process that allocates a number holds, at its *)
(* search, the locks of both kinds, so that of a user and a group that     *)
(* want the same number the later one meets a lock of the earlier.  All of *)
(* it is said of the locks that are not spoilt.                            *)
(***************************************************************************)
EXTENDS Allocators, SequenceTheorems, TLAPS

-----------------------------------------------------------------------------
(* The inductive invariant: each process by itself *)

Asking == {"get", "lock", "read", "takeover"}
Searching == Asking \cup {"search"}
Numbering == Searching \cup {"lastused", "next", "giveprev", "giveback",
                             "giveother", "found"}
Done == {"start", "confirm", "confirmed", "cancel", "end"}

\* The locks p still holds, or of which nothing is claimed.
Safe(p) == mine[p] \cup spoilt
Own(p) == NumberLock(Kind(p), id[p])
Second(p) == NumberLock(Other(Kind(p)), id[p])

\* p has found its number, or its name, to be free and has not used it yet.
Reserved(p) ==
  \/ pc[p] \in {"found", "add"}
  \/ Kind(p) = "user" /\ pc[p] = "check"
  \/ Kind(p) = "group" /\ stage[p] = "name" /\ pc[p] \in Searching
Named(p) == Kind(p) = "user" /\ stage[p] # "name" /\ pc[p] \notin Done

Control(p) ==
  /\ job[p].op = "remove" => pc[p] \in {"start", "cancel", "end"} /\ mine[p] = {}
  /\ pc[p] = "start" => stage[p] = "name"
  /\ pc[p] \in {"lastused", "next", "giveprev"} => IsAuto(p)
  /\ pc[p] \in {"lastused", "giveprev"} => stage[p] = "number"
  /\ pc[p] = "next" => stage[p] # "name"
  /\ pc[p] \in {"giveback", "giveother", "found"} => stage[p] = "other"
  /\ stage[p] = "other" => IsAuto(p)
  /\ pc[p] = "search" /\ stage[p] = "number" => ~IsAuto(p)
  /\ Kind(p) = "user" /\ pc[p] \in {"check", "add"} => stage[p] # "name"
  /\ Kind(p) = "group" /\ pc[p] = "check" => stage[p] = "name"

IdIsNumber(p) ==
  /\ Reserved(p) => id[p] \in Numbers
  /\ stage[p] # "name" /\ pc[p] \notin Done \cup {"lastused"} => id[p] \in Numbers
  /\ pc[p] = "giveprev" => id[p] - 1 \in Numbers

Held(p) ==
  /\ pc[p] = "search" => Target(p) \in Safe(p)
  /\ Reserved(p) => Own(p) \in Safe(p)
  /\ stage[p] = "other" /\ pc[p] \in Searching \cup {"next", "giveback"}
       => Own(p) \in Safe(p)
  /\ pc[p] \in {"giveback", "giveother", "found"} => Second(p) \in Safe(p)
  /\ pc[p] = "giveprev" => NumberLock(Kind(p), id[p] - 1) \in Safe(p)
  /\ Named(p) => NameLock("user", job[p].name) \in Safe(p)

\* What p has noted in self.alloc it holds, and it has noted nothing twice.
Noted(p) ==
  /\ pc[p] = "confirmed" => alloc[p] # <<>>
  /\ job[p].op = "create" /\ pc[p] # "end" =>
       /\ \A i \in DOMAIN alloc[p] :
            alloc[p][i].lock \in Guarded => alloc[p][i].lock \in Safe(p)
       /\ \A i, j \in DOMAIN alloc[p] :
            alloc[p][i].lock = alloc[p][j].lock => i = j
  /\ stage[p] # "name" /\ pc[p] \in Numbering =>
       \A i \in DOMAIN alloc[p] : alloc[p][i].lock \in NameLocks
  /\ \/ pc[p] = "start"
     \/ Kind(p) = "user" /\ stage[p] = "name" /\ pc[p] \in Searching
     \/ Kind(p) = "group" /\ pc[p] = "check"
     \/ Kind(p) = "group" /\ stage[p] # "name" /\ pc[p] \in Numbering
     => alloc[p] = <<>>

Local(p) == Control(p) /\ IdIsNumber(p) /\ Held(p) /\ Noted(p)

(* ... and the processes among each other *)

BothLocks(n) == {NumberLock(k, n) : k \in Kinds}

NumberStaysFree ==
  \A p \in Procs : Reserved(p) =>
    \A o \in objects : o.kind = Kind(p) /\ o.number = id[p] => Own(p) \in spoilt

NameStaysFree ==
  \A p \in Procs : Named(p) =>
    \A o \in objects : o.kind = "user" /\ o.name = job[p].name
                         => NameLock("user", job[p].name) \in spoilt

OtherKindStaysFree ==
  \A p \in Procs : Reserved(p) /\ IsAuto(p) =>
    \A o \in objects : o.kind # Kind(p) /\ o.number = id[p] /\ Allocated(o)
                         => BothLocks(id[p]) \cap spoilt # {}

ReservedApart ==
  \A p, q \in Procs :
    /\ Reserved(p) /\ IsAuto(p) /\ Reserved(q) /\ IsAuto(q)
    /\ Kind(p) # Kind(q) /\ id[p] = id[q]
    => BothLocks(id[p]) \cap spoilt # {}

Values == /\ NumberStaysFree /\ NameStaysFree /\ OtherKindStaysFree /\ ReservedApart
          /\ NumbersUnique /\ UsersAndGroupsApart /\ UserNamesUnique

IInv == TypeOK /\ (\A p \in Procs : Local(p)) /\ LockIsHeldOnce /\ Values

-----------------------------------------------------------------------------
(* Locks, entries and sequences of them *)

LEMMA NumberFacts ==
  /\ Numbers \subseteq Nat /\ Last \in Nat
  /\ \A n \in Numbers : n >= 1 /\ n <= Last + 1
  /\ \A n \in Nat : n >= 1 /\ n <= Last + 1 => n \in Numbers
  /\ \A i \in DOMAIN Ranges :
       /\ Ranges[i].first \in Numbers /\ Ranges[i].last \in Nat
       /\ Ranges[i].last <= Last
  /\ 1 \in DOMAIN Ranges /\ Len(Ranges) \in Nat /\ DOMAIN Ranges = 1..Len(Ranges)
<1> HIDE DEF Last
<1>1. /\ Ranges \in Seq([first : Nat \ {0}, last : Nat \ {0}]) /\ Ranges # <<>>
      /\ Last \in Nat
      /\ \A i \in DOMAIN Ranges : Ranges[i].first <= Last /\ Ranges[i].last <= Last
  BY RangesAssumption DEF RangesAssumption
<1>2. Len(Ranges) \in Nat /\ DOMAIN Ranges = 1..Len(Ranges) /\ 1 \in DOMAIN Ranges
  BY <1>1
<1>3. \A i \in DOMAIN Ranges : /\ Ranges[i].first \in Nat \ {0}
                               /\ Ranges[i].last \in Nat \ {0}
  <2>1. \A i \in DOMAIN Ranges : Ranges[i] \in [first : Nat \ {0}, last : Nat \ {0}]
    BY <1>1, <1>2, ElementOfSeq
  <2> QED  BY <2>1
<1> QED  BY <1>1, <1>2, <1>3 DEF Numbers

LEMMA LockFacts ==
  /\ \A k \in Kinds, n \in Numbers : /\ NumberLock(k, n) \in NumberLocks
                                     /\ NumberLock(k, n)[2] = n
  /\ \A k \in Kinds, n \in Names : NameLock(k, n) \in NameLocks
  /\ \A n \in Names : NameLock("user", n) \in Guarded
  /\ \A n \in Names : NameLock("group", n) \notin Guarded
  /\ NumberLocks \subseteq Guarded /\ NumberLocks \subseteq LockDns
  /\ NameLocks \subseteq LockDns
  /\ \A l \in NumberLocks : l[2] \in Numbers
  /\ NumberLocks \cap NameLocks = {}
BY DEF Kinds, NumberLocks, NameLocks, NumberLock, NameLock, LockDns, Guarded

LEMMA NumberLockInjective ==
  \A k1, k2 \in Kinds : \A n1, n2 :
    NumberLock(k1, n1) = NumberLock(k2, n2) => k1 = k2 /\ n1 = n2
BY DEF Kinds, NumberLock

LEMMA KindFacts ==
  ASSUME TypeOK, NEW p \in Procs
  PROVE  /\ Kind(p) \in Kinds /\ Other(Kind(p)) \in Kinds
         /\ Other(Kind(p)) # Kind(p) /\ job[p].name \in Names
         /\ job[p].op \in {"create", "remove"}
         /\ ~IsAuto(p) => job[p].number \in Numbers
BY JobAssumption DEF JobAssumption, TypeOK, Kind, Kinds, Other, IsAuto, NoNumber

\* What Append(s, x) and SubSeq(s, 1, Len(s) - 1) hold.
LEMMA PushEntry ==
  ASSUME NEW S, NEW s \in Seq(S), NEW x \in S
  PROVE  /\ Append(s, x) \in Seq(S)
         /\ DOMAIN Append(s, x) = DOMAIN s \cup {Len(s) + 1}
         /\ Len(s) + 1 \notin DOMAIN s
         /\ Append(s, x)[Len(s) + 1] = x
         /\ \A i \in DOMAIN s : Append(s, x)[i] = s[i]
<1>1. DOMAIN s = 1..Len(s) /\ Len(s) \in Nat
  BY LenProperties
<1>2. /\ Append(s, x) \in Seq(S) /\ Len(Append(s, x)) = Len(s) + 1
      /\ \A i \in 1..Len(s) : Append(s, x)[i] = s[i]
      /\ Append(s, x)[Len(s) + 1] = x
  BY AppendProperties
<1>3. DOMAIN Append(s, x) = 1..Len(s) + 1
  BY <1>2, LenProperties
<1> QED  BY <1>1, <1>2, <1>3

LEMMA PopEntry ==
  ASSUME NEW S, NEW s \in Seq(S), s # <<>>
  PROVE  /\ Len(s) \in DOMAIN s /\ s[Len(s)] \in S
         /\ SubSeq(s, 1, Len(s) - 1) \in Seq(S)
         /\ DOMAIN SubSeq(s, 1, Len(s) - 1) = DOMAIN s \ {Len(s)}
         /\ \A i \in DOMAIN s \ {Len(s)} : SubSeq(s, 1, Len(s) - 1)[i] = s[i]
<1>1. /\ DOMAIN s = 1..Len(s) /\ Len(s) \in Nat \ {0}
      /\ \A i \in 1..Len(s) : s[i] \in S
  BY LenProperties, EmptySeq, ElementOfSeq
<1>2. /\ SubSeq(s, 1, Len(s) - 1) \in Seq(S)
      /\ Len(SubSeq(s, 1, Len(s) - 1)) = Len(s) - 1
      /\ \A i \in 1..Len(s) - 1 - 1 + 1 : SubSeq(s, 1, Len(s) - 1)[i] = s[1 + i - 1]
  <2>1. \A i \in 1..Len(s) - 1 : s[i] \in S
    BY <1>1
  <2> QED  BY <1>1, <2>1, SubSeqProperties
<1>3. DOMAIN SubSeq(s, 1, Len(s) - 1) = 1..Len(s) - 1
  BY <1>2, LenProperties
<1> QED  BY <1>1, <1>2, <1>3

-----------------------------------------------------------------------------
(* Type correctness *)

LEMMA InitType == Init => TypeOK
<1> SUFFICES ASSUME Init PROVE TypeOK
  OBVIOUS
<1>1. locks \in [LockDns -> Nat]
  BY DEF Init, Start, Free
<1>2. objects \subseteq Objects
  BY JobAssumption DEF Init, JobAssumption
<1>3. /\ lastUsed \in [Kinds -> Numbers \cup {0}] /\ clock \in Nat /\ crashes \in Nat
      /\ job \in [Procs -> Jobs]
  BY DEF Init, Start
<1>4. range \in [Procs -> DOMAIN Ranges]
  BY NumberFacts DEF Init
<1>5. alloc \in [Procs -> Seq(Entry)] /\ mine \in [Procs -> SUBSET LockDns]
  BY DEF Init
<1> QED  BY <1>1, <1>2, <1>3, <1>4, <1>5 DEF Init, TypeOK, Labels

LEMMA TargetType ==
  ASSUME TypeOK, NEW p \in Procs, Local(p), pc[p] \in Searching
  PROVE  Target(p) \in LockDns
BY LockFacts, KindFacts
DEF TypeOK, Local, IdIsNumber, Target, Searching, Asking, Done

LEMMA OwnType ==
  ASSUME TypeOK, NEW p \in Procs, id[p] \in Numbers
  PROVE  Own(p) \in NumberLocks /\ Second(p) \in NumberLocks /\ Own(p) # Second(p)
BY LockFacts, KindFacts, NumberLockInjective DEF Own, Second

LEMMA TopType ==
  ASSUME TypeOK, NEW p \in Procs, alloc[p] # <<>>
  PROVE  /\ Len(alloc[p]) \in DOMAIN alloc[p]
         /\ TopLock(p) = alloc[p][Len(alloc[p])]
         /\ TopLock(p) \in Entry /\ TopLock(p).lock \in LockDns
         /\ TopLock(p).update => TopLock(p).lock[2] \in Numbers
<1>1. alloc[p] \in Seq(Entry)
  BY DEF TypeOK
<1>2. TopLock(p) \in Entry /\ Len(alloc[p]) \in DOMAIN alloc[p]
  BY <1>1, PopEntry DEF TopLock
<1>3. \A e \in Entry : e.lock \in LockDns /\ (e.update => e.lock[2] \in Numbers)
  BY LockFacts DEF Entry
<1> QED  BY <1>2, <1>3 DEF TopLock

\* What is appended to self.alloc.
LEMMA EntriesToNote ==
  ASSUME TypeOK, NEW p \in Procs
  PROVE  /\ [lock |-> NameLock(Kind(p), job[p].name), update |-> FALSE] \in Entry
         /\ [lock |-> NameLock("group", job[p].name), update |-> FALSE] \in Entry
         /\ id[p] \in Numbers =>
              [lock |-> NumberLock(Kind(p), id[p]), update |-> IsAuto(p)] \in Entry
BY LockFacts, KindFacts DEF Entry, IsAuto, Kinds

LEMMA NoteNumber ==
  ASSUME TypeOK, NEW p \in Procs, id[p] \in Numbers, NumberReserved(p)
  PROVE  /\ alloc' \in [Procs -> Seq(Entry)]
         /\ pc' = [pc EXCEPT ![p] = IF Kind(p) = "user" THEN "check" ELSE "get"]
         /\ stage' = [stage EXCEPT ![p] = IF Kind(p) = "user" THEN @ ELSE "name"]
<1> DEFINE number == [lock |-> NumberLock(Kind(p), id[p]), update |-> IsAuto(p)]
           name == [lock |-> NameLock("group", job[p].name), update |-> FALSE]
<1>1. number \in Entry /\ name \in Entry /\ alloc[p] \in Seq(Entry)
  BY EntriesToNote DEF TypeOK
<1> HIDE DEF number, name
<1>2. Append(alloc[p], number) \in Seq(Entry)
  BY <1>1, PushEntry
<1>3. <<number, name>> \in Seq(Entry)
  BY <1>1
<1>4. alloc[p] \o <<number, name>> \in Seq(Entry)
  BY <1>1, <1>3, ConcatProperties
<1>5. CASE Kind(p) = "user"
  BY <1>2, <1>5 DEF NumberReserved, Goto, TypeOK, number
<1>6. CASE Kind(p) # "user"
  <2>1. /\ alloc' = [alloc EXCEPT ![p] = @ \o <<number, name>>]
        /\ pc' = [pc EXCEPT ![p] = "get"] /\ stage' = [stage EXCEPT ![p] = "name"]
    BY <1>6, Zenon DEF NumberReserved, GotoStage, Goto, number, name
  <2> QED  BY <1>4, <1>6, <2>1 DEF TypeOK
<1> QED  BY <1>5, <1>6

\* Locking and giving back.
LEMMA LockType ==
  ASSUME TypeOK, NEW p \in Procs, Local(p),
         \/ GiveBackPrevious(p) \/ LockLookup(p) \/ LockAdd(p) \/ LockRead(p)
         \/ LockTakeover(p) \/ GiveBack(p) \/ GiveBackOther(p) \/ TakeNumber(p)
         \/ ConfirmUnlock(p) \/ Release(p)
  PROVE  TypeOK'
<1> USE DEF TypeOK, ldap, env, local, Goto, GotoStage
<1>0. \A l \in LockDns : Unlock(p, l) => /\ locks' \in [LockDns -> Nat]
                                         /\ mine' \in [Procs -> SUBSET LockDns]
  BY DEF Unlock, Free
<1>1. pc[p] \in Searching => Target(p) \in LockDns
  BY TargetType
<1>2. now[p] + Timeout \in Nat
  BY TimeAssumption DEF TimeAssumption
<1>3. Acquired(p) /\ pc[p] \in Searching
        => /\ mine' \in [Procs -> SUBSET LockDns] /\ pc' \in [Procs -> Labels]
           /\ stage' \in [Procs -> {"name", "number", "other"}]
  <2> SUFFICES ASSUME Acquired(p), pc[p] \in Searching
               PROVE  /\ mine' \in [Procs -> SUBSET LockDns] /\ pc' \in [Procs -> Labels]
                      /\ stage' \in [Procs -> {"name", "number", "other"}]
    OBVIOUS
  <2>1. mine' \in [Procs -> SUBSET LockDns]
    BY <1>1 DEF Acquired
  <2>2. CASE stage[p] = "number" /\ IsAuto(p)
    BY <2>1, <2>2 DEF Acquired, Labels
  <2>3. CASE ~(stage[p] = "number" /\ IsAuto(p))
    BY <2>1, <2>3 DEF Acquired, Labels
  <2> QED  BY <2>2, <2>3
<1>4. Refused(p) => pc' \in [Procs -> Labels] /\ stage' = stage
  BY DEF Refused, Labels
<1>5. CASE GiveBackPrevious(p)
  <2>1. NumberLock(Kind(p), id[p] - 1) \in LockDns
    BY <1>5, LockFacts, KindFacts DEF GiveBackPrevious, Local, IdIsNumber
  <2> QED  BY <1>0, <1>5, <2>1 DEF GiveBackPrevious, Labels
<1>6. CASE LockLookup(p)
  BY <1>6 DEF LockLookup, Labels
<1>7. CASE LockAdd(p)
  <2>1. pc[p] \in Searching
    BY <1>7 DEF LockAdd, Searching, Asking
  <2> QED  BY <1>1, <1>2, <1>3, <1>4, <1>7, <2>1 DEF LockAdd, Labels
<1>8. CASE LockRead(p)
  <2>1. pc[p] \in Searching
    BY <1>8 DEF LockRead, Searching, Asking
  <2> QED  BY <1>1, <1>4, <1>8, <2>1 DEF LockRead, Labels
<1>9. CASE LockTakeover(p)
  <2>1. pc[p] \in Searching
    BY <1>9 DEF LockTakeover, Searching, Asking
  <2> QED  BY <1>1, <1>2, <1>3, <1>9, <2>1 DEF LockTakeover, Labels
<1>10. CASE GiveBack(p)
  <2>1. NumberLock(Kind(p), id[p]) \in LockDns
    BY <1>10, LockFacts, KindFacts DEF GiveBack, Local, Control, IdIsNumber, Done
  <2> QED  BY <1>0, <1>10, <2>1 DEF GiveBack, Labels
<1>11. CASE GiveBackOther(p) \/ TakeNumber(p)
  <2>1. stage[p] = "other" /\ id[p] \in Numbers
    BY <1>11 DEF GiveBackOther, TakeNumber, Local, Control, IdIsNumber, Done
  <2>2. Target(p) \in LockDns
    BY <2>1, LockFacts, KindFacts DEF Target
  <2>3. CASE GiveBackOther(p)
    BY <1>0, <2>2, <2>3 DEF GiveBackOther, Labels
  <2>4. CASE TakeNumber(p)
    BY <1>0, <2>1, <2>2, <2>4, NoteNumber DEF TakeNumber, Labels
  <2> QED  BY <1>11, <2>3, <2>4
<1>12. CASE ConfirmUnlock(p) \/ Release(p)
  <2>1. alloc[p] # <<>>
    BY <1>12 DEF ConfirmUnlock, Release, Local, Noted
  <2>2. TopLock(p).lock \in LockDns
    BY <2>1, TopType
  <2>3. alloc' \in [Procs -> Seq(Entry)]
    <3>1. alloc' = [alloc EXCEPT ![p] = SubSeq(@, 1, Len(@) - 1)]
      BY <1>12, Zenon DEF ConfirmUnlock, Release, Pop
    <3>2. SubSeq(alloc[p], 1, Len(alloc[p]) - 1) \in Seq(Entry)
      BY <2>1, PopEntry
    <3> QED  BY <3>1, <3>2
  <2>4. CASE ConfirmUnlock(p)
    BY <1>0, <2>2, <2>3, <2>4 DEF ConfirmUnlock, Labels
  <2>5. CASE Release(p)
    BY <1>0, <2>2, <2>3, <2>5 DEF Release, Labels
  <2> QED  BY <1>12, <2>4, <2>5
<1> QED
  BY <1>5, <1>6, <1>7, <1>8, <1>9, <1>10, <1>11, <1>12

\* All other steps.
LEMMA StepType ==
  ASSUME TypeOK, \A p \in Procs : Local(p), [Next]_vars
  PROVE  TypeOK'
<1> USE DEF TypeOK, ldap, env, local, Goto, GotoStage
<1>1. CASE Tick
  BY <1>1 DEF Tick
<1>2. CASE UNCHANGED vars
  BY <1>2 DEF vars
<1> SUFFICES ASSUME NEW p \in Procs, Create(p) \/ Remove(p) \/ Crash(p)
             PROVE  TypeOK'
  BY <1>1, <1>2 DEF Next
<1>3. Local(p)
  OBVIOUS
<1>4. CASE StartUser(p) \/ StartGroup(p)
  BY <1>4 DEF StartUser, StartGroup, Labels
<1>5. StartNumber(p) => /\ id' \in [Procs -> Numbers \cup {0}]
                        /\ pc' \in [Procs -> Labels]
                        /\ stage' \in [Procs -> {"name", "number", "other"}]
  <2>1. CASE IsAuto(p)
    BY <2>1 DEF StartNumber, Labels
  <2>2. CASE ~IsAuto(p)
    BY <2>2, KindFacts DEF StartNumber, Labels
  <2> QED  BY <2>1, <2>2
<1>6. CASE CheckUniqueness(p)
  <2>1. /\ UNCHANGED <<ldap, env, range, now, old, alloc, mine, spoilt>>
        /\ \/ /\ pc' = [pc EXCEPT ![p] = "cancel"] \/ pc' = [pc EXCEPT ![p] = "add"]
              /\ UNCHANGED <<stage, id>>
           \/ StartNumber(p)
    BY <1>6 DEF CheckUniqueness
  <2> QED  BY <1>5, <2>1 DEF Labels
<1>7. CASE ReadLastUsed(p)
  <2>1. /\ lastUsed[Kind(p)] \in Numbers \cup {0} /\ Ranges[1].first \in Numbers
        /\ 1 \in DOMAIN Ranges
    BY KindFacts, NumberFacts
  <2> QED  BY <1>7, <2>1 DEF ReadLastUsed, Labels
<1>8. CASE NextNumber(p)
  <2>1. id[p] \in Nat /\ id[p] + 1 \in Numbers
    <3>0. range[p] \in DOMAIN Ranges /\ id[p] \in Numbers \cup {0}
      OBVIOUS
    <3>1. range[p] \in DOMAIN Ranges /\ id[p] \in Nat
      <4>1. Numbers \cup {0} \subseteq Nat
        BY NumberFacts
      <4> QED  BY <3>0, <4>1, Zenon
    <3>2. Ranges[range[p]].last \in Nat /\ Ranges[range[p]].last <= Last /\ Last \in Nat
      BY <3>1, NumberFacts
    <3>3. id[p] < Ranges[range[p]].last + 1
      BY <1>8 DEF NextNumber
    <3>4. id[p] + 1 \in Nat /\ id[p] + 1 >= 1 /\ id[p] + 1 <= Last + 1
      BY <3>1, <3>2, <3>3
    <3> QED  BY <3>1, <3>4, NumberFacts
  <2> QED  BY <1>8, <2>1 DEF NextNumber, Labels
<1>9. CASE NextRange(p)
  <2>1. range[p] # Len(Ranges) => range[p] + 1 \in DOMAIN Ranges
    BY NumberFacts
  <2> QED  BY <1>9, <2>1, NumberFacts DEF NextRange, Labels
<1>10. CASE \/ GiveBackPrevious(p) \/ LockLookup(p) \/ LockAdd(p) \/ LockRead(p)
            \/ LockTakeover(p) \/ GiveBack(p) \/ GiveBackOther(p) \/ TakeNumber(p)
            \/ ConfirmUnlock(p) \/ Release(p)
  BY <1>3, <1>10, LockType
<1>11. CASE SearchName(p)
  <2>1. Append1(p, Target(p), FALSE) => alloc' \in [Procs -> Seq(Entry)]
    <3>1. CASE stage[p] = "name"
      <4>1. [lock |-> Target(p), update |-> FALSE] \in Entry /\ alloc[p] \in Seq(Entry)
        BY <3>1, EntriesToNote DEF Target
      <4>2. Append(alloc[p], [lock |-> Target(p), update |-> FALSE]) \in Seq(Entry)
        BY <4>1, PushEntry
      <4> QED  BY <4>2 DEF Append1
    <3> QED  BY <1>11, <3>1 DEF SearchName
  <2>2. CASE Append1(p, Target(p), FALSE) /\ StartNumber(p)
    BY <1>5, <1>11, <2>1, <2>2 DEF SearchName
  <2>3. CASE /\ UNCHANGED <<stage, id, alloc>>
             /\ pc' = [pc EXCEPT ![p] = "cancel"] \/ pc' = [pc EXCEPT ![p] = "add"]
    BY <1>11, <2>3 DEF SearchName, Labels
  <2> QED  BY <1>11, <2>2, <2>3 DEF SearchName
<1>12. CASE SearchUnique(p)
  <2>1. id[p] \in Numbers
    BY <1>3, <1>12 DEF SearchUnique, Local, IdIsNumber, Done
  <2> QED  BY <1>12, <2>1, NoteNumber DEF SearchUnique, Labels
<1>13. CASE SearchRange(p)
  BY <1>13 DEF SearchRange, Labels
<1>14. CASE AddObject(p)
  <2>1. [kind |-> Kind(p), name |-> job[p].name, number |-> id[p], by |-> p] \in Objects
    BY <1>3, <1>14, KindFacts DEF AddObject, Objects, Local, IdIsNumber, Reserved
  <2> QED  BY <1>14, <2>1 DEF AddObject, Labels
<1>15. CASE AddFails(p) \/ Finish(p)
  BY <1>15 DEF AddFails, Finish, Labels
<1>16. CASE ConfirmLastUsed(p)
  BY <1>16, TopType, KindFacts DEF ConfirmLastUsed, Labels
<1>17. CASE Remove(p)
  <2>1. PICK o \in objects :
          /\ objects' = objects \ {o}
          /\ LET Note(l) == [lock |-> l, update |-> FALSE]
                 number == Note(NumberLock(o.kind, o.number))
                 name == Note(NameLock(o.kind, o.name))
             IN alloc' = [alloc EXCEPT ![p] = IF o.kind = "user" THEN <<name, number>>
                                              ELSE <<number>>]
    BY <1>17, Zenon DEF Remove
  <2>2. o.kind \in Kinds /\ o.number \in Numbers /\ o.name \in Names
    BY DEF Objects
  <2>3. /\ [lock |-> NumberLock(o.kind, o.number), update |-> FALSE] \in Entry
        /\ [lock |-> NameLock(o.kind, o.name), update |-> FALSE] \in Entry
    BY <2>2, LockFacts DEF Entry
  <2>4. alloc' \in [Procs -> Seq(Entry)]
    BY <2>1, <2>3
  <2> QED  BY <1>17, <2>1, <2>4 DEF Remove, Labels
<1>18. CASE Crash(p)
  BY <1>18 DEF Crash, Labels
<1> QED
  BY <1>4, <1>6, <1>7, <1>8, <1>9, <1>10, <1>11, <1>12, <1>13, <1>14, <1>15,
     <1>16, <1>17, <1>18 DEF Create

-----------------------------------------------------------------------------
(* What the other processes see of a step *)

Frame(p) ==
  /\ job' = job /\ spoilt \subseteq spoilt'
  /\ \A q \in Procs \ {p} :
       /\ pc'[q] = pc[q] /\ stage'[q] = stage[q] /\ id'[q] = id[q]
       /\ alloc'[q] = alloc[q] /\ mine'[q] = mine[q]

LEMMA FrameOfStep ==
  ASSUME TypeOK, NEW p \in Procs, Create(p) \/ Remove(p) \/ Crash(p)
  PROVE  Frame(p)
<1> USE DEF TypeOK, ldap, env, local, Goto, GotoStage, Frame
<1>1. CASE \/ StartUser(p) \/ StartGroup(p) \/ ReadLastUsed(p) \/ NextNumber(p)
           \/ NextRange(p)
  <2>1. CASE StartUser(p) \/ StartGroup(p)
    BY <2>1 DEF StartUser, StartGroup
  <2>2. CASE ReadLastUsed(p)
    BY <2>2 DEF ReadLastUsed
  <2>3. CASE NextNumber(p)
    BY <2>3 DEF NextNumber
  <2>4. CASE NextRange(p)
    BY <2>4 DEF NextRange
  <2> QED  BY <1>1, <2>1, <2>2, <2>3, <2>4
<1>2. CASE CheckUniqueness(p)
  BY <1>2 DEF CheckUniqueness, StartNumber
<1>3. CASE \/ GiveBackPrevious(p) \/ GiveBack(p) \/ GiveBackOther(p)
  BY <1>3 DEF GiveBackPrevious, GiveBack, GiveBackOther, Unlock
<1>4. CASE LockLookup(p)
  BY <1>4 DEF LockLookup
<1>5. CASE LockAdd(p)
  BY <1>5 DEF LockAdd, Acquired, Refused
<1>6. CASE LockRead(p)
  BY <1>6 DEF LockRead, Refused
<1>7. CASE LockTakeover(p)
  BY <1>7 DEF LockTakeover, Acquired
<1>8. CASE SearchName(p)
  BY <1>8 DEF SearchName, Append1, StartNumber
<1>9. CASE SearchUnique(p)
  BY <1>9 DEF SearchUnique, NumberReserved
<1>10. CASE SearchRange(p)
  BY <1>10 DEF SearchRange
<1>11. CASE TakeNumber(p)
  BY <1>11 DEF TakeNumber, NumberReserved, Unlock
<1>12. CASE AddObject(p) \/ AddFails(p) \/ Finish(p) \/ Crash(p)
  BY <1>12 DEF AddObject, AddFails, Finish, Crash
<1>13. CASE ConfirmLastUsed(p) \/ ConfirmUnlock(p) \/ Release(p)
  BY <1>13 DEF ConfirmLastUsed, ConfirmUnlock, Release, Unlock, Pop
<1>14. CASE Remove(p)
  BY <1>14 DEF Remove
<1> QED
  BY <1>1, <1>2, <1>3, <1>4, <1>5, <1>6, <1>7, <1>8, <1>9, <1>10, <1>11, <1>12,
     <1>13, <1>14 DEF Create

LEMMA LocalOfOther ==
  ASSUME TypeOK, NEW q \in Procs, Local(q), job' = job, spoilt \subseteq spoilt',
         pc'[q] = pc[q], stage'[q] = stage[q], id'[q] = id[q],
         alloc'[q] = alloc[q], mine'[q] = mine[q]
  PROVE  Local(q)'
<1>1. Kind(q)' = Kind(q) /\ IsAuto(q)' = IsAuto(q) /\ Reserved(q)' = Reserved(q)
      /\ Named(q)' = Named(q)
  BY DEF Kind, IsAuto, Reserved, Named
<1>2. Own(q)' = Own(q) /\ Second(q)' = Second(q) /\ Target(q)' = Target(q)
      /\ Safe(q) \subseteq Safe(q)'
  BY <1>1 DEF Own, Second, Target, Safe
<1>3. Control(q)' /\ IdIsNumber(q)'
  BY <1>1 DEF Local, Control, IdIsNumber
<1>4. Held(q)'
  BY <1>1, <1>2 DEF Local, Held
<1>5. Noted(q)'
  BY <1>1, <1>2 DEF Local, Noted
<1> QED  BY <1>3, <1>4, <1>5 DEF Local

-----------------------------------------------------------------------------
(* What a step does to the process that takes it *)

\* The steps that take or give back no lock and note nothing.
LEMMA LocalOfPlainStep ==
  ASSUME TypeOK, NEW p \in Procs, Local(p), TypeOK',
         \/ StartUser(p) \/ StartGroup(p) \/ CheckUniqueness(p) \/ ReadLastUsed(p)
         \/ NextNumber(p) \/ NextRange(p) \/ LockLookup(p) \/ LockRead(p)
         \/ SearchRange(p) \/ AddObject(p) \/ AddFails(p) \/ ConfirmLastUsed(p)
  PROVE  Local(p)'
<1> USE DEF ldap, env, local, Goto, GotoStage
<1>0. /\ Kind(p)' = Kind(p) /\ IsAuto(p)' = IsAuto(p) /\ job' = job
      /\ alloc' = alloc /\ mine' = mine /\ spoilt' = spoilt /\ Safe(p)' = Safe(p)
      /\ Kind(p) \in {"user", "group"}
      /\ Own(p) = NumberLock(Kind(p), id[p]) /\ Second(p) = NumberLock(Other(Kind(p)), id[p])
      /\ Own(p)' = NumberLock(Kind(p), id'[p])
      /\ Second(p)' = NumberLock(Other(Kind(p)), id'[p])
  <2>1. alloc' = alloc /\ mine' = mine /\ spoilt' = spoilt /\ job' = job
    BY DEF StartUser, StartGroup, CheckUniqueness, ReadLastUsed, NextNumber,
           NextRange, LockLookup, LockRead, SearchRange, AddObject, AddFails,
           ConfirmLastUsed
  <2>2. Kind(p) \in {"user", "group"}
    BY KindFacts DEF Kinds
  <2> QED  BY <2>1, <2>2 DEF Kind, IsAuto, Safe, Own, Second
<1> USE DEF Local, Control, IdIsNumber, Held, Noted, Reserved, Named, Searching,
            Asking, Numbering, Done, Target
<1>1. CASE StartUser(p)
  <2>1. /\ pc[p] = "start" /\ pc'[p] = "get" /\ stage'[p] = "name" /\ Kind(p) = "user"
        /\ id' = id /\ job[p].op = "create"
    BY <1>1 DEF StartUser, TypeOK
  <2> QED  BY <1>0, <2>1
<1>2. CASE StartGroup(p)
  <2>1. /\ pc[p] = "start" /\ pc'[p] = "check" /\ stage' = stage /\ Kind(p) = "group"
        /\ id' = id /\ job[p].op = "create"
    BY <1>2 DEF StartGroup, TypeOK
  <2> QED  BY <1>0, <2>1
<1>3. CASE CheckUniqueness(p)
  <2>1. CASE \/ pc'[p] = "cancel" /\ stage' = stage /\ id' = id
             \/ pc'[p] = "add" /\ stage' = stage /\ id' = id /\ Kind(p) = "user"
    BY <1>0, <1>3, <2>1 DEF CheckUniqueness
  <2>2. CASE IsAuto(p) /\ pc'[p] = "lastused" /\ stage'[p] = "number" /\ id' = id
             /\ Kind(p) = "group"
    BY <1>0, <1>3, <2>2 DEF CheckUniqueness
  <2>3. CASE ~IsAuto(p) /\ pc'[p] = "get" /\ stage'[p] = "number"
             /\ id'[p] \in Numbers /\ Kind(p) = "group"
    BY <1>0, <1>3, <2>3 DEF CheckUniqueness
  <2> QED
    BY <1>3, <2>1, <2>2, <2>3, KindFacts DEF CheckUniqueness, StartNumber, TypeOK
<1>4. CASE ReadLastUsed(p)
  <2>1. /\ pc[p] = "lastused" /\ pc'[p] = "next" /\ stage' = stage
        /\ id'[p] \in Numbers
    <3>1. /\ lastUsed[Kind(p)] \in Numbers \cup {0} /\ Ranges[1].first \in Numbers
          /\ \A n \in Numbers : n >= 1 /\ n \in Nat
      BY KindFacts, NumberFacts DEF TypeOK
    <3> QED  BY <1>4, <3>1 DEF ReadLastUsed, TypeOK
  <2> QED  BY <1>0, <2>1
<1>5. CASE NextNumber(p)
  <2>1. /\ pc[p] = "next" /\ stage'[p] = "number" /\ id'[p] = id[p] + 1
        /\ pc'[p] = IF stage[p] = "other" THEN "giveprev" ELSE "get"
    BY <1>5 DEF NextNumber, TypeOK
  <2>2. id[p] \in Numbers
    BY <2>1
  <2>3. id'[p] \in Numbers /\ id'[p] - 1 = id[p]
    <3>1. id[p] \in Nat /\ \A n \in Numbers \cup {0} : n = 0 \/ n \in Numbers
      BY <2>2, NumberFacts
    <3>2. id'[p] \in Numbers \cup {0}
      BY DEF TypeOK
    <3> QED  BY <2>1, <3>1, <3>2
  <2> QED  BY <1>0, <2>1, <2>2, <2>3
<1>6. CASE NextRange(p)
  <2>1. CASE pc'[p] = "cancel"
    BY <1>0, <1>6, <2>1 DEF NextRange, TypeOK
  <2>2. CASE pc'[p] # "cancel"
    <3>1. /\ pc[p] = "next" /\ pc'[p] = "next" /\ stage'[p] = "number"
          /\ range[p] # Len(Ranges)
          /\ id'[p] \in {id[p], Ranges[range[p] + 1].first}
      BY <1>6, <2>2 DEF NextRange, TypeOK
    <3>2. id[p] \in Numbers /\ Ranges[range[p] + 1].first \in Numbers
      <4>1. range[p] \in 1..Len(Ranges) /\ Len(Ranges) \in Nat
        BY NumberFacts DEF TypeOK
      <4> QED  BY <3>1, <4>1, NumberFacts
    <3> QED  BY <1>0, <3>1, <3>2
  <2> QED  BY <2>1, <2>2
<1>7. CASE LockLookup(p)
  <2>1. pc[p] = "get" /\ pc'[p] \in {"lock", "read"} /\ stage' = stage /\ id' = id
    BY <1>7 DEF LockLookup, TypeOK
  <2> QED  BY <1>0, <2>1
<1>8. CASE LockRead(p)
  <2>1. /\ pc[p] = "read" /\ stage' = stage /\ id' = id
        /\ \/ pc'[p] \in {"takeover", "cancel"}
           \/ pc'[p] = "next" /\ stage[p] # "name" /\ IsAuto(p)
    BY <1>8 DEF LockRead, Refused, TypeOK
  <2> QED  BY <1>0, <2>1
<1>9. CASE SearchRange(p)
  <2>1. /\ pc[p] = "search" /\ pc'[p] \in {"giveback", "found"} /\ stage[p] = "other"
        /\ stage' = stage /\ id' = id
    BY <1>9 DEF SearchRange, TypeOK
  <2> QED  BY <1>0, <2>1
<1>10. CASE AddObject(p) \/ AddFails(p)
  <2>1. /\ pc[p] = "add" /\ pc'[p] \in {"confirm", "cancel"}
        /\ stage' = stage /\ id' = id
    BY <1>10 DEF AddObject, AddFails, TypeOK
  <2> QED  BY <1>0, <2>1
<1>11. CASE ConfirmLastUsed(p)
  <2>1. /\ pc[p] = "confirm" /\ pc'[p] = "confirmed" /\ alloc[p] # <<>>
        /\ stage' = stage /\ id' = id
    BY <1>11 DEF ConfirmLastUsed, TypeOK
  <2> QED  BY <1>0, <2>1
<1> QED
  BY <1>1, <1>2, <1>3, <1>4, <1>5, <1>6, <1>7, <1>8, <1>9, <1>10, <1>11

\* Getting a lock.
LEMMA LocalOfLocking ==
  ASSUME TypeOK, NEW p \in Procs, Local(p), LockAdd(p) \/ LockTakeover(p)
  PROVE  Local(p)'
<1> USE DEF ldap, env, local, Goto, GotoStage
<1>0. /\ Kind(p)' = Kind(p) /\ IsAuto(p)' = IsAuto(p) /\ job' = job
      /\ alloc' = alloc /\ id' = id /\ spoilt \subseteq spoilt'
      /\ Kind(p) \in {"user", "group"}
      /\ Own(p) = NumberLock(Kind(p), id[p]) /\ Second(p) = NumberLock(Other(Kind(p)), id[p])
      /\ Own(p)' = Own(p) /\ Second(p)' = Second(p)
      /\ pc[p] \in {"lock", "takeover"}
  <2>1. /\ alloc' = alloc /\ id' = id /\ spoilt \subseteq spoilt' /\ job' = job
        /\ pc[p] \in {"lock", "takeover"}
    BY DEF LockAdd, LockTakeover
  <2>2. Kind(p) \in {"user", "group"}
    BY KindFacts DEF Kinds
  <2> QED  BY <2>1, <2>2 DEF Kind, IsAuto, Own, Second
<1> USE DEF Local, Control, IdIsNumber, Held, Noted, Reserved, Named, Searching,
            Asking, Numbering, Done, Safe
<1>1. CASE Acquired(p)
  <2>1. mine'[p] = mine[p] \cup {Target(p)}
    BY <1>1 DEF Acquired, TypeOK
  <2>2. CASE stage[p] = "number" /\ IsAuto(p)
    <3>1. pc'[p] = "get" /\ stage'[p] = "other" /\ Target(p) = Own(p)
      BY <1>1, <2>2 DEF Acquired, TypeOK, Target, Own
    <3> QED  BY <1>0, <2>1, <2>2, <3>1
  <2>3. CASE ~(stage[p] = "number" /\ IsAuto(p))
    <3>1. pc'[p] = "search" /\ stage' = stage /\ Target(p)' = Target(p)
      BY <1>0, <1>1, <2>3 DEF Acquired, TypeOK, Target
    <3> QED  BY <1>0, <2>1, <2>3, <3>1
  <2> QED  BY <2>2, <2>3
<1>2. CASE ~Acquired(p)
  <2>1. /\ mine' = mine /\ stage' = stage
        /\ \/ pc'[p] = "cancel"
           \/ pc'[p] = "next" /\ stage[p] # "name" /\ IsAuto(p)
    <3>1. UNCHANGED <<mine, stage>> /\ (Refused(p) \/ pc' = [pc EXCEPT ![p] = "cancel"])
      BY <1>2 DEF LockAdd, LockTakeover, Refused
    <3>2. pc \in [Procs -> Labels]
      BY DEF TypeOK
    <3>3. CASE Refused(p)
      BY <3>1, <3>2, <3>3 DEF Refused, IsAuto
    <3>4. CASE pc' = [pc EXCEPT ![p] = "cancel"]
      BY <3>1, <3>2, <3>4
    <3> QED  BY <3>1, <3>3, <3>4
  <2> QED  BY <1>0, <2>1
<1> QED  BY <1>1, <1>2

\* Giving back a lock while the number is searched.
LEMMA LocalOfGivingBack ==
  ASSUME TypeOK, NEW p \in Procs, Local(p),
         GiveBackPrevious(p) \/ GiveBack(p) \/ GiveBackOther(p)
  PROVE  Local(p)'
<1> USE DEF ldap, env, local, Goto, GotoStage
<1>0. /\ Kind(p)' = Kind(p) /\ IsAuto(p)' = IsAuto(p) /\ job' = job
      /\ alloc' = alloc /\ id' = id /\ spoilt' = spoilt
      /\ Kind(p) \in {"user", "group"} /\ job[p].name \in Names
      /\ pc[p] \in {"giveprev", "giveback", "giveother"}
      /\ job[p].op = "create"
  <2>1. /\ alloc' = alloc /\ id' = id /\ spoilt' = spoilt /\ job' = job
        /\ pc[p] \in {"giveprev", "giveback", "giveother"}
    BY DEF GiveBackPrevious, GiveBack, GiveBackOther
  <2>2. /\ Kind(p) \in {"user", "group"} /\ job[p].name \in Names
        /\ job[p].op = "create"
    BY <2>1, KindFacts DEF Kinds, Local, Control
  <2> QED  BY <2>1, <2>2 DEF Kind, IsAuto
<1> USE DEF Local, Control, IdIsNumber, Held, Noted, Reserved, Named, Searching,
            Asking, Numbering, Done, Safe
\* A name that has been noted, or is about to be, is not what is given back.
<1>1. \A l \in NumberLocks :
        /\ NameLock("user", job[p].name) # l
        /\ \A i \in DOMAIN alloc[p] : alloc[p][i].lock # l
  <2>1. \A i \in DOMAIN alloc[p] : alloc[p][i].lock \in NameLocks
    BY <1>0
  <2> QED  BY <1>0, <2>1, LockFacts DEF Kinds
<1>2. CASE GiveBackPrevious(p)
  <2>1. /\ pc[p] = "giveprev" /\ pc'[p] = "get" /\ stage' = stage /\ stage[p] = "number"
        /\ mine'[p] = mine[p] \ {NumberLock(Kind(p), id[p] - 1)}
    BY <1>2 DEF GiveBackPrevious, Unlock, TypeOK
  <2>2. NumberLock(Kind(p), id[p] - 1) \in NumberLocks
    BY <2>1, LockFacts, KindFacts
  <2> QED  BY <1>0, <1>1, <2>1, <2>2
<1>3. CASE GiveBack(p)
  <2>1. /\ pc[p] = "giveback" /\ pc'[p] = "giveother" /\ stage' = stage
        /\ stage[p] = "other" /\ mine'[p] = mine[p] \ {Own(p)}
    BY <1>3 DEF GiveBack, Unlock, TypeOK, Own
  <2>2. Own(p) \in NumberLocks /\ Own(p) # Second(p) /\ Second(p)' = Second(p)
    BY <1>0, <2>1, OwnType DEF Second
  <2> QED  BY <1>0, <1>1, <2>1, <2>2
<1>4. CASE GiveBackOther(p)
  <2>1. /\ pc[p] = "giveother" /\ pc'[p] = "next" /\ stage'[p] = "number"
        /\ stage[p] = "other" /\ mine'[p] = mine[p] \ {Second(p)}
    BY <1>4 DEF GiveBackOther, Unlock, TypeOK, Second, Target
  <2>2. Second(p) \in NumberLocks
    BY <1>0, <2>1, OwnType
  <2> QED  BY <1>0, <1>1, <2>1, <2>2
<1> QED  BY <1>2, <1>3, <1>4

\* Noting a number.
LEMMA LocalOfNumberReserved ==
  ASSUME TypeOK, NEW p \in Procs, Local(p), NumberReserved(p),
         stage[p] # "name", pc[p] \in {"search", "found"}, Own(p) \in Safe(p),
         mine'[p] \in {mine[p], mine[p] \ {Second(p)}},
         id' = id, job' = job, spoilt' = spoilt
  PROVE  Local(p)'
<1>0. /\ Kind(p)' = Kind(p) /\ IsAuto(p)' = IsAuto(p) /\ id[p] \in Numbers
      /\ Kind(p) \in {"user", "group"} /\ job[p].op = "create"
      /\ Own(p)' = Own(p) /\ Own(p) \in NumberLocks /\ Own(p) # Second(p)
      /\ Second(p) \in NumberLocks
      /\ NameLock("user", job[p].name) \in NameLocks
      /\ NameLock("group", job[p].name) \in NameLocks \ Guarded
      /\ NumberLocks \cap NameLocks = {}
  <2>1. id[p] \in Numbers
    BY DEF Local, IdIsNumber, Done
  <2>2. Kind(p) \in {"user", "group"} /\ job[p].op = "create"
    BY KindFacts DEF Kinds, Local, Control
  <2> QED  BY <2>1, <2>2, OwnType, LockFacts, KindFacts DEF Kind, IsAuto, Own, Kinds
<1>1. /\ Own(p) \in Safe(p)'
      /\ \A l \in NameLocks \cap Safe(p) : l \in Safe(p)'
  BY <1>0 DEF Safe
<1>2. /\ pc'[p] = IF Kind(p) = "user" THEN "check" ELSE "get"
      /\ stage'[p] = IF Kind(p) = "user" THEN stage[p] ELSE "name"
  BY <1>0, NoteNumber DEF TypeOK
<1>3. Control(p)' /\ IdIsNumber(p)' /\ Held(p)'
  <2> USE DEF Local, Control, IdIsNumber, Held, Reserved, Named, Searching,
              Asking, Numbering, Done
  <2>1. Control(p)' /\ IdIsNumber(p)'
    BY <1>0, <1>2
  <2>2. Held(p)'
    BY <1>0, <1>1, <1>2
  <2> QED  BY <2>1, <2>2
<1> DEFINE number == [lock |-> Own(p), update |-> IsAuto(p)]
           name == [lock |-> NameLock("group", job[p].name), update |-> FALSE]
<1>4. number \in Entry /\ name \in Entry /\ alloc[p] \in Seq(Entry)
  BY <1>0, EntriesToNote DEF Own, TypeOK
<1>5. number.lock = Own(p) /\ name.lock = NameLock("group", job[p].name)
  OBVIOUS
<1>6. CASE Kind(p) = "user"
  <2>1. alloc'[p] = Append(alloc[p], number)
    BY <1>6 DEF NumberReserved, TypeOK, Own
  <2> HIDE DEF number
  <2>2. /\ DOMAIN alloc'[p] = DOMAIN alloc[p] \cup {Len(alloc[p]) + 1}
        /\ alloc'[p][Len(alloc[p]) + 1] = number /\ Len(alloc[p]) + 1 \notin DOMAIN alloc[p]
        /\ \A i \in DOMAIN alloc[p] : alloc'[p][i] = alloc[p][i]
    BY <1>4, <2>1, PushEntry
  <2>3. \A i \in DOMAIN alloc[p] : alloc[p][i].lock \in NameLocks
    BY DEF Local, Noted, Numbering, Searching
  <2>4. /\ \A i \in DOMAIN alloc[p] :
             alloc[p][i].lock \in Guarded => alloc[p][i].lock \in Safe(p)
        /\ \A i, j \in DOMAIN alloc[p] : alloc[p][i].lock = alloc[p][j].lock => i = j
    BY <1>0 DEF Local, Noted
  <2>5. \A i \in DOMAIN alloc'[p] :
          alloc'[p][i].lock \in Guarded => alloc'[p][i].lock \in Safe(p)'
    BY <1>1, <1>5, <2>2, <2>3, <2>4
  <2>6. \A i, j \in DOMAIN alloc'[p] : alloc'[p][i].lock = alloc'[p][j].lock => i = j
    BY <1>0, <1>5, <2>2, <2>3, <2>4
  <2>7. Noted(p)'
    BY <1>0, <1>2, <1>6, <2>5, <2>6 DEF Noted, Numbering, Searching, Asking
  <2> QED  BY <1>3, <2>7 DEF Local
<1>7. CASE Kind(p) = "group"
  <2>1. alloc'[p] = alloc[p] \o <<number, name>>
    BY <1>7 DEF NumberReserved, TypeOK, Own
  <2>2. alloc[p] = <<>>
    BY <1>7 DEF Local, Noted, Numbering, Searching
  <2>3. alloc'[p] = <<number, name>>
    BY <2>1, <2>2
  <2> HIDE DEF number, name
  <2>4. DOMAIN alloc'[p] = {1, 2} /\ alloc'[p][1] = number /\ alloc'[p][2] = name
    BY <2>3
  <2>5. /\ \A i \in DOMAIN alloc'[p] :
             alloc'[p][i].lock \in Guarded => alloc'[p][i].lock \in Safe(p)'
        /\ \A i, j \in DOMAIN alloc'[p] : alloc'[p][i].lock = alloc'[p][j].lock => i = j
    BY <1>0, <1>1, <1>5, <2>4
  <2>6. Noted(p)'
    BY <1>0, <1>2, <1>7, <2>5 DEF Noted, Numbering, Searching, Asking
  <2> QED  BY <1>3, <2>6 DEF Local
<1> QED  BY <1>0, <1>6, <1>7

\* The searches that succeed, or not.
LEMMA LocalOfSearch ==
  ASSUME TypeOK, NEW p \in Procs, Local(p),
         SearchName(p) \/ SearchUnique(p) \/ TakeNumber(p)
  PROVE  Local(p)'
<1> USE DEF ldap, env, local, Goto, GotoStage
<1>0. /\ Kind(p)' = Kind(p) /\ IsAuto(p)' = IsAuto(p) /\ job' = job /\ spoilt' = spoilt
      /\ Kind(p) \in {"user", "group"} /\ job[p].op = "create"
      /\ pc[p] \in {"search", "found"}
  <2>1. job' = job /\ spoilt' = spoilt /\ pc[p] \in {"search", "found"}
    BY DEF SearchName, SearchUnique, TakeNumber
  <2>2. Kind(p) \in {"user", "group"} /\ job[p].op = "create"
    BY <2>1, KindFacts DEF Kinds, Local, Control
  <2> QED  BY <2>1, <2>2 DEF Kind, IsAuto
<1>1. ASSUME pc'[p] = "cancel", stage' = stage, alloc' = alloc, mine' = mine
      PROVE  Local(p)'
  BY <1>0, <1>1
  DEF Local, Control, IdIsNumber, Held, Noted, Reserved, Named, Searching, Asking,
      Numbering, Done, Safe
<1>2. CASE SearchUnique(p)
  <2>1. CASE pc'[p] = "cancel" /\ UNCHANGED <<stage, alloc>>
    BY <1>1, <1>2, <2>1 DEF SearchUnique
  <2>2. CASE NumberReserved(p)
    <3>1. Own(p) \in Safe(p)
      BY <1>2 DEF SearchUnique, Local, Held, Target, Own
    <3> QED
      BY <1>0, <1>2, <2>2, <3>1, LocalOfNumberReserved DEF SearchUnique
  <2> QED  BY <1>2, <2>1, <2>2 DEF SearchUnique, TypeOK
<1>3. CASE TakeNumber(p)
  <2>1. stage[p] = "other" /\ Own(p) \in Safe(p) /\ pc[p] = "found"
    BY <1>3 DEF TakeNumber, Local, Control, Held, Reserved
  <2>2. mine'[p] = mine[p] \ {Second(p)}
    BY <1>3, <2>1 DEF TakeNumber, Unlock, TypeOK, Target, Second
  <2> QED
    BY <1>0, <1>3, <2>1, <2>2, LocalOfNumberReserved DEF TakeNumber
<1>4. CASE SearchName(p)
  <2>0. pc[p] = "search" /\ stage[p] = "name" /\ mine' = mine /\ Safe(p)' = Safe(p)
    BY <1>4 DEF SearchName, Safe
  <2>1. CASE pc'[p] = "cancel" /\ UNCHANGED <<stage, alloc>>
    BY <1>1, <2>0, <2>1
  <2>2. CASE Kind(p) = "group" /\ pc'[p] = "add" /\ UNCHANGED <<stage, id, alloc>>
    BY <1>0, <2>0, <2>2
    DEF Local, Control, IdIsNumber, Held, Noted, Reserved, Named, Searching, Asking,
        Numbering, Done, Own
  <2>3. CASE Kind(p) = "user" /\ Append1(p, Target(p), FALSE) /\ StartNumber(p)
    <3> DEFINE e == [lock |-> NameLock("user", job[p].name), update |-> FALSE]
    <3>1. /\ Target(p) = NameLock("user", job[p].name) /\ Target(p) \in Safe(p)
          /\ Target(p) \in NameLocks
      BY <2>0, <2>3, LockFacts, KindFacts DEF Target, Local, Held
    <3>2. alloc[p] = <<>>
      BY <2>0, <2>3 DEF Local, Noted, Searching
    <3>3. alloc'[p] = Append(<<>>, e)
      BY <2>3, <3>1, <3>2 DEF Append1, TypeOK
    <3>4. e.lock = Target(p)
      BY <3>1
    <3> HIDE DEF e
    <3>5. DOMAIN alloc'[p] = {1} /\ alloc'[p][1] = e
      BY <3>3
    <3>6. /\ stage'[p] = "number"
          /\ \/ pc'[p] = "lastused" /\ IsAuto(p)
             \/ pc'[p] = "get" /\ ~IsAuto(p) /\ id'[p] \in Numbers
      <4>1. CASE IsAuto(p)
        BY <2>3, <4>1 DEF StartNumber, TypeOK
      <4>2. CASE ~IsAuto(p)
        BY <2>3, <4>2, KindFacts DEF StartNumber, TypeOK
      <4> QED  BY <4>1, <4>2
    <3>7. Noted(p)'
      BY <1>0, <2>0, <2>3, <3>1, <3>4, <3>5, <3>6
      DEF Noted, Searching, Asking, Numbering
    <3>8. Control(p)' /\ IdIsNumber(p)' /\ Held(p)'
      BY <1>0, <2>0, <2>3, <3>1, <3>6
      DEF Local, Control, IdIsNumber, Held, Reserved, Named, Searching, Asking,
          Numbering, Done
    <3> QED  BY <3>7, <3>8 DEF Local
  <2> QED  BY <1>0, <1>4, <2>1, <2>2, <2>3 DEF SearchName, TypeOK
<1> QED  BY <1>2, <1>3, <1>4

\* Confirming or releasing what is noted, and the ends of a process.
LEMMA LocalOfRelease ==
  ASSUME TypeOK, NEW p \in Procs, Local(p),
         ConfirmUnlock(p) \/ Release(p) \/ Finish(p) \/ Remove(p) \/ Crash(p)
  PROVE  Local(p)'
<1> USE DEF ldap, env, local, Goto, GotoStage
<1>0. /\ Kind(p)' = Kind(p) /\ IsAuto(p)' = IsAuto(p) /\ job' = job
      /\ stage' = stage /\ id' = id /\ spoilt \subseteq spoilt'
  <2>1. job' = job /\ stage' = stage /\ id' = id /\ spoilt \subseteq spoilt'
    BY DEF ConfirmUnlock, Release, Finish, Remove, Crash
  <2> QED  BY <2>1 DEF Kind, IsAuto
<1>1. CASE ConfirmUnlock(p) \/ Release(p)
  <2>1. alloc[p] # <<>>
    BY <1>1 DEF ConfirmUnlock, Release, Local, Noted
  <2> DEFINE top == Len(alloc[p])
  <2>2. /\ pc[p] \in {"confirm", "confirmed", "cancel"} /\ pc'[p] \in {"confirm", "cancel"}
        /\ job[p].op = "remove" => pc'[p] = "cancel"
        /\ alloc'[p] = SubSeq(alloc[p], 1, top - 1)
        /\ mine'[p] = mine[p] \ {alloc[p][top].lock}
    <3>1. CASE ConfirmUnlock(p)
      BY <3>1 DEF ConfirmUnlock, Pop, Unlock, TopLock, TypeOK, Local, Control
    <3>2. CASE Release(p)
      BY <3>2 DEF Release, Pop, Unlock, TopLock, TypeOK, Local, Control
    <3> QED  BY <1>1, <3>1, <3>2
  <2>3. /\ DOMAIN alloc'[p] = DOMAIN alloc[p] \ {top} /\ top \in DOMAIN alloc[p]
        /\ \A i \in DOMAIN alloc[p] \ {top} : alloc'[p][i] = alloc[p][i]
    <3>1. alloc[p] \in Seq(Entry)
      BY DEF TypeOK
    <3> QED  BY <2>1, <2>2, <3>1, PopEntry
  <2> HIDE DEF top
  <2>4. ASSUME job[p].op = "create"
        PROVE  /\ \A i \in DOMAIN alloc'[p] : alloc'[p][i].lock \in Guarded
                                                => alloc'[p][i].lock \in Safe(p)'
               /\ \A i, j \in DOMAIN alloc'[p] :
                    alloc'[p][i].lock = alloc'[p][j].lock => i = j
    <3>1. /\ \A i \in DOMAIN alloc[p] :
               alloc[p][i].lock \in Guarded => alloc[p][i].lock \in Safe(p)
          /\ \A i, j \in DOMAIN alloc[p] : alloc[p][i].lock = alloc[p][j].lock => i = j
      BY <2>2, <2>4 DEF Local, Noted
    <3> QED  BY <1>0, <2>2, <2>3, <3>1 DEF Safe
  <2>5. Noted(p)'
    BY <1>0, <2>2, <2>4 DEF Noted, Searching, Asking, Numbering
  <2>6. Control(p)' /\ IdIsNumber(p)' /\ Held(p)'
    BY <1>0, <2>2
    DEF Local, Control, IdIsNumber, Held, Reserved, Named, Searching, Asking, Done
  <2> QED  BY <2>5, <2>6 DEF Local
<1>2. CASE Finish(p) \/ Crash(p)
  <2>1. pc'[p] = "end" /\ mine'[p] = {}
    BY <1>2 DEF Finish, Crash, TypeOK
  <2> QED
    BY <1>0, <2>1
    DEF Local, Control, IdIsNumber, Held, Noted, Reserved, Named, Searching, Asking,
        Numbering, Done
<1>3. CASE Remove(p)
  <2>1. /\ pc[p] = "start" /\ pc'[p] = "cancel" /\ mine' = mine
        /\ job[p].op = "remove"
    BY <1>3 DEF Remove, TypeOK
  <2> QED
    BY <1>0, <2>1
    DEF Local, Control, IdIsNumber, Held, Noted, Reserved, Named, Searching, Asking,
        Numbering, Done
<1> QED  BY <1>1, <1>2, <1>3

LEMMA InitLocal == Init => \A p \in Procs : Local(p)
<1> SUFFICES ASSUME Init, NEW p \in Procs PROVE Local(p)
  OBVIOUS
<1>1. /\ pc[p] = "start" /\ stage[p] = "name" /\ mine[p] = {} /\ alloc[p] = <<>>
  BY DEF Init
<1> QED
  BY <1>1
  DEF Local, Control, IdIsNumber, Held, Noted, Reserved, Named, Searching, Asking,
      Numbering, Done

LEMMA StepLocal ==
  ASSUME TypeOK, \A p \in Procs : Local(p), [Next]_vars, NEW q \in Procs
  PROVE  Local(q)'
<1>1. TypeOK'
  BY StepType
<1>2. CASE Tick \/ UNCHANGED vars
  <2>1. job' = job /\ spoilt' = spoilt /\ UNCHANGED <<pc, stage, id, alloc, mine>>
    BY <1>2 DEF Tick, vars, env, local
  <2> QED  BY <2>1, LocalOfOther
<1>3. ASSUME NEW p \in Procs, Create(p) \/ Remove(p) \/ Crash(p)
      PROVE  Local(q)'
  <2>1. CASE p = q
    BY <1>1, <1>3, <2>1, LocalOfPlainStep, LocalOfLocking, LocalOfGivingBack,
       LocalOfSearch, LocalOfRelease DEF Create
  <2>2. CASE p # q
    BY <1>3, <2>2, FrameOfStep, LocalOfOther DEF Frame
  <2> QED  BY <2>1, <2>2
<1> QED  BY <1>2, <1>3 DEF Next

-----------------------------------------------------------------------------
(* A lock is held once *)

LEMMA UnlockKeeps ==
  ASSUME TypeOK, LockIsHeldOnce, NEW p \in Procs, NEW l \in LockDns, Unlock(p, l),
         spoilt \subseteq spoilt',
         \/ l \notin Guarded \/ l \in mine[p] \/ l \in spoilt'
         \/ \A q \in Procs : l \notin mine[q]
  PROVE  LockIsHeldOnce'
<1>1. /\ \A k \in LockDns : k # l => locks'[k] = locks[k]
      /\ mine'[p] = mine[p] \ {l} /\ \A q \in Procs \ {p} : mine'[q] = mine[q]
      /\ \A q \in Procs : mine[q] \subseteq LockDns
  BY DEF TypeOK, Unlock
<1> SUFFICES ASSUME NEW q \in Procs, NEW k \in (mine'[q] \cap Guarded) \ spoilt'
             PROVE  locks'[k] # Free /\ \A r \in Procs \ {q} : k \notin mine'[r]
  BY DEF LockIsHeldOnce
<1>2. /\ k \in (mine[q] \cap Guarded) \ spoilt /\ k \in LockDns
      /\ \A r \in Procs : mine'[r] \subseteq mine[r]
  BY <1>1
<1>3. locks[k] # Free /\ \A r \in Procs \ {q} : k \notin mine[r]
  BY <1>2 DEF LockIsHeldOnce
<1>4. k # l
  BY <1>1, <1>2, <1>3
<1> QED  BY <1>1, <1>2, <1>3, <1>4

LEMMA AcquireKeeps ==
  ASSUME TypeOK, LockIsHeldOnce, NEW p \in Procs, NEW l \in LockDns,
         NEW t \in Nat \ {0}, locks' = [locks EXCEPT ![l] = t],
         mine' = [mine EXCEPT ![p] = @ \cup {l}], spoilt \subseteq spoilt',
         l \in Guarded \ spoilt' => \A q \in Procs : l \notin mine[q]
  PROVE  LockIsHeldOnce'
<1>1. /\ \A k \in LockDns : k # l => locks'[k] = locks[k]
      /\ locks'[l] = t /\ t # 0
      /\ mine'[p] = mine[p] \cup {l} /\ \A q \in Procs \ {p} : mine'[q] = mine[q]
      /\ \A q \in Procs : mine[q] \subseteq LockDns
  BY DEF TypeOK
<1> SUFFICES ASSUME NEW q \in Procs, NEW k \in (mine'[q] \cap Guarded) \ spoilt'
             PROVE  locks'[k] # Free /\ \A r \in Procs \ {q} : k \notin mine'[r]
  BY DEF LockIsHeldOnce
<1>2. CASE k = l
  <2>1. \A r \in Procs : l \notin mine[r]
    BY <1>2
  <2>2. q = p
    BY <1>1, <1>2, <2>1
  <2> QED  BY <1>1, <1>2, <2>1, <2>2 DEF Free
<1>3. CASE k # l
  <2>1. k \in (mine[q] \cap Guarded) \ spoilt /\ k \in LockDns
    BY <1>1, <1>3
  <2>2. locks[k] # Free /\ \A r \in Procs \ {q} : k \notin mine[r]
    BY <2>1 DEF LockIsHeldOnce
  <2> QED  BY <1>1, <1>3, <2>1, <2>2
<1> QED  BY <1>2, <1>3

LEMMA HoldingLess ==
  ASSUME LockIsHeldOnce, locks' = locks, spoilt' = spoilt,
         \A q \in Procs : mine'[q] \subseteq mine[q]
  PROVE  LockIsHeldOnce'
BY DEF LockIsHeldOnce

LEMMA StepLocks ==
  ASSUME TypeOK, \A p \in Procs : Local(p), LockIsHeldOnce, [Next]_vars
  PROVE  LockIsHeldOnce'
<1> USE DEF ldap, env, local
<1>1. CASE Tick \/ UNCHANGED vars
  BY <1>1, HoldingLess DEF Tick, vars
<1> SUFFICES ASSUME NEW p \in Procs, Create(p) \/ Remove(p) \/ Crash(p)
             PROVE  LockIsHeldOnce'
  BY <1>1 DEF Next
<1>2. CASE \/ StartUser(p) \/ StartGroup(p) \/ CheckUniqueness(p) \/ ReadLastUsed(p)
           \/ NextNumber(p) \/ NextRange(p) \/ LockLookup(p) \/ LockRead(p)
           \/ SearchName(p) \/ SearchUnique(p) \/ SearchRange(p) \/ AddObject(p)
           \/ AddFails(p) \/ ConfirmLastUsed(p) \/ Remove(p)
  BY <1>2, HoldingLess
  DEF StartUser, StartGroup, CheckUniqueness, ReadLastUsed, NextNumber, NextRange,
      LockLookup, LockRead, SearchName, SearchUnique, SearchRange, AddObject,
      AddFails, ConfirmLastUsed, Remove
<1>3. CASE Finish(p) \/ Crash(p)
  BY <1>3, HoldingLess DEF Finish, Crash, TypeOK
<1>4. Local(p)
  OBVIOUS
<1>5. CASE LockAdd(p) \/ LockTakeover(p)
  <2> DEFINE l == Target(p)
  <2>1. l \in LockDns /\ now[p] + Timeout \in Nat \ {0}
    <3>1. pc[p] \in Searching
      BY <1>5 DEF LockAdd, LockTakeover, Searching, Asking
    <3>2. now[p] \in Nat /\ Timeout \in Nat \ {0}
      BY TimeAssumption DEF TypeOK, TimeAssumption
    <3> QED  BY <1>4, <3>1, <3>2, TargetType
  <2>2. CASE LockAdd(p) /\ locks[l] = Free
    <3>1. /\ locks' = [locks EXCEPT ![l] = now[p] + Timeout] /\ spoilt' = spoilt
          /\ mine' = [mine EXCEPT ![p] = @ \cup {l}]
      BY <2>2 DEF LockAdd, Acquired
    <3>2. l \in Guarded \ spoilt => \A q \in Procs : l \notin mine[q]
      BY <2>2 DEF LockIsHeldOnce
    <3> HIDE DEF l
    <3> QED  BY <2>1, <3>1, <3>2, AcquireKeeps
  <2>3. CASE LockTakeover(p) /\ locks[l] # Free
    <3>1. /\ locks' = [locks EXCEPT ![l] = now[p] + Timeout]
          /\ mine' = [mine EXCEPT ![p] = @ \cup {l}]
          /\ spoilt' = spoilt \cup {k \in {l} : \E q \in Procs : k \in mine[q]}
      BY <2>3 DEF LockTakeover, Acquired
    <3> HIDE DEF l
    <3> QED  BY <2>1, <3>1, AcquireKeeps
  <2>4. CASE UNCHANGED <<locks, mine, spoilt>>
    BY <2>4, HoldingLess
  <2> QED  BY <1>5, <2>2, <2>3, <2>4 DEF LockAdd, LockTakeover
<1>6. CASE GiveBackPrevious(p) \/ GiveBack(p) \/ GiveBackOther(p) \/ TakeNumber(p)
  <2>1. /\ spoilt' = spoilt
        /\ \E l \in LockDns : Unlock(p, l) /\ l \in Safe(p)
    <3>1. CASE GiveBackPrevious(p)
      <4>1. /\ NumberLock(Kind(p), id[p] - 1) \in LockDns
            /\ NumberLock(Kind(p), id[p] - 1) \in Safe(p)
        BY <1>4, <3>1, LockFacts, KindFacts
        DEF GiveBackPrevious, Local, IdIsNumber, Held
      <4> QED  BY <3>1, <4>1 DEF GiveBackPrevious
    <3>2. CASE GiveBack(p)
      <4>1. id[p] \in Numbers /\ Own(p) \in Safe(p)
        BY <1>4, <3>2 DEF GiveBack, Local, Control, IdIsNumber, Held, Done
      <4>2. Own(p) \in LockDns
        BY <4>1, OwnType, LockFacts
      <4> QED  BY <3>2, <4>1, <4>2 DEF GiveBack, Own
    <3>3. CASE GiveBackOther(p) \/ TakeNumber(p)
      <4>1. /\ id[p] \in Numbers /\ Second(p) \in Safe(p) /\ stage[p] = "other"
        BY <1>4, <3>3
        DEF GiveBackOther, TakeNumber, Local, Control, IdIsNumber, Held, Done
      <4>2. Second(p) \in LockDns /\ Target(p) = Second(p)
        BY <4>1, OwnType, LockFacts DEF Target, Second
      <4> QED  BY <3>3, <4>1, <4>2 DEF GiveBackOther, TakeNumber
    <3> QED  BY <1>6, <3>1, <3>2, <3>3
  <2> QED  BY <2>1, UnlockKeeps DEF Safe
<1>7. CASE ConfirmUnlock(p) \/ Release(p)
  <2> DEFINE l == TopLock(p).lock
  <2>1. alloc[p] # <<>>
    BY <1>4, <1>7 DEF ConfirmUnlock, Release, Local, Noted
  <2>2. l \in LockDns /\ l = alloc[p][Len(alloc[p])].lock
        /\ Len(alloc[p]) \in DOMAIN alloc[p]
    BY <2>1, TopType
  <2>3. Unlock(p, l) /\ spoilt \subseteq spoilt'
    BY <1>7 DEF ConfirmUnlock, Release
  <2>4. \/ l \notin Guarded \/ l \in mine[p] \/ l \in spoilt'
        \/ \A q \in Procs : l \notin mine[q]
    <3>1. CASE job[p].op = "create"
      <4>1. pc[p] # "end"
        BY <1>7 DEF ConfirmUnlock, Release
      <4> QED  BY <1>4, <2>2, <2>3, <3>1, <4>1 DEF Local, Noted, Safe
    <3>2. CASE job[p].op = "remove"
      <4>1. Release(p)
        BY <1>4, <1>7, <3>2 DEF ConfirmUnlock, Local, Control
      <4> QED  BY <3>2, <4>1 DEF Release
    <3> QED  BY <3>1, <3>2, KindFacts
  <2> HIDE DEF l
  <2> QED  BY <2>2, <2>3, <2>4, UnlockKeeps
<1> QED  BY <1>2, <1>3, <1>5, <1>6, <1>7 DEF Create

-----------------------------------------------------------------------------
(* Numbers and names *)

LEMMA HeldByTwo ==
  ASSUME LockIsHeldOnce, NEW p \in Procs, NEW q \in Procs, p # q,
         NEW l \in Guarded, l \in Safe(p), l \in Safe(q)
  PROVE  l \in spoilt
BY DEF LockIsHeldOnce, Safe

LEMMA OwnIsHeld ==
  ASSUME TypeOK, NEW p \in Procs, Local(p), Reserved(p)
  PROVE  /\ id[p] \in Numbers /\ Own(p) \in Safe(p) /\ Own(p) \in Guarded
         /\ Own(p) = NumberLock(Kind(p), id[p])
BY LockFacts, KindFacts DEF Local, IdIsNumber, Held, Own

\* A process only turns to a number, or a name, that its search did not find.
LEMMA NewlyReserved ==
  ASSUME TypeOK, TypeOK', NEW p \in Procs, Local(p), Create(p) \/ Remove(p) \/ Crash(p),
         Reserved(p)'
  PROVE  /\ id'[p] = id[p]
         /\ \/ Reserved(p)
            \/ /\ SearchUnique(p) /\ objects' = objects /\ ~IsAuto(p)
               /\ \A o \in objects : ~(o.kind = Kind(p) /\ o.number = id[p])
            \/ /\ SearchRange(p) /\ objects' = objects
               /\ \A o \in objects : o.number # id[p]
<1> USE DEF ldap, env, local, Goto, GotoStage
<1>0. /\ job' = job /\ Kind(p)' = Kind(p) /\ Kind(p) \in {"user", "group"}
      /\ pc[p] \in Labels
  BY FrameOfStep, KindFacts DEF Frame, Kind, Kinds, TypeOK
<1> USE <1>0 DEF Reserved, Searching, Asking
<1>1. CASE SearchUnique(p)
  BY <1>1 DEF SearchUnique, Local, Control, TypeOK
<1>2. CASE SearchRange(p)
  BY <1>2 DEF SearchRange, TypeOK
<1>3. CASE \/ StartUser(p) \/ StartGroup(p) \/ ReadLastUsed(p) \/ NextNumber(p)
           \/ NextRange(p)
  <2>1. CASE StartUser(p) \/ StartGroup(p)
    BY <2>1 DEF StartUser, StartGroup, TypeOK
  <2>2. CASE ReadLastUsed(p)
    BY <2>2 DEF ReadLastUsed, TypeOK, Local, Control
  <2>3. CASE NextNumber(p)
    BY <2>3 DEF NextNumber, TypeOK
  <2>4. CASE NextRange(p)
    BY <2>4 DEF NextRange, TypeOK
  <2> QED  BY <1>3, <2>1, <2>2, <2>3, <2>4
<1>4. CASE CheckUniqueness(p)
  <2>1. \/ pc'[p] = "cancel"
        \/ Kind(p) = "user" /\ id' = id
        \/ pc'[p] = "lastused"
        \/ pc'[p] = "get" /\ stage'[p] = "number"
    BY <1>4 DEF CheckUniqueness, StartNumber, TypeOK
  <2>2. pc[p] = "check"
    BY <1>4 DEF CheckUniqueness
  <2> QED  BY <2>1, <2>2
<1>5. CASE GiveBackPrevious(p) \/ GiveBack(p) \/ GiveBackOther(p)
  <2>1. stage'[p] = "number" \/ pc'[p] = "giveother"
    BY <1>5 DEF GiveBackPrevious, GiveBack, GiveBackOther, TypeOK, Local, Control
  <2>2. pc'[p] \in {"get", "giveother", "next"}
    BY <1>5 DEF GiveBackPrevious, GiveBack, GiveBackOther, TypeOK
  <2> QED  BY <2>1, <2>2
<1>6. CASE LockLookup(p)
  BY <1>6 DEF LockLookup, TypeOK
<1>7. CASE LockAdd(p) \/ LockTakeover(p)
  <2>1. id' = id /\ pc[p] \in {"lock", "takeover"}
    BY <1>7 DEF LockAdd, LockTakeover
  <2>2. CASE Acquired(p)
    BY <2>1, <2>2 DEF Acquired, TypeOK
  <2>3. CASE ~Acquired(p)
    <3>1. Refused(p) \/ pc' = [pc EXCEPT ![p] = "cancel"]
      BY <1>7, <2>3 DEF LockAdd, LockTakeover
    <3>2. pc'[p] \in {"next", "cancel"}
      BY <3>1 DEF Refused, TypeOK
    <3> QED  BY <3>2
  <2> QED  BY <2>2, <2>3
<1>8. CASE LockRead(p)
  BY <1>8 DEF LockRead, Refused, TypeOK
<1>9. CASE SearchName(p)
  <2>1. pc[p] = "search" /\ stage[p] = "name"
    BY <1>9 DEF SearchName
  <2>2. CASE Kind(p) = "user"
    <3>1. pc'[p] \in {"cancel", "lastused", "get"}
      BY ZenonT(30), <1>9, <2>2 DEF SearchName, StartNumber, TypeOK
    <3> QED  BY <2>2, <3>1
  <2>3. CASE Kind(p) = "group"
    BY <1>9, <2>1, <2>3 DEF SearchName
  <2> QED  BY <2>2, <2>3
<1>10. CASE TakeNumber(p)
  BY <1>10 DEF TakeNumber
<1>11. CASE AddObject(p) \/ AddFails(p) \/ ConfirmLastUsed(p) \/ Finish(p) \/ Crash(p)
  <2>1. pc'[p] \in {"confirm", "cancel", "confirmed", "end"}
    BY <1>11 DEF AddObject, AddFails, ConfirmLastUsed, Finish, Crash, TypeOK
  <2> QED  BY <2>1
<1>12. CASE ConfirmUnlock(p) \/ Release(p) \/ Remove(p)
  <2>1. pc'[p] \in {"confirm", "cancel"}
    BY <1>12 DEF ConfirmUnlock, Release, Remove, TypeOK
  <2> QED  BY <2>1
<1> QED
  BY <1>1, <1>2, <1>3, <1>4, <1>5, <1>6, <1>7, <1>8, <1>9, <1>10, <1>11, <1>12
  DEF Create

LEMMA NewlyNamed ==
  ASSUME TypeOK, NEW p \in Procs, Local(p), Create(p) \/ Remove(p) \/ Crash(p),
         Named(p)'
  PROVE  \/ Named(p)
         \/ /\ SearchName(p) /\ objects' = objects
            /\ \A o \in objects : o.name # job[p].name
<1> USE DEF ldap, env, local, Goto, GotoStage
<1>0. job' = job /\ Kind(p)' = Kind(p)
  BY FrameOfStep DEF Frame, Kind
<1> USE <1>0 DEF Named, Done
<1>1. CASE SearchName(p)
  BY <1>1 DEF SearchName, TypeOK
<1>2. CASE StartUser(p) \/ StartGroup(p)
  BY <1>2 DEF StartUser, StartGroup, TypeOK
<1>3. CASE \/ AddObject(p) \/ AddFails(p) \/ ConfirmLastUsed(p) \/ ConfirmUnlock(p)
           \/ Release(p) \/ Finish(p) \/ Crash(p) \/ Remove(p)
  <2>1. pc'[p] \in {"confirm", "confirmed", "cancel", "end"}
    BY <1>3 DEF AddObject, AddFails, ConfirmLastUsed, ConfirmUnlock, Release,
                Finish, Crash, Remove, TypeOK
  <2> QED  BY <2>1
<1>4. CASE \/ ReadLastUsed(p) \/ NextNumber(p) \/ NextRange(p) \/ GiveBackPrevious(p)
           \/ GiveBack(p) \/ GiveBackOther(p) \/ TakeNumber(p) \/ SearchUnique(p)
           \/ SearchRange(p) \/ CheckUniqueness(p)
  <2>1. /\ pc[p] \in {"lastused", "next", "giveprev", "giveback", "giveother",
                      "found", "check", "search"}
        /\ pc[p] = "search" => stage[p] # "name"
    BY <1>4 DEF ReadLastUsed, NextNumber, NextRange, GiveBackPrevious, GiveBack,
                GiveBackOther, TakeNumber, SearchUnique, SearchRange, CheckUniqueness
  <2> QED  BY <2>1 DEF Local, Control
<1>5. CASE LockLookup(p) \/ LockAdd(p) \/ LockRead(p) \/ LockTakeover(p)
  <2>1. pc[p] \in Asking
    BY <1>5 DEF LockLookup, LockAdd, LockRead, LockTakeover, Asking
  <2>2. stage[p] = "name" => stage'[p] = "name"
    BY <1>5 DEF LockLookup, LockAdd, LockRead, LockTakeover, Acquired, Refused, TypeOK
  <2> QED  BY <2>1, <2>2 DEF Asking
<1> QED  BY <1>1, <1>2, <1>3, <1>4, <1>5 DEF Create

LEMMA InitValues == Init => LockIsHeldOnce /\ Values
<1> SUFFICES ASSUME Init PROVE LockIsHeldOnce /\ Values
  OBVIOUS
<1>1. \A p \in Procs : ~Reserved(p) /\ ~Named(p) /\ mine[p] = {}
  BY DEF Init, Reserved, Named, Done, Searching, Asking
<1>2. \A o \in objects : o.by = NoProc
  BY JobAssumption DEF Init, JobAssumption
<1>3. NumbersUnique /\ UserNamesUnique
  BY ExistingAssumption DEF Init, ExistingAssumption, NumbersUnique, UserNamesUnique
<1>4. UsersAndGroupsApart
  BY <1>2 DEF UsersAndGroupsApart, Allocated
<1> QED
  BY <1>1, <1>3, <1>4
  DEF LockIsHeldOnce, Values, NumberStaysFree, NameStaysFree, OtherKindStaysFree,
      ReservedApart

\* A step that adds an object: nobody else can have the same value in mind.
LEMMA ValuesOfAdd ==
  ASSUME IInv, NEW p \in Procs, AddObject(p)
  PROVE  Values'
<1> DEFINE new == [kind |-> Kind(p), name |-> job[p].name, number |-> id[p], by |-> p]
<1>1. /\ objects' = objects \cup {new} /\ job' = job /\ spoilt' = spoilt /\ id' = id
      /\ pc[p] = "add" /\ pc'[p] = "confirm" /\ stage' = stage
      /\ \A q \in Procs \ {p} : pc'[q] = pc[q]
  BY DEF AddObject, IInv, TypeOK, Goto, env
<1>2. /\ new.kind = Kind(p) /\ new.name = job[p].name /\ new.number = id[p]
      /\ new.by = p /\ Reserved(p)
  BY <1>1 DEF Reserved
<1> HIDE DEF new
<1>3. /\ \A q \in Procs : /\ Kind(q)' = Kind(q) /\ IsAuto(q)' = IsAuto(q)
                          /\ Own(q)' = Own(q)
      /\ \A q \in Procs \ {p} : Reserved(q)' = Reserved(q) /\ Named(q)' = Named(q)
      /\ ~Reserved(p)' /\ ~Named(p)'
      /\ \A o : Allocated(o)' = Allocated(o)
  BY <1>1 DEF Kind, IsAuto, Own, Reserved, Named, Allocated, Searching, Asking, Done
<1>4. p # NoProc /\ (Allocated(new) <=> IsAuto(p))
  BY <1>2, JobAssumption DEF JobAssumption, Allocated
<1>5. TypeOK /\ LockIsHeldOnce /\ \A q \in Procs : Local(q)
  BY DEF IInv
<1>6. Kind(p) = "user" => Named(p)
  BY <1>1, <1>5 DEF Named, Done, Local, Control
<1> USE DEF IInv, Values
<1>7. NumberStaysFree'
  <2> SUFFICES ASSUME NEW q \in Procs, Reserved(q)', NEW o \in objects',
                      o.kind = Kind(q), o.number = id[q]
               PROVE  Own(q) \in spoilt
    BY <1>1, <1>3 DEF NumberStaysFree
  <2>1. q # p /\ Reserved(q)
    BY <1>3
  <2>2. CASE o \in objects
    BY <2>1, <2>2 DEF NumberStaysFree
  <2>3. CASE o = new
    BY <1>2, <1>5, <2>1, <2>3, OwnIsHeld, HeldByTwo
  <2> QED  BY <1>1, <2>2, <2>3
<1>8. NameStaysFree'
  <2> SUFFICES ASSUME NEW q \in Procs, Named(q)', NEW o \in objects',
                      o.kind = "user", o.name = job[q].name
               PROVE  NameLock("user", job[q].name) \in spoilt
    BY <1>1, <1>3 DEF NameStaysFree
  <2>1. q # p /\ Named(q)
    BY <1>3
  <2>2. CASE o \in objects
    BY <2>1, <2>2 DEF NameStaysFree
  <2>3. CASE o = new
    <3>1. Named(p) /\ job[p].name = job[q].name
      BY <1>2, <1>6, <2>3
    <3>2. /\ NameLock("user", job[q].name) \in Safe(p) \cap Safe(q)
          /\ NameLock("user", job[q].name) \in Guarded
      BY <1>5, <2>1, <3>1, LockFacts, KindFacts DEF Local, Held
    <3> QED  BY <1>5, <2>1, <3>2, HeldByTwo
  <2> QED  BY <1>1, <2>2, <2>3
<1>9. OtherKindStaysFree'
  <2> SUFFICES ASSUME NEW q \in Procs, Reserved(q)', IsAuto(q), NEW o \in objects',
                      o.kind # Kind(q), o.number = id[q], Allocated(o)
               PROVE  BothLocks(id[q]) \cap spoilt # {}
    BY <1>1, <1>3 DEF OtherKindStaysFree, BothLocks
  <2>1. q # p /\ Reserved(q)
    BY <1>3
  <2>2. CASE o \in objects
    BY <2>1, <2>2 DEF OtherKindStaysFree
  <2>3. CASE o = new
    BY <1>2, <1>4, <2>1, <2>3 DEF ReservedApart
  <2> QED  BY <1>1, <2>2, <2>3
<1>10. ReservedApart'
  BY <1>1, <1>3 DEF ReservedApart, BothLocks
<1>11. NumbersUnique'
  <2> SUFFICES ASSUME NEW o1 \in objects', NEW o2 \in objects', o1 # o2,
                      o1.kind = o2.kind, o1.number = o2.number
               PROVE  NumberLock(o1.kind, o1.number) \in spoilt
    BY <1>1 DEF NumbersUnique
  <2>1. CASE o1 \in objects /\ o2 \in objects
    BY <2>1 DEF NumbersUnique
  <2>2. CASE o1 = new \/ o2 = new
    BY <1>1, <1>2, <2>2 DEF NumberStaysFree, Own
  <2> QED  BY <1>1, <2>1, <2>2
<1>12. UsersAndGroupsApart'
  <2> SUFFICES ASSUME NEW o1 \in objects', NEW o2 \in objects', o1.kind # o2.kind,
                      o1.number = o2.number, Allocated(o1), Allocated(o2)
               PROVE  BothLocks(o1.number) \cap spoilt # {}
    BY <1>1, <1>3 DEF UsersAndGroupsApart, BothLocks
  <2>1. CASE o1 \in objects /\ o2 \in objects
    BY <2>1 DEF UsersAndGroupsApart, BothLocks
  <2>2. CASE o1 = new \/ o2 = new
    BY <1>1, <1>2, <1>4, <2>2 DEF OtherKindStaysFree
  <2> QED  BY <1>1, <2>1, <2>2
<1>13. UserNamesUnique'
  <2> SUFFICES ASSUME NEW o1 \in objects', NEW o2 \in objects', o1 # o2,
                      o1.kind = "user", o2.kind = "user", o1.name = o2.name
               PROVE  NameLock("user", o1.name) \in spoilt
    BY <1>1 DEF UserNamesUnique
  <2>1. CASE o1 \in objects /\ o2 \in objects
    BY <2>1 DEF UserNamesUnique
  <2>2. CASE o1 = new \/ o2 = new
    BY <1>1, <1>2, <1>6, <2>2 DEF NameStaysFree
  <2> QED  BY <1>1, <2>1, <2>2
<1> QED  BY <1>7, <1>8, <1>9, <1>10, <1>11, <1>12, <1>13

\* Any other step: objects may go, and p may turn to a number or a name.
LEMMA ValuesOfOther ==
  ASSUME IInv, NEW p \in Procs, Create(p) \/ Remove(p) \/ Crash(p), ~AddObject(p)
  PROVE  Values'
<1>1. objects' \subseteq objects
  BY DEF Create, Remove, Crash, StartUser, StartGroup, CheckUniqueness, ReadLastUsed,
         NextNumber, NextRange, GiveBackPrevious, LockLookup, LockAdd, LockRead,
         LockTakeover, SearchName, SearchUnique, SearchRange, GiveBack, GiveBackOther,
         TakeNumber, AddFails, ConfirmLastUsed, ConfirmUnlock, Release, Finish, ldap
<1>2. Frame(p) /\ TypeOK' /\ TypeOK /\ LockIsHeldOnce /\ \A q \in Procs : Local(q)
  <2>1. [Next]_vars
    BY DEF Next
  <2> QED  BY <2>1, FrameOfStep, StepType DEF IInv
<1>3. /\ job' = job /\ spoilt \subseteq spoilt'
      /\ \A q \in Procs : Kind(q)' = Kind(q) /\ IsAuto(q)' = IsAuto(q)
      /\ \A o : Allocated(o)' = Allocated(o)
  BY <1>2 DEF Frame, Kind, IsAuto, Allocated
<1>4. \A q \in Procs \ {p} : /\ Reserved(q)' = Reserved(q) /\ Named(q)' = Named(q)
                             /\ id'[q] = id[q] /\ Own(q)' = Own(q)
  BY <1>2, <1>3 DEF Frame, Reserved, Named, Own, Kind
<1>5. Reserved(p)' => /\ id'[p] = id[p] /\ Own(p)' = Own(p)
                      /\ \/ Reserved(p)
                         \/ /\ SearchUnique(p) /\ ~IsAuto(p)
                            /\ \A o \in objects : ~(o.kind = Kind(p) /\ o.number = id[p])
                         \/ /\ SearchRange(p)
                            /\ \A o \in objects : o.number # id[p]
  BY <1>2, <1>3, NewlyReserved DEF Own
<1>6. Named(p)' => \/ Named(p)
                   \/ \A o \in objects : o.name # job[p].name
  BY <1>2, NewlyNamed
<1> USE DEF IInv, Values
<1>7. NumberStaysFree'
  BY <1>1, <1>3, <1>4, <1>5 DEF NumberStaysFree
<1>8. NameStaysFree'
  BY <1>1, <1>3, <1>4, <1>6 DEF NameStaysFree
<1>9. OtherKindStaysFree'
  <2> SUFFICES ASSUME NEW q \in Procs, Reserved(q)', IsAuto(q), NEW o \in objects,
                      o.kind # Kind(q), o.number = id'[q], Allocated(o)
               PROVE  BothLocks(id[q]) \cap spoilt # {}
    BY <1>1, <1>3, <1>4, <1>5 DEF OtherKindStaysFree, BothLocks
  <2>1. id'[q] = id[q] /\ Reserved(q)
    BY <1>4, <1>5
  <2> QED  BY <2>1 DEF OtherKindStaysFree
<1>10. ReservedApart'
  <2>1. ASSUME NEW q \in Procs \ {p}, Reserved(p)', IsAuto(p), Reserved(q), IsAuto(q),
               Kind(p) # Kind(q), id[p] = id[q]
        PROVE  BothLocks(id[p]) \cap spoilt # {}
    <3>1. CASE Reserved(p)
      BY <2>1, <3>1 DEF ReservedApart
    <3>2. CASE SearchRange(p)
      <4>1. Target(p) \in Safe(p) /\ Target(p) = NumberLock(Other(Kind(p)), id[p])
        BY <1>2, <3>2 DEF SearchRange, Local, Held, Target
      <4>2. Other(Kind(p)) = Kind(q) /\ Kind(q) \in Kinds
        BY <1>2, <2>1, KindFacts DEF Other, Kinds
      <4>3. /\ id[q] \in Numbers /\ Own(q) \in Safe(q) /\ Own(q) \in Guarded
            /\ Own(q) = NumberLock(Kind(q), id[q])
        BY <1>2, <2>1, OwnIsHeld
      <4>4. Own(q) = Target(p)
        BY <2>1, <4>1, <4>2, <4>3
      <4>5. Own(q) \in spoilt
        BY <1>2, <4>1, <4>3, <4>4, HeldByTwo
      <4> QED  BY <2>1, <4>2, <4>3, <4>5 DEF BothLocks
    <3> QED  BY <1>5, <2>1, <3>1, <3>2
  <2> SUFFICES ASSUME NEW q \in Procs, NEW r \in Procs, Reserved(q)', IsAuto(q),
                      Reserved(r)', IsAuto(r), Kind(q) # Kind(r), id'[q] = id'[r]
               PROVE  BothLocks(id[q]) \cap spoilt # {}
    BY <1>3, <1>4, <1>5 DEF ReservedApart, BothLocks
  <2>2. id[q] = id[r] /\ q # r
    BY <1>4, <1>5
  <2>3. CASE q = p
    BY <1>4, <2>1, <2>2, <2>3
  <2>4. CASE r = p
    BY <1>4, <2>1, <2>2, <2>4
  <2>5. CASE q # p /\ r # p
    BY <1>4, <2>2, <2>5 DEF ReservedApart
  <2> QED  BY <2>3, <2>4, <2>5
<1>11. NumbersUnique' /\ UserNamesUnique'
  BY <1>1, <1>3 DEF NumbersUnique, UserNamesUnique
<1>12. UsersAndGroupsApart'
  BY <1>1, <1>3 DEF UsersAndGroupsApart
<1> QED  BY <1>7, <1>8, <1>9, <1>10, <1>11, <1>12

LEMMA Invariance == Spec => []IInv
<1>1. Init => IInv
  BY InitType, InitLocal, InitValues DEF IInv
<1>2. IInv /\ [Next]_vars => IInv'
  <2> SUFFICES ASSUME IInv, [Next]_vars PROVE IInv'
    OBVIOUS
  <2>1. TypeOK' /\ (\A p \in Procs : Local(p))' /\ LockIsHeldOnce'
    <3>1. \A p \in Procs : Local(p)'
      BY StepLocal DEF IInv
    <3> QED  BY <3>1, StepType, StepLocks DEF IInv
  <2>2. CASE Tick \/ UNCHANGED vars
    <3>1. UNCHANGED <<objects, job, pc, stage, id, spoilt>>
      BY <2>2 DEF Tick, vars, ldap, env, local
    <3>2. Values'
      BY <3>1
      DEF IInv, Values, NumberStaysFree, NameStaysFree, OtherKindStaysFree,
          ReservedApart, NumbersUnique, UsersAndGroupsApart, UserNamesUnique,
          Reserved, Named, Kind, IsAuto, Own, Allocated
    <3> QED  BY <2>1, <3>2 DEF IInv
  <2>3. ASSUME NEW p \in Procs, Create(p) \/ Remove(p) \/ Crash(p)
        PROVE  Values'
    BY <2>3, ValuesOfAdd, ValuesOfOther
  <2> QED  BY <2>1, <2>2, <2>3 DEF Next, IInv
<1> QED  BY <1>1, <1>2, PTL DEF Spec

-----------------------------------------------------------------------------
(* The theorems *)

\* Every state has the types TypeOK states.
THEOREM TypeCorrect == Spec => []TypeOK
<1>1. IInv => TypeOK
  BY DEF IInv
<1> QED  BY <1>1, Invariance, PTL

\* While nobody takes a lock over or removes its object, it has one live holder,
\* and it exists.
THEOREM LocksAreHeldOnce == Spec => []LockIsHeldOnce
<1>1. IInv => LockIsHeldOnce
  BY DEF IInv
<1> QED  BY <1>1, Invariance, PTL

\* No number is given twice to users, or twice to groups, whatever the
\* interleaving, the crashes and the ranges.
THEOREM NumbersAreUnique == Spec => []NumbersUnique
<1>1. IInv => NumbersUnique
  BY DEF IInv, Values
<1> QED  BY <1>1, Invariance, PTL

\* Locking a number for the other kind until it has been searched is enough to
\* keep the allocated numbers of users and groups apart.
THEOREM NumbersAreApart == Spec => []UsersAndGroupsApart
<1>1. IInv => UsersAndGroupsApart
  BY DEF IInv, Values
<1> QED  BY <1>1, Invariance, PTL

\* No two users get the same name.
THEOREM UserNamesAreUnique == Spec => []UserNamesUnique
<1>1. IInv => UserNamesUnique
  BY DEF IInv, Values
<1> QED  BY <1>1, Invariance, PTL
=============================================================================
